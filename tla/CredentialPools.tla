-------------------------- MODULE CredentialPools --------------------------
(***************************************************************************)
(* The credential slots of a translation: the key pool, the OAuth pool and *)
(* the process-wide registry of counters, rate clocks and the one Notify   *)
(* they share.  A caller is one translation task.  It takes a key, then an *)
(* OAuth token, holds both while it talks to the provider, and drops them  *)
(* in the reverse order.                                                   *)
(*                                                                         *)
(* Tasks run on several threads: the load and the compare_exchange of a    *)
(* counter are separate steps, and so are the decrement and the            *)
(* notification of a dropped guard.  A task may be dropped at every await. *)
(*                                                                         *)
(* Random, round-robin and weighted selection differ only in the order in  *)
(* which they try the entries; each tries all of them before it waits.     *)
(* Here the order is free.  Time is the age of each rate clock.            *)
(***************************************************************************)
EXTENDS Integers, FiniteSets

CONSTANTS
  Callers,   \* translation tasks
  Keys,      \* key ids of the registry
  Tokens,    \* OAuth configuration ids of the registry ("oauth:<id>")
  Pool,      \* Pool[c]: the entries of the two pools of caller c
  Fits,      \* Fits[c]: entries whose size limits admit the input of c
  Limit,     \* Limit[c][s]: max_concurrent of entry s in the pool of c
  Interval,  \* Interval[c][s]: effective_min_interval_ms of key s for c
  MaxAge,    \* an age no interval exceeds; ages saturate here
  None

Slots == Keys \cup Tokens

ASSUME SlotsAssumption ==
  Keys \cap Tokens = {} /\ None \notin Callers \cup Slots
ASSUME CallersAssumption == IsFiniteSet(Callers)
ASSUME PoolAssumption ==
  /\ Pool \in [Callers -> SUBSET Slots]
  /\ Fits \in [Callers -> SUBSET Slots]
\* The operator's form refuses max_concurrent = 0.
ASSUME LimitAssumption == Limit \in [Callers -> [Slots -> Nat \ {0}]]
ASSUME IntervalAssumption ==  \* no interval is longer than the 60 s of a new clock
  MaxAge \in Nat /\ Interval \in [Callers -> [Keys -> 0..MaxAge]]

VARIABLES
  active,  \* registry: concurrency counter of a slot
  age,     \* registry: time since the last stamp of a key's rate clock
  clock,   \* registry: task that holds the mutex of a key's rate clock
  pc,      \* where each caller stands
  kind,    \* the set it selects from, Keys or Tokens
  todo,    \* entries its current pass has still to try
  slot,    \* entry it tries or throttles
  seen,    \* counter value it loaded
  held,    \* slots of the guards it owns
  woken,   \* callers whose registered Notified future has fired
  pause    \* what is left of its throttle sleep

vars == <<active, age, clock, pc, kind, todo, slot, seen, held, woken, pause>>
registry == <<active, age, clock>>

PC == {"idle", "listen", "scan", "load", "swap", "wait", "clock", "sleep",
       "token", "work", "drop", "notify"}

RegisteredLate == {"wait"}  \* slip: it is enabled only when it is awaited

\* The Notified future is created and enabled before the entries are tried.
Registered == {"scan", "load", "swap", "wait"}

Eligible(c) == Pool[c] \cap kind[c] \cap Fits[c]

Init ==
  /\ active = [s \in Slots |-> 0]
  /\ age = [s \in Keys |-> MaxAge]
  /\ clock = [s \in Keys |-> None]
  /\ pc = [c \in Callers |-> "idle"]
  /\ kind = [c \in Callers |-> Keys]
  /\ todo = [c \in Callers |-> {}]
  /\ slot = [c \in Callers |-> None]
  /\ seen = [c \in Callers |-> 0]
  /\ held = [c \in Callers |-> {}]
  /\ woken = {}
  /\ pause = [c \in Callers |-> 0]

Goto(c, next) == pc' = [pc EXCEPT ![c] = next]

-----------------------------------------------------------------------------
Start(c) ==
  /\ pc[c] = "idle"
  /\ Goto(c, "listen")
  /\ UNCHANGED <<registry, kind, todo, slot, seen, held, woken, pause>>

\* With its key in hand, or none configured, a task turns to its OAuth pool.
Turn(c) ==
  IF kind[c] = Keys
  THEN Goto(c, "listen") /\ kind' = [kind EXCEPT ![c] = Tokens]
  ELSE Goto(c, "work") /\ UNCHANGED kind

\* One pass of a selection loop: register with the Notify, then try entries.
Listen(c) ==
  /\ pc[c] = "listen"
  /\ Pool[c] \cap kind[c] # {} /\ Eligible(c) # {}
  /\ todo' = [todo EXCEPT ![c] = Eligible(c)]
  /\ slot' = [slot EXCEPT ![c] = None]
  /\ woken' = woken \ {c}
  /\ Goto(c, "scan")
  /\ UNCHANGED <<registry, kind, seen, held, pause>>

NoPool(c) ==
  /\ pc[c] = "listen"
  /\ Pool[c] \cap kind[c] = {}
  /\ Turn(c)
  /\ UNCHANGED <<registry, todo, slot, seen, held, woken, pause>>

\* Refused before the loop: no entry admits the input.
NoneEligible(c) ==
  /\ pc[c] = "listen"
  /\ Pool[c] \cap kind[c] # {} /\ Eligible(c) = {}
  /\ Goto(c, "drop")
  /\ UNCHANGED <<registry, kind, todo, slot, seen, held, woken, pause>>

\* A weighted draw comes first and is tried again in the sweep that follows.
Scan(c) ==
  /\ pc[c] = "scan"
  /\ \E s \in todo[c] :
       /\ slot' = [slot EXCEPT ![c] = s]
       /\ \/ todo' = [todo EXCEPT ![c] = @ \ {s}]
          \/ slot[c] = None /\ UNCHANGED todo
  /\ Goto(c, "load")
  /\ UNCHANGED <<registry, kind, seen, held, woken, pause>>

\* try_acquire: give the entry up at its limit, else try to take one more.
Load(c) ==
  /\ pc[c] = "load"
  /\ IF active[slot[c]] < Limit[c][slot[c]]
     THEN Goto(c, "swap") /\ seen' = [seen EXCEPT ![c] = active[slot[c]]]
     ELSE Goto(c, "scan") /\ UNCHANGED seen
  /\ UNCHANGED <<registry, kind, todo, slot, held, woken, pause>>

SwapsBlindly(c) == TRUE  \* slip: a plain increment after the check

\* compare_exchange: the counter is still the one that was checked.
Swaps(c) == active[slot[c]] = seen[c]

\* After a key its rate clock is next, if it has an interval; after an OAuth
\* slot the token, which is fetched under the guard.
Swap(c) ==
  LET s == slot[c]
  IN /\ pc[c] = "swap"
     /\ \/ /\ Swaps(c)
           /\ active' = [active EXCEPT ![s] = @ + 1]
           /\ held' = [held EXCEPT ![c] = @ \cup {s}]
           /\ todo' = [todo EXCEPT ![c] = {}]
           /\ \/ s \in Tokens /\ Goto(c, "token") /\ UNCHANGED kind
              \/ s \in Keys /\ Interval[c][s] > 0 /\ Goto(c, "clock") /\ UNCHANGED kind
              \/ s \in Keys /\ Interval[c][s] = 0 /\ Turn(c)
        \/ /\ ~Swaps(c)
           /\ Goto(c, "load")
           /\ UNCHANGED <<active, held, kind, todo>>
     /\ seen' = [seen EXCEPT ![c] = 0]
     /\ UNCHANGED <<age, clock, slot, woken, pause>>

\* Every eligible entry was at its limit when it was tried.
GiveUp(c) ==
  /\ pc[c] = "scan"
  /\ todo[c] = {}
  /\ Goto(c, "wait")
  /\ UNCHANGED <<registry, kind, todo, slot, seen, held, woken, pause>>

Wake(c) ==
  /\ pc[c] = "wait"
  /\ c \in woken
  /\ woken' = woken \ {c}
  /\ slot' = [slot EXCEPT ![c] = None]
  /\ Goto(c, "listen")
  /\ UNCHANGED <<registry, kind, todo, seen, held, pause>>

-----------------------------------------------------------------------------
(* Rate clock.                                                              *)

ClockFree(c) == clock[slot[c]] = None

\* The sleep is computed once, from the clock read under its mutex.
TakeClock(c) ==
  LET s == slot[c]
  IN /\ pc[c] = "clock"
     /\ ClockFree(c)
     /\ clock' = [clock EXCEPT ![s] = c]
     /\ pause' = [pause EXCEPT ![c] =
                    IF age[s] < Interval[c][s] THEN Interval[c][s] - age[s] ELSE 0]
     /\ Goto(c, "sleep")
     /\ UNCHANGED <<active, age, kind, todo, slot, seen, held, woken>>

Stamp(c) ==
  LET s == slot[c]
  IN /\ pc[c] = "sleep"
     /\ pause[c] = 0
     /\ age' = [age EXCEPT ![s] = 0]
     /\ clock' = [clock EXCEPT ![s] = None]
     /\ Turn(c)
     /\ UNCHANGED <<active, todo, slot, seen, held, woken, pause>>

\* A sleep may last longer than asked.
Tick ==
  /\ age' = [s \in Keys |-> IF age[s] < MaxAge THEN age[s] + 1 ELSE MaxAge]
  /\ pause' = [c \in Callers |-> IF pause[c] > 0 THEN pause[c] - 1 ELSE 0]
  /\ age' # age \/ pause' # pause
  /\ UNCHANGED <<active, clock, pc, kind, todo, slot, seen, held, woken>>

-----------------------------------------------------------------------------
TokenReady(c) ==
  /\ pc[c] = "token"
  /\ Goto(c, "work")
  /\ UNCHANGED <<registry, kind, todo, slot, seen, held, woken, pause>>

\* get_token(..)? with the guard already in place.
TokenFails(c) ==
  /\ pc[c] = "token"
  /\ Goto(c, "drop")
  /\ UNCHANGED <<registry, kind, todo, slot, seen, held, woken, pause>>

\* The translation ends, one way or the other.
Finish(c) ==
  /\ pc[c] = "work"
  /\ Goto(c, "drop")
  /\ slot' = [slot EXCEPT ![c] = None]
  /\ UNCHANGED <<registry, kind, todo, seen, held, woken, pause>>

\* The task is dropped at an await; its clock mutex and guards go with it.
Cancel(c) ==
  /\ pc[c] \in {"wait", "clock", "sleep", "token", "work"}
  /\ Goto(c, "drop")
  /\ slot' = [slot EXCEPT ![c] = None]
  /\ clock' = [s \in Keys |-> IF clock[s] = c THEN None ELSE clock[s]]
  /\ pause' = [pause EXCEPT ![c] = 0]
  /\ UNCHANGED <<active, age, kind, todo, seen, held, woken>>

\* The OAuth guard is declared after the key guard, so it is dropped first.
DropNext(c) == IF held[c] \cap Tokens # {} THEN held[c] \cap Tokens ELSE held[c]

\* The first half of a guard's Drop.
DropGuard(c) ==
  /\ pc[c] = "drop"
  /\ \E s \in DropNext(c) :
       /\ active' = [active EXCEPT ![s] = @ - 1]
       /\ held' = [held EXCEPT ![c] = @ \ {s}]
  /\ Goto(c, "notify")
  /\ UNCHANGED <<age, clock, kind, todo, slot, seen, woken, pause>>

Waiters == {d \in Callers : pc[d] \in Registered}

\* The second half: notify_waiters.
Notify(c) ==
  /\ pc[c] = "notify"
  /\ woken' = woken \cup Waiters
  /\ Goto(c, "drop")
  /\ UNCHANGED <<registry, kind, todo, slot, seen, held, pause>>

Ended(c) ==
  /\ pc[c] = "drop"
  /\ held[c] = {}
  /\ Goto(c, "idle")
  /\ kind' = [kind EXCEPT ![c] = Keys]
  /\ slot' = [slot EXCEPT ![c] = None]
  /\ woken' = woken \ {c}
  /\ UNCHANGED <<registry, todo, seen, held, pause>>

-----------------------------------------------------------------------------
CallerStep(c) ==
  \/ Listen(c) \/ NoPool(c) \/ NoneEligible(c)
  \/ Scan(c) \/ Load(c) \/ Swap(c) \/ GiveUp(c) \/ Wake(c)
  \/ TakeClock(c) \/ Stamp(c)
  \/ TokenReady(c) \/ TokenFails(c) \/ Finish(c)
  \/ DropGuard(c) \/ Notify(c) \/ Ended(c)

Next ==
  \/ \E c \in Callers : Start(c) \/ CallerStep(c) \/ Cancel(c)
  \/ Tick

Spec == Init /\ [][Next]_vars

\* A task that can run runs on, every provider and token request has a
\* budget, and time passes.  Nobody has to start or be cancelled.
Fairness == WF_vars(Tick) /\ \A c \in Callers : WF_vars(CallerStep(c))

FairSpec == Spec /\ Fairness

-----------------------------------------------------------------------------
TypeOK ==
  /\ active \in [Slots -> Nat]
  /\ age \in [Keys -> 0..MaxAge]
  /\ clock \in [Keys -> Callers \cup {None}]
  /\ pc \in [Callers -> PC]
  /\ kind \in [Callers -> {Keys, Tokens}]
  /\ todo \in [Callers -> SUBSET Slots]
  /\ slot \in [Callers -> Slots \cup {None}]
  /\ seen \in [Callers -> Nat]
  /\ held \in [Callers -> SUBSET Slots]
  /\ woken \in SUBSET Callers
  /\ pause \in [Callers -> 0..MaxAge]

Holders(s) == {c \in Callers : s \in held[c]}

\* A counter of the registry is the number of live guards of its slot, over
\* all pools: no cancellation or failed token leaks a slot or frees it twice.
SlotsMatchGuards == \A s \in Slots : active[s] = Cardinality(Holders(s))

\* A task that sleeps on the Notify with no wake-up in store has nothing to
\* take, unless a guard is half dropped and its notification still to come.
NoLostWakeup ==
  \A c \in Callers : pc[c] = "wait" /\ c \notin woken =>
    \/ \A s \in Eligible(c) : active[s] >= Limit[c][s]
    \/ \E d \in Callers : pc[d] = "notify"

\* A slot is granted within the limit its own pool sets, whatever the other
\* pools of the key did between the load and the exchange.
GrantedWithinLimit ==
  [][\A c \in Callers, s \in Slots : s \in held'[c] \ held[c] =>
       Cardinality(Holders(s)') <= Limit[c][s]]_vars

\* Two requests that count against one rate clock leave at least the interval
\* of the later one apart, through whichever pools they go.
Spaced ==
  [][\A c \in Callers : Stamp(c) => age[slot[c]] >= Interval[c][slot[c]]]_vars

=============================================================================
