---------------------- MODULE FieldTranslation_proofs ----------------------
(***************************************************************************)
(* Proofs about the pools of keys and tokens (CredentialPools) and about   *)
(* the lanes that translate fields with them (FieldTranslation), for every *)
(* set of tasks, lanes, plans, pools, limits and intervals.                *)
(*                                                                         *)
(* The first part is about the pools alone, under their own Spec: Inv adds *)
(* to the stated properties what a task knows at each step of its          *)
(* selection (Placed) and what it has already tried in the current pass    *)
(* (Awake).  The lanes use the pools as CredentialPools says, so what is   *)
(* proved of the pools holds of the lanes.  LaneInv says what one lane     *)
(* keeps true by itself; Counted relates the breaker to the lanes whose    *)
(* field has passed it.                                                    *)
(*                                                                         *)
(* The last part is about the binding by which the sites are worked on     *)
(* (SiteBinding).                                                          *)
(***************************************************************************)
EXTENDS FieldTranslation, SiteBinding, FiniteSetTheorems, TLAPS

Selecting == {"idle", "listen", "scan", "load", "swap", "wait"}

\* What task c knows where it stands.
PlacedAt(c) ==
  /\ kind[c] = Keys => held[c] \subseteq Keys
  /\ todo[c] \subseteq Eligible(c)
  /\ pc[c] \notin {"scan", "load", "swap"} => todo[c] = {}
  /\ pc[c] \in Selecting => held[c] \cap kind[c] = {}
  /\ pc[c] = "idle" => held[c] = {} /\ kind[c] = Keys
  /\ pc[c] \in {"load", "swap"} => slot[c] \in Eligible(c)
  /\ pc[c] \in {"clock", "sleep"} => slot[c] \in Keys /\ kind[c] = Keys
  /\ pc[c] = "swap" => seen[c] < Limit[c][slot[c]]

Placed == \A c \in Callers : PlacedAt(c)

\* A task that sleeps on a rate clock owns it, and sleeps long enough.
Throttled ==
  \A c \in Callers : pc[c] = "sleep" =>
    /\ clock[slot[c]] = c
    /\ age[slot[c]] + pause[c] >= Interval[c][slot[c]]

\* Entries the current pass of c has found at their limit.
Tried(c) ==
  Eligible(c) \ (todo[c] \cup IF pc[c] \in {"load", "swap"} THEN {slot[c]} ELSE {})

Awake ==
  \A c \in Callers : pc[c] \in Registered /\ c \notin woken =>
    \/ \A s \in Tried(c) : active[s] >= Limit[c][s]
    \/ \E d \in Callers : pc[d] = "notify"

Inv == TypeOK /\ Placed /\ Throttled /\ SlotsMatchGuards /\ Awake

-----------------------------------------------------------------------------
(* Counting the guards of a slot.                                           *)

LEMMA HoldersFinite == \A s : IsFiniteSet(Holders(s)) /\ Cardinality(Holders(s)) \in Nat
  <1> TAKE s
  <1>1. Holders(s) \subseteq Callers
    BY DEF Holders
  <1> QED
    BY <1>1, CallersAssumption, FS_Subset, FS_CardinalityType

\* Taking a slot adds one guard to it and none to the others.
LEMMA OneMore ==
  ASSUME TypeOK, SlotsMatchGuards, NEW c \in Callers, NEW s \in Slots,
         s \notin held[c],
         held' = [held EXCEPT ![c] = @ \cup {s}],
         active' = [active EXCEPT ![s] = @ + 1]
  PROVE  SlotsMatchGuards'
  <1>1. Holders(s)' = Holders(s) \cup {c} /\ c \notin Holders(s)
    BY DEF Holders, TypeOK
  <1>2. \A x \in Slots : x # s => Holders(x)' = Holders(x)
    BY DEF Holders, TypeOK
  <1>3. Cardinality(Holders(s)') = Cardinality(Holders(s)) + 1
    BY <1>1, HoldersFinite, FS_AddElement
  <1>4. active'[s] = active[s] + 1 /\ \A x \in Slots : x # s => active'[x] = active[x]
    BY DEF TypeOK
  <1>5. \A x \in Slots : active'[x] = Cardinality(Holders(x)')
    BY <1>2, <1>3, <1>4 DEF SlotsMatchGuards
  <1> QED
    BY <1>5 DEF SlotsMatchGuards, Holders

\* Dropping a guard takes one from its slot, which counted at least one.
LEMMA OneLess ==
  ASSUME TypeOK, SlotsMatchGuards, NEW c \in Callers, NEW s \in Slots,
         s \in held[c],
         held' = [held EXCEPT ![c] = @ \ {s}],
         active' = [active EXCEPT ![s] = @ - 1]
  PROVE  active[s] > 0 /\ SlotsMatchGuards'
  <1>1. Holders(s)' = Holders(s) \ {c} /\ c \in Holders(s)
    BY DEF Holders, TypeOK
  <1>2. \A x \in Slots : x # s => Holders(x)' = Holders(x)
    BY DEF Holders, TypeOK
  <1>3. Cardinality(Holders(s)') = Cardinality(Holders(s)) - 1
    BY <1>1, HoldersFinite, FS_RemoveElement
  <1>4. active'[s] = active[s] - 1 /\ \A x \in Slots : x # s => active'[x] = active[x]
    BY DEF TypeOK
  <1>5. \A x \in Slots : active'[x] = Cardinality(Holders(x)')
    BY <1>2, <1>3, <1>4 DEF SlotsMatchGuards
  <1>6. Cardinality(Holders(s)) > 0
    BY <1>1, HoldersFinite, FS_EmptySet
  <1> QED
    BY <1>5, <1>6 DEF SlotsMatchGuards, Holders

LEMMA SameGuards ==
  ASSUME SlotsMatchGuards, UNCHANGED <<active, held>>
  PROVE  SlotsMatchGuards'
  BY DEF SlotsMatchGuards, Holders

-----------------------------------------------------------------------------
LEMMA SlotSets == /\ Keys \subseteq Slots /\ Tokens \subseteq Slots
                  /\ Keys \cap Tokens = {} /\ None \notin Slots /\ None \notin Callers
  BY SlotsAssumption DEF Slots

LEMMA LimitType == \A c \in Callers, s \in Slots : Limit[c][s] \in Nat \ {0}
  BY LimitAssumption

LEMMA InvInit == Init => Inv
  <1> SUFFICES ASSUME Init PROVE Inv
    OBVIOUS
  <1>1. TypeOK
    BY IntervalAssumption, SlotSets DEF Init, TypeOK, PC
  <1>2. Placed /\ Throttled /\ Awake
    BY DEF Init, Placed, PlacedAt, Throttled, Awake, Registered
  <1>3. \A s \in Slots : Holders(s) = {}
    BY DEF Init, Holders
  <1>4. SlotsMatchGuards
    BY <1>3, FS_EmptySet DEF Init, SlotsMatchGuards
  <1> QED
    BY <1>1, <1>2, <1>4 DEF Inv

LEMMA TypeStep == Inv /\ [Next]_vars => TypeOK'
  <1> SUFFICES ASSUME Inv, [Next]_vars PROVE TypeOK'
    OBVIOUS
  <1> USE SlotSets DEF registry, Goto
  <1>0. TypeOK /\ Placed /\ SlotsMatchGuards
    BY DEF Inv
  <1>1. ASSUME NEW c \in Callers, Start(c) \/ CallerStep(c) PROVE TypeOK'
    <2>1. CASE Start(c)
      BY <1>0, <2>1 DEF Start, TypeOK, PC
    <2>2. CASE Listen(c)
      BY <1>0, <2>2, PoolAssumption DEF Listen, TypeOK, PC, Eligible
    <2>3. CASE NoPool(c)
      BY <1>0, <2>3 DEF NoPool, Turn, TypeOK, PC
    <2>4. CASE NoneEligible(c)
      BY <1>0, <2>4 DEF NoneEligible, TypeOK, PC
    <2>5. CASE Scan(c)
      BY <1>0, <2>5 DEF Scan, TypeOK, PC
    <2>6. CASE Load(c)
      <3>1. slot[c] \in Slots
        BY <1>0, <2>6 DEF Load, Placed, PlacedAt, Eligible, TypeOK
      <3> QED
        BY <1>0, <2>6, <3>1 DEF Load, TypeOK, PC
    <2>7. CASE Swap(c)
      <3>1. slot[c] \in Slots
        BY <1>0, <2>7 DEF Swap, Placed, PlacedAt, Eligible, TypeOK
      <3> QED
        BY <1>0, <2>7, <3>1 DEF Swap, Turn, TypeOK, PC
    <2>8. CASE GiveUp(c)
      BY <1>0, <2>8 DEF GiveUp, TypeOK, PC
    <2>9. CASE Wake(c)
      BY <1>0, <2>9 DEF Wake, TypeOK, PC
    <2>10. CASE TakeClock(c)
      <3>1. slot[c] \in Keys /\ Interval[c][slot[c]] \in 0..MaxAge
        BY <1>0, <2>10, IntervalAssumption DEF TakeClock, Placed, PlacedAt
      <3> DEFINE p == IF age[slot[c]] < Interval[c][slot[c]]
                      THEN Interval[c][slot[c]] - age[slot[c]] ELSE 0
      <3>2. p \in 0..MaxAge
        BY <1>0, <3>1, IntervalAssumption DEF TypeOK
      <3> HIDE DEF p
      <3>3. pause' = [pause EXCEPT ![c] = p]
        BY <2>10 DEF TakeClock, p
      <3>4. pause' \in [Callers -> 0..MaxAge]
        BY <1>0, <3>2, <3>3 DEF TypeOK
      <3> QED
        BY <1>0, <2>10, <3>1, <3>4 DEF TakeClock, TypeOK, PC
    <2>11. CASE Stamp(c)
      BY <1>0, <2>11, IntervalAssumption DEF Stamp, Turn, TypeOK, PC
    <2>12. CASE TokenReady(c)
      BY <1>0, <2>12 DEF TokenReady, TypeOK, PC
    <2>13. CASE TokenFails(c)
      BY <1>0, <2>13 DEF TokenFails, TypeOK, PC
    <2>14. CASE Finish(c)
      BY <1>0, <2>14 DEF Finish, TypeOK, PC
    <2>15. CASE DropGuard(c)
      <3>1. PICK s \in DropNext(c) : /\ active' = [active EXCEPT ![s] = @ - 1]
                                     /\ held' = [held EXCEPT ![c] = @ \ {s}]
        BY <2>15 DEF DropGuard
      <3>2. s \in held[c] /\ s \in Slots
        BY <1>0, <3>1 DEF DropNext, TypeOK
      <3>3. active[s] \in Nat /\ active[s] > 0
        BY <1>0, <3>1, <3>2, OneLess DEF TypeOK
      <3>4. active' \in [Slots -> Nat] /\ held' \in [Callers -> SUBSET Slots]
        BY <1>0, <3>1, <3>2, <3>3 DEF TypeOK
      <3> QED
        BY <1>0, <2>15, <3>4 DEF DropGuard, TypeOK, PC
    <2>16. CASE Notify(c)
      BY <1>0, <2>16 DEF Notify, Waiters, TypeOK, PC
    <2>17. CASE Ended(c)
      BY <1>0, <2>17 DEF Ended, TypeOK, PC
    <2> QED
      BY <1>1, <2>1, <2>2, <2>3, <2>4, <2>5, <2>6, <2>7, <2>8, <2>9, <2>10, <2>11,
         <2>12, <2>13, <2>14, <2>15, <2>16, <2>17 DEF CallerStep
  <1>2. ASSUME NEW c \in Callers, Cancel(c) PROVE TypeOK'
    BY <1>0, <1>2, IntervalAssumption DEF Cancel, TypeOK, PC
  <1>3. ASSUME Tick PROVE TypeOK'
    <2>1. age' \in [Keys -> 0..MaxAge] /\ pause' \in [Callers -> 0..MaxAge]
      BY <1>0, <1>3, IntervalAssumption DEF Tick, TypeOK
    <2> QED
      BY <1>0, <1>3, <2>1 DEF Tick, TypeOK
  <1>4. ASSUME UNCHANGED vars PROVE TypeOK'
    BY <1>0, <1>4 DEF vars, TypeOK
  <1> QED
    BY <1>1, <1>2, <1>3, <1>4 DEF Next

LEMMA CountStep == Inv /\ [Next]_vars => SlotsMatchGuards'
  <1> SUFFICES ASSUME Inv, [Next]_vars PROVE SlotsMatchGuards'
    OBVIOUS
  <1>0. TypeOK /\ Placed /\ SlotsMatchGuards
    BY DEF Inv
  <1>1. CASE UNCHANGED <<active, held>>
    BY <1>0, <1>1, SameGuards
  <1>2. ASSUME NEW c \in Callers, Swap(c), ~UNCHANGED <<active, held>>
        PROVE  SlotsMatchGuards'
    <2>1. slot[c] \in Slots /\ slot[c] \notin held[c]
      BY <1>0, <1>2, SlotSets DEF Swap, Placed, PlacedAt, Eligible, TypeOK, Selecting
    <2> QED
      BY <1>0, <1>2, <2>1, OneMore DEF Swap
  <1>3. ASSUME NEW c \in Callers, DropGuard(c) PROVE SlotsMatchGuards'
    <2>1. PICK s \in DropNext(c) : /\ active' = [active EXCEPT ![s] = @ - 1]
                                   /\ held' = [held EXCEPT ![c] = @ \ {s}]
      BY <1>3 DEF DropGuard
    <2>2. s \in held[c] /\ s \in Slots
      BY <1>0, <2>1 DEF DropNext, TypeOK
    <2> QED
      BY <1>0, <2>1, <2>2, OneLess
  <1>4. CASE ~UNCHANGED <<active, held>>
    <2>1. \E c \in Callers : Swap(c) \/ DropGuard(c)
      BY <1>4 DEF Next, vars, registry, Start, CallerStep, Cancel, Tick, Listen, NoPool,
                  NoneEligible, Scan, Load, GiveUp, Wake, TakeClock, Stamp, TokenReady,
                  TokenFails, Finish, Notify, Ended
    <2> QED
      BY <1>2, <1>3, <1>4, <2>1
  <1> QED
    BY <1>1, <1>4

\* A task's step leaves what other tasks know alone.
LEMMA Mine ==
  ASSUME TypeOK, NEW c \in Callers, Start(c) \/ CallerStep(c) \/ Cancel(c)
  PROVE  \A d \in Callers \ {c} :
           /\ pc'[d] = pc[d] /\ kind'[d] = kind[d] /\ todo'[d] = todo[d]
           /\ slot'[d] = slot[d] /\ seen'[d] = seen[d] /\ held'[d] = held[d]
           /\ pause'[d] = pause[d]
  <1> USE DEF TypeOK, registry, Goto, Turn
  <1>1. CASE Start(c)
    BY <1>1 DEF Start
  <1>2. CASE Cancel(c)
    BY <1>2 DEF Cancel
  <1>3. CASE Listen(c) \/ NoPool(c) \/ NoneEligible(c) \/ Scan(c) \/ GiveUp(c) \/ Wake(c)
    BY <1>3 DEF Listen, NoPool, NoneEligible, Scan, GiveUp, Wake
  <1>4. CASE Load(c) \/ TakeClock(c) \/ Stamp(c) \/ TokenReady(c) \/ TokenFails(c)
    BY <1>4 DEF Load, TakeClock, Stamp, TokenReady, TokenFails
  <1>5. CASE Swap(c)
    BY <1>5 DEF Swap
  <1>6. CASE Finish(c) \/ DropGuard(c) \/ Notify(c) \/ Ended(c)
    BY <1>6 DEF Finish, DropGuard, Notify, Ended
  <1> QED
    BY <1>1, <1>2, <1>3, <1>4, <1>5, <1>6 DEF CallerStep

LEMMA PlacedStep == Inv /\ [Next]_vars => Placed'
  <1> SUFFICES ASSUME Inv, [Next]_vars PROVE Placed'
    OBVIOUS
  <1>0. TypeOK /\ Placed
    BY DEF Inv
  <1>1. ASSUME NEW c \in Callers, Start(c) \/ CallerStep(c) \/ Cancel(c)
        PROVE  Placed'
    <2>1. ASSUME NEW d \in Callers \ {c} PROVE PlacedAt(d)'
      BY <1>0, <1>1, <2>1, Mine DEF Placed, PlacedAt, Eligible
    <2>2. PlacedAt(c)'
      <3> USE SlotSets, <1>0 DEF TypeOK, Placed, PlacedAt, Eligible, Selecting, registry, Goto
      <3>1. CASE Start(c)
        BY <3>1 DEF Start
      <3>2. CASE Listen(c)
        BY <3>2 DEF Listen
      <3>3. CASE NoPool(c)
        BY <3>3 DEF NoPool, Turn
      <3>4. CASE NoneEligible(c)
        BY <3>4 DEF NoneEligible
      <3>5. CASE Scan(c)
        BY <3>5 DEF Scan
      <3>6. CASE Load(c)
        <4>1. slot[c] \in Slots
          BY <3>6 DEF Load
        <4> QED
          BY <3>6, <4>1, LimitType DEF Load
      <3>7. CASE Swap(c)
        <4>1. slot[c] \in Slots /\ slot[c] \in kind[c]
          BY <3>7 DEF Swap
        <4>2. CASE Swaps(c)
          BY <3>7, <4>1, <4>2 DEF Swap, Turn
        <4>3. CASE ~Swaps(c)
          BY <3>7, <4>1, <4>3 DEF Swap
        <4> QED
          BY <4>2, <4>3
      <3>8. CASE GiveUp(c)
        BY <3>8 DEF GiveUp
      <3>9. CASE Wake(c)
        BY <3>9 DEF Wake
      <3>10. CASE TakeClock(c)
        BY <3>10 DEF TakeClock
      <3>11. CASE Stamp(c)
        BY <3>11 DEF Stamp, Turn
      <3>12. CASE TokenReady(c)
        BY <3>12 DEF TokenReady
      <3>13. CASE TokenFails(c)
        BY <3>13 DEF TokenFails
      <3>14. CASE Finish(c)
        BY <3>14 DEF Finish
      <3>15. CASE DropGuard(c)
        BY <3>15 DEF DropGuard
      <3>16. CASE Notify(c)
        BY <3>16 DEF Notify
      <3>17. CASE Ended(c)
        BY <3>17 DEF Ended
      <3>18. CASE Cancel(c)
        BY <3>18 DEF Cancel
      <3> QED
        BY <1>1, <3>1, <3>2, <3>3, <3>4, <3>5, <3>6, <3>7, <3>8, <3>9, <3>10, <3>11,
           <3>12, <3>13, <3>14, <3>15, <3>16, <3>17, <3>18 DEF CallerStep
    <2> QED
      BY <2>1, <2>2 DEF Placed
  <1>2. ASSUME Tick \/ UNCHANGED vars PROVE Placed'
    BY <1>0, <1>2 DEF Tick, vars, Placed, PlacedAt, Eligible
  <1> QED
    BY <1>1, <1>2 DEF Next

LEMMA ThrottledStep == Inv /\ [Next]_vars => Throttled'
  <1> SUFFICES ASSUME Inv, [Next]_vars PROVE Throttled'
    OBVIOUS
  <1>0. TypeOK /\ Placed /\ Throttled
    BY DEF Inv
  <1> USE SlotSets, IntervalAssumption
  <1>1. ASSUME NEW c \in Callers, Start(c) \/ CallerStep(c) \/ Cancel(c),
               NEW d \in Callers, pc'[d] = "sleep"
        PROVE  /\ clock'[slot'[d]] = d
               /\ age'[slot'[d]] + pause'[d] >= Interval[d][slot'[d]]
    <2>1. CASE d = c
      <3>1. TakeClock(c)
        BY <1>0, <1>1, <2>1
           DEF TypeOK, registry, Goto, Turn, Start, Cancel, CallerStep, Listen, NoPool,
               NoneEligible, Scan, Load, Swap, GiveUp, Wake, Stamp, TokenReady, TokenFails,
               Finish, DropGuard, Notify, Ended
      <3>2. slot[c] \in Keys /\ slot' = slot /\ age' = age
        BY <1>0, <3>1 DEF TakeClock, Placed, PlacedAt
      <3>3. clock'[slot[c]] = c
        BY <1>0, <3>1, <3>2 DEF TakeClock, TypeOK
      <3>4. pause'[c] = IF age[slot[c]] < Interval[c][slot[c]]
                        THEN Interval[c][slot[c]] - age[slot[c]] ELSE 0
        BY <1>0, <3>1 DEF TakeClock, TypeOK
      <3>5. age[slot[c]] \in Nat /\ Interval[c][slot[c]] \in Nat
        BY <1>0, <3>2 DEF TypeOK
      <3> QED
        BY <2>1, <3>2, <3>3, <3>4, <3>5
    <2>2. CASE d # c
      <3>1. /\ pc[d] = "sleep" /\ slot'[d] = slot[d] /\ pause'[d] = pause[d]
            /\ slot[d] \in Keys /\ clock[slot[d]] = d
            /\ age[slot[d]] + pause[d] >= Interval[d][slot[d]]
        BY <1>0, <1>1, <2>2, Mine DEF Placed, PlacedAt, Throttled
      <3>2. clock'[slot[d]] = d /\ age'[slot[d]] = age[slot[d]]
        <4>1. CASE UNCHANGED <<clock, age>>
          BY <3>1, <4>1
        <4>2. CASE TakeClock(c)
          BY <1>0, <3>1, <4>2 DEF TakeClock, ClockFree, TypeOK, Placed, PlacedAt
        <4>3. CASE Stamp(c)
          <5>1. slot[c] \in Keys /\ clock[slot[c]] = c
            BY <1>0, <4>3 DEF Stamp, Placed, PlacedAt, Throttled
          <5>2. slot[c] # slot[d]
            BY <2>2, <3>1, <5>1
          <5> QED
            BY <1>0, <3>1, <4>3, <5>1, <5>2 DEF Stamp, TypeOK
        <4>4. CASE Cancel(c)
          BY <1>0, <2>2, <3>1, <4>4 DEF Cancel, TypeOK
        <4> QED
          BY <1>1, <4>1, <4>2, <4>3, <4>4
             DEF registry, Start, CallerStep, Listen, NoPool, NoneEligible, Scan, Load,
                 Swap, GiveUp, Wake, TokenReady, TokenFails, Finish, DropGuard, Notify, Ended
      <3> QED
        BY <3>1, <3>2
    <2> QED
      BY <2>1, <2>2
  <1>2. ASSUME Tick PROVE Throttled'
    <2> SUFFICES ASSUME NEW d \in Callers, pc'[d] = "sleep"
                 PROVE  /\ clock'[slot'[d]] = d
                        /\ age'[slot'[d]] + pause'[d] >= Interval[d][slot'[d]]
      BY DEF Throttled
    <2>1. /\ slot[d] \in Keys /\ clock[slot[d]] = d /\ UNCHANGED <<slot, clock>>
          /\ age[slot[d]] + pause[d] >= Interval[d][slot[d]]
          /\ age[slot[d]] \in 0..MaxAge /\ pause[d] \in 0..MaxAge
          /\ Interval[d][slot[d]] \in 0..MaxAge
      BY <1>0, <1>2 DEF Tick, Placed, PlacedAt, Throttled, TypeOK
    <2>2. /\ age'[slot[d]] = IF age[slot[d]] < MaxAge THEN age[slot[d]] + 1 ELSE MaxAge
          /\ pause'[d] = IF pause[d] > 0 THEN pause[d] - 1 ELSE 0
      BY <1>2, <2>1 DEF Tick
    <2> QED
      BY <2>1, <2>2
  <1>3. ASSUME UNCHANGED vars PROVE Throttled'
    BY <1>0, <1>3 DEF vars, Throttled
  <1> QED
    BY <1>1, <1>2, <1>3 DEF Next, Throttled

LEMMA AwakeStep == Inv /\ [Next]_vars => Awake'
  <1> SUFFICES ASSUME Inv, [Next]_vars PROVE Awake'
    OBVIOUS
  <1>0. TypeOK /\ Placed /\ Awake
    BY DEF Inv
  <1> USE SlotSets
  <1>1. ASSUME NEW c \in Callers, DropGuard(c) PROVE Awake'
    <2>1. pc'[c] = "notify"
      BY <1>0, <1>1 DEF DropGuard, Goto, TypeOK
    <2> QED
      BY <2>1 DEF Awake
  <1>2. ASSUME NEW c \in Callers, Notify(c) PROVE Awake'
    <2>1. \A d \in Callers : pc'[d] \in Registered => pc[d] \in Registered
      BY <1>0, <1>2 DEF Notify, Goto, TypeOK, Registered
    <2>2. \A d \in Callers : pc'[d] \in Registered => d \in woken'
      BY <1>2, <2>1 DEF Notify, Waiters
    <2> QED
      BY <2>2 DEF Awake
  <1>3. ASSUME NEW c \in Callers, Start(c) \/ CallerStep(c) \/ Cancel(c),
               ~DropGuard(c), ~Notify(c)
        PROVE  Awake'
    <2>1. /\ \A s \in Slots : active'[s] >= active[s] /\ active[s] \in Nat /\ active'[s] \in Nat
          /\ pc[c] # "notify"
      <3>1. CASE Swap(c)
        <4>1. slot[c] \in Slots
          BY <1>0, <3>1 DEF Swap, Placed, PlacedAt, Eligible, TypeOK
        <4> QED
          BY <1>0, <3>1, <4>1 DEF Swap, TypeOK
      <3>2. CASE ~Swap(c)
        BY <1>0, <1>3, <3>2
           DEF registry, Start, Cancel, CallerStep, Listen, NoPool, NoneEligible, Scan,
               Load, GiveUp, Wake, TakeClock, Stamp, TokenReady, TokenFails, Finish, Ended,
               TypeOK
      <3> QED
        BY <3>1, <3>2
    <2>2. \A d \in Callers : pc[d] = "notify" => pc'[d] = "notify"
      BY <1>0, <1>3, <2>1, Mine
    <2>3. \A d \in Callers \ {c} : d \in woken => d \in woken'
      BY <1>3 DEF registry, Start, Cancel, CallerStep, Listen, NoPool, NoneEligible, Scan,
                  Load, Swap, GiveUp, Wake, TakeClock, Stamp, TokenReady, TokenFails,
                  Finish, Ended
    <2>4. ASSUME NEW d \in Callers \ {c}, pc'[d] \in Registered, d \notin woken'
          PROVE  \/ \A s \in Tried(d)' : active'[s] >= Limit[d][s]
                 \/ \E e \in Callers : pc'[e] = "notify"
      <3>1. pc'[d] = pc[d] /\ Tried(d)' = Tried(d) /\ d \notin woken
        BY <1>0, <1>3, <2>3, <2>4, Mine DEF Tried, Eligible
      <3>2. CASE \E e \in Callers : pc[e] = "notify"
        BY <2>2, <3>2
      <3>3. CASE \A s \in Tried(d) : active[s] >= Limit[d][s]
        <4>1. ASSUME NEW s \in Tried(d) PROVE active'[s] >= Limit[d][s]
          <5>1. s \in Slots
            BY <4>1, PoolAssumption DEF Tried, Eligible
          <5> QED
            BY <2>1, <3>3, <4>1, <5>1, LimitType
        <4> QED
          BY <3>1, <4>1
      <3> QED
        BY <1>0, <2>4, <3>1, <3>2, <3>3 DEF Awake
    <2>5. ASSUME pc'[c] \in Registered, c \notin woken'
          PROVE  \/ \A s \in Tried(c)' : active'[s] >= Limit[c][s]
                 \/ \E e \in Callers : pc'[e] = "notify"
      <3>1. CASE Listen(c)
        <4>1. Tried(c)' = {}
          BY <1>0, <3>1 DEF Listen, Goto, TypeOK, Tried, Eligible
        <4> QED
          BY <4>1
      <3>2. Listen(c) \/ Scan(c) \/ Load(c) \/ (Swap(c) /\ ~Swaps(c)) \/ GiveUp(c)
        <4>1. CASE Start(c) \/ Cancel(c) \/ NoPool(c) \/ NoneEligible(c) \/ Wake(c)
          BY <1>0, <2>5, <4>1 DEF Start, Cancel, NoPool, NoneEligible, Wake, Turn, Goto,
                                  Registered, TypeOK
        <4>2. CASE \/ TakeClock(c) \/ Stamp(c) \/ TokenReady(c) \/ TokenFails(c)
                   \/ Finish(c) \/ Ended(c)
          BY <1>0, <2>5, <4>2 DEF TakeClock, Stamp, TokenReady, TokenFails, Finish, Ended,
                                  Turn, Goto, Registered, TypeOK
        <4>3. Swap(c) => ~Swaps(c)
          BY <1>0, <2>5 DEF Swap, Turn, Goto, Registered, TypeOK
        <4> QED
          BY <1>3, <4>1, <4>2, <4>3 DEF CallerStep
      <3>3. CASE Scan(c) \/ Load(c) \/ (Swap(c) /\ ~Swaps(c)) \/ GiveUp(c)
        <4>1. active' = active /\ woken' = woken /\ kind' = kind /\ pc[c] \in Registered
          BY <3>3 DEF Scan, Load, Swap, GiveUp, registry, Registered
        <4>2. CASE \E e \in Callers : pc[e] = "notify"
          BY <2>2, <4>2
        <4>3. CASE \A s \in Tried(c) : active[s] >= Limit[c][s]
          <5>1. CASE Load(c)
            <6>1. slot[c] \in Eligible(c) /\ slot[c] \in Slots
              BY <1>0, <5>1 DEF Load, Placed, PlacedAt, Eligible, TypeOK
            <6>2. Limit[c][slot[c]] \in Nat /\ active[slot[c]] \in Nat
              BY <1>0, <6>1, LimitType DEF TypeOK
            <6>3. pc'[c] = "scan" => active[slot[c]] >= Limit[c][slot[c]]
              BY <1>0, <5>1, <6>2 DEF Load, Goto, TypeOK
            <6>4. Tried(c)' \subseteq Tried(c) \cup {slot[c]}
                  /\ (pc'[c] # "scan" => Tried(c)' = Tried(c))
              BY <1>0, <5>1 DEF Load, Goto, TypeOK, Tried, Eligible
            <6>5. CASE pc'[c] = "scan"
              <7>1. \A s \in Tried(c)' : active[s] >= Limit[c][s]
                BY <4>3, <6>3, <6>4, <6>5
              <7> QED
                BY <4>1, <7>1
            <6>6. CASE pc'[c] # "scan"
              BY <4>1, <4>3, <6>4, <6>6
            <6> QED
              BY <6>5, <6>6
          <5>2. CASE Scan(c) \/ (Swap(c) /\ ~Swaps(c)) \/ GiveUp(c)
            <6>1. Tried(c)' \subseteq Tried(c)
              BY <1>0, <5>2 DEF Scan, Swap, GiveUp, Goto, TypeOK, Tried, Eligible
            <6> QED
              BY <4>1, <4>3, <6>1
          <5> QED
            BY <3>3, <5>1, <5>2
        <4> QED
          BY <1>0, <2>5, <4>1, <4>2, <4>3 DEF Awake
      <3> QED
        BY <3>1, <3>2, <3>3
    <2> QED
      BY <2>4, <2>5 DEF Awake
  <1>4. ASSUME Tick \/ UNCHANGED vars PROVE Awake'
    BY <1>0, <1>4 DEF Tick, vars, Awake, Tried, Eligible
  <1> QED
    BY <1>1, <1>2, <1>3, <1>4 DEF Next, CallerStep

LEMMA InvStep == Inv /\ [Next]_vars => Inv'
  BY TypeStep, PlacedStep, ThrottledStep, CountStep, AwakeStep DEF Inv

THEOREM Invariance == Spec => []Inv
  BY InvInit, InvStep, PTL DEF Spec

-----------------------------------------------------------------------------
\* The state of every pool, task and clock keeps its type.
THEOREM TypeCorrect == Spec => []TypeOK
  <1>1. Inv => TypeOK
    BY DEF Inv
  <1> QED
    BY <1>1, Invariance, PTL

\* No slot leaks and none is freed twice: try_acquire and the two Drops.
THEOREM NoLeak == Spec => []SlotsMatchGuards
  <1>1. Inv => SlotsMatchGuards
    BY DEF Inv
  <1> QED
    BY <1>1, Invariance, PTL

\* The enabled Notified future closes the window between scan and wait.
THEOREM NoWakeupLost == Spec => []NoLostWakeup
  <1>1. Inv => NoLostWakeup
    <2> SUFFICES ASSUME Inv, NEW c \in Callers, pc[c] = "wait", c \notin woken
                 PROVE  \/ \A s \in Eligible(c) : active[s] >= Limit[c][s]
                        \/ \E d \in Callers : pc[d] = "notify"
      BY DEF NoLostWakeup
    <2>1. Tried(c) = Eligible(c)
      BY DEF Inv, Placed, PlacedAt, Tried
    <2> QED
      BY <2>1 DEF Inv, Awake, Registered
  <1> QED
    BY <1>1, Invariance, PTL

\* The interval of enforce_min_interval_for_index holds across pools.
THEOREM RequestsSpaced == Spec => Spaced
  <1>1. Inv /\ [Next]_vars
        => [\A c \in Callers : Stamp(c) => age[slot[c]] >= Interval[c][slot[c]]]_vars
    <2> SUFFICES ASSUME Inv, NEW c \in Callers, Stamp(c)
                 PROVE  age[slot[c]] >= Interval[c][slot[c]]
      OBVIOUS
    <2>1. /\ slot[c] \in Keys /\ pause[c] = 0
          /\ age[slot[c]] + pause[c] >= Interval[c][slot[c]]
      BY DEF Inv, Placed, PlacedAt, Throttled, Stamp
    <2>2. age[slot[c]] \in Nat /\ Interval[c][slot[c]] \in Nat
      BY <2>1, IntervalAssumption DEF Inv, TypeOK
    <2> QED
      BY <2>1, <2>2
  <1> QED
    BY <1>1, Invariance, PTL DEF Spec, Spaced

\* The exchange succeeds only on the value that was below the caller's limit.
THEOREM LimitsHold == Spec => GrantedWithinLimit
  <1> DEFINE Granted == \A c \in Callers, s \in Slots : s \in held'[c] \ held[c] =>
                          Cardinality(Holders(s)') <= Limit[c][s]
  <1>1. Inv /\ [Next]_vars => [Granted]_vars
    <2> SUFFICES ASSUME Inv, Next, NEW c \in Callers, NEW s \in Slots,
                        s \in held'[c] \ held[c]
                 PROVE  Cardinality(Holders(s)') <= Limit[c][s]
      BY DEF vars
    <2>0. TypeOK /\ Placed /\ SlotsMatchGuards
      BY DEF Inv
    <2>1. Swap(c) /\ Swaps(c) /\ s = slot[c]
      <3>1. PICK d \in Callers : Start(d) \/ CallerStep(d) \/ Cancel(d)
        BY DEF Next, Tick
      <3>2. d = c
        BY <2>0, <3>1, Mine
      <3>3. Swap(c)
        <4>1. Start(c) \/ Cancel(c) \/ Notify(c) \/ Ended(c) => held' = held
          BY DEF Start, Cancel, Notify, Ended
        <4>2. DropGuard(c) => held'[c] \subseteq held[c]
          BY <2>0 DEF DropGuard, TypeOK
        <4>3. Listen(c) \/ NoPool(c) \/ NoneEligible(c) \/ Scan(c) \/ Load(c) \/ GiveUp(c)
              \/ Wake(c) => held' = held
          BY DEF Listen, NoPool, NoneEligible, Scan, Load, GiveUp, Wake
        <4>4. TakeClock(c) \/ Stamp(c) \/ TokenReady(c) \/ TokenFails(c) \/ Finish(c)
              => held' = held
          BY DEF TakeClock, Stamp, TokenReady, TokenFails, Finish
        <4> QED
          BY <3>1, <3>2, <4>1, <4>2, <4>3, <4>4 DEF CallerStep
      <3> QED
        BY <2>0, <3>3 DEF Swap, TypeOK
    <2>2. /\ active[s] < Limit[c][s] /\ active[s] \in Nat /\ Limit[c][s] \in Nat
          /\ active'[s] = active[s] + 1
      BY <2>0, <2>1, LimitType DEF Swap, Swaps, Placed, PlacedAt, TypeOK
    <2>3. Cardinality(Holders(s)') = active'[s]
      BY CountStep DEF SlotsMatchGuards, Holders
    <2> QED
      BY <2>2, <2>3
  <1> QED
    BY <1>1, Invariance, PTL DEF Spec, GrantedWithinLimit

-----------------------------------------------------------------------------
(* The lanes.                                                               *)

Shape ==
  /\ DOMAIN lane = Callers /\ DOMAIN verdict = Callers /\ DOMAIN carried = Callers
  /\ \A c \in Callers : DOMAIN lane[c] = {"at", "field", "chunk"}

\* The field of lane c has passed the breaker, and its verdict is still to come.
Passed(c) == lane[c].at \in {"chunk", "call", "error", "failure", "answer"}

PassedLanes == {c \in Callers : Passed(c)}

\* Where the task of the lane stands in the pools.
Pooled(c) ==
  /\ lane[c].at \notin {"call", "error", "gone"} => pc[c] = "idle"
  /\ lane[c].at \in {"error", "gone"} => pc[c] \in {"drop", "notify"}

\* What is booked on the fields is what the payload holds.
Booked(c) ==
  /\ With(c, "success") = carried[c]
  /\ Passed(c) => Current(c) \in Ready(c)
  /\ lane[c].at \notin Reports => Copied \in With(c, "ready")

\* What was reported.
Told(c) ==
  /\ lane[c].at = "sent" => carried[c] # {} /\ With(c, "ready") = {}
  /\ lane[c].at \in {"structural", "failed", "nothing"} => carried[c] = {}
  /\ lane[c].at = "nothing" => Failed(c) = {}

LaneInv(c) == Pooled(c) /\ Booked(c) /\ Told(c)

\* In a cooldown every lane that has passed the breaker may still fail once.
Counted ==
  /\ cooling \in BOOLEAN /\ again \in Nat
  /\ cooling => again + Cardinality(PassedLanes) < Cardinality(Callers)
  /\ ~cooling => again = 0

FieldInv == Shape /\ (\A c \in Callers : LaneInv(c)) /\ Counted

-----------------------------------------------------------------------------
(* The lanes and the pools                                                  *)

\* A step of the lanes is a step of the pools or leaves them alone.
LEMMA PoolStep == [FieldNext]_fieldVars => [Next]_vars
  <1> SUFFICES ASSUME FieldNext PROVE Next \/ UNCHANGED vars
    BY DEF fieldVars
  <1>1. ASSUME NEW c \in Callers, LaneStep(c) PROVE Next \/ UNCHANGED vars
    <2>1. CASE Group(c) \/ Field(c) \/ Replay(c) \/ Translated(c) \/ Useless(c)
               \/ Failure(c) \/ Conclude(c)
      BY <2>1 DEF Group, Field, Replay, Translated, Useless, Failure, Conclude
    <2>2. CASE Request(c)
      BY <2>2 DEF Request, Next
    <2>3. CASE Work(c) \/ Answer(c) \/ Refuse(c) \/ Return(c)
      BY <2>3 DEF Work, Answer, Refuse, Return, Next, CallerStep
    <2> QED
      BY <1>1, <2>1, <2>2, <2>3 DEF LaneStep
  <1>2. ASSUME NEW c \in Callers, Drop(c) PROVE Next
    BY <1>2 DEF Drop, Next
  <1>3. CASE Tick /\ UNCHANGED <<object, breaker>>
    BY <1>3 DEF Next
  <1>4. CASE Cooled
    BY <1>4 DEF Cooled
  <1> QED
    BY <1>1, <1>2, <1>3, <1>4 DEF FieldNext

(* The lanes use the pools as CredentialPools describes: every request of a *)
(* field takes its slots, waits and gives them back by its steps.           *)
THEOREM LanesUsePools == FieldSpec => Spec
  <1>1. FieldInit => Init
    BY DEF FieldInit
  <1> QED
    BY <1>1, PoolStep, PTL DEF FieldSpec, Spec

(* However the fields of the lanes interleave, a slot is granted within the *)
(* limit of the pool it is granted from.                                    *)
THEOREM LaneLimitsHold == FieldSpec => GrantedWithinLimit
  BY LanesUsePools, LimitsHold

-----------------------------------------------------------------------------
(* One lane                                                                 *)

\* A verdict on some fields moves just these.
LEMMA Judged ==
  ASSUME Shape, NEW c \in Callers, NEW S, NEW v, Judge(c, S, v)
  PROVE  /\ DOMAIN verdict' = Callers
         /\ DOMAIN (verdict'[c]) = DOMAIN verdict[c]
         /\ \A d \in Callers \ {c} : verdict'[d] = verdict[d]
         /\ \A f \in DOMAIN verdict[c] : verdict'[c][f] = IF f \in S THEN v ELSE verdict[c][f]
  BY DEF Shape, Judge

\* What a step of lane c leaves alone.
Apart(c) ==
  \A d \in Callers \ {c} :
    /\ lane'[d] = lane[d] /\ verdict'[d] = verdict[d] /\ carried'[d] = carried[d]
    /\ pc'[d] = pc[d]

LEMMA Frame ==
  ASSUME NEW c \in Callers, Apart(c), NEW d \in Callers \ {c}, LaneInv(d)
  PROVE  LaneInv(d)'
  <1>1. /\ lane'[d] = lane[d] /\ verdict'[d] = verdict[d] /\ carried'[d] = carried[d]
        /\ pc'[d] = pc[d]
    BY DEF Apart
  <1>2. \A v : With(d, v)' = With(d, v)
    BY <1>1 DEF With
  <1>3. Ready(d)' = Ready(d) /\ Failed(d)' = Failed(d)
    BY <1>2 DEF Ready, Failed
  <1> QED
    BY <1>1, <1>2, <1>3 DEF LaneInv, Pooled, Booked, Told, Passed, Current

\* A lane that gives a verdict on the field in hand.
LEMMA SettledStep ==
  ASSUME Shape, NEW c \in Callers, LaneInv(c), lane[c].at \notin Reports,
         NEW f \in Ready(c), NEW v \in {"success", "failed"}, Settle(c, f, v),
         v = "success" => Carry(c, f), v = "failed" => UNCHANGED carried,
         pc[c] = "idle", UNCHANGED pc
  PROVE  Shape' /\ Apart(c) /\ LaneInv(c)' /\ ~Passed(c)'
  <1>0. f \in DOMAIN verdict[c] /\ verdict[c][f] = "ready" /\ f # Copied
    BY DEF Ready, With
  <1>1. /\ DOMAIN verdict' = Callers
        /\ DOMAIN (verdict'[c]) = DOMAIN verdict[c]
        /\ \A d \in Callers \ {c} : verdict'[d] = verdict[d]
        /\ \A g \in DOMAIN verdict[c] : verdict'[c][g] = IF g = f THEN v ELSE verdict[c][g]
    BY Judged DEF Settle
  <1>2. With(c, "success")' = IF v = "success" THEN With(c, "success") \cup {f}
                              ELSE With(c, "success")
    BY <1>0, <1>1 DEF With
  <1>3. /\ DOMAIN carried' = Callers
        /\ \A d \in Callers \ {c} : carried'[d] = carried[d]
        /\ carried'[c] = IF v = "success" THEN carried[c] \cup {f} ELSE carried[c]
    BY DEF Shape, Carry
  <1>4. Copied \in With(c, "ready")'
    BY <1>0, <1>1 DEF LaneInv, Booked, With
  <1>5. /\ DOMAIN lane' = Callers /\ DOMAIN (lane'[c]) = {"at", "field", "chunk"}
        /\ lane'[c].at \in {"group", "field"}
        /\ \A d \in Callers \ {c} : lane'[d] = lane[d]
    BY DEF Settle, Shape
  <1>6. Shape' /\ Apart(c)
    BY <1>1, <1>3, <1>5 DEF Shape, Apart
  <1>7. ~Passed(c)' /\ lane'[c].at \notin Reports \cup {"call", "error", "gone"}
    BY <1>5 DEF Passed, Reports
  <1>8. Pooled(c)' /\ Told(c)'
    BY <1>5, <1>7 DEF Pooled, Told, Reports
  <1>9. Booked(c)'
    BY <1>2, <1>3, <1>4, <1>7 DEF Booked, LaneInv
  <1> QED
    BY <1>6, <1>7, <1>8, <1>9 DEF LaneInv

\* A lane that only moves, the payload and the verdicts untouched.
LEMMA MovedStep ==
  ASSUME Shape, NEW c \in Callers, LaneInv(c), lane[c].at \notin Reports,
         UNCHANGED <<verdict, carried>>,
         DOMAIN lane' = Callers, DOMAIN (lane'[c]) = {"at", "field", "chunk"},
         \A d \in Callers \ {c} : lane'[d] = lane[d] /\ pc'[d] = pc[d],
         Pooled(c)', lane'[c].at \in Reports => lane'[c].at = "refused",
         Passed(c)' => lane'[c].field \in Ready(c)
  PROVE  Shape' /\ Apart(c) /\ LaneInv(c)'
  <1>1. \A v : With(c, v)' = With(c, v)
    BY DEF With
  <1>2. Ready(c)' = Ready(c)
    BY <1>1 DEF Ready
  <1>3. Shape' /\ Apart(c)
    BY DEF Shape, Apart
  <1>4. Booked(c)' /\ Told(c)'
    BY <1>1, <1>2 DEF Booked, Told, Current, LaneInv, Reports
  <1> QED
    BY <1>3, <1>4 DEF LaneInv

\* How a step of lane c may move the breaker.
Breaks(c) ==
  \/ UNCHANGED breaker /\ (Passed(c)' => Passed(c) \/ ~cooling)
  \/ Recovered
  \/ /\ Passed(c) /\ ~Passed(c)'
     /\ cooling' = TRUE /\ again' = IF cooling THEN again + 1 ELSE 0

Kept(c) == Shape' /\ Apart(c) /\ LaneInv(c)' /\ Breaks(c)

\* The steps of a lane outside the pools.
LEMMA OwnStep ==
  ASSUME Shape, NEW c \in Callers, LaneInv(c),
         Group(c) \/ Field(c) \/ Replay(c) \/ Translated(c) \/ Useless(c) \/ Failure(c)
  PROVE  Kept(c)
  <1> USE DEF At, Current, Kept
  <1>0. /\ lane[c].at \in {"group", "field", "chunk", "failure", "answer"}
        /\ lane[c].at \notin Reports /\ pc[c] = "idle" /\ UNCHANGED pc
    BY DEF LaneInv, Pooled, Reports, Group, Field, Replay, Translated, Useless, Failure, vars
  <1>1. CASE Group(c)
    <2>1. PICK g \in Groups(c) :
            \/ Judge(c, InGroup(c, g), "lacking") /\ UNCHANGED lane
            \/ lane' = [lane EXCEPT ![c] = [at |-> "field", field |-> <<g, 0>>, chunk |-> 0]]
               /\ UNCHANGED verdict
            \/ Reach(c, "refused") /\ UNCHANGED verdict
      BY <1>1 DEF Group
    <2>2. UNCHANGED <<carried, breaker>> /\ lane[c].at = "group"
      BY <1>1 DEF Group
    <2>3. CASE Judge(c, InGroup(c, g), "lacking") /\ UNCHANGED lane
      <3>1. /\ DOMAIN verdict' = Callers
            /\ DOMAIN (verdict'[c]) = DOMAIN verdict[c]
            /\ \A d \in Callers \ {c} : verdict'[d] = verdict[d]
            /\ \A f \in DOMAIN verdict[c] :
                 verdict'[c][f] = IF f \in InGroup(c, g) THEN "lacking" ELSE verdict[c][f]
        BY <2>3, Judged
      <3>2. With(c, "success")' = With(c, "success") /\ Copied \in With(c, "ready")'
        BY <3>1, <1>0 DEF With, InGroup, Ready, LaneInv, Booked
      <3>3. ~Passed(c) /\ ~Passed(c)'
        BY <2>2, <2>3 DEF Passed
      <3>4. LaneInv(c)'
        BY <2>2, <2>3, <3>2, <3>3, <1>0 DEF LaneInv, Pooled, Booked, Told, Reports
      <3> QED
        BY <2>2, <2>3, <3>1, <3>3, <3>4, <1>0 DEF Shape, Apart, Breaks
    <2>4. CASE UNCHANGED verdict /\ ~(UNCHANGED lane /\ Judge(c, InGroup(c, g), "lacking"))
      <3>1. /\ DOMAIN lane' = Callers /\ DOMAIN (lane'[c]) = {"at", "field", "chunk"}
            /\ lane'[c].at \in {"field", "refused"}
            /\ \A d \in Callers \ {c} : lane'[d] = lane[d]
        BY <2>1, <2>4 DEF Shape, Reach
      <3>2. Pooled(c)' /\ ~Passed(c)'
        BY <3>1, <1>0 DEF Pooled, Passed
      <3>3. Shape' /\ Apart(c) /\ LaneInv(c)'
        BY <2>2, <2>4, <3>1, <3>2, <1>0, MovedStep DEF Reports
      <3> QED
        BY <2>2, <3>2, <3>3 DEF Breaks
    <2> QED
      BY <2>1, <2>3, <2>4
  <1>2. CASE Field(c)
    <2>1. PICK f \in InGroup(c, lane[c].field[1]) :
            \/ Settle(c, f, "failed")
            \/ /\ ~Blocked(c)
               /\ lane' = [lane EXCEPT ![c] = [at |-> "chunk", field |-> f, chunk |-> 0]]
               /\ UNCHANGED verdict
      BY <1>2 DEF Field
    <2>2. UNCHANGED <<carried, breaker>> /\ f \in Ready(c)
      BY <1>2, <2>1 DEF Field, InGroup
    <2>3. CASE Settle(c, f, "failed")
      <3>1. Shape' /\ Apart(c) /\ LaneInv(c)' /\ ~Passed(c)'
        BY <2>2, <2>3, <1>0, SettledStep
      <3> QED
        BY <2>2, <3>1 DEF Breaks
    <2>4. CASE /\ ~Blocked(c)
               /\ lane' = [lane EXCEPT ![c] = [at |-> "chunk", field |-> f, chunk |-> 0]]
               /\ UNCHANGED verdict
      <3>1. /\ DOMAIN lane' = Callers /\ DOMAIN (lane'[c]) = {"at", "field", "chunk"}
            /\ lane'[c].at = "chunk" /\ lane'[c].field = f
            /\ \A d \in Callers \ {c} : lane'[d] = lane[d]
        BY <2>4 DEF Shape
      <3>2. Shape' /\ Apart(c) /\ LaneInv(c)'
        BY <2>2, <2>4, <3>1, <1>0, MovedStep DEF Pooled, Reports
      <3> QED
        BY <2>2, <2>4, <3>2 DEF Breaks, Blocked
    <2> QED
      BY <2>1, <2>3, <2>4
  <1>3. CASE Replay(c)
    <2>1. /\ DOMAIN lane' = Callers /\ DOMAIN (lane'[c]) = {"at", "field", "chunk"}
          /\ lane'[c].at \in {"chunk", "answer"} /\ lane'[c].field = lane[c].field
          /\ \A d \in Callers \ {c} : lane'[d] = lane[d]
          /\ UNCHANGED <<verdict, carried, breaker>> /\ lane[c].at = "chunk"
      BY <1>3 DEF Shape, Replay, NextChunk
    <2>2. Passed(c) /\ lane[c].field \in Ready(c)
      BY <2>1 DEF Passed, LaneInv, Booked
    <2>3. Shape' /\ Apart(c) /\ LaneInv(c)'
      BY <2>1, <2>2, <1>0, MovedStep DEF Pooled, Reports
    <2> QED
      BY <2>1, <2>2, <2>3 DEF Breaks
  <1>4. CASE Translated(c) \/ Useless(c) \/ Failure(c)
    <2>1. Passed(c) /\ lane[c].field \in Ready(c)
      BY <1>4 DEF Translated, Useless, Failure, Passed, LaneInv, Booked
    <2>2. \E v \in {"success", "failed"} :
            /\ Settle(c, lane[c].field, v)
            /\ v = "success" => Carry(c, lane[c].field)
            /\ v = "failed" => UNCHANGED carried
      BY <1>4 DEF Translated, Useless, Failure, KeepsNothing
    <2>3. Shape' /\ Apart(c) /\ LaneInv(c)' /\ ~Passed(c)'
      BY <2>1, <2>2, <1>0, SettledStep
    <2> QED
      BY <1>4, <2>1, <2>3 DEF Breaks, Translated, Useless, Failure
  <1> QED
    BY <1>1, <1>2, <1>3, <1>4

\* The steps of a lane in the pools.
LEMMA RequestStep ==
  ASSUME TypeOK, Shape, NEW c \in Callers, LaneInv(c),
         Request(c) \/ Work(c) \/ Answer(c) \/ Refuse(c) \/ Return(c) \/ Drop(c)
  PROVE  Kept(c)
  <1> USE DEF At
  <1>1. UNCHANGED <<verdict, carried, breaker>>
    BY DEF Request, Work, Answer, Refuse, Return, Drop, object
  <1>2. Start(c) \/ CallerStep(c) \/ Cancel(c)
    BY DEF Request, Work, Answer, Refuse, Return, Drop, CallerStep
  <1>3. \A d \in Callers \ {c} : pc'[d] = pc[d]
    BY <1>2, Mine
  <1>4. /\ lane[c].at \notin Reports /\ (Passed(c) => lane[c].field \in Ready(c))
        /\ Passed(c)' => Passed(c) /\ lane'[c].field = lane[c].field
        /\ DOMAIN lane' = Callers /\ DOMAIN (lane'[c]) = {"at", "field", "chunk"}
        /\ \A d \in Callers \ {c} : lane'[d] = lane[d]
        /\ lane'[c].at \notin Reports /\ Pooled(c)'
    <2>0. /\ Passed(c) => lane[c].field \in Ready(c)
          /\ DOMAIN lane = Callers /\ DOMAIN lane[c] = {"at", "field", "chunk"}
          /\ Pooled(c) /\ DOMAIN pc = Callers
      BY DEF LaneInv, Booked, Current, Shape, TypeOK
    <2>1. CASE Request(c)
      <3>1. /\ lane[c].at = "chunk" /\ lane' = [lane EXCEPT ![c].at = "call"]
        BY <2>1 DEF Request, Reach
      <3> QED
        BY <3>1, <2>0 DEF Pooled, Passed, Reports
    <2>2. CASE Work(c)
      <3>1. UNCHANGED lane /\ pc[c] # "idle"
        BY <2>2 DEF Work, object, Listen, NoPool, Scan, Load, Swap, GiveUp, Wake, TakeClock,
                    Stamp, TokenReady, DropGuard, Notify
      <3>2. pc[c] \in {"drop", "notify"} => pc'[c] \in {"drop", "notify"}
        BY <2>0, <2>2 DEF Work, Listen, NoPool, Scan, Load, Swap, GiveUp, Wake, TakeClock,
                          Stamp, TokenReady, DropGuard, Notify, Goto
      <3> QED
        BY <3>1, <3>2, <2>0 DEF Pooled, Passed, Reports
    <2>3. CASE Answer(c) \/ Refuse(c)
      <3>1. /\ pc[c] \in {"work", "listen", "token"} /\ pc'[c] = "drop"
            /\ UNCHANGED lane \/ lane' = [lane EXCEPT ![c].at = "error"]
        BY <2>0, <2>3 DEF Answer, Refuse, Finish, NoneEligible, TokenFails, Goto, Reach
      <3> QED
        BY <3>1, <2>0 DEF Pooled, Passed, Reports
    <2>4. CASE Drop(c)
      <3>1. /\ pc[c] \notin {"idle", "drop", "notify"} /\ pc'[c] = "drop"
            /\ lane' = [lane EXCEPT ![c].at = "gone"]
        BY <2>0, <2>4 DEF Drop, Cancel, Goto, Reach
      <3> QED
        BY <3>1, <2>0 DEF Pooled, Passed, Reports
    <2>5. CASE Return(c)
      <3>1. pc[c] = "drop" /\ pc'[c] = "idle"
        BY <2>0, <2>5 DEF Return, Ended, Goto
      <3>2. CASE lane[c].at = "call" /\ NextChunk(c)
        BY <3>1, <3>2, <2>0 DEF NextChunk, Pooled, Passed, Reports
      <3>3. CASE lane[c].at = "error" /\ Reach(c, "failure")
        BY <3>1, <3>3, <2>0 DEF Reach, Pooled, Passed, Reports
      <3>4. CASE lane[c].at = "gone" /\ Reach(c, "dropped")
        BY <3>1, <3>4, <2>0 DEF Reach, Pooled, Passed, Reports
      <3> QED
        BY <2>5, <3>2, <3>3, <3>4 DEF Return
    <2> QED
      BY <2>1, <2>2, <2>3, <2>4, <2>5
  <1>5. Shape' /\ Apart(c) /\ LaneInv(c)'
    BY <1>1, <1>3, <1>4, MovedStep
  <1> QED
    BY <1>1, <1>4, <1>5 DEF Kept, Breaks

\* The end of an object: the copied fields are judged last.
LEMMA LastStep ==
  ASSUME Shape, NEW c \in Callers, LaneInv(c), Conclude(c)
  PROVE  Kept(c)
  <1>0. /\ lane[c].at = "group" /\ Ready(c) = {} /\ UNCHANGED <<pc, breaker>>
        /\ lane[c].at \notin Reports /\ pc[c] = "idle"
    BY DEF Conclude, At, LaneInv, Pooled, Reports, vars
  <1>1. PICK v \in {"skipped"} \cup (Data[c] \cap {"success", "unfit"}) :
          /\ Judge(c, {Copied}, v)
          /\ IF v = "success" THEN Carry(c, Copied) ELSE UNCHANGED carried
    BY DEF Conclude
  <1>2. v \in {"skipped", "success", "unfit"}
    OBVIOUS
  <1>3. PICK r \in Report(c)' : Reach(c, r)
    BY DEF Conclude
  <1>4. /\ DOMAIN verdict' = Callers
        /\ DOMAIN (verdict'[c]) = DOMAIN verdict[c]
        /\ \A d \in Callers \ {c} : verdict'[d] = verdict[d]
        /\ \A f \in DOMAIN verdict[c] :
             verdict'[c][f] = IF f = Copied THEN v ELSE verdict[c][f]
    BY <1>1, Judged
  <1>5. Copied \in DOMAIN verdict[c] /\ verdict[c][Copied] = "ready"
    BY <1>0 DEF LaneInv, Booked, With
  <1>6. With(c, "success")' = IF v = "success" THEN With(c, "success") \cup {Copied}
                              ELSE With(c, "success")
    BY <1>2, <1>4, <1>5 DEF With
  <1>7. With(c, "ready")' = {}
    BY <1>0, <1>2, <1>4, <1>5 DEF With, Ready
  <1>8. /\ DOMAIN carried' = Callers
        /\ \A d \in Callers \ {c} : carried'[d] = carried[d]
        /\ carried'[c] = IF v = "success" THEN carried[c] \cup {Copied} ELSE carried[c]
    BY <1>1 DEF Shape, Carry
  <1>9. r \in Reports /\ /\ r = "sent" => carried'[c] # {}
                         /\ r \in {"structural", "failed", "nothing"} => carried'[c] = {}
                         /\ r = "nothing" => Failed(c)' = {}
    BY <1>3 DEF Report, NoComponent, Reports
  <1>10. /\ DOMAIN lane' = Callers /\ DOMAIN (lane'[c]) = {"at", "field", "chunk"}
         /\ lane'[c].at = r
         /\ \A d \in Callers \ {c} : lane'[d] = lane[d]
    BY <1>3 DEF Reach, Shape
  <1>11. Shape' /\ Apart(c)
    BY <1>0, <1>4, <1>8, <1>10 DEF Shape, Apart
  <1>12. ~Passed(c)'
    BY <1>9, <1>10 DEF Passed, Reports
  <1>13. Booked(c)'
    BY <1>6, <1>8, <1>9, <1>10, <1>12 DEF Booked, LaneInv
  <1>14. Pooled(c)' /\ Told(c)'
    BY <1>0, <1>7, <1>9, <1>10 DEF Pooled, Told, Reports
  <1> QED
    BY <1>0, <1>11, <1>12, <1>13, <1>14 DEF Kept, LaneInv, Breaks

-----------------------------------------------------------------------------
(* The breaker and all lanes                                                *)

LEMMA PassedCount ==
  /\ IsFiniteSet(PassedLanes) /\ Cardinality(PassedLanes) \in Nat
  /\ IsFiniteSet(PassedLanes)' /\ Cardinality(PassedLanes)' \in Nat
  /\ IsFiniteSet(Callers) /\ Cardinality(Callers) \in Nat
  <1>1. PassedLanes \in SUBSET Callers /\ PassedLanes' \in SUBSET Callers
    BY DEF PassedLanes
  <1> QED
    BY <1>1, CallersAssumption, FS_Subset, FS_CardinalityType

\* A lane that leaves the ones that have passed makes room for its failure.
LEMMA BreakerStep ==
  ASSUME Counted, NEW c \in Callers, Apart(c), Breaks(c)
  PROVE  Counted'
  <1>1. \A d \in Callers \ {c} : Passed(d)' = Passed(d)
    BY DEF Apart, Passed
  <1>2. CASE UNCHANGED breaker /\ (Passed(c)' => Passed(c) \/ ~cooling)
    <2>1. CASE cooling
      <3>1. PassedLanes' \in SUBSET PassedLanes
        BY <1>1, <1>2, <2>1 DEF PassedLanes
      <3>2. Cardinality(PassedLanes)' <= Cardinality(PassedLanes)
        BY <3>1, PassedCount, FS_Subset
      <3> QED
        BY <1>2, <2>1, <3>2, PassedCount DEF Counted, breaker
    <2>2. CASE ~cooling
      BY <1>2, <2>2 DEF Counted, breaker
    <2> QED
      BY <2>1, <2>2
  <1>3. CASE Recovered
    BY <1>3 DEF Recovered, Counted
  <1>4. CASE /\ Passed(c) /\ ~Passed(c)'
             /\ cooling' = TRUE /\ again' = IF cooling THEN again + 1 ELSE 0
    <2>1. PassedLanes' = PassedLanes \ {c} /\ c \in PassedLanes
      BY <1>1, <1>4 DEF PassedLanes
    <2>2. Cardinality(PassedLanes)' = Cardinality(PassedLanes) - 1
      BY <2>1, PassedCount, FS_RemoveElement
    <2>3. CASE cooling
      BY <1>4, <2>2, <2>3, PassedCount DEF Counted
    <2>4. CASE ~cooling
      <3>1. PassedLanes \in SUBSET Callers
        BY DEF PassedLanes
      <3>2. Cardinality(PassedLanes) <= Cardinality(Callers)
        BY <3>1, PassedCount, FS_Subset
      <3> QED
        BY <1>4, <2>2, <2>4, <3>2, PassedCount DEF Counted
    <2> QED
      BY <2>3, <2>4
  <1> QED
    BY <1>2, <1>3, <1>4 DEF Breaks

LEMMA FieldInvInit == FieldInit => FieldInv
  <1> SUFFICES ASSUME FieldInit PROVE FieldInv
    OBVIOUS
  <1>0. /\ lane = [c \in Callers |-> [at |-> "group", field |-> Copied, chunk |-> 0]]
        /\ carried = [c \in Callers |-> With(c, "success")]
        /\ cooling = FALSE /\ again = 0
        /\ pc = [c \in Callers |-> "idle"]
    BY DEF FieldInit, Init
  <1>1. /\ DOMAIN verdict = Callers
        /\ \A c \in Callers : Copied \in DOMAIN verdict[c] /\ verdict[c][Copied] = "ready"
    BY DEF FieldInit
  <1>2. Shape
    BY <1>0, <1>1 DEF Shape
  <1>3. ASSUME NEW c \in Callers PROVE LaneInv(c)
    BY <1>0, <1>1 DEF LaneInv, Pooled, Booked, Told, Passed, Reports, With
  <1> QED
    BY <1>0, <1>2, <1>3 DEF FieldInv, Counted

LEMMA FieldInvStep == TypeOK /\ FieldInv /\ [FieldNext]_fieldVars => FieldInv'
  <1> SUFFICES ASSUME TypeOK, FieldInv, [FieldNext]_fieldVars PROVE FieldInv'
    OBVIOUS
  <1>1. ASSUME NEW c \in Callers, LaneStep(c) \/ Drop(c) PROVE FieldInv'
    <2>1. Kept(c)
      BY <1>1, OwnStep, RequestStep, LastStep DEF LaneStep, FieldInv
    <2>2. Counted'
      BY <2>1, BreakerStep DEF Kept, FieldInv
    <2>3. \A d \in Callers : LaneInv(d)'
      BY <2>1, Frame DEF Kept, FieldInv
    <2> QED
      BY <2>1, <2>2, <2>3 DEF Kept, FieldInv
  <1>2. CASE UNCHANGED <<object, pc>> /\ (UNCHANGED breaker \/ Recovered)
    <2>1. \A d \in Callers : LaneInv(d)'
      <3> TAKE d \in Callers
      <3>1. \A v : With(d, v)' = With(d, v)
        BY <1>2 DEF With, object
      <3>2. Ready(d)' = Ready(d) /\ Failed(d)' = Failed(d)
        BY <3>1 DEF Ready, Failed
      <3> QED
        BY <1>2, <3>1, <3>2
        DEF object, FieldInv, LaneInv, Pooled, Booked, Told, Passed, Current
    <2>2. Shape'
      BY <1>2 DEF Shape, FieldInv, object
    <2>3. Counted'
      <3>1. PassedLanes' = PassedLanes
        BY <1>2 DEF PassedLanes, Passed, object
      <3>2. CASE Recovered
        BY <3>2 DEF Counted, Recovered
      <3>3. CASE UNCHANGED breaker
        BY <3>1, <3>3, Zenon DEF Counted, FieldInv, breaker
      <3> QED
        BY <1>2, <3>2, <3>3
    <2> QED
      BY <2>1, <2>2, <2>3 DEF FieldInv
  <1>3. CASE Tick /\ UNCHANGED <<object, breaker>>
    BY <1>2, <1>3 DEF Tick
  <1>4. CASE Cooled
    BY <1>2, <1>4 DEF Cooled, vars
  <1>5. CASE UNCHANGED fieldVars
    BY <1>2, <1>5 DEF fieldVars, vars
  <1> QED
    BY <1>1, <1>3, <1>4, <1>5 DEF FieldNext

(* What a lane books is what its payload holds, and in a cooldown only      *)
(* lanes that passed the breaker before can still fail: FieldInv holds in   *)
(* every reachable state.                                                   *)
THEOREM FieldInvariance == FieldSpec => []FieldInv
  <1>1. FieldSpec => []TypeOK
    BY LanesUsePools, TypeCorrect, PTL
  <1> QED
    BY <1>1, FieldInvInit, FieldInvStep, PTL DEF FieldSpec

(* A component that failed is not asked by a whole backlog: in one cooldown *)
(* at most the requests of the other lanes already under way still fail.    *)
THEOREM StampedeBounded == FieldSpec => []NoStampede
  <1>1. FieldInv => NoStampede
    BY PassedCount DEF FieldInv, Counted, NoStampede
  <1> QED
    BY <1>1, FieldInvariance, PTL

(* The site, the job row and the caller are told what the payload holds.    *)
THEOREM ReportsHold == FieldSpec => []ReportIsTrue
  <1>1. FieldInv => ReportIsTrue
    BY DEF FieldInv, LaneInv, Booked, Told, ReportIsTrue
  <1> QED
    BY <1>1, FieldInvariance, PTL

-----------------------------------------------------------------------------
(* SiteBinding: a site with another plugin is not worked on for longer than *)
(* one verification counts.                                                 *)

Document == [plugin : Plugins, stamp : Nat \cup {Unset}, route : {"first", "second"}]
RoundState == [at : {"rest", "gate", "ping", "save", "keep", "work"},
               doc : Document \cup {Absent}, day : Nat]

\* The last day on which the plugin may have been what a copy says.
Bound == Later(site.since, vouched)

\* No copy says of a later day that the site had the translation plugin.
SoundUnder(e, plugin, bound, d) ==
  /\ e \in Document /\ e.stamp <= d
  /\ plugin # "ats" /\ e.plugin = "ats" => e.stamp <= bound

Sound(e) == SoundUnder(e, site.plugin, Bound, day)

\* The day work goes by.
DatedUnder(n, plugin, bound, d) == n <= d /\ (plugin # "ats" => n - bound <= TTL)

Dated(n) == DatedUnder(n, site.plugin, Bound, day)

\* What a round has in hand, and the day it goes by.
SoundRound(r) ==
  /\ run[r].doc # Absent => Sound(run[r].doc)
  /\ run[r].at \in {"ping", "save", "keep", "work"} => Sound(run[r].doc)
  /\ run[r].at \in {"save", "keep"} => run[r].day = run[r].doc.stamp
  /\ run[r].at = "work" => Dated(run[r].day)

Calendar ==
  /\ day \in Nat /\ vouched \in Nat /\ vouched <= day
  /\ site.plugin \in Plugins /\ site.since \in Nat /\ site.since <= day
  /\ site.route \in {"first", "second"}
  /\ site = [plugin |-> site.plugin, since |-> site.since, route |-> site.route]

Bindings == {mem, disk, edit.doc} \ {Absent}

BindingInv ==
  /\ Calendar /\ run \in [Runs -> RoundState]
  /\ edit = [at |-> edit.at, doc |-> edit.doc]
  /\ \A e \in Bindings : Sound(e)
  /\ \A r \in Runs : SoundRound(r)

SoundThen(e) == SoundUnder(e, site'.plugin, Bound', day')
DatedThen(n) == DatedUnder(n, site'.plugin, Bound', day')

\* Whatever happens to the site, the clock and the operators' word, a copy
\* stays sound and a day of work stays one.
Lasting ==
  /\ Calendar' /\ day <= day' /\ Bound <= Bound' /\ Bound' \in Nat
  /\ \A e : Sound(e) => SoundThen(e)
  /\ \A n \in Nat : Dated(n) => DatedThen(n)

LEMMA WorldLasts ==
  ASSUME Calendar, Calendar', day <= day',
         \/ site'.plugin = site.plugin /\ Bound <= Bound'
         \/ Bound' = day
  PROVE  Lasting
  <1>1. Bound \in Nat /\ Bound <= day /\ Bound' \in Nat /\ Bound' <= day'
    BY DEF Calendar, Bound, Later
  <1>2. Bound <= Bound'
    BY <1>1 DEF Calendar
  <1>3. ASSUME NEW e, Sound(e) PROVE SoundThen(e)
    <2>1. e \in Document /\ e.stamp \in Int
      BY <1>3 DEF Sound, SoundUnder, Document, Unset
    <2> QED
      BY <2>1, <1>1, <1>2, <1>3 DEF Sound, SoundThen, SoundUnder, Calendar
  <1>4. ASSUME NEW n \in Nat, Dated(n) PROVE DatedThen(n)
    BY <1>1, <1>2, <1>4, SizesAssumption DEF Dated, DatedThen, DatedUnder, Calendar
  <1> QED
    BY <1>1, <1>2, <1>3, <1>4 DEF Lasting

LEMMA StepLasts ==
  ASSUME BindingInv, [BindingNext]_bindingVars
  PROVE  Lasting
  <1>1. CASE UNCHANGED <<site, day, vouched>>
    <2>1. Calendar' /\ Bound' = Bound
      BY <1>1 DEF BindingInv, Calendar, Bound
    <2> QED
      BY <1>1, <2>1, WorldLasts DEF BindingInv, Calendar, Bound, Later
  <1>2. CASE DayPasses
    BY <1>2, WorldLasts DEF DayPasses, BindingInv, Calendar, Bound, Later, binding
  <1>3. CASE Replaced
    <2> DEFINE other == CHOOSE p \in Plugins : p # site.plugin
    <2>1. other \in Plugins
      BY DEF Plugins
    <2> HIDE DEF other
    <2>2. /\ site' = [plugin |-> other, since |-> day, route |-> site.route]
          /\ day' = day /\ vouched' = vouched
      BY <1>3 DEF Replaced, BindingInv, Calendar, binding, other
    <2>3. Calendar' /\ Bound' = day /\ day' = day
      BY <2>1, <2>2 DEF BindingInv, Calendar, Bound, Later
    <2> QED
      BY <2>3, WorldLasts DEF BindingInv, Calendar
  <1>4. CASE Moved
    BY <1>4, WorldLasts DEF Moved, BindingInv, Calendar, Bound, Later, binding
  <1>5. CASE vouched' \in {vouched, day} /\ UNCHANGED <<site, day>>
    BY <1>5, WorldLasts DEF BindingInv, Calendar, Bound, Later
  <1>6. CASE Upsert \/ Import
    BY <1>5, <1>6 DEF Upsert, Import, Edits, Vouches, world
  <1>7. CASE Delete \/ Test
    BY <1>1, <1>7 DEF Delete, Test, Edits, world
  <1>8. CASE Store \/ Keep \/ Restart
    BY <1>1, <1>8 DEF Store, Keep, Restart, world
  <1>9. ASSUME NEW r \in Runs, RunStep(r) PROVE Lasting
    BY <1>1, <1>9
       DEF RunStep, Begin, Gate, Verified, Unverified, SaveIdentity, KeepIdentity, SaveFile,
           Worked, WorkFails, RouteRefreshed, RouteLost, world, binding
  <1>10. CASE UNCHANGED bindingVars
    BY <1>1, <1>10 DEF bindingVars
  <1> QED
    BY <1>2, <1>3, <1>4, <1>6, <1>7, <1>8, <1>9, <1>10 DEF BindingNext

\* A round keeps what it knows while it stays where it is.
LEMMA RoundLasts ==
  ASSUME BindingInv, Lasting, NEW r \in Runs, run'[r] = run[r]
  PROVE  SoundRound(r)'
  <1>1. SoundRound(r) /\ run[r].day \in Nat
    BY DEF BindingInv, RoundState
  <1> QED
    BY <1>1 DEF SoundRound, Sound, Dated, SoundThen, DatedThen, Lasting

\* A step of one round leaves the others alone.
LEMMA RoundStep ==
  ASSUME BindingInv, Lasting, NEW r \in Runs, NEW s \in RoundState,
         run' = [run EXCEPT ![r] = s], UNCHANGED edit,
         s.doc # Absent \/ s.at \in {"ping", "save", "keep", "work"} => SoundThen(s.doc),
         s.at \in {"save", "keep"} => s.day = s.doc.stamp,
         s.at = "work" => DatedThen(s.day),
         \A e \in {mem, disk}' \ {Absent} : e \in {mem, disk, s.doc} \/ SoundThen(e)
  PROVE  BindingInv'
  <1>1. run' \in [Runs -> RoundState] /\ run'[r] = s /\ \A q \in Runs \ {r} : run'[q] = run[q]
    BY DEF BindingInv
  <1>2. ASSUME NEW q \in Runs PROVE SoundRound(q)'
    <2>1. CASE q = r
      BY <1>1, <2>1 DEF SoundRound, Sound, SoundThen, Dated, DatedThen
    <2>2. CASE q # r
      BY <1>1, <2>2, RoundLasts
    <2> QED
      BY <2>1, <2>2
  <1>3. ASSUME NEW e \in Bindings' PROVE Sound(e)'
    <2>1. CASE e \in Bindings
      BY <2>1 DEF BindingInv, Lasting, Sound, SoundThen
    <2>2. CASE e \notin Bindings
      BY <1>3, <2>2 DEF Bindings, Sound, SoundThen
    <2> QED
      BY <2>1, <2>2
  <1>4. Calendar' /\ edit' = [at |-> edit'.at, doc |-> edit'.doc]
    BY DEF BindingInv, Lasting
  <1> QED
    BY <1>1, <1>2, <1>3, <1>4 DEF BindingInv

\* What a copy is worth now it is worth after the step.
LEMMA StaysSound ==
  ASSUME Lasting, NEW e, Sound(e)
  PROVE  SoundThen(e) /\ e \in Document
  BY DEF Lasting, Sound, SoundUnder

LEMMA OverStep ==
  ASSUME BindingInv, Lasting, NEW r \in Runs, Over(r), UNCHANGED <<mem, disk, edit>>
  PROVE  BindingInv'
  <1>1. Rest \in RoundState /\ Rest.doc = Absent /\ Rest.at = "rest"
    BY DEF Rest, RoundState
  <1> QED
    BY <1>1, RoundStep DEF Over

\* Work that is sent goes by the day of a sound copy.
LEMMA DispatchStep ==
  ASSUME BindingInv, Lasting, NEW r \in Runs, NEW e, NEW d \in Nat, Dispatch(r, e, d),
         Sound(e), e.plugin = "ats" => Dated(d), UNCHANGED edit,
         \A b \in {mem, disk}' \ {Absent} : b \in {mem, disk, e}
  PROVE  BindingInv'
  <1>1. SoundThen(e) /\ e \in Document
    BY StaysSound
  <1>2. ASSUME NEW b \in {mem, disk}' \ {Absent} PROVE b \in {mem, disk} \/ SoundThen(b)
    BY <1>1
  <1>3. CASE e.plugin = "ats"
    <2> DEFINE s == [at |-> "work", doc |-> e, day |-> d]
    <2>1. s \in RoundState /\ run' = [run EXCEPT ![r] = s]
      BY <1>1, <1>3 DEF RoundState, Dispatch
    <2>2. DatedThen(d)
      BY <1>3 DEF Lasting
    <2> QED
      BY <1>1, <1>2, <2>1, <2>2, RoundStep
  <1>4. CASE e.plugin # "ats"
    <2>1. Rest \in RoundState /\ Rest.doc = Absent /\ Rest.at = "rest" /\ run' = [run EXCEPT ![r] = Rest]
      BY <1>4 DEF Rest, RoundState, Dispatch
    <2> QED
      BY <1>2, <2>1, RoundStep
  <1> QED
    BY <1>3, <1>4

LEMMA GateStep ==
  ASSUME BindingInv, Lasting, NEW r \in Runs, Begin(r) \/ Gate(r)
  PROVE  BindingInv'
  <1>0. run[r] \in RoundState /\ SoundRound(r) /\ day \in Nat
    BY DEF BindingInv, Calendar
  <1>1. CASE Begin(r)
    <2> DEFINE e == IF agent THEN mem ELSE disk
               s == [at |-> "gate", doc |-> e, day |-> 0]
    <2>1. e # Absent => Sound(e) /\ SoundThen(e) /\ e \in Document
      BY StaysSound DEF BindingInv, Bindings
    <2>2. s \in RoundState /\ run' = [run EXCEPT ![r] = s] /\ UNCHANGED <<mem, disk, edit>>
      BY <1>1, <2>1 DEF Begin, RoundState, binding
    <2> QED
      BY <2>1, <2>2, RoundStep
  <1>2. CASE Gate(r)
    <2> DEFINE e == run[r].doc
    <2>0. UNCHANGED <<mem, disk, edit>>
      BY <1>2 DEF Gate, binding
    <2>1. CASE e = Absent /\ Over(r)
      BY <2>0, <2>1, OverStep
    <2>2. CASE e # Absent /\ Asks(r)
      <3> DEFINE s == [run[r] EXCEPT !.at = "ping"]
      <3>1. s \in RoundState /\ run' = [run EXCEPT ![r] = s] /\ s.doc = e /\ s.at = "ping"
        BY <1>0, <2>2 DEF Asks, Step, RoundState, BindingInv
      <3>2. SoundThen(e)
        BY <1>0, <2>2, StaysSound DEF SoundRound
      <3> QED
        BY <2>0, <3>1, <3>2, RoundStep
    <2>3. CASE e # Absent /\ Fresh(e) /\ Dispatch(r, e, day)
      <3>1. Sound(e)
        BY <1>0, <2>3 DEF SoundRound
      <3>2. e.plugin = "ats" => Dated(day)
        <4>1. e.stamp \in Int /\ Bound \in Int
          BY <3>1, <2>3 DEF Sound, SoundUnder, Document, Unset, BindingInv, Calendar, Bound, Later
        <4> QED
          BY <1>0, <2>3, <3>1, <4>1, SizesAssumption
             DEF Fresh, Dated, DatedUnder, Sound, SoundUnder
      <3> QED
        BY <1>0, <2>0, <2>3, <3>1, <3>2, DispatchStep
    <2> QED
      BY <1>2, <2>1, <2>2, <2>3 DEF Gate
  <1> QED
    BY <1>1, <1>2

LEMMA PingStep ==
  ASSUME BindingInv, Lasting, NEW r \in Runs, Verified(r) \/ Unverified(r)
  PROVE  BindingInv'
  <1>1. CASE Verified(r)
    <2> DEFINE e == [run[r].doc EXCEPT !.plugin = site.plugin, !.stamp = day]
               s == [run[r] EXCEPT !.at = "save", !.doc = e, !.day = day]
    <2>1. run[r] \in RoundState /\ Sound(run[r].doc) /\ day \in Nat /\ site.plugin \in Plugins
      BY <1>1 DEF BindingInv, Calendar, SoundRound, Verified
    <2>2. e \in Document /\ e.stamp = day /\ e.plugin = site.plugin
      BY <2>1 DEF Sound, SoundUnder, Document
    <2>3. run' = [run EXCEPT ![r] = s] /\ UNCHANGED <<mem, disk, edit>>
      BY <1>1 DEF Verified, binding
    <2> HIDE DEF e
    <2>4. Sound(e)
      BY <2>1, <2>2 DEF Sound, SoundUnder
    <2>5. SoundThen(e)
      BY <2>4, StaysSound
    <2>6. s \in RoundState /\ s.at = "save" /\ s.doc = e /\ s.day = day
      BY <2>1, <2>2 DEF RoundState
    <2> QED
      BY <2>2, <2>3, <2>5, <2>6, RoundStep
  <1>2. CASE Unverified(r)
    BY <1>2, OverStep DEF Unverified, binding
  <1> QED
    BY <1>1, <1>2

LEMMA SaveStep ==
  ASSUME BindingInv, Lasting, NEW r \in Runs,
         SaveIdentity(r) \/ SaveFile(r) \/ KeepIdentity(r)
  PROVE  BindingInv'
  <1>1. /\ run[r] \in RoundState /\ Sound(run[r].doc) /\ run[r].day = run[r].doc.stamp
        /\ run[r].at \in {"save", "keep"}
    BY DEF BindingInv, SoundRound, SaveIdentity, SaveFile, KeepIdentity
  <1>2. run[r].day \in Nat /\ (run[r].doc.plugin = "ats" => Dated(run[r].day))
    BY <1>1, SizesAssumption
       DEF RoundState, Dated, DatedUnder, Sound, SoundUnder, BindingInv, Calendar, Bound, Later
  <1>3. CASE SaveIdentity(r)
    <2> DEFINE s == [run[r] EXCEPT !.at = "keep"]
    <2>1. /\ s \in RoundState /\ run' = [run EXCEPT ![r] = s] /\ s.doc = run[r].doc
          /\ s.at = "keep" /\ s.day = run[r].day
      BY <1>1, <1>3 DEF SaveIdentity, Step, RoundState, BindingInv
    <2> QED
      BY <1>1, <1>3, <2>1, RoundStep, StaysSound DEF SaveIdentity
  <1>4. CASE SaveFile(r)
    BY <1>1, <1>2, <1>4, DispatchStep DEF SaveFile
  <1>5. CASE KeepIdentity(r)
    BY <1>1, <1>2, <1>5, DispatchStep DEF KeepIdentity
  <1> QED
    BY <1>3, <1>4, <1>5

LEMMA WorkStep ==
  ASSUME BindingInv, Lasting, NEW r \in Runs,
         Worked(r) \/ WorkFails(r) \/ RouteRefreshed(r) \/ RouteLost(r)
  PROVE  BindingInv'
  <1>1. CASE Worked(r) \/ WorkFails(r) \/ RouteLost(r)
    BY <1>1, OverStep DEF Worked, WorkFails, RouteLost, binding
  <1>2. CASE RouteRefreshed(r)
    <2> DEFINE e == [run[r].doc EXCEPT !.route = site.route]
               s == [run[r] EXCEPT !.doc = e]
    <2>1. /\ run[r] \in RoundState /\ Sound(run[r].doc) /\ Dated(run[r].day)
          /\ run[r].at = "work" /\ site.route \in {"first", "second"} /\ Bound \in Nat /\ day \in Nat
      BY <1>2 DEF BindingInv, Calendar, SoundRound, RouteRefreshed, Bound, Later
    <2>2. Sound(e)
      BY <2>1 DEF Sound, SoundUnder, Document
    <2>3. /\ s \in RoundState /\ run' = [run EXCEPT ![r] = s] /\ s.doc = e
          /\ s.at = "work" /\ s.day = run[r].day /\ s.day \in Nat
      <3>1. run' = [run EXCEPT ![r] = s]
        BY <1>2 DEF RouteRefreshed
      <3> QED
        BY <3>1, <2>1, <2>2 DEF RoundState, Sound, SoundUnder
    <2>4. Sound(Routed)
      <3>1. CASE disk = Absent
        BY <2>1, <3>1 DEF Routed, Sound, SoundUnder, Document, Unset, Plugins
      <3>2. CASE disk # Absent
        <4>1. Sound(disk)
          BY <3>2 DEF BindingInv, Bindings
        <4> QED
          BY <2>1, <3>2, <4>1 DEF Routed, Sound, SoundUnder, Document
      <3> QED
        BY <3>1, <3>2
    <2>5. disk' = Routed /\ mem' = Routed /\ UNCHANGED edit
      BY <1>2 DEF RouteRefreshed
    <2>6. PICK w : w = Routed
      OBVIOUS
    <2>7. \A b \in {mem, disk}' \ {Absent} : SoundThen(b)
      BY <2>4, <2>5, <2>6, StaysSound
    <2>8. SoundThen(s.doc) /\ DatedThen(s.day)
      BY <2>1, <2>2, <2>3, StaysSound DEF Lasting
    <2> QED
      BY <2>3, <2>5, <2>7, <2>8, RoundStep
  <1> QED
    BY <1>1, <1>2

\* A step of the operators leaves the rounds alone.
LEMMA EditStep ==
  ASSUME BindingInv, Lasting, UNCHANGED run, edit' = [at |-> edit'.at, doc |-> edit'.doc],
         \A e \in Bindings' : e \in Bindings \/ SoundThen(e)
  PROVE  BindingInv'
  <1>1. \A e \in Bindings' : SoundThen(e)
    BY DEF BindingInv, Lasting
  <1>2. \A r \in Runs : SoundRound(r)'
    BY RoundLasts
  <1> QED
    BY <1>1, <1>2 DEF BindingInv, Lasting, Sound, SoundThen

\* What an operator writes down.
LEMMA EditsStep ==
  ASSUME BindingInv, Lasting, NEW e, e # Absent => SoundThen(e), Edits(e)
  PROVE  BindingInv'
  <1>1. /\ UNCHANGED <<mem, disk, run>>
        /\ edit' = [at |-> "store", doc |-> e]
    BY DEF Edits
  <1>2. edit' = [at |-> edit'.at, doc |-> edit'.doc] /\ edit'.doc = e
    BY <1>1
  <1>3. \A b \in Bindings' : b \in Bindings \/ SoundThen(b)
    BY <1>1, <1>2 DEF Bindings
  <1> QED
    BY <1>1, <1>2, <1>3, EditStep

LEMMA OperatorStep ==
  ASSUME BindingInv, Lasting, Upsert \/ Import \/ Delete \/ Test
  PROVE  BindingInv'
  <1>1. Known # Absent => Sound(Known) /\ Known \in Document
    BY DEF BindingInv, Bindings, Known, Sound, SoundUnder
  <1>2. /\ day \in Nat /\ site.plugin \in Plugins /\ site.route \in {"first", "second"}
        /\ site.since \in Nat /\ site.since <= day /\ vouched \in Nat
    BY DEF BindingInv, Calendar
  <1>3. CASE Upsert
    <2>1. PICK p \in Plugins :
            /\ Edits([plugin |-> p, stamp |-> IF Known = Absent THEN Unset ELSE Known.stamp,
                      route |-> site.route])
            /\ Vouches(p)
      BY <1>3 DEF Upsert
    <2> DEFINE stamp == IF Known = Absent THEN Unset ELSE Known.stamp
               e == [plugin |-> p, stamp |-> stamp, route |-> site.route]
    <2>2. stamp \in Nat \cup {Unset} /\ stamp <= day
      BY <1>1, <1>2 DEF Sound, SoundUnder, Document, Unset
    <2>3. UNCHANGED <<site, day>>
      BY <2>1 DEF Edits, world
    <2>4. Bound' \in Nat
      BY DEF Lasting
    <2>5. site.plugin # "ats" /\ p = "ats" => stamp <= Bound'
      <3>1. CASE Known = Absent
        BY <2>4, <3>1 DEF Unset
      <3>2. CASE Known # Absent /\ Known.plugin = p
        <4>1. vouched' = vouched /\ Bound' = Bound
          BY <2>1, <2>3, <3>2 DEF Vouches, Bound
        <4> QED
          BY <1>1, <3>2, <4>1 DEF Sound, SoundUnder
      <3>3. CASE Known # Absent /\ Known.plugin # p
        <4>1. Bound' = day
          BY <1>2, <2>1, <2>3, <3>3 DEF Vouches, Bound, Later
        <4> QED
          BY <2>2, <4>1
      <3> QED
        BY <3>1, <3>2, <3>3
    <2> HIDE DEF stamp
    <2>6. SoundThen(e)
      BY <1>2, <2>2, <2>3, <2>5 DEF SoundThen, SoundUnder, Document
    <2>7. Edits(e)
      BY <2>1 DEF stamp
    <2> HIDE DEF e
    <2> QED
      BY <2>6, <2>7, EditsStep
  <1>4. CASE Import
    <2>1. PICK p \in Plugins : Edits([plugin |-> p, stamp |-> day, route |-> site.route])
      BY <1>4 DEF Import
    <2> DEFINE e == [plugin |-> p, stamp |-> day, route |-> site.route]
    <2>2. UNCHANGED <<site, day>> /\ Bound' = day
      BY <1>2, <1>4, <2>1 DEF Import, Edits, world, Bound, Later
    <2>3. SoundThen(e)
      BY <1>2, <2>2 DEF SoundThen, SoundUnder, Document
    <2> QED
      BY <2>1, <2>3, EditsStep
  <1>5. CASE Delete
    BY <1>5, EditsStep DEF Delete
  <1>6. CASE Test
    <2> DEFINE e == [Known EXCEPT !.plugin = site.plugin, !.stamp = day]
    <2>1. Edits(e) /\ UNCHANGED <<site, day>> /\ Known \in Document
      BY <1>1, <1>6 DEF Test, Edits, world
    <2>2. e \in Document /\ e.stamp = day /\ e.plugin = site.plugin
      BY <1>2, <2>1 DEF Document
    <2> HIDE DEF e
    <2>3. SoundThen(e)
      BY <1>2, <2>1, <2>2 DEF SoundThen, SoundUnder
    <2> QED
      BY <2>1, <2>3, EditsStep
  <1> QED
    BY <1>3, <1>4, <1>5, <1>6

LEMMA BindingStep ==
  ASSUME BindingInv, [BindingNext]_bindingVars
  PROVE  BindingInv'
  <1>0. Lasting
    BY StepLasts
  <1>1. ASSUME NEW r \in Runs, RunStep(r) PROVE BindingInv'
    BY <1>0, <1>1, GateStep, PingStep, SaveStep, WorkStep DEF RunStep
  <1>2. CASE Upsert \/ Import \/ Delete \/ Test
    BY <1>0, <1>2, OperatorStep
  <1>3. CASE Store
    <2>1. edit' = [at |-> edit'.at, doc |-> edit'.doc] /\ edit'.doc \in {edit.doc, Absent}
      BY <1>3 DEF Store, NoEdit, BindingInv
    <2> QED
      BY <1>0, <1>3, <2>1, EditStep DEF Store, Bindings
  <1>4. CASE Keep
    <2>1. edit' = [at |-> edit'.at, doc |-> edit'.doc] /\ edit'.doc = Absent
      BY <1>4 DEF Keep, NoEdit
    <2> QED
      BY <1>0, <1>4, <2>1, EditStep DEF Keep, Bindings
  <1>5. CASE Restart
    <2>1. /\ edit' = [at |-> edit'.at, doc |-> edit'.doc] /\ edit'.doc = Absent
          /\ run' = [r \in Runs |-> Rest] /\ mem' = disk /\ disk' = disk
      BY <1>5 DEF Restart, NoEdit
    <2>2. Rest \in RoundState /\ Rest.doc = Absent /\ Rest.at = "rest"
      BY DEF Rest, RoundState
    <2>3. \A e \in Bindings' : Sound(e)'
      BY <1>0, <2>1 DEF Bindings, BindingInv, Lasting, Sound, SoundThen
    <2>4. \A r \in Runs : SoundRound(r)'
      BY <2>1, <2>2 DEF SoundRound
    <2> QED
      BY <1>0, <2>1, <2>2, <2>3, <2>4 DEF BindingInv, Lasting
  <1>6. CASE DayPasses \/ Replaced \/ Moved \/ UNCHANGED bindingVars
    <2>1. UNCHANGED <<mem, disk, run, edit>>
      BY <1>6 DEF DayPasses, Replaced, Moved, bindingVars, binding
    <2> QED
      BY <1>0, <2>1, EditStep DEF Bindings, BindingInv
  <1> QED
    BY <1>1, <1>2, <1>3, <1>4, <1>5, <1>6 DEF BindingNext

THEOREM BindingInvariance == BindingSpec => []BindingInv
  <1>1. BindingInit => BindingInv
    <2> SUFFICES ASSUME BindingInit PROVE BindingInv
      OBVIOUS
    <2>1. mem \in Document /\ mem.stamp <= 0 /\ disk = mem /\ edit = NoEdit /\ day = 0 /\ vouched = 0
      BY DEF BindingInit, Document, Unset, Plugins
    <2>2. Calendar /\ site.plugin = "ats"
      BY DEF BindingInit, Calendar, Plugins
    <2>3. \A e \in Bindings : Sound(e)
      BY <2>1, <2>2 DEF Bindings, NoEdit, Sound, SoundUnder
    <2>4. Rest \in RoundState /\ Rest.doc = Absent /\ Rest.at = "rest"
      BY DEF Rest, RoundState
    <2>5. run \in [Runs -> RoundState] /\ \A r \in Runs : SoundRound(r)
      BY <2>4 DEF BindingInit, SoundRound
    <2> QED
      BY <2>1, <2>2, <2>3, <2>5 DEF BindingInv, NoEdit
  <1> QED
    BY <1>1, BindingStep, PTL DEF BindingSpec

\* A site whose plugin was replaced is sent work for one validity period at
\* the most, whichever copies of its binding are written back late.
THEOREM WorkRunsOut == BindingSpec => []WrongPluginRunsOut
  <1>1. BindingInv => WrongPluginRunsOut
    BY DEF BindingInv, SoundRound, Dated, DatedUnder, Bound, WrongPluginRunsOut
  <1> QED
    BY <1>1, BindingInvariance, PTL
=============================================================================
