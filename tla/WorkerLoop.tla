------------------------------ MODULE WorkerLoop ------------------------------
(***************************************************************************)
(* The worker loop of the agent behind the web interface: an operator      *)
(* starts it, stops it, asks for runs by hand, signs in and out.  Starting *)
(* and stopping go through one lock and the handle of the task; the loop   *)
(* leaves by itself when the control plane refuses its session.  A run     *)
(* copies the session when it begins and writes it back when it ends.      *)
(*                                                                         *)
(* What a run does with a site is SiteBinding's and DiscoveryRun's.        *)
(***************************************************************************)
EXTENDS Integers, FiniteSets

CONSTANTS
  Handlers,     \* requests that can be under way at one time
  Loops,        \* tasks that can run the loop
  None,
  MaxRequests   \* requests in all

ASSUME RequestsAssumption == MaxRequests \in Nat
ASSUME LoopsAssumption == Loops # {} /\ IsFiniteSet(Loops)
ASSUME NoneAssumption == None \notin Loops \cup Handlers

VARIABLES
  server,     \* a control plane is configured
  running,    \* worker_running
  slot,       \* worker_handle
  slotlock,   \* who holds its mutex across an await
  lifecycle,  \* who holds worker_lifecycle
  shown,      \* worker_loop_running, what the interface shows
  session,    \* signed in to the control plane
  loop,       \* the tasks
  tick,       \* the run of a task or of a request
  request,    \* requests under way
  asked, signedOut  \* requests so far; a sign-out was among them

vars == <<server, running, slot, slotlock, lifecycle, shown, session, loop, tick, request,
          asked, signedOut>>
control == <<running, slot, slotlock, lifecycle, shown>>
world == <<server, asked, signedOut>>

Runners == Loops \cup Handlers

Off == [at |-> "off", dying |-> FALSE, woken |-> FALSE]
Rest == [at |-> "rest", session |-> FALSE]
Free == [kind |-> "none", at |-> "none", loop |-> None]
First(set) == CHOOSE x \in set : TRUE

\* With the auto start on, the loop is there before the first request is taken.
Init ==
  /\ server \in BOOLEAN /\ session = server
  /\ \E auto \in {First(Loops), None} :
       /\ running = (auto # None) /\ slot = auto /\ shown = (auto # None)
       /\ loop = [l \in Loops |-> IF l = auto THEN [Off EXCEPT !.at = "check"] ELSE Off]
  /\ slotlock = None /\ lifecycle = None
  /\ tick = [r \in Runners |-> Rest] /\ request = [h \in Handlers |-> Free]
  /\ asked = 0 /\ signedOut = FALSE

-----------------------------------------------------------------------------
(* A run: web_ui_run_worker_once *)

Steady(r) == r \in Loops => ~loop[r].dying  \* an aborted task ends where it waits

\* The session a run works with; without one it is refused at once.
Begun == [at |-> IF server /\ ~session THEN "denied" ELSE "work", session |-> session]

\* The control plane no longer knows the session: the error ends the run.
Denied(r) ==
  /\ tick[r].at = "work" /\ server /\ ~session /\ Steady(r)
  /\ tick' = [tick EXCEPT ![r].at = "denied"]
  /\ UNCHANGED <<world, control, session, loop, request>>

\* Any other error.
Fails(r) ==
  /\ tick[r].at = "work" /\ Steady(r)
  /\ tick' = [tick EXCEPT ![r].at = "failed"]
  /\ UNCHANGED <<world, control, session, loop, request>>

\* The session of the run becomes the session of the agent.
Worked(r) ==
  /\ tick[r].at = "work" /\ Steady(r)
  /\ session' = (server /\ tick[r].session)
  /\ tick' = [tick EXCEPT ![r].at = "done"]
  /\ UNCHANGED <<world, control, loop, request>>

TickStep(r) == Denied(r) \/ Fails(r) \/ Worked(r)

-----------------------------------------------------------------------------
(* The loop *)

At(l, at) == loop[l].at = at
Goto(l, at) == loop' = [loop EXCEPT ![l].at = at]

Check(l) ==
  /\ At(l, "check")
  /\ IF running THEN Goto(l, "tick") /\ tick' = [tick EXCEPT ![l] = Begun]
                ELSE Goto(l, "tail") /\ UNCHANGED tick
  /\ UNCHANGED <<world, control, session, request>>

TickedOn(l) ==  \* slip: a refusal is tried again like any other failure
  /\ At(l, "tick") /\ tick[l].at \in {"done", "failed", "denied"}
  /\ Goto(l, "listen") /\ tick' = [tick EXCEPT ![l] = Rest]
  /\ UNCHANGED <<world, control, session, request>>

\* A refused session stops the loop; any other failure is tried again.
Ticked(l) ==
  /\ At(l, "tick") /\ tick[l].at \in {"done", "failed", "denied"}
  /\ running' = (running /\ tick[l].at # "denied")
  /\ Goto(l, "listen") /\ tick' = [tick EXCEPT ![l] = Rest]
  /\ UNCHANGED <<world, slot, slotlock, lifecycle, shown, session, request>>

\* Subscribed to the stop before the flag is read again.
Listen(l) ==
  /\ At(l, "listen")
  /\ loop' = [loop EXCEPT ![l].at = "recheck", ![l].woken = FALSE]
  /\ UNCHANGED <<world, control, session, tick, request>>

Recheck(l) ==
  /\ At(l, "recheck")
  /\ Goto(l, IF running THEN "settle" ELSE "tail")
  /\ UNCHANGED <<world, control, session, tick, request>>

\* The poll interval is read under the lock of the shared state.
Settle(l) ==
  /\ At(l, "settle")
  /\ Goto(l, "asleep")
  /\ UNCHANGED <<world, control, session, tick, request>>

\* The poll interval, or the stop.
Wake(l) ==
  /\ At(l, "asleep") /\ ~loop[l].dying
  /\ Goto(l, "check")
  /\ UNCHANGED <<world, control, session, tick, request>>

TailFlag(l) ==
  /\ At(l, "tail")
  /\ running' = FALSE /\ Goto(l, "show")
  /\ UNCHANGED <<world, slot, slotlock, lifecycle, shown, session, tick, request>>

TailShow(l) ==
  /\ At(l, "show")
  /\ shown' = FALSE /\ Goto(l, "clear")
  /\ UNCHANGED <<world, running, slot, slotlock, lifecycle, session, tick, request>>

TailClear(l) ==
  /\ At(l, "clear") /\ slotlock = None
  /\ slot' = None /\ loop' = [loop EXCEPT ![l] = Off]
  /\ UNCHANGED <<world, running, slotlock, lifecycle, shown, session, tick, request>>

\* An aborted task is dropped where it waits, and its run with it.
Dies(l) ==
  /\ loop[l].dying /\ loop[l].at \in {"tick", "settle", "asleep", "show", "clear"}
  /\ loop' = [loop EXCEPT ![l] = Off] /\ tick' = [tick EXCEPT ![l] = Rest]
  /\ UNCHANGED <<world, control, session, request>>

LoopStep(l) ==
  \/ Check(l) \/ Ticked(l) \/ Listen(l) \/ Recheck(l) \/ Settle(l) \/ Wake(l)
  \/ TailFlag(l) \/ TailShow(l) \/ TailClear(l) \/ Dies(l)

-----------------------------------------------------------------------------
(* Requests that start and stop the loop *)

Spare == {g \in Handlers : request[g] = Free}

\* Requests are served by whoever is free.
Asks(h, kind, at) ==
  /\ asked < MaxRequests /\ Spare # {} /\ h = First(Spare)
  /\ asked' = asked + 1 /\ signedOut' = (signedOut \/ kind = "logout")
  /\ request' = [request EXCEPT ![h] = [kind |-> kind, at |-> at, loop |-> None]]
  /\ UNCHANGED server

Is(h, kind, at) == request[h].kind = kind /\ request[h].at = at
Step(h, at) == request' = [request EXCEPT ![h].at = at]
Answered(h) == request' = [request EXCEPT ![h] = Free]

AskStart(h) ==
  /\ server => session
  /\ Asks(h, "start", "lock")
  /\ UNCHANGED <<control, session, loop, tick>>

AskStop(h) ==
  /\ Asks(h, "stop", "lock")
  /\ UNCHANGED <<control, session, loop, tick>>

LockUnlocked(h) ==  \* slip: the lifecycle is not locked
  /\ request[h].at = "lock"
  /\ Step(h, IF request[h].kind = "stop" \/ ~running THEN "halt" ELSE "place")
  /\ UNCHANGED <<world, control, session, loop, tick>>

Lock(h) ==
  /\ request[h].at = "lock" /\ lifecycle = None
  /\ lifecycle' = h
  /\ Step(h, IF request[h].kind = "stop" \/ ~running THEN "halt" ELSE "place")
  /\ UNCHANGED <<world, running, slot, slotlock, shown, session, loop, tick>>

Halt(h) ==
  /\ request[h].at = "halt"
  /\ running' = FALSE /\ Step(h, "notify")
  /\ UNCHANGED <<world, slot, slotlock, lifecycle, shown, session, loop, tick>>

Subscribed(l) == loop[l].at \in {"recheck", "settle", "asleep"}

\* Whoever listens is woken; nobody is woken later on.
Notify(h) ==
  /\ request[h].at = "notify"
  /\ loop' = [l \in Loops |-> [loop[l] EXCEPT !.woken = @ \/ Subscribed(l)]]
  /\ Step(h, "take")
  /\ UNCHANGED <<world, control, session, tick>>

Ended(h) == IF request[h].kind = "stop" THEN "answer" ELSE "place"

Take(h) ==
  /\ request[h].at = "take" /\ slotlock = None
  /\ slot' = None
  /\ request' = [request EXCEPT ![h].loop = slot, ![h].at = IF slot = None THEN Ended(h) ELSE "wait"]
  /\ UNCHANGED <<world, running, slotlock, lifecycle, shown, session, loop, tick>>

Gone(h) == loop[request[h].loop].at = "off"

Forward(h) == request' = [request EXCEPT ![h].loop = None,
  ![h].at = IF request[h].kind = "logout" THEN "revoke" ELSE Ended(h)]

JoinedEarly(h) ==  \* slip: the abort is not waited for
  /\ \/ request[h].at \in {"wait", "abort"} /\ Gone(h)
     \/ request[h].at = "join"
  /\ Forward(h)
  /\ UNCHANGED <<world, control, session, loop, tick>>

GraceOver(h) ==
  /\ request[h].at \in {"wait", "abort"} /\ ~Gone(h)
  /\ loop' = [loop EXCEPT ![request[h].loop].dying = TRUE]
  /\ Step(h, "join")
  /\ UNCHANGED <<world, control, session, tick>>

Joined(h) ==
  /\ request[h].at \in {"wait", "abort", "join"} /\ Gone(h)
  /\ Forward(h)
  /\ UNCHANGED <<world, control, session, loop, tick>>

AnswerStop(h) ==
  /\ request[h].at = "answer"
  /\ shown' = FALSE /\ lifecycle' = None /\ Answered(h)
  /\ UNCHANGED <<world, running, slot, slotlock, session, loop, tick>>

\* The handle stays locked until the new task is in it.
Place(h) ==
  /\ request[h].at = "place" /\ slotlock = None
  /\ IF running THEN lifecycle' = None /\ Answered(h) /\ UNCHANGED <<running, slotlock>>
     ELSE slotlock' = h /\ running' = TRUE /\ Step(h, "spawn") /\ UNCHANGED lifecycle
  /\ UNCHANGED <<world, slot, shown, session, loop, tick>>

Unused == {l \in Loops : loop[l] = Off /\ \A g \in Handlers : request[g].loop # l}

Spawn(h) ==
  /\ request[h].at = "spawn" /\ Unused # {}
  /\ loop' = [loop EXCEPT ![First(Unused)].at = "check"] /\ slot' = First(Unused)
  /\ shown' = TRUE /\ slotlock' = None /\ lifecycle' = None /\ Answered(h)
  /\ UNCHANGED <<world, running, session, tick>>

-----------------------------------------------------------------------------
(* Signing in and out *)

Login(h) ==
  /\ server /\ Asks(h, "login", "exchange") /\ session' = TRUE
  /\ UNCHANGED <<control, loop, tick>>

LoginDone(h) ==
  /\ Is(h, "login", "exchange") /\ Answered(h) /\ session' = TRUE
  /\ UNCHANGED <<world, control, loop, tick>>

\* The loop is dropped; the lifecycle is not locked and nobody is notified.
AskLogout(h) ==
  /\ Asks(h, "logout", "seize")
  /\ running' = FALSE
  /\ UNCHANGED <<slot, slotlock, lifecycle, shown, session, loop, tick>>

Seize(h) ==
  /\ request[h].at = "seize" /\ slotlock = None
  /\ slot' = None
  /\ request' = [request EXCEPT ![h].loop = slot, ![h].at = IF slot = None THEN "revoke" ELSE "abort"]
  /\ UNCHANGED <<world, running, slotlock, lifecycle, shown, session, loop, tick>>

\* Revoked, or known as revoked at the control plane.
Revoked(h) ==
  /\ request[h].at = "revoke"
  /\ session' = FALSE /\ shown' = FALSE /\ Answered(h)
  /\ UNCHANGED <<world, running, slot, slotlock, lifecycle, loop, tick>>

\* Any other answer keeps the session.
RevokeFails(h) ==
  /\ request[h].at = "revoke" /\ session
  /\ shown' = FALSE /\ Answered(h)
  /\ UNCHANGED <<world, running, slot, slotlock, lifecycle, session, loop, tick>>

-----------------------------------------------------------------------------
(* A run by hand *)

AskRun(h) ==
  /\ Asks(h, "once", "run")
  /\ shown' = TRUE /\ tick' = [tick EXCEPT ![h] = Begun]
  /\ UNCHANGED <<running, slot, slotlock, lifecycle, session, loop>>

\* Rounds follow as long as they find work.
RunAgain(h) ==
  /\ Is(h, "once", "run") /\ tick[h].at = "done"
  /\ tick' = [tick EXCEPT ![h] = Begun]
  /\ UNCHANGED <<world, control, session, loop, request>>

RunOver(h) ==
  /\ Is(h, "once", "run") /\ tick[h].at \in {"done", "failed", "denied"}
  /\ shown' = FALSE /\ Answered(h) /\ tick' = [tick EXCEPT ![h] = Rest]
  /\ UNCHANGED <<world, running, slot, slotlock, lifecycle, session, loop>>

-----------------------------------------------------------------------------
Asking(h) == AskStart(h) \/ AskStop(h) \/ AskLogout(h) \/ AskRun(h) \/ Login(h)

Handling(h) ==
  \/ Lock(h) \/ Halt(h) \/ Notify(h) \/ Take(h) \/ GraceOver(h) \/ Joined(h)
  \/ AnswerStop(h) \/ Place(h) \/ Spawn(h) \/ LoginDone(h) \/ Seize(h)
  \/ Revoked(h) \/ RevokeFails(h) \/ RunOver(h)

Next ==
  \/ \E l \in Loops : LoopStep(l)
  \/ \E r \in Runners : TickStep(r)
  \/ \E h \in Handlers : Asking(h) \/ Handling(h) \/ RunAgain(h)

Spec == Init /\ [][Next]_vars

\* Tasks run on, the poll interval and the grace run out, requests are handled.
Fairness ==
  /\ \A l \in Loops : WF_vars(LoopStep(l))
  /\ \A r \in Runners : WF_vars(TickStep(r))
  /\ \A h \in Handlers : WF_vars(Handling(h))

FairSpec == Spec /\ Fairness

-----------------------------------------------------------------------------
(* What the operator can rely on *)

Live == {l \in Loops : loop[l].at # "off" /\ ~loop[l].dying}

\* However starts and stops overlap, at most one loop is at work
\* (worker_lifecycle), as long as nobody signs out in between.
OneLoop == ~signedOut => Cardinality(Live) <= 1

\* When a stop has waited, or aborted, no loop lives that could still write;
\* and a start begins only then (stop_worker_loop_inner).
StopIsFinal ==
  ~signedOut => \A h \in Handlers : request[h].at \in {"answer", "spawn"} =>
                  \A l \in Loops : loop[l].at = "off"

\* Without a session the loop comes to its end: it does not poll for ever, and
\* a sign-out that misses the handle of the task is made good by the refusal.
LoopEndsSignedOut ==
  <>[](server /\ ~session) => <>[](\A l \in Loops : loop[l].at = "off")
=============================================================================
