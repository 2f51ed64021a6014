-------------------------- MODULE WorkerLoop_proofs --------------------------
(***************************************************************************)
(* Proofs about the worker loop for any number of requests and tasks: at   *)
(* most one loop is at work and a stop leaves none behind, as long as      *)
(* nobody signs out.  Orderly says who holds the two mutexes, by which     *)
(* name a task is known that has not ended, and what the flag and the      *)
(* places of the requests say about the tasks.                             *)
(*                                                                         *)
(* And, at the end, about the pairs the loop runs (PairSync), for any      *)
(* posts, runs, handshakes and batch sizes: a key is filed under one       *)
(* identity wherever it is filed (KeysInv), and what is still owed lies    *)
(* above every cursor (CursorInv).                                         *)
(***************************************************************************)
EXTENDS WorkerLoop, PairSync, FiniteSetTheorems, WellFoundedInduction, TLAPS

Places == {"off", "check", "tick", "listen", "recheck", "settle", "asleep", "tail", "show",
           "clear"}
Kinds == {"none", "start", "stop", "login", "logout", "once"}

\* Where a request stands while it holds the lifecycle, and otherwise.
Ending == {"notify", "take", "wait", "join"}
Held == {"halt", "answer", "place", "spawn"} \cup Ending
Elsewhere == {"none", "lock", "exchange", "seize", "abort", "revoke", "run"}

LoopState == [at : Places, dying : BOOLEAN, woken : BOOLEAN]
TickState == [at : {"rest", "work", "denied", "failed", "done"}, session : BOOLEAN]
RequestState == [kind : Kinds, at : Held \cup Elsewhere, loop : Loops \cup {None}]

Flags ==
  /\ server \in BOOLEAN /\ running \in BOOLEAN /\ shown \in BOOLEAN
  /\ session \in BOOLEAN /\ signedOut \in BOOLEAN

States ==
  /\ slot \in Loops \cup {None}
  /\ slotlock \in Handlers \cup {None} /\ lifecycle \in Handlers \cup {None}
  /\ loop \in [Loops -> LoopState]
  /\ tick \in [Runners -> TickState]
  /\ request \in [Handlers -> RequestState]

TypeOK == Flags /\ States

\* Nobody signs out, so the session is there whenever there is a control plane.
SignedIn ==
  /\ session <=> server
  /\ \A r \in Runners : tick[r].at # "denied" /\ (tick[r].at = "work" => (tick[r].session <=> server))
  /\ \A h \in Handlers : /\ request[h].kind = "login" => server
                         /\ request[h].kind # "logout"
                         /\ request[h].at \notin {"seize", "abort", "revoke"}

OneHolder ==
  \A h \in Handlers :
    /\ lifecycle = h <=> request[h].at \in Held
    /\ slotlock = h <=> request[h].at = "spawn"

\* A task that has not ended is in the slot or with the request that took it.
Named ==
  /\ \A h \in Handlers : IF request[h].at \in {"wait", "join"}
                         THEN request[h].loop # None /\ slot = None
                         ELSE request[h].loop = None
  /\ \A l \in Loops : loop[l].at # "off" => slot = l \/ \E h \in Handlers : request[h].loop = l

AllOff == \A l \in Loops : loop[l].at = "off"

\* The flag is down only while a request ends the loop, or when there is none.
Flagged ==
  /\ \A l \in Loops : loop[l].at \in {"tail", "show", "clear"} => ~running
  /\ \A h \in Handlers : request[h].at \in Ending => ~running
  /\ running \/ AllOff \/ \E h \in Handlers : request[h].at \in Ending
  /\ \A h \in Handlers : request[h].at \in {"answer", "spawn"} => AllOff
  /\ \A h \in Handlers : request[h].at = "spawn" => running

Orderly == SignedIn /\ OneHolder /\ Named /\ Flagged

Inv == TypeOK /\ (signedOut \/ Orderly)

-----------------------------------------------------------------------------
(* Types                                                                    *)

LEMMA FirstIn == ASSUME NEW S, S # {} PROVE First(S) \in S
  BY DEF First

LEMMA Records ==
  /\ Off \in LoopState /\ Off.at = "off"
  /\ Rest \in TickState
  /\ Rest.at = "rest"
  /\ Free \in RequestState
  /\ Free.at = "none" /\ Free.kind = "none" /\ Free.loop = None
  BY DEF Off, Rest, Free, Places, Kinds, Held, Elsewhere, LoopState, TickState, RequestState

LEMMA Begins ==
  ASSUME session \in BOOLEAN
  PROVE  Begun \in TickState
  BY DEF Begun, TickState

LEMMA TypeInit == Init => TypeOK
  <1> SUFFICES ASSUME Init PROVE TypeOK
    OBVIOUS
  <1>1. PICK auto \in {First(Loops), None} :
          /\ running = (auto # None) /\ slot = auto /\ shown = (auto # None)
          /\ loop = [l \in Loops |-> IF l = auto THEN [Off EXCEPT !.at = "check"] ELSE Off]
    BY DEF Init
  <1>2. auto \in Loops \cup {None}
    BY FirstIn, LoopsAssumption
  <1>3. [Off EXCEPT !.at = "check"] \in LoopState
    BY DEF Off, Places, LoopState
  <1>4. loop \in [Loops -> LoopState]
    BY <1>1, <1>3, Records
  <1>5. running \in BOOLEAN /\ shown \in BOOLEAN
    BY <1>1
  <1> QED
    BY <1>1, <1>2, <1>4, <1>5, Records DEF Init, TypeOK, Flags, States

LEMMA LoopMoves ==
  ASSUME TypeOK, NEW l \in Loops, NEW at \in Places, NEW b \in BOOLEAN
  PROVE  /\ [loop EXCEPT ![l].at = at] \in [Loops -> LoopState]
         /\ [loop EXCEPT ![l].dying = b] \in [Loops -> LoopState]
         /\ [loop EXCEPT ![l].at = at, ![l].woken = b] \in [Loops -> LoopState]
         /\ [loop EXCEPT ![l] = Off] \in [Loops -> LoopState]
  BY Records DEF TypeOK, States, LoopState

LEMMA TickMoves ==
  ASSUME TypeOK, NEW r \in Runners
  PROVE  /\ [tick EXCEPT ![r] = Rest] \in [Runners -> TickState]
         /\ [tick EXCEPT ![r] = Begun] \in [Runners -> TickState]
         /\ \A at \in {"denied", "failed", "done"} :
              [tick EXCEPT ![r].at = at] \in [Runners -> TickState]
  <1>1. Begun \in TickState
    BY Begins DEF TypeOK, Flags
  <1>2. ASSUME NEW at \in {"denied", "failed", "done"}
        PROVE  [tick EXCEPT ![r].at = at] \in [Runners -> TickState]
    BY DEF TypeOK, States, TickState
  <1> QED
    BY <1>1, <1>2, Records DEF TypeOK, States

LEMMA RequestMoves ==
  ASSUME TypeOK, NEW h \in Handlers, NEW at \in Held \cup Elsewhere, NEW l \in Loops \cup {None}
  PROVE  /\ [request EXCEPT ![h].at = at] \in [Handlers -> RequestState]
         /\ [request EXCEPT ![h].loop = l, ![h].at = at] \in [Handlers -> RequestState]
         /\ [request EXCEPT ![h] = Free] \in [Handlers -> RequestState]
  BY Records DEF TypeOK, States, RequestState

LEMMA FlagStep == ASSUME TypeOK, Next PROVE Flags'
  <1>0. Flags
    BY DEF TypeOK
  <1> USE <1>0 DEF Flags, control, world
  <1>1. ASSUME NEW l \in Loops, LoopStep(l) PROVE Flags'
    BY <1>1, Zenon DEF LoopStep, Check, Ticked, Listen, Recheck, Settle, Wake,
      TailFlag, TailShow, TailClear, Dies
  <1>2. ASSUME NEW r \in Runners, TickStep(r) PROVE Flags'
    BY <1>2, Zenon DEF TickStep, Denied, Fails, Worked
  <1>3. ASSUME NEW h \in Handlers, Asking(h) PROVE Flags'
    BY <1>3, Zenon DEF Asking, AskStart, AskStop, AskLogout, Login, AskRun, Asks
  <1>4. ASSUME NEW h \in Handlers, Handling(h) PROVE Flags'
    <2>1. CASE Lock(h) \/ Halt(h) \/ Notify(h) \/ Take(h) \/ Seize(h) \/ GraceOver(h) \/ Joined(h)
      BY <2>1, Zenon DEF Lock, Halt, Notify, Take, Seize, GraceOver, Joined
    <2>2. CASE AnswerStop(h) \/ Place(h) \/ Spawn(h)
      BY <2>2, Zenon DEF AnswerStop, Place, Spawn
    <2>3. CASE LoginDone(h) \/ Revoked(h) \/ RevokeFails(h) \/ RunOver(h)
      BY <2>3, Zenon DEF LoginDone, Revoked, RevokeFails, RunOver
    <2> QED
      BY <1>4, <2>1, <2>2, <2>3 DEF Handling
  <1>5. ASSUME NEW h \in Handlers, RunAgain(h) PROVE Flags'
    BY <1>5, Zenon DEF RunAgain
  <1> QED
    BY <1>1, <1>2, <1>3, <1>4, <1>5 DEF Next

LEMMA TypeLoop == ASSUME TypeOK, NEW l \in Loops, LoopStep(l) PROVE States'
  <1> USE DEF control, world, At, Goto
  <1>0. l \in Runners /\ {"off", "tick", "tail", "listen", "recheck", "settle", "asleep", "check",
                          "show", "clear"} \subseteq Places
    BY DEF Runners, Places
  <1>1. CASE Check(l)
    <2>1. CASE running
      <3>1. /\ loop' = [loop EXCEPT ![l].at = "tick"] /\ tick' = [tick EXCEPT ![l] = Begun]
            /\ UNCHANGED <<slot, slotlock, lifecycle, request>>
        BY <1>1, <2>1, Zenon DEF Check
      <3> QED
        BY <1>0, <3>1, LoopMoves, TickMoves DEF TypeOK, States
    <2>2. CASE ~running
      <3>1. /\ loop' = [loop EXCEPT ![l].at = "tail"]
            /\ UNCHANGED <<slot, slotlock, lifecycle, request, tick>>
        BY <1>1, <2>2, Zenon DEF Check
      <3> QED
        BY <1>0, <3>1, LoopMoves DEF TypeOK, States
    <2> QED
      BY <2>1, <2>2
  <1>2. CASE Ticked(l)
    BY <1>0, <1>2, LoopMoves, TickMoves DEF Ticked, TypeOK, States
  <1>3. CASE Listen(l) \/ Recheck(l) \/ Settle(l) \/ Wake(l)
    <2>1. CASE Listen(l)
      BY <1>0, <2>1, LoopMoves DEF Listen, TypeOK, States
    <2>2. CASE Recheck(l)
      BY <1>0, <2>2, LoopMoves DEF Recheck, TypeOK, States
    <2>3. CASE Settle(l)
      BY <1>0, <2>3, LoopMoves DEF Settle, TypeOK, States
    <2>4. CASE Wake(l)
      BY <1>0, <2>4, LoopMoves DEF Wake, TypeOK, States
    <2> QED
      BY <1>3, <2>1, <2>2, <2>3, <2>4
  <1>4. CASE TailFlag(l) \/ TailShow(l)
    <2>1. CASE TailFlag(l)
      BY <1>0, <2>1, LoopMoves DEF TailFlag, TypeOK, States
    <2>2. CASE TailShow(l)
      BY <1>0, <2>2, LoopMoves DEF TailShow, TypeOK, States
    <2> QED
      BY <1>4, <2>1, <2>2
  <1>5. CASE TailClear(l) \/ Dies(l)
    <2>1. CASE TailClear(l)
      BY <1>0, <2>1, LoopMoves, TickMoves DEF TailClear, TypeOK, States
    <2>2. CASE Dies(l)
      BY <1>0, <2>2, LoopMoves, TickMoves DEF Dies, TypeOK, States
    <2> QED
      BY <1>5, <2>1, <2>2
  <1> QED
    BY <1>1, <1>2, <1>3, <1>4, <1>5 DEF LoopStep

LEMMA TypeTick == ASSUME TypeOK, NEW r \in Runners, TickStep(r) PROVE States'
  <1> USE DEF control, world
  <1> QED
    BY TickMoves DEF TickStep, Denied, Fails, Worked, TypeOK, States

LEMMA Asked ==
  ASSUME TypeOK, NEW h \in Handlers, NEW kind \in Kinds, NEW at \in Held \cup Elsewhere,
         Asks(h, kind, at)
  PROVE  /\ request' \in [Handlers -> RequestState]
         /\ request[h] = Free
  <1>1. h \in Spare
    BY FirstIn DEF Asks
  <1>2. [kind |-> kind, at |-> at, loop |-> None] \in RequestState
    BY DEF RequestState
  <1> QED
    BY <1>1, <1>2 DEF Asks, TypeOK, States, Spare

LEMMA TypeAsking == ASSUME TypeOK, NEW h \in Handlers, Asking(h) PROVE States'
  <1> USE DEF control
  <1>0. /\ {"start", "stop", "login", "logout", "once"} \subseteq Kinds
        /\ {"lock", "exchange", "seize", "run"} \subseteq Held \cup Elsewhere
        /\ h \in Runners
    BY DEF Kinds, Elsewhere, Runners
  <1>1. CASE AskStart(h)
    BY <1>0, <1>1, Asked DEF AskStart, TypeOK, States
  <1>2. CASE AskStop(h)
    BY <1>0, <1>2, Asked DEF AskStop, TypeOK, States
  <1>3. CASE AskLogout(h)
    BY <1>0, <1>3, Asked DEF AskLogout, TypeOK, States
  <1>4. CASE Login(h)
    BY <1>0, <1>4, Asked DEF Login, TypeOK, States
  <1>5. CASE AskRun(h)
    BY <1>0, <1>5, Asked, TickMoves DEF AskRun, TypeOK, States
  <1> QED
    BY <1>1, <1>2, <1>3, <1>4, <1>5 DEF Asking

LEMMA TypeHandling == ASSUME TypeOK, NEW h \in Handlers, Handling(h) PROVE States'
  <1> USE DEF control, world, Step, Answered
  <1>0. /\ {"halt", "place", "notify", "take", "wait", "join", "answer", "spawn", "abort",
            "revoke"} \subseteq Held \cup Elsewhere
        /\ h \in Runners /\ slot \in Loops \cup {None} /\ "check" \in Places
        /\ Ended(h) \in Held \cup Elsewhere
    BY DEF Held, Ending, Elsewhere, Runners, TypeOK, States, Ended, Places
  <1>1. CASE Lock(h) \/ Halt(h)
    <2>1. CASE Lock(h)
      BY <1>0, <2>1, RequestMoves DEF Lock, TypeOK, States
    <2>2. CASE Halt(h)
      BY <1>0, <2>2, RequestMoves DEF Halt, TypeOK, States
    <2> QED
      BY <1>1, <2>1, <2>2
  <1>2. CASE Notify(h)
    <2>1. loop' \in [Loops -> LoopState]
      BY <1>2 DEF Notify, Subscribed, TypeOK, States, LoopState
    <2> QED
      BY <1>0, <1>2, <2>1, RequestMoves DEF Notify, TypeOK, States
  <1>3. CASE Take(h) \/ Seize(h)
    <2>1. CASE Take(h)
      BY <1>0, <2>1, RequestMoves DEF Take, TypeOK, States
    <2>2. CASE Seize(h)
      BY <1>0, <2>2, RequestMoves DEF Seize, TypeOK, States
    <2> QED
      BY <1>3, <2>1, <2>2
  <1>4. CASE GraceOver(h)
    <2>1. loop' \in [Loops -> LoopState]
      BY <1>4 DEF GraceOver, TypeOK, States, LoopState
    <2> QED
      BY <1>0, <1>4, <2>1, RequestMoves DEF GraceOver, TypeOK, States
  <1>5. CASE Joined(h)
    BY <1>0, <1>5, RequestMoves DEF Joined, Forward, TypeOK, States
  <1>6. CASE AnswerStop(h) \/ Place(h)
    <2>1. CASE AnswerStop(h)
      BY <1>0, <2>1, RequestMoves DEF AnswerStop, TypeOK, States
    <2>2. CASE Place(h) /\ running
      BY <1>0, <2>2, RequestMoves DEF Place, TypeOK, States
    <2>3. CASE Place(h) /\ ~running
      <3>1. /\ request' = [request EXCEPT ![h].at = "spawn"] /\ slotlock' = h
            /\ UNCHANGED <<slot, lifecycle, loop, tick>>
        BY <2>3, Zenon DEF Place
      <3> QED
        BY <1>0, <3>1, RequestMoves DEF TypeOK, States
    <2> QED
      BY <1>6, <2>1, <2>2, <2>3
  <1>7. CASE Spawn(h)
    <2>1. First(Unused) \in Loops
      BY <1>7, FirstIn DEF Spawn, Unused
    <2> QED
      BY <1>0, <1>7, <2>1, LoopMoves, RequestMoves DEF Spawn, TypeOK, States
  <1>8. CASE LoginDone(h) \/ Revoked(h) \/ RevokeFails(h) \/ RunOver(h)
    <2>1. CASE LoginDone(h)
      BY <1>0, <2>1, RequestMoves, TickMoves DEF LoginDone, TypeOK, States
    <2>2. CASE Revoked(h)
      BY <1>0, <2>2, RequestMoves, TickMoves DEF Revoked, TypeOK, States
    <2>3. CASE RevokeFails(h)
      BY <1>0, <2>3, RequestMoves, TickMoves DEF RevokeFails, TypeOK, States
    <2>4. CASE RunOver(h)
      BY <1>0, <2>4, RequestMoves, TickMoves DEF RunOver, TypeOK, States
    <2> QED
      BY <1>8, <2>1, <2>2, <2>3, <2>4
  <1> QED
    BY <1>1, <1>2, <1>3, <1>4, <1>5, <1>6, <1>7, <1>8 DEF Handling

LEMMA TypeStep == ASSUME TypeOK, [Next]_vars PROVE TypeOK'
  <1>1. ASSUME NEW l \in Loops, LoopStep(l) PROVE States'
    BY <1>1, TypeLoop
  <1>2. ASSUME NEW r \in Runners, TickStep(r) PROVE States'
    BY <1>2, TypeTick
  <1>3. ASSUME NEW h \in Handlers, RunAgain(h) PROVE States'
    <2>1. h \in Runners
      BY DEF Runners
    <2> QED
      BY <1>3, <2>1, TickMoves DEF RunAgain, TypeOK, States, control, world
  <1>4. ASSUME NEW h \in Handlers, Asking(h) \/ Handling(h) PROVE States'
    BY <1>4, TypeAsking, TypeHandling
  <1>5. CASE Next
    BY <1>1, <1>2, <1>3, <1>4, <1>5, FlagStep DEF Next, TypeOK
  <1>6. CASE UNCHANGED vars
    <2>1. Flags'
      BY <1>6, Zenon DEF TypeOK, Flags, vars
    <2> QED
      BY <1>6, <2>1 DEF TypeOK, States, vars
  <1> QED
    BY <1>5, <1>6

-----------------------------------------------------------------------------
(* The order of the tasks and the requests                                  *)

\* What a step of the loop may do: it changes its own place, the flag only if
\* it was down already, and the slot only when it ends.
LoopEffect(l) ==
  /\ UNCHANGED <<lifecycle, slotlock, request>>
  /\ (server' <=> server) /\ (session' <=> session) /\ (running' <=> running)
  /\ loop[l].at # "off" /\ \A m \in Loops : m # l => loop'[m] = loop[m]
  /\ loop'[l].at \in {"tail", "show", "clear"} => ~running
  /\ slot' = slot \/ (slot' = None /\ loop'[l].at = "off")
  /\ \A r \in Runners : tick'[r] = tick[r] \/ tick'[r] = Rest
                        \/ tick'[r] = [at |-> "work", session |-> session]

LEMMA Begins1 == ASSUME SignedIn PROVE Begun = [at |-> "work", session |-> session]
  BY DEF SignedIn, Begun

LEMMA LoopEffects ==
  ASSUME TypeOK, Orderly, NEW l \in Loops, LoopStep(l) PROVE LoopEffect(l)
  <1> USE DEF control, world, At, Goto
  <1>0. /\ SignedIn /\ Flagged /\ DOMAIN loop = Loops /\ DOMAIN tick = Runners /\ l \in Runners
        /\ \A m \in Loops : DOMAIN loop[m] = {"at", "dying", "woken"}
    BY DEF Orderly, TypeOK, States, LoopState, Runners
  <1>1. CASE Check(l) /\ running
    <2>1. /\ loop' = [loop EXCEPT ![l].at = "tick"] /\ tick' = [tick EXCEPT ![l] = Begun]
          /\ UNCHANGED <<slot, slotlock, lifecycle, request>> /\ loop[l].at = "check"
          /\ (server' <=> server) /\ (session' <=> session) /\ (running' <=> running)
      BY <1>1, Zenon DEF Check
    <2> QED
      BY <1>0, <2>1, Begins1 DEF LoopEffect
  <1>2. CASE Check(l) /\ ~running
    <2>1. /\ loop' = [loop EXCEPT ![l].at = "tail"] /\ UNCHANGED tick
          /\ UNCHANGED <<slot, slotlock, lifecycle, request>> /\ loop[l].at = "check"
          /\ (server' <=> server) /\ (session' <=> session) /\ (running' <=> running)
      BY <1>2, Zenon DEF Check
    <2> QED
      BY <1>0, <1>2, <2>1 DEF LoopEffect
  <1>3. CASE Ticked(l)
    <2>1. tick[l].at # "denied"
      BY <1>0 DEF SignedIn
    <2>2. /\ loop' = [loop EXCEPT ![l].at = "listen"] /\ tick' = [tick EXCEPT ![l] = Rest]
          /\ UNCHANGED <<slot, slotlock, lifecycle, request>> /\ loop[l].at = "tick"
          /\ (server' <=> server) /\ (session' <=> session) /\ (running' <=> running)
      BY <1>3, <2>1, Zenon DEF Ticked
    <2> QED
      BY <1>0, <2>2 DEF LoopEffect
  <1>4. CASE Recheck(l) /\ ~running
    <2>1. /\ loop' = [loop EXCEPT ![l].at = "tail"] /\ UNCHANGED tick
          /\ UNCHANGED <<slot, slotlock, lifecycle, request>> /\ loop[l].at = "recheck"
          /\ (server' <=> server) /\ (session' <=> session) /\ (running' <=> running)
      BY <1>4, Zenon DEF Recheck
    <2> QED
      BY <1>0, <1>4, <2>1 DEF LoopEffect
  <1>5. CASE Listen(l) \/ (Recheck(l) /\ running) \/ Settle(l) \/ Wake(l)
    <2>1. /\ UNCHANGED <<slot, slotlock, lifecycle, request, tick>>
          /\ (server' <=> server) /\ (session' <=> session) /\ (running' <=> running)
      <3>1. UNCHANGED <<control, world, session, request, tick>>
        BY <1>5, Zenon DEF Listen, Recheck, Settle, Wake
      <3> QED
        BY <3>1, Zenon
    <2>2. /\ loop[l].at \in {"listen", "recheck", "settle", "asleep"}
          /\ \/ loop' = [loop EXCEPT ![l].at = "recheck", ![l].woken = FALSE]
             \/ \E at \in {"settle", "asleep", "check"} : loop' = [loop EXCEPT ![l].at = at]
      BY <1>5 DEF Listen, Recheck, Settle, Wake
    <2> QED
      BY <1>0, <2>1, <2>2 DEF LoopEffect
  <1>6. CASE TailFlag(l) \/ TailShow(l)
    <2>0. loop[l].at \in {"tail", "show"} /\ ~running
      BY <1>0, <1>6 DEF TailFlag, TailShow, Flagged
    <2>1. /\ UNCHANGED <<slot, slotlock, lifecycle, request, tick>>
          /\ (server' <=> server) /\ (session' <=> session) /\ (running' <=> running)
      <3>1. UNCHANGED <<slot, slotlock, lifecycle, request, tick>>
        BY <1>6 DEF TailFlag, TailShow
      <3>2. CASE TailFlag(l)
        BY <2>0, <3>1, <3>2, Zenon DEF TailFlag
      <3>3. CASE TailShow(l)
        BY <3>1, <3>3, Zenon DEF TailShow
      <3> QED
        BY <1>6, <3>2, <3>3
    <2>2. \E at \in {"show", "clear"} : loop' = [loop EXCEPT ![l].at = at]
      BY <1>6 DEF TailFlag, TailShow
    <2> QED
      BY <1>0, <2>0, <2>1, <2>2 DEF LoopEffect
  <1>7. CASE TailClear(l) \/ Dies(l)
    <2>1. /\ UNCHANGED <<slotlock, lifecycle, request>>
          /\ (server' <=> server) /\ (session' <=> session) /\ (running' <=> running)
      <3>1. CASE TailClear(l)
        BY <3>1, Zenon DEF TailClear
      <3>2. CASE Dies(l)
        BY <3>2, Zenon DEF Dies
      <3> QED
        BY <1>7, <3>1, <3>2
    <2>2. /\ loop' = [loop EXCEPT ![l] = Off] /\ loop[l].at # "off" /\ slot' \in {slot, None}
          /\ tick' = tick \/ tick' = [tick EXCEPT ![l] = Rest]
      BY <1>7 DEF TailClear, Dies
    <2> QED
      BY <1>0, <2>1, <2>2, Records DEF LoopEffect
  <1> QED
    BY <1>1, <1>2, <1>3, <1>4, <1>5, <1>6, <1>7 DEF LoopStep

LEMMA LoopOrder == ASSUME TypeOK, Orderly, NEW l \in Loops, LoopStep(l) PROVE Orderly'
  <1>0. LoopEffect(l) /\ SignedIn /\ OneHolder /\ Named /\ Flagged
    BY LoopEffects DEF Orderly
  <1>1. SignedIn'
    BY <1>0, Records DEF LoopEffect, SignedIn
  <1>2. OneHolder'
    BY <1>0 DEF LoopEffect, OneHolder
  <1>3. Named'
    <2>1. ASSUME NEW h \in Handlers
          PROVE  IF request'[h].at \in {"wait", "join"} THEN request'[h].loop # None /\ slot' = None
                 ELSE request'[h].loop = None
      BY <1>0 DEF LoopEffect, Named
    <2>2. ASSUME NEW m \in Loops, loop'[m].at # "off"
          PROVE  slot' = m \/ \E h \in Handlers : request'[h].loop = m
      <3>1. loop[m].at # "off"
        BY <1>0, <2>2 DEF LoopEffect
      <3>2. slot' = slot \/ m # l
        BY <1>0, <2>2 DEF LoopEffect
      <3>3. CASE \E h \in Handlers : request[h].loop = m
        BY <1>0, <3>3 DEF LoopEffect
      <3>4. CASE slot = m /\ slot' = slot
        BY <3>4
      <3>5. CASE slot = m /\ m # l
        <4>1. loop[l].at # "off" /\ slot # l
          BY <1>0, <3>5 DEF LoopEffect
        <4>2. PICK h \in Handlers : request[h].loop = l
          BY <1>0, <4>1 DEF Named
        <4>3. slot = None
          BY <1>0, <4>2, NoneAssumption DEF Named
        <4> QED
          BY <3>5, <4>3, NoneAssumption
      <3> QED
        BY <1>0, <3>1, <3>2, <3>3, <3>4, <3>5 DEF Named
    <2> QED
      BY <2>1, <2>2 DEF Named
  <1>4. Flagged'
    <2>1. ~AllOff
      BY <1>0 DEF LoopEffect, AllOff
    <2>2. \A m \in Loops : loop'[m].at \in {"tail", "show", "clear"} => ~running
      BY <1>0 DEF LoopEffect, Flagged
    <2> QED
      BY <1>0, <2>1, <2>2 DEF LoopEffect, Flagged
  <1> QED
    BY <1>1, <1>2, <1>3, <1>4 DEF Orderly

LEMMA TickOrder == ASSUME TypeOK, Orderly, NEW r \in Runners, TickStep(r) PROVE Orderly'
  <1>0. SignedIn /\ OneHolder /\ Named /\ Flagged /\ DOMAIN tick = Runners
        /\ \A q \in Runners : DOMAIN tick[q] = {"at", "session"}
    BY DEF Orderly, TypeOK, States, TickState
  <1>1. ~Denied(r)
    BY <1>0, Zenon DEF Denied, SignedIn
  <1>2. /\ UNCHANGED <<slot, slotlock, lifecycle, request, loop>>
        /\ (server' <=> server) /\ (running' <=> running)
    <2>1. CASE Fails(r)
      BY <2>1, Zenon DEF Fails, control, world
    <2>2. CASE Worked(r)
      BY <2>2, Zenon DEF Worked, control, world
    <2> QED
      BY <1>1, <2>1, <2>2 DEF TickStep
  <1>3. session' <=> server
    <2>1. CASE Fails(r)
      BY <1>0, <2>1, Zenon DEF Fails, SignedIn
    <2>2. CASE Worked(r)
      BY <1>0, <2>2, Zenon DEF Worked, SignedIn
    <2> QED
      BY <1>1, <2>1, <2>2 DEF TickStep
  <1>4. \A q \in Runners : tick'[q] = tick[q] \/ tick'[q].at \in {"failed", "done"}
    BY <1>0, <1>1 DEF TickStep, Fails, Worked
  <1>5. SignedIn'
    BY <1>0, <1>2, <1>3, <1>4 DEF SignedIn
  <1>6. OneHolder' /\ Named'
    BY <1>0, <1>2 DEF OneHolder, Named
  <1>7. Flagged'
    BY <1>0, <1>2 DEF Flagged, AllOff
  <1> QED
    BY <1>5, <1>6, <1>7 DEF Orderly

\* A request that takes part in neither a start nor a stop.
Aside(h) ==
  /\ UNCHANGED <<slot, slotlock, lifecycle, loop>>
  /\ (server' <=> server) /\ (session' <=> server) /\ (running' <=> running)
  /\ request[h].at \in {"none", "exchange", "run"}
  /\ request'[h].at \in {"none", "lock", "exchange", "run"} /\ request'[h].loop = None
  /\ request'[h].kind # "logout" /\ (request'[h].kind = "login" => server)
  /\ \A g \in Handlers : g # h => request'[g] = request[g]
  /\ \A r \in Runners : tick'[r] = tick[r] \/ tick'[r] = Rest
                        \/ tick'[r] = [at |-> "work", session |-> session]

LEMMA AsideOrder == ASSUME Orderly, NEW h \in Handlers, Aside(h) PROVE Orderly'
  <1>0. SignedIn /\ OneHolder /\ Named /\ Flagged
    BY DEF Orderly
  <1>1. SignedIn'
    BY <1>0, Records DEF Aside, SignedIn
  <1>2. request[h].at \notin Held /\ request'[h].at \notin Held /\ request[h].loop = None
    BY <1>0 DEF Aside, Held, Ending, Named
  <1>3. OneHolder'
    BY <1>0, <1>2 DEF Aside, OneHolder, Held
  <1>4. Named'
    BY <1>0, <1>2, NoneAssumption DEF Aside, Named
  <1>5. Flagged'
    BY <1>0, <1>2 DEF Aside, Flagged, AllOff, Held
  <1> QED
    BY <1>1, <1>3, <1>4, <1>5 DEF Orderly

LEMMA AskingAside ==
  ASSUME TypeOK, Orderly, NEW h \in Handlers, Asking(h), ~signedOut' PROVE Aside(h)
  <1> USE DEF control, world
  <1>0. SignedIn /\ DOMAIN request = Handlers /\ DOMAIN tick = Runners /\ h \in Runners
    BY DEF Orderly, TypeOK, States, Runners
  <1>1. ASSUME NEW kind \in Kinds \ {"logout"}, NEW at \in {"lock", "exchange", "run"},
               Asks(h, kind, at), kind = "login" => server
        PROVE  /\ request[h].at \in {"none", "exchange", "run"}
               /\ request'[h].at \in {"none", "lock", "exchange", "run"} /\ request'[h].loop = None
               /\ request'[h].kind # "logout" /\ (request'[h].kind = "login" => server)
               /\ \A g \in Handlers : g # h => request'[g] = request[g]
               /\ (server' <=> server)
    <2>1. request[h] = Free
      BY <1>1, Asked DEF Elsewhere
    <2>2. server' <=> server
      BY <1>1, Zenon DEF Asks
    <2> QED
      BY <1>0, <1>1, <2>1, <2>2, Records DEF Asks
  <1>2. {"start", "stop", "login", "once"} \subseteq Kinds \ {"logout"}
    BY DEF Kinds
  <1>3. CASE AskStart(h) \/ AskStop(h)
    <2>1. /\ UNCHANGED <<slot, slotlock, lifecycle, loop, tick>>
          /\ (session' <=> server) /\ (running' <=> running)
      <3>1. UNCHANGED <<control, session, loop, tick>>
        BY <1>3, Zenon DEF AskStart, AskStop
      <3> QED
        BY <1>0, <3>1, Zenon DEF SignedIn
    <2>2. \E kind \in {"start", "stop"} : Asks(h, kind, "lock")
      BY <1>3 DEF AskStart, AskStop
    <2> QED
      BY <1>1, <1>2, <2>1, <2>2 DEF Aside
  <1>4. CASE Login(h)
    <2>1. /\ UNCHANGED <<slot, slotlock, lifecycle, loop, tick>>
          /\ (session' <=> server) /\ (running' <=> running) /\ server
      BY <1>4, Zenon DEF Login
    <2>2. Asks(h, "login", "exchange")
      BY <1>4 DEF Login
    <2> QED
      BY <1>1, <1>2, <2>1, <2>2 DEF Aside
  <1>5. CASE AskRun(h)
    <2>1. /\ UNCHANGED <<slot, slotlock, lifecycle, loop>>
          /\ (session' <=> server) /\ (running' <=> running) /\ tick' = [tick EXCEPT ![h] = Begun]
      BY <1>0, <1>5, Zenon DEF AskRun, SignedIn
    <2>2. Asks(h, "once", "run")
      BY <1>5 DEF AskRun
    <2>3. \A r \in Runners : tick'[r] = tick[r] \/ tick'[r] = [at |-> "work", session |-> session]
      BY <1>0, <2>1, Begins1
    <2> QED
      BY <1>1, <1>2, <2>1, <2>2, <2>3 DEF Aside
  <1>6. ~AskLogout(h)
    BY Zenon DEF AskLogout, Asks
  <1> QED
    BY <1>3, <1>4, <1>5, <1>6 DEF Asking

LEMMA HandlingAside ==
  ASSUME TypeOK, Orderly, NEW h \in Handlers, LoginDone(h) \/ RunOver(h) \/ RunAgain(h)
  PROVE  Aside(h)
  <1> USE DEF control, world, Answered, Is
  <1>0. /\ SignedIn /\ Named /\ DOMAIN request = Handlers /\ DOMAIN tick = Runners /\ h \in Runners
        /\ (server <=> session)
    BY DEF Orderly, TypeOK, States, Runners, SignedIn
  <1>1. CASE LoginDone(h)
    <2>1. /\ UNCHANGED <<slot, slotlock, lifecycle, loop, tick>>
          /\ (server' <=> server) /\ (session' <=> server) /\ (running' <=> running)
      BY <1>0, <1>1, Zenon DEF LoginDone, SignedIn
    <2>2. request[h].at = "exchange" /\ request' = [request EXCEPT ![h] = Free]
      BY <1>1 DEF LoginDone
    <2> QED
      BY <1>0, <2>1, <2>2, Records DEF Aside
  <1>2. CASE RunOver(h)
    <2>1. /\ UNCHANGED <<slot, slotlock, lifecycle, loop>>
          /\ (server' <=> server) /\ (session' <=> server) /\ (running' <=> running)
      BY <1>0, <1>2, Zenon DEF RunOver
    <2>2. /\ request[h].at = "run" /\ request' = [request EXCEPT ![h] = Free]
          /\ tick' = [tick EXCEPT ![h] = Rest]
      BY <1>2 DEF RunOver
    <2> QED
      BY <1>0, <2>1, <2>2, Records DEF Aside
  <1>3. CASE RunAgain(h)
    <2>1. /\ UNCHANGED <<slot, slotlock, lifecycle, loop, request>>
          /\ (server' <=> server) /\ (session' <=> server) /\ (running' <=> running)
      BY <1>0, <1>3, Zenon DEF RunAgain
    <2>2. request[h].at = "run" /\ tick' = [tick EXCEPT ![h] = Begun]
      BY <1>3 DEF RunAgain
    <2> QED
      BY <1>0, <2>1, <2>2, Begins1 DEF Aside, SignedIn, Named
  <1> QED
    BY <1>1, <1>2, <1>3

\* What the starting and stopping requests leave to the session.
LEMMA Signed ==
  ASSUME SignedIn, (server' <=> server) /\ (session' <=> session), tick' = tick,
         \A g \in Handlers : /\ request'[g].kind \in {request[g].kind, "none"}
                             /\ request'[g].at \notin {"seize", "abort", "revoke"}
  PROVE  SignedIn'
  BY DEF SignedIn

\* Who holds the lifecycle is the only one to start or stop.
LEMMA Alone ==
  ASSUME OneHolder, NEW h \in Handlers, request[h].at \in Held,
         NEW g \in Handlers, g # h
  PROVE  request[g].at \notin Held
  BY DEF OneHolder

\* A step of the holder of the lifecycle: it goes on, or ends.
Holder(h) ==
  /\ (server' <=> server) /\ (session' <=> session) /\ tick' = tick
  /\ request[h].at \in Held
  /\ \A g \in Handlers : g # h => request'[g] = request[g]
  /\ request'[h].kind \in {request[h].kind, "none"}
  /\ request'[h].at \in Held \cup {"none"}
  /\ lifecycle' = IF request'[h].at \in Held THEN lifecycle ELSE None
  /\ slotlock' = IF request'[h].at = "spawn" THEN h ELSE None

LEMMA HolderKeeps ==
  ASSUME TypeOK, Orderly, NEW h \in Handlers, Holder(h)
  PROVE  SignedIn' /\ OneHolder'
  <1>0. SignedIn /\ OneHolder /\ None \notin Handlers
    BY NoneAssumption DEF Orderly
  <1>1. \A g \in Handlers : g # h => request[g].at \notin Held /\ request'[g].at \notin Held
    BY <1>0, Alone DEF Holder
  <1>2. "spawn" \in Held /\ lifecycle = h /\ {"seize", "abort", "revoke"} \cap Held = {}
    BY <1>0 DEF Holder, OneHolder, Held, Ending
  <1>3. \A g \in Handlers : /\ request'[g].kind \in {request[g].kind, "none"}
                            /\ request'[g].at \notin {"seize", "abort", "revoke"}
    BY <1>0, <1>2 DEF Holder, SignedIn
  <1>4. SignedIn'
    BY <1>0, <1>3, Signed DEF Holder
  <1>5. OneHolder'
    BY <1>0, <1>1, <1>2 DEF Holder, OneHolder
  <1> QED
    BY <1>4, <1>5

LEMMA Locks == ASSUME TypeOK, Orderly, NEW h \in Handlers, Lock(h) PROVE Orderly'
  <1> USE DEF control, world, Step
  <1>0. SignedIn /\ OneHolder /\ Named /\ Flagged /\ DOMAIN request = Handlers
        /\ None \notin Handlers /\ \A g \in Handlers : DOMAIN request[g] = {"kind", "at", "loop"}
    BY NoneAssumption DEF Orderly, TypeOK, States, RequestState
  <1>1. /\ UNCHANGED <<slot, slotlock, loop, tick>> /\ lifecycle = None /\ lifecycle' = h
        /\ (server' <=> server) /\ (session' <=> session) /\ (running' <=> running)
    BY Zenon DEF Lock
  <1>2. PICK at \in {"halt", "place"} : request' = [request EXCEPT ![h].at = at]
    BY DEF Lock
  <1>3. request[h].at = "lock" /\ request[h].loop = None /\ (at = "place" => running)
    <2>1. request[h].at = "lock"
      BY DEF Lock
    <2>2. at = "place" => running
      <3>1. CASE running
        BY <3>1
      <3>2. CASE ~running
        <4>1. request' = [request EXCEPT ![h].at = "halt"]
          BY <3>2, Zenon DEF Lock
        <4> QED
          BY <1>0, <1>2, <4>1
      <3> QED
        BY <3>1, <3>2
    <2> QED
      BY <1>0, <2>1, <2>2 DEF Named
  <1>4. SignedIn'
    BY <1>0, <1>1, <1>2, Signed DEF SignedIn
  <1>5. OneHolder'
    BY <1>0, <1>1, <1>2, <1>3 DEF OneHolder, Held
  <1>6. Named'
    BY <1>0, <1>1, <1>2, <1>3 DEF Named
  <1>7. Flagged'
    BY <1>0, <1>1, <1>2, <1>3 DEF Flagged, AllOff, Ending
  <1> QED
    BY <1>4, <1>5, <1>6, <1>7 DEF Orderly

LEMMA EndsStep ==
  ASSUME TypeOK, Orderly, NEW h \in Handlers,
         Halt(h) \/ Notify(h) \/ Take(h) \/ GraceOver(h) \/ Joined(h)
  PROVE  Orderly'
  <1> USE DEF control, world, Step
  <1>0. /\ SignedIn /\ OneHolder /\ Named /\ Flagged /\ DOMAIN request = Handlers
        /\ DOMAIN loop = Loops /\ slot \in Loops \cup {None}
        /\ \A g \in Handlers : DOMAIN request[g] = {"kind", "at", "loop"}
                               /\ request[g].loop \in Loops \cup {None}
        /\ \A l \in Loops : DOMAIN loop[l] = {"at", "dying", "woken"}
        /\ None \notin Handlers /\ None \notin Loops
    BY NoneAssumption DEF Orderly, TypeOK, States, RequestState, LoopState
  <1>1. request[h].at \notin {"abort", "seize", "revoke"} /\ request[h].kind # "logout"
    BY <1>0 DEF SignedIn
  <1>2. request[h].at \in {"halt"} \cup Ending /\ slotlock = None
    <2>1. request[h].at \in {"halt"} \cup Ending
      BY <1>1 DEF Halt, Notify, Take, GraceOver, Joined, Ending
    <2>2. lifecycle = h
      BY <1>0, <2>1 DEF OneHolder, Held
    <2>3. \A g \in Handlers : request[g].at # "spawn"
      BY <1>0, <2>1, Alone DEF Held, Ending
    <2> QED
      BY <1>0, <2>1, <2>3 DEF OneHolder, TypeOK, States
  <1>3. Ended(h) \in {"answer", "place"}
    BY DEF Ended
  <1>4. \A g \in Handlers : g # h => request[g].at \notin Held /\ request[g].loop = None
    BY <1>0, <1>2, Alone DEF Named, Held, Ending
  <1>a. CASE Halt(h)
    <2>1. /\ UNCHANGED <<slot, slotlock, lifecycle, loop, tick>> /\ ~running'
          /\ (server' <=> server) /\ (session' <=> session)
          /\ request' = [request EXCEPT ![h].at = "notify"] /\ request[h].at = "halt"
      BY <1>a, Zenon DEF Halt
    <2>2. Holder(h)
      BY <1>0, <1>2, <2>1 DEF Holder, Held, Ending
    <2>3. Named'
      BY <1>0, <2>1 DEF Named
    <2>4. Flagged'
      BY <1>0, <1>4, <2>1 DEF Flagged, Ending, Held
    <2> QED
      BY <2>2, <2>3, <2>4, HolderKeeps DEF Orderly
  <1>b. CASE Notify(h)
    <2>1. /\ UNCHANGED <<slot, slotlock, lifecycle, tick>> /\ (running' <=> running)
          /\ (server' <=> server) /\ (session' <=> session)
          /\ request' = [request EXCEPT ![h].at = "take"] /\ request[h].at = "notify"
      BY <1>b, Zenon DEF Notify
    <2>2. \A l \in Loops : loop'[l].at = loop[l].at
      BY <1>0, <1>b DEF Notify
    <2>3. Holder(h)
      BY <1>0, <1>2, <2>1 DEF Holder, Held, Ending
    <2>4. Named'
      BY <1>0, <2>1, <2>2 DEF Named
    <2>5. Flagged'
      BY <1>0, <1>4, <2>1, <2>2 DEF Flagged, Ending, Held
    <2> QED
      BY <2>3, <2>4, <2>5, HolderKeeps DEF Orderly
  <1>c. CASE Take(h) /\ slot # None
    <2>1. /\ UNCHANGED <<slotlock, lifecycle, tick, loop>> /\ (running' <=> running)
          /\ (server' <=> server) /\ (session' <=> session)
          /\ request' = [request EXCEPT ![h].loop = slot, ![h].at = "wait"]
          /\ request[h].at = "take" /\ slot' = None
      BY <1>c, Zenon DEF Take
    <2>2. Holder(h)
      BY <1>0, <1>2, <2>1 DEF Holder, Held, Ending
    <2>3. Named'
      BY <1>0, <1>4, <1>c, <2>1 DEF Named, Held, Ending
    <2>4. Flagged'
      BY <1>0, <1>4, <2>1 DEF Flagged, AllOff, Ending, Held
    <2> QED
      BY <2>2, <2>3, <2>4, HolderKeeps DEF Orderly
  <1>d. CASE Take(h) /\ slot = None
    <2>1. /\ UNCHANGED <<slotlock, lifecycle, tick, loop>> /\ (running' <=> running)
          /\ (server' <=> server) /\ (session' <=> session)
          /\ request' = [request EXCEPT ![h].loop = None, ![h].at = Ended(h)]
          /\ request[h].at = "take" /\ slot' = None
      BY <1>d, Zenon DEF Take
    <2>2. Holder(h)
      BY <1>0, <1>2, <1>3, <2>1 DEF Holder, Held, Ending
    <2>3. Named'
      BY <1>0, <1>3, <1>4, <1>d, <2>1 DEF Named, Held, Ending
    <2>4. AllOff'
      BY <1>0, <1>4, <1>d, <2>1 DEF Named, AllOff
    <2>5. Flagged'
      BY <1>0, <1>3, <1>4, <2>1, <2>4 DEF Flagged, AllOff, Ending, Held
    <2> QED
      BY <2>2, <2>3, <2>5, HolderKeeps DEF Orderly
  <1>e. CASE GraceOver(h)
    <2>1. /\ UNCHANGED <<slot, slotlock, lifecycle, tick>> /\ (running' <=> running)
          /\ (server' <=> server) /\ (session' <=> session)
          /\ request' = [request EXCEPT ![h].at = "join"]
          /\ loop' = [loop EXCEPT ![request[h].loop].dying = TRUE]
      BY <1>e, Zenon DEF GraceOver
    <2>0. request[h].at = "wait"
      BY <1>1, <1>e DEF GraceOver
    <2>2. \A l \in Loops : loop'[l].at = loop[l].at
      BY <1>0, <2>1
    <2>3. Holder(h)
      BY <1>0, <1>2, <2>0, <2>1 DEF Holder, Held, Ending
    <2>4. Named'
      BY <1>0, <2>0, <2>1, <2>2 DEF Named
    <2>5. Flagged'
      BY <1>0, <1>4, <2>0, <2>1, <2>2 DEF Flagged, AllOff, Ending, Held
    <2> QED
      BY <2>3, <2>4, <2>5, HolderKeeps DEF Orderly
  <1>f. CASE Joined(h)
    <2>1. /\ UNCHANGED <<slot, slotlock, lifecycle, tick, loop>> /\ (running' <=> running)
          /\ (server' <=> server) /\ (session' <=> session)
      BY <1>f, Zenon DEF Joined
    <2>2. request' = [request EXCEPT ![h].loop = None, ![h].at = Ended(h)]
      BY <1>1, <1>f DEF Joined, Forward
    <2>3. request[h].at \in {"wait", "join"} /\ loop[request[h].loop].at = "off"
      BY <1>1, <1>f DEF Joined, Gone
    <2>4. Holder(h)
      BY <1>0, <1>2, <1>3, <2>1, <2>2, <2>3 DEF Holder, Held, Ending
    <2>5. AllOff
      BY <1>0, <1>4, <2>3 DEF Named, AllOff
    <2>6. Named'
      BY <1>0, <1>3, <1>4, <2>1, <2>2, <2>5 DEF Named, AllOff, Held, Ending
    <2>7. Flagged'
      BY <1>0, <1>3, <1>4, <2>1, <2>2, <2>5 DEF Flagged, AllOff, Ending, Held
    <2> QED
      BY <2>4, <2>6, <2>7, HolderKeeps DEF Orderly
  <1> QED
    BY <1>a, <1>b, <1>c, <1>d, <1>e, <1>f

LEMMA Starts ==
  ASSUME TypeOK, Orderly, NEW h \in Handlers, AnswerStop(h) \/ Place(h) \/ Spawn(h)
  PROVE  Orderly'
  <1> USE DEF control, world, Step, Answered
  <1>0. /\ SignedIn /\ OneHolder /\ Named /\ Flagged /\ DOMAIN request = Handlers
        /\ DOMAIN loop = Loops
        /\ \A g \in Handlers : DOMAIN request[g] = {"kind", "at", "loop"}
        /\ \A l \in Loops : DOMAIN loop[l] = {"at", "dying", "woken"}
        /\ None \notin Handlers /\ None \notin Loops
    BY NoneAssumption DEF Orderly, TypeOK, States, RequestState, LoopState
  <1>1. request[h].at \in {"answer", "place", "spawn"}
    BY DEF AnswerStop, Place, Spawn
  <1>2. \A g \in Handlers : g # h => request[g].at \notin Held
    BY <1>0, <1>1, Alone DEF Held
  <1>3. request[h].loop = None /\ slotlock = (IF request[h].at = "spawn" THEN h ELSE None)
    <2>1. request[h].loop = None
      BY <1>0, <1>1 DEF Named
    <2>2. slotlock = (IF request[h].at = "spawn" THEN h ELSE None)
      BY <1>0, <1>2 DEF OneHolder, TypeOK, States, Held
    <2> QED
      BY <2>1, <2>2
  <1>4. request[h].at # "place" \/ ~running => AllOff
    BY <1>0, <1>1, <1>2 DEF Flagged, Held, Ending
  <1>a. CASE AnswerStop(h)
    <2>1. /\ UNCHANGED <<slot, slotlock, loop, tick>> /\ (running' <=> running)
          /\ (server' <=> server) /\ (session' <=> session) /\ lifecycle' = None
          /\ request' = [request EXCEPT ![h] = Free] /\ request[h].at = "answer"
      BY <1>a, Zenon DEF AnswerStop
    <2>2. Holder(h)
      BY <1>0, <1>3, <2>1, Records DEF Holder, Held, Ending
    <2>3. Named'
      BY <1>0, <1>3, <2>1, Records DEF Named
    <2>4. Flagged'
      BY <1>0, <1>2, <1>4, <2>1, Records DEF Flagged, AllOff, Ending, Held
    <2> QED
      BY <2>2, <2>3, <2>4, HolderKeeps DEF Orderly
  <1>b. CASE Place(h) /\ running
    <2>1. /\ UNCHANGED <<slot, slotlock, loop, tick>> /\ (running' <=> running)
          /\ (server' <=> server) /\ (session' <=> session) /\ lifecycle' = None
          /\ request' = [request EXCEPT ![h] = Free] /\ request[h].at = "place"
      BY <1>b, Zenon DEF Place
    <2>2. Holder(h)
      BY <1>0, <1>3, <2>1, Records DEF Holder, Held, Ending
    <2>3. Named'
      BY <1>0, <1>3, <2>1, Records DEF Named
    <2>4. Flagged'
      BY <1>0, <1>2, <1>b, <2>1, Records DEF Flagged, AllOff, Ending, Held
    <2> QED
      BY <2>2, <2>3, <2>4, HolderKeeps DEF Orderly
  <1>c. CASE Place(h) /\ ~running
    <2>1. /\ UNCHANGED <<slot, lifecycle, loop, tick>> /\ running' /\ slotlock' = h
          /\ (server' <=> server) /\ (session' <=> session)
          /\ request' = [request EXCEPT ![h].at = "spawn"] /\ request[h].at = "place"
      BY <1>c, Zenon DEF Place
    <2>2. Holder(h)
      BY <1>0, <1>3, <2>1 DEF Holder, Held, Ending
    <2>3. Named'
      BY <1>0, <1>3, <2>1 DEF Named
    <2>4. Flagged'
      BY <1>0, <1>2, <1>4, <1>c, <2>1 DEF Flagged, AllOff, Ending, Held
    <2> QED
      BY <2>2, <2>3, <2>4, HolderKeeps DEF Orderly
  <1>d. CASE Spawn(h)
    <2> DEFINE new == First(Unused)
    <2>0. new \in Loops
      BY <1>d, FirstIn DEF Spawn, Unused
    <2> HIDE DEF new
    <2>1. /\ slot' = new /\ slotlock' = None /\ tick' = tick /\ (running' <=> running)
          /\ (server' <=> server) /\ (session' <=> session) /\ lifecycle' = None
          /\ request' = [request EXCEPT ![h] = Free] /\ request[h].at = "spawn"
          /\ loop' = [loop EXCEPT ![new].at = "check"]
      BY <1>d, Zenon DEF Spawn, new
    <2>2. Holder(h)
      BY <1>0, <1>3, <2>1, Records DEF Holder, Held, Ending
    <2>3. running /\ AllOff
      BY <1>0, <1>4, <2>1 DEF Flagged
    <2>4. Named'
      BY <1>0, <1>2, <1>3, <2>0, <2>1, <2>3, Records DEF Named, AllOff, Held, Ending
    <2>5. Flagged'
      BY <1>0, <1>2, <2>0, <2>1, <2>3, Records DEF Flagged, AllOff, Ending, Held
    <2> QED
      BY <2>2, <2>4, <2>5, HolderKeeps DEF Orderly
  <1> QED
    BY <1>a, <1>b, <1>c, <1>d

LEMMA OrderStep ==
  ASSUME TypeOK, Orderly, Next, ~signedOut'
  PROVE  Orderly'
  <1>1. ASSUME NEW h \in Handlers, Asking(h) PROVE Orderly'
    BY <1>1, AskingAside, AsideOrder
  <1>2. ASSUME NEW h \in Handlers, Handling(h) PROVE Orderly'
    <2>1. ~Seize(h) /\ ~Revoked(h) /\ ~RevokeFails(h)
      BY DEF Orderly, SignedIn, Seize, Revoked, RevokeFails
    <2> QED
      BY <1>2, <2>1, Locks, EndsStep, Starts, HandlingAside, AsideOrder DEF Handling
  <1>3. ASSUME NEW h \in Handlers, RunAgain(h) PROVE Orderly'
    BY <1>3, HandlingAside, AsideOrder
  <1> QED
    BY <1>1, <1>2, <1>3, LoopOrder, TickOrder DEF Next

LEMMA OrderKept == ASSUME Orderly, UNCHANGED vars PROVE Orderly'
  <1>1. /\ (server' <=> server) /\ (session' <=> session) /\ (running' <=> running)
        /\ UNCHANGED <<slot, slotlock, lifecycle, loop, tick, request>>
    BY Zenon DEF vars
  <1>2. SignedIn'
    BY <1>1 DEF Orderly, SignedIn
  <1>3. OneHolder' /\ Named'
    BY <1>1 DEF Orderly, OneHolder, Named
  <1>4. Flagged'
    BY <1>1 DEF Orderly, Flagged, AllOff
  <1> QED
    BY <1>2, <1>3, <1>4 DEF Orderly

\* Who has signed out has signed out.
LEMMA SignedOutStays == ASSUME [Next]_vars, signedOut PROVE signedOut'
  <1> USE DEF world
  <1>1. ASSUME NEW l \in Loops, LoopStep(l) PROVE signedOut'
    BY <1>1, Zenon DEF LoopStep, Check, Ticked, Listen, Recheck, Settle, Wake,
      TailFlag, TailShow, TailClear, Dies
  <1>2. ASSUME NEW r \in Runners, TickStep(r) PROVE signedOut'
    BY <1>2, Zenon DEF TickStep, Denied, Fails, Worked
  <1>3. ASSUME NEW h \in Handlers, Asking(h) PROVE signedOut'
    BY <1>3, Zenon DEF Asking, AskStart, AskStop, AskLogout, Login, AskRun, Asks
  <1>4. ASSUME NEW h \in Handlers, Handling(h) PROVE signedOut'
    BY <1>4, Zenon DEF Handling, Lock, Halt, Notify, Take, Seize, GraceOver, Joined, AnswerStop,
      Place, Spawn, LoginDone, Revoked, RevokeFails, RunOver
  <1>5. ASSUME NEW h \in Handlers, RunAgain(h) PROVE signedOut'
    BY <1>5, Zenon DEF RunAgain
  <1>6. CASE UNCHANGED vars
    BY <1>6, Zenon DEF vars
  <1> QED
    BY <1>1, <1>2, <1>3, <1>4, <1>5, <1>6 DEF Next

LEMMA OrderInit == ASSUME Init PROVE Orderly
  <1>0. Off.at = "off" /\ None \notin Handlers /\ None \notin Loops /\ First(Loops) \in Loops
    BY FirstIn, LoopsAssumption, NoneAssumption, Records
  <1>1. PICK auto \in {First(Loops), None} :
          /\ running = (auto # None) /\ slot = auto /\ shown = (auto # None)
          /\ loop = [l \in Loops |-> IF l = auto THEN [Off EXCEPT !.at = "check"] ELSE Off]
    BY DEF Init
  <1>2. \A l \in Loops : loop[l].at = IF l = auto THEN "check" ELSE "off"
    BY <1>1 DEF Off
  <1>3. \A h \in Handlers : request[h] = Free
    BY DEF Init
  <1>4. SignedIn
    <2>1. session <=> server
      BY Zenon DEF Init
    <2>2. \A r \in Runners : tick[r] = Rest
      BY DEF Init
    <2> QED
      BY <1>3, <2>1, <2>2, Records DEF SignedIn
  <1>5. OneHolder
    BY <1>0, <1>3, Records DEF Init, OneHolder, Held, Ending
  <1>6. Named
    BY <1>1, <1>2, <1>3, Records DEF Named
  <1>7. Flagged
    <2>1. running <=> auto # None
      BY <1>1
    <2>2. auto = None => AllOff
      BY <1>0, <1>2 DEF AllOff
    <2> QED
      BY <1>2, <1>3, <2>1, <2>2, Records DEF Flagged, Ending
  <1> QED
    BY <1>4, <1>5, <1>6, <1>7 DEF Orderly

-----------------------------------------------------------------------------
(* The theorems                                                             *)

\* The types, and as long as nobody signs out: one request at a time starts or
\* stops, a task that has not ended is in the slot or with the request that
\* took it, and the flag is down only while a request ends the loop
\* (worker_lifecycle, stop_worker_loop_inner).
THEOREM LoopInvariance == Spec => []Inv
  <1>1. Init => Inv
    BY TypeInit, OrderInit DEF Inv
  <1>2. Inv /\ [Next]_vars => Inv'
    <2> SUFFICES ASSUME Inv, [Next]_vars PROVE Inv'
      OBVIOUS
    <2>1. TypeOK'
      BY TypeStep DEF Inv
    <2>2. CASE signedOut
      BY <2>1, <2>2, SignedOutStays DEF Inv
    <2>3. CASE ~signedOut /\ ~signedOut'
      BY <2>1, <2>3, OrderStep, OrderKept DEF Inv
    <2> QED
      BY <2>1, <2>2, <2>3 DEF Inv
  <1> QED
    BY <1>1, <1>2, PTL DEF Spec

\* However starts and stops overlap, at most one loop is at work, for any
\* number of requests (the handlers of start and stop under worker_lifecycle).
THEOREM OneLoopHolds == Spec => []OneLoop
  <1>1. Inv => OneLoop
    <2> SUFFICES ASSUME Inv, ~signedOut PROVE Cardinality(Live) <= 1
      BY DEF OneLoop
    <2>1. Named /\ OneHolder /\ None \notin Loops
      BY NoneAssumption DEF Inv, Orderly
    <2>2. ASSUME NEW l \in Live, NEW m \in Live PROVE l = m
      <3>1. /\ l \in Loops /\ (slot = l \/ \E h \in Handlers : request[h].loop = l)
            /\ m \in Loops /\ (slot = m \/ \E h \in Handlers : request[h].loop = m)
        BY <2>1 DEF Live, Named
      <3>2. CASE slot = None
        <4>1. PICK h \in Handlers, g \in Handlers : request[h].loop = l /\ request[g].loop = m
          BY <2>1, <3>1, <3>2
        <4>2. request[h].at \in Held /\ request[g].at \in Held
          BY <2>1, <3>1, <4>1 DEF Named, Held, Ending
        <4> QED
          BY <2>1, <4>1, <4>2, Alone
      <3>3. CASE slot # None
        BY <2>1, <3>1, <3>3 DEF Named
      <3> QED
        BY <3>2, <3>3
    <2>3. CASE Live = {}
      BY <2>3, FS_EmptySet
    <2>4. CASE Live # {}
      <3>1. PICK l \in Live : TRUE
        BY <2>4
      <3>2. Live = {l}
        BY <2>2, <3>1
      <3> QED
        BY <3>2, FS_Singleton
    <2> QED
      BY <2>3, <2>4
  <1> QED
    BY <1>1, LoopInvariance, PTL

\* A request that is about to answer a stop, or to start the loop, has left no
\* loop that could still write (stop_worker_loop_inner).
THEOREM StopHolds == Spec => []StopIsFinal
  <1>1. Inv => StopIsFinal
    BY DEF Inv, Orderly, Flagged, AllOff, StopIsFinal
  <1> QED
    BY <1>1, LoopInvariance, PTL
-----------------------------------------------------------------------------
(* The identities of a pair *)

Shake == [end : Ends, key : Nat, agreed : BOOLEAN, peer : Client]

\* A key is filed under an identity: with the client, with a site, or in a
\* handshake, which carries the client's document and one key more.
Files(C, k, u) == C.uuid = u /\ \E e \in Ends : C.key[e] = k
Shaken(x, k, u) == x # Apart /\ (Files(x.peer, k, u) \/ (x.key = k /\ x.peer.uuid = u))
Filed(k, u) ==
  \/ Files(client, k, u)
  \/ \E e \in Ends : site[e].key = k /\ site[e].uuid = u
  \/ \E h \in Pairings : Shaken(shake[h], k, u)

\* Keys come with an identity.
Whole(C) == C.uuid = Absent => \A e \in Ends : C.key[e] = Absent

PeersOK ==
  /\ client \in Client /\ Whole(client)
  /\ site \in [Ends -> [uuid : Names, key : Names]]
  /\ shake \in [Pairings -> Shake \cup {Apart}]
  /\ \A h \in Pairings : shake[h] # Apart => shake[h].peer.uuid # Absent

\* A key is filed under one identity wherever it is, and the next one is new.
KeysInv ==
  /\ ops \in Nat /\ PeersOK
  /\ \A k \in Nat, u, v \in Names : Filed(k, u) /\ Filed(k, v) => u = v
  /\ \A k \in Nat, u \in Names : Filed(k, u) => k <= ops

LEMMA ApartNotShake == Apart.agreed = FALSE /\ Apart.end = Absent
  BY DEF Apart

\* Nothing is filed that was not, but possibly the next key under one name.
LEMMA FilingKeeps ==
  ASSUME KeysInv, ops' \in Nat, ops <= ops', PeersOK', NEW w,
         \A k \in Nat, u \in Names : Filed(k, u)' => Filed(k, u) \/ (k = ops' /\ ops' = ops + 1 /\ u = w)
  PROVE  KeysInv'
  <1>1. ASSUME NEW k \in Nat, NEW u \in Names, Filed(k, u)'
        PROVE  k <= ops'
    BY <1>1 DEF KeysInv
  <1>2. ASSUME NEW k \in Nat, NEW u \in Names, NEW v \in Names, Filed(k, u)', Filed(k, v)'
        PROVE  u = v
    BY <1>2 DEF KeysInv
  <1> HIDE DEF Filed, PeersOK
  <1> QED
    BY <1>1, <1>2 DEF KeysInv

LEMMA GreetKeys ==
  ASSUME KeysInv, NEW h \in Pairings, Greet(h)
  PROVE  KeysInv'
  <1> DEFINE peer == IF client.uuid = Absent THEN [client EXCEPT !.uuid = ops'] ELSE client
  <1>1. PICK e \in Ends : shake' = [shake EXCEPT ![h] =
          [end |-> e, key |-> ops', agreed |-> FALSE, peer |-> peer]]
    BY DEF Greet
  <1>2. ops' = ops + 1 /\ ops \in Nat /\ UNCHANGED <<client, site>> /\ PeersOK
    BY DEF Greet, Op, KeysInv
  <1>3. peer \in Client /\ peer.uuid # Absent /\ peer.key = client.key /\ Whole(peer)
    BY <1>2, AbsentAssumption DEF PeersOK, Client, Names, Whole
  <1>4. \A k \in Nat, u \in Names : Files(peer, k, u) => Files(client, k, u)
    BY <1>2, <1>3, AbsentAssumption DEF Files, PeersOK, Whole
  <1> HIDE DEF peer
  <1> DEFINE x == [end |-> e, key |-> ops', agreed |-> FALSE, peer |-> peer]
  <1>5. x \in Shake /\ x.peer = peer /\ x.key = ops'
    BY <1>2, <1>3 DEF Shake
  <1> HIDE DEF x
  <1>6. shake' = [shake EXCEPT ![h] = x]
    BY <1>1 DEF x
  <1>7. PeersOK'
    BY <1>2, <1>3, <1>5, <1>6 DEF PeersOK, Whole
  <1>8. ASSUME NEW k \in Nat, NEW u \in Names, Filed(k, u)'
        PROVE  Filed(k, u) \/ (k = ops' /\ ops' = ops + 1 /\ u = peer.uuid)
    <2>1. CASE Files(client', k, u) \/ \E i \in Ends : site'[i].key = k /\ site'[i].uuid = u
      BY <1>2, <2>1 DEF Filed
    <2>2. ASSUME NEW g \in Pairings, Shaken(shake'[g], k, u)
          PROVE  Filed(k, u) \/ (k = ops' /\ ops' = ops + 1 /\ u = peer.uuid)
      <3>1. CASE g = h
        <4>1. shake'[g] = x
          BY <1>2, <1>6, <3>1 DEF PeersOK
        <4> QED
          BY <1>2, <1>4, <1>5, <2>2, <4>1 DEF Shaken, Filed
      <3>2. CASE g # h
        <4>1. shake'[g] = shake[g]
          BY <1>2, <1>6, <3>2 DEF PeersOK
        <4> QED
          BY <2>2, <4>1 DEF Filed
      <3> QED
        BY <3>1, <3>2
    <2> QED
      BY <1>8, <2>1, <2>2 DEF Filed
  <1> QED
    BY <1>2, <1>7, <1>8, FilingKeeps DEF KeysInv

LEMMA RegisterKeys ==
  ASSUME KeysInv, NEW h \in Pairings, Register(h)
  PROVE  KeysInv'
  <1>1. /\ shake[h] # Apart /\ UNCHANGED <<client, ops>> /\ PeersOK
        /\ site' = [site EXCEPT ![shake[h].end] = [uuid |-> shake[h].peer.uuid, key |-> shake[h].key]]
        /\ shake' = [shake EXCEPT ![h].agreed = TRUE] \/ shake' = [shake EXCEPT ![h] = Apart]
    BY DEF Register, KeysInv
  <1>2. shake[h] \in Shake
    BY <1>1 DEF PeersOK
  <1> DEFINE x == [shake[h] EXCEPT !.agreed = TRUE]
             y == [uuid |-> shake[h].peer.uuid, key |-> shake[h].key]
  <1>3. x \in Shake /\ x.peer = shake[h].peer /\ x.key = shake[h].key
    BY <1>2 DEF Shake
  <1>4. y \in [uuid : Names, key : Names] /\ y.uuid = shake[h].peer.uuid /\ y.key = shake[h].key
    BY <1>2 DEF Shake, Client, Names
  <1>5. shake' = [shake EXCEPT ![h] = x] \/ shake' = [shake EXCEPT ![h] = Apart]
    BY <1>1
  <1>6. site' = [site EXCEPT ![shake[h].end] = y]
    BY <1>1
  <1> HIDE DEF x, y
  <1>7. PeersOK'
    BY <1>1, <1>2, <1>3, <1>4, <1>5, <1>6 DEF PeersOK, Shake
  <1>8. ASSUME NEW k \in Nat, NEW u \in Names, Filed(k, u)'
        PROVE  Filed(k, u)
    <2>1. CASE Files(client', k, u)
      BY <1>1, <2>1 DEF Filed
    <2>2. ASSUME NEW e \in Ends, site'[e].key = k, site'[e].uuid = u
          PROVE  Filed(k, u)
      <3>1. site'[e] = site[e] \/ site'[e] = y
        BY <1>1, <1>6 DEF PeersOK
      <3> QED
        BY <1>1, <1>4, <2>2, <3>1 DEF Filed, Shaken
    <2>3. ASSUME NEW g \in Pairings, Shaken(shake'[g], k, u)
          PROVE  Filed(k, u)
      <3>1. shake'[g] = shake[g] \/ (g = h /\ shake'[g] = x) \/ shake'[g] = Apart
        BY <1>1, <1>5 DEF PeersOK
      <3> QED
        BY <1>1, <1>3, <2>3, <3>1 DEF Filed, Shaken
    <2> QED
      BY <1>8, <2>1, <2>2, <2>3 DEF Filed
  <1> QED
    BY <1>1, <1>7, <1>8, FilingKeeps DEF KeysInv

LEMMA RememberKeys ==
  ASSUME KeysInv, NEW h \in Pairings, Remember(h)
  PROVE  KeysInv'
  <1>1. /\ shake[h].agreed /\ UNCHANGED <<site, ops>> /\ PeersOK
        /\ client' = Agreed(h) /\ shake' = [shake EXCEPT ![h] = Apart]
    BY DEF Remember, KeysInv
  <1>2. shake[h] # Apart /\ shake[h] \in Shake /\ shake[h].peer.uuid # Absent
    BY <1>1, ApartNotShake DEF PeersOK
  <1>3. /\ Agreed(h) \in Client /\ Agreed(h).uuid = shake[h].peer.uuid
        /\ \A e \in Ends : Agreed(h).key[e] \in {shake[h].peer.key[e], shake[h].key}
    BY <1>2 DEF Agreed, Shake, Client, Names
  <1>4. PeersOK'
    BY <1>1, <1>2, <1>3 DEF PeersOK, Whole
  <1>5. ASSUME NEW k \in Nat, NEW u \in Names, Filed(k, u)'
        PROVE  Filed(k, u)
    <2>1. CASE Files(client', k, u)
      <3>1. Shaken(shake[h], k, u)
        BY <1>1, <1>2, <1>3, <2>1 DEF Files, Shaken
      <3> QED
        BY <3>1 DEF Filed
    <2>2. ASSUME NEW g \in Pairings, Shaken(shake'[g], k, u)
          PROVE  Filed(k, u)
      <3>1. shake'[g] = shake[g] \/ shake'[g] = Apart
        BY <1>1 DEF PeersOK
      <3> QED
        BY <2>2, <3>1 DEF Filed, Shaken
    <2> QED
      BY <1>1, <1>5, <2>1, <2>2 DEF Filed
  <1> QED
    BY <1>1, <1>4, <1>5, FilingKeeps DEF KeysInv

LEMMA ForgetKeys ==
  ASSUME KeysInv, Forget
  PROVE  KeysInv'
  <1>1. PICK e \in Ends : client' = [client EXCEPT !.key[e] = Absent]
    BY DEF Forget
  <1>2. UNCHANGED <<site, shake>> /\ ops' = ops + 1 /\ ops \in Nat /\ PeersOK
    BY DEF Forget, Op, KeysInv
  <1>3. /\ client' \in Client /\ client'.uuid = client.uuid
        /\ \A i \in Ends : client'.key[i] \in {client.key[i], Absent}
    BY <1>1, <1>2 DEF PeersOK, Client, Names
  <1>4. PeersOK'
    BY <1>2, <1>3 DEF PeersOK, Whole
  <1>5. ASSUME NEW k \in Nat, NEW u \in Names, Filed(k, u)'
        PROVE  Filed(k, u)
    BY <1>2, <1>3, <1>5, AbsentAssumption DEF Filed, Files
  <1> QED
    BY <1>2, <1>4, <1>5, FilingKeeps

LEMMA CrashKeys ==
  ASSUME KeysInv, Crash
  PROVE  KeysInv'
  <1>1. UNCHANGED <<client, site, ops>> /\ shake' = [h \in Pairings |-> Apart] /\ PeersOK
    BY DEF Crash, KeysInv
  <1>2. PeersOK'
    BY <1>1 DEF PeersOK
  <1>3. ASSUME NEW k \in Nat, NEW u \in Names, Filed(k, u)' PROVE Filed(k, u)
    BY <1>1, <1>3 DEF Filed, Shaken
  <1> QED
    BY <1>1, <1>2, <1>3, FilingKeeps DEF KeysInv

LEMMA OtherKeys ==
  ASSUME KeysInv, UNCHANGED peers, ops' \in {ops, ops + 1}
  PROVE  KeysInv'
  <1>1. UNCHANGED <<client, site, shake>> /\ ops' \in Nat /\ ops <= ops'
    BY DEF peers, KeysInv
  <1>2. PeersOK'
    BY <1>1 DEF PeersOK, KeysInv
  <1>3. ASSUME NEW k \in Nat, NEW u \in Names, Filed(k, u)' PROVE Filed(k, u)
    BY <1>1, <1>3 DEF Filed
  <1> QED
    BY <1>1, <1>2, <1>3, FilingKeeps

LEMMA PeersStay ==
  ASSUME PairNext
  PROVE  \/ \E h \in Pairings : Greet(h) \/ Register(h) \/ Remember(h)
         \/ Forget \/ Crash
         \/ UNCHANGED peers /\ ops' \in {ops, ops + 1}
  <1>1. ASSUME NEW r \in Runs, Begin(r) \/ PairStep(r)
        PROVE  UNCHANGED peers /\ ops' \in {ops, ops + 1}
    BY <1>1 DEF Begin, ByHand, PairStep, Op, Digest, Sort, Pull, Ship, Bury, EndPage, Rotate, Ask, Act, Finish,
                CallFails, still
  <1>2. ASSUME NEW p \in Posts, Approve(p) \/ Reject(p)
        PROVE  UNCHANGED peers /\ ops' \in {ops, ops + 1}
    BY <1>2 DEF Approve, Reject, still
  <1>3. CASE Edit \/ Delete \/ Create \/ Published
    BY <1>3 DEF Edit, Delete, Create, Published, Op
  <1> QED
    BY <1>1, <1>2, <1>3 DEF PairNext

LEMMA KeysInit == PairInit => KeysInv
  <1> SUFFICES ASSUME PairInit PROVE KeysInv
    OBVIOUS
  <1>1. PICK k \in {0, Absent} :
          /\ client = [uuid |-> k, key |-> [e \in Ends |-> k]]
          /\ site = [e \in Ends |-> [uuid |-> k, key |-> k]]
    BY DEF PairInit
  <1>2. shake = [h \in Pairings |-> Apart] /\ ops = 0
    BY DEF PairInit
  <1>3. client.uuid = k /\ \A e \in Ends : client.key[e] = k /\ site[e].key = k /\ site[e].uuid = k
    BY <1>1
  <1>4. PeersOK
    BY <1>1, <1>2, <1>3 DEF PeersOK, Client, Names, Whole
  <1>5. \A i \in Nat, u \in Names : Filed(i, u) => i = 0 /\ u = 0
    BY <1>2, <1>3, AbsentAssumption DEF Filed, Files, Shaken
  <1> HIDE DEF Filed
  <1> QED
    BY <1>2, <1>4, <1>5 DEF KeysInv

LEMMA KeysNext == KeysInv /\ [PairNext]_pairVars => KeysInv'
  <1> SUFFICES ASSUME KeysInv, [PairNext]_pairVars PROVE KeysInv'
    OBVIOUS
  <1>1. CASE UNCHANGED pairVars
    BY <1>1, OtherKeys DEF pairVars
  <1> QED
    BY <1>1, PeersStay, GreetKeys, RegisterKeys, RememberKeys, ForgetKeys, CrashKeys, OtherKeys

\* A key is filed under one identity wherever it is filed: in the client's
\* document, with a site, and in every handshake under way.
THEOREM KeysInvariance == PairSpec => []KeysInv
  <1> QED
    BY KeysInit, KeysNext, PTL DEF PairSpec

\* A key that the client and a site agree on stands under the identity the
\* site registered, however calls of pair_with_site overlap and are cut off.
THEOREM KeysAgree == PairSpec => []KeysKeepIdentity
  <1>1. KeysInv => KeysKeepIdentity
    <2> SUFFICES ASSUME KeysInv, NEW e \in Ends, client.key[e] # Absent, client.key[e] = site[e].key
                 PROVE  client.uuid = site[e].uuid
      BY DEF KeysKeepIdentity
    <2>1. client.key[e] \in Nat /\ client.uuid \in Names /\ site[e].uuid \in Names
      BY DEF KeysInv, PeersOK, Client, Names
    <2>2. Filed(client.key[e], client.uuid) /\ Filed(client.key[e], site[e].uuid)
      BY DEF Filed, Files
    <2> QED
      BY <2>1, <2>2 DEF KeysInv
  <1> QED
    BY <1>1, KeysInvariance, PTL

-----------------------------------------------------------------------------
(* The cursor of a pair *)

LEMMA LeastNat ==
  ASSUME NEW T \in SUBSET Nat, T # {}
  PROVE  \E x \in T : \A y \in T : x <= y
  <1> DEFINE R == OpToRel(<, Nat)
  <1>1. IsWellFoundedOn(R, Nat)
    BY NatLessThanWellFounded
  <1>2. \A x, y \in Nat : x < y => <<x, y>> \in R
    BY DEF OpToRel
  <1> HIDE DEF R
  <1>3. PICK x \in T : \A y \in T : <<y, x>> \notin R
    BY <1>1, WFMin
  <1>4. ASSUME NEW y \in T PROVE x <= y
    <2>1. <<y, x>> \notin R /\ x \in Nat /\ y \in Nat
      BY <1>3
    <2>2. ~ (y < x)
      BY <1>2, <2>1
    <2> QED
      BY <2>1, <2>2
  <1> QED
    BY <1>4

\* A smallest set without a greatest number would have one.
LEMMA MaxOf ==
  ASSUME NEW S \in SUBSET Nat, S # {}, IsFiniteSet(S)
  PROVE  Max(S) \in S /\ \A x \in S : x <= Max(S)
  <1> DEFINE Great(A) == \E m \in A : \A x \in A : x <= m
             T == {n \in Nat : \E A \in SUBSET S : A # {} /\ Cardinality(A) = n /\ ~Great(A)}
  <1>1. T = {}
    <2> SUFFICES ASSUME T # {} PROVE FALSE
      OBVIOUS
    <2>1. PICK n \in T : \A k \in T : n <= k
      BY LeastNat
    <2>2. PICK A \in SUBSET S : A # {} /\ Cardinality(A) = n /\ ~Great(A)
      BY <2>1
    <2>3. PICK a \in A : TRUE
      BY <2>2
    <2> DEFINE B == A \ {a}
    <2>4. IsFiniteSet(A) /\ n \in Nat /\ Cardinality(B) = n - 1 /\ Cardinality(B) \in Nat /\ B \in SUBSET S
      BY <2>1, <2>2, <2>3, FS_Subset, FS_RemoveElement, FS_CardinalityType
    <2>5. Cardinality(B) \notin T
      <3> HIDE DEF T, B
      <3> QED
        BY <2>1, <2>4
    <2>6. CASE B = {}
      BY <2>2, <2>3, <2>6
    <2>7. CASE B # {}
      <3>1. Great(B)
        BY <2>4, <2>5, <2>7
      <3>2. PICK m \in B : \A x \in B : x <= m
        BY <3>1
      <3>3. IF m < a THEN \A x \in A : x <= a ELSE \A x \in A : x <= m
        BY <2>4, <3>2
      <3> QED
        BY <2>2, <2>3, <3>2, <3>3
    <2> QED
      BY <2>6, <2>7
  <1>2. Cardinality(S) \in Nat
    BY FS_CardinalityType
  <1>3. Great(S)
    BY <1>1, <1>2
  <1> QED
    BY <1>3 DEF Max

LEMMA Foremost ==
  ASSUME NEW S \in SUBSET Nat, IsFiniteSet(S), NEW n \in Nat,
         NEW q \in FirstOf(S, n), NEW p \in S, p <= q
  PROVE  p \in FirstOf(S, n)
  <1> DEFINE P == {x \in S : x < p}
             Q == {x \in S : x < q}
  <1>1. P \in SUBSET Q /\ Q \in SUBSET S /\ P \in SUBSET S
    <2>1. p \in Nat /\ q \in Nat /\ S \subseteq Nat
      BY DEF FirstOf
    <2>2. \A x \in S : x < p => x < q
      BY <2>1
    <2> QED
      BY <2>2
  <1>2. IsFiniteSet(Q) /\ Cardinality(P) <= Cardinality(Q)
    BY <1>1, FS_Subset
  <1>3. Cardinality(P) \in Nat /\ Cardinality(Q) \in Nat
    BY <1>1, FS_Subset, FS_CardinalityType
  <1>4. Cardinality(Q) < n
    BY DEF FirstOf
  <1>5. Cardinality(P) < n
    BY <1>2, <1>3, <1>4
  <1> QED
    BY <1>5 DEF FirstOf

Source == [ver : Nat, st : {"live", "trash", "gone"}]
Scanning == {"digest", "sort", "pull", "ship", "bury"}

\* The posts the run may still owe, and those that are deleted for good.
Owed == {p \in Posts : source[p].st # "gone" /\ p \notin missed /\ state.known[p] = Absent /\ parked[p] = Absent}
Deleted == {p \in Posts : source[p].st = "gone"}

Unasked(R, p) == p \in Extra /\ ~R.pair.extra

\* What a run holds.
Holding(R) ==
  /\ DOMAIN R = DOMAIN Idle
  /\ R.scan \in Nat /\ R.safe \in Nat /\ R.blocked \in BOOLEAN
  /\ R.at # "idle" => R.pair \in Terms
  /\ DOMAIN R.page \subseteq Posts /\ \A p \in DOMAIN R.page : R.page[p].ver \in Nat
  /\ R.todo \subseteq Posts /\ R.bury \subseteq Posts
  /\ DOMAIN R.got \subseteq Posts /\ \A p \in DOMAIN R.got : R.got[p] \in Nat

\* What a scan owes lies above its cursor; what lies between that and the end
\* of the scan is on the page, unless the pair does not ask for it or a post
\* has blocked the cursor.  What converged or is to be buried is not owed.
Scan(R, owed) ==
  /\ \A p \in owed : p > R.safe /\ p \notin R.conv \cup R.bury
  /\ R.bury \subseteq DOMAIN R.page /\ \A p \in DOMAIN R.page : p <= R.scan
  /\ R.at = "digest" => DOMAIN R.page = {}
  /\ ~R.blocked => \A p \in owed : p <= R.scan => p \in DOMAIN R.page \/ Unasked(R, p)

RunKeeps(R, owed, deleted) ==
  /\ Holding(R)
  /\ R.at \in Scanning => Scan(R, owed)
  /\ R.at = "act" => R.bury \subseteq deleted

StoredOK ==
  /\ source \in [Posts -> Source] /\ pair \in Terms \cup {Absent}
  /\ DOMAIN state = {"cursor", "turn", "known"} /\ state.cursor \in Nat
  /\ state.known \in [Posts -> Entry \cup {Absent}] /\ parked \in [Posts -> Waiting \cup {Absent}]

CursorInv ==
  /\ StoredOK /\ \A p \in Owed : p > state.cursor
  /\ DOMAIN run = Runs /\ \A r \in Runs : RunKeeps(run[r], Owed, Deleted)

\* What is owed can only shrink, and what is deleted only grow.
LEMMA RunStays ==
  ASSUME NEW R, NEW owed, NEW deleted, NEW owing \in SUBSET owed, NEW gone, deleted \subseteq gone,
         RunKeeps(R, owed, deleted)
  PROVE  RunKeeps(R, owing, gone)
  BY DEF RunKeeps, Scan

LEMMA IdleRun == \A owed, deleted : RunKeeps(Idle, owed, deleted)
  BY DEF RunKeeps, Holding, Idle, Scanning

\* A step that goes no further than one run.
LEMMA CursorStep ==
  ASSUME CursorInv, NEW r \in Runs, DOMAIN run' = Runs, \A s \in Runs \ {r} : run'[s] = run[s],
         StoredOK', Owed' \subseteq Owed, Deleted \subseteq Deleted', \A p \in Owed' : p > state'.cursor,
         RunKeeps(run'[r], Owed', Deleted')
  PROVE  CursorInv'
  <1>1. ASSUME NEW s \in Runs \ {r} PROVE RunKeeps(run'[s], Owed', Deleted')
    <2>1. RunKeeps(run[s], Owed, Deleted) /\ run'[s] = run[s]
      BY DEF CursorInv
    <2> QED
      BY <2>1, RunStays
  <1> QED
    BY <1>1 DEF CursorInv

\* What is stored changes, no run does.
LEMMA StoredStep ==
  ASSUME CursorInv, UNCHANGED run, StoredOK', Owed' \subseteq Owed, Deleted \subseteq Deleted',
         \A p \in Owed' : p > state'.cursor
  PROVE  CursorInv'
  <1>1. ASSUME NEW s \in Runs PROVE RunKeeps(run'[s], Owed', Deleted')
    <2>1. RunKeeps(run[s], Owed, Deleted) /\ run'[s] = run[s]
      BY DEF CursorInv
    <2> QED
      BY <2>1, RunStays
  <1> QED
    BY <1>1 DEF CursorInv

\* A run moves and nothing is stored but its place in the rotation.
LEMMA RunStep ==
  ASSUME CursorInv, NEW r \in Runs, UNCHANGED <<source, pair, parked, missed>>,
         DOMAIN state' = DOMAIN state, state'.cursor = state.cursor, state'.known = state.known,
         NEW R, Sets(r, R), RunKeeps(R, Owed, Deleted)
  PROVE  CursorInv'
  <1>1. DOMAIN run' = Runs /\ run'[r] = R /\ \A s \in Runs \ {r} : run'[s] = run[s]
    BY DEF CursorInv, Sets
  <1>2. Owed' = Owed /\ Deleted' = Deleted
    BY DEF Owed, Deleted
  <1>3. StoredOK' /\ \A p \in Owed : p > state'.cursor
    BY DEF CursorInv, StoredOK
  <1> HIDE DEF Owed, Deleted
  <1> QED
    BY <1>1, <1>2, <1>3, CursorStep

-----------------------------------------------------------------------------
(* The scan *)

LEMMA BeginCursor ==
  ASSUME CursorInv, NEW r \in Runs, Begin(r)
  PROVE  CursorInv'
  <1> DEFINE R == [Idle EXCEPT !.at = "digest", !.scan = state.cursor, !.safe = state.cursor,
                               !.peer = client, !.pair = pair]
  <1>1. UNCHANGED <<source, pair, parked, missed, state>> /\ Sets(r, R) /\ pair # Absent
    BY DEF Begin, still, inbox
  <1>2. /\ DOMAIN R = DOMAIN Idle /\ R.at = "digest" /\ R.scan = state.cursor /\ R.safe = state.cursor
        /\ R.blocked = FALSE /\ R.pair = pair /\ R.page = <<>> /\ R.got = <<>> /\ R.conv = {} /\ R.bury = {}
        /\ R.todo = {}
    BY DEF Idle
  <1> HIDE DEF R
  <1>3. pair \in Terms /\ state.cursor \in Nat /\ \A p \in Owed : p > state.cursor /\ p \in Nat
    BY <1>1, PostsAssumption DEF CursorInv, StoredOK, Owed
  <1>4. Scan(R, Owed)
    BY <1>2, <1>3 DEF Scan
  <1>6. Holding(R)
    <2>1. DOMAIN R.page = {} /\ DOMAIN R.got = {}
      BY <1>2
    <2> QED
      BY <1>2, <1>3, <2>1 DEF Holding
  <1>5. RunKeeps(R, Owed, Deleted)
    BY <1>2, <1>4, <1>6 DEF RunKeeps
  <1> QED
    BY <1>1, <1>5, RunStep

LEMMA DigestCursor ==
  ASSUME CursorInv, NEW r \in Runs, Digest(r)
  PROVE  CursorInv'
  <1> DEFINE page == FirstOf(Listed(r), PageSize)
             seen == [p \in page |-> source[p]]
             A == [run[r] EXCEPT !.at = "rotate"]
             B == [run[r] EXCEPT !.at = "sort", !.scan = Max(page), !.page = seen]
  <1>1. /\ UNCHANGED <<source, pair, parked, missed, state>> /\ run[r].at = "digest"
        /\ IF page = {} THEN Sets(r, A) ELSE Sets(r, B)
    BY DEF Digest, still, inbox
  <1>2. RunKeeps(run[r], Owed, Deleted) /\ Holding(run[r]) /\ Scan(run[r], Owed)
    BY <1>1 DEF CursorInv, RunKeeps, Scanning
  <1>3. CASE page = {}
    <2>1. /\ DOMAIN A = DOMAIN Idle /\ A.at = "rotate" /\ A.scan = run[r].scan /\ A.safe = run[r].safe
          /\ A.blocked = run[r].blocked /\ A.pair = run[r].pair /\ A.page = run[r].page /\ A.got = run[r].got
          /\ A.todo = run[r].todo /\ A.bury = run[r].bury
      BY <1>2 DEF Holding, Idle
    <2> HIDE DEF A
    <2>2. RunKeeps(A, Owed, Deleted)
      BY <1>1, <1>2, <2>1 DEF RunKeeps, Holding, Scanning
    <2> QED
      BY <1>1, <1>3, <2>2, RunStep
  <1>4. CASE page # {}
    <2>1. Listed(r) \subseteq Posts /\ page \subseteq Listed(r) /\ IsFiniteSet(Posts) /\ Posts \subseteq Nat
      BY PostsAssumption DEF Listed, FirstOf
    <2>2. IsFiniteSet(Listed(r)) /\ IsFiniteSet(page)
      BY <2>1, FS_Subset
    <2>3. Max(page) \in page /\ Max(page) \in Nat /\ \A p \in page : p <= Max(page)
      BY <1>4, <2>1, <2>2, MaxOf
    <2>4. ASSUME NEW p \in Owed, p <= Max(page), p > run[r].scan
          PROVE  p \in page \/ Unasked(run[r], p)
      <3>1. CASE p \in Listed(r)
        <4>1. PageSize \in Nat
          BY SizesAssumption
        <4> QED
          BY <2>1, <2>2, <2>3, <2>4, <3>1, <4>1, Foremost
      <3>2. CASE p \notin Listed(r)
        BY <2>4, <3>2 DEF Listed, Owed, Unasked
      <3> QED
        BY <3>1, <3>2
    <2>5. DOMAIN seen = page /\ \A p \in page : seen[p].ver \in Nat
      BY <2>1 DEF CursorInv, StoredOK, Source
    <2> HIDE DEF page, seen
    <2>6. /\ DOMAIN B = DOMAIN Idle /\ B.at = "sort" /\ B.scan = Max(page) /\ B.safe = run[r].safe
          /\ B.blocked = run[r].blocked /\ B.pair = run[r].pair /\ B.page = seen /\ B.got = run[r].got
          /\ B.conv = run[r].conv /\ B.bury = run[r].bury /\ B.todo = run[r].todo
      BY <1>2 DEF Holding, Idle
    <2> HIDE DEF B
    <2>7. Holding(B)
      BY <1>1, <1>2, <2>1, <2>3, <2>5, <2>6 DEF Holding
    <2>8. ASSUME ~B.blocked, NEW p \in Owed, p <= B.scan
          PROVE  p \in DOMAIN B.page \/ Unasked(B, p)
      <3>1. CASE p <= run[r].scan
        BY <1>1, <1>2, <2>6, <2>8, <3>1 DEF Scan, Unasked
      <3>2. CASE ~(p <= run[r].scan)
        <4>1. p > run[r].scan
          BY <1>2, <2>1, <3>2 DEF Owed, Holding
        <4> QED
          BY <2>4, <2>5, <2>6, <2>8, <4>1 DEF Unasked
      <3> QED
        BY <3>1, <3>2
    <2>9. Scan(B, Owed)
      BY <1>1, <1>2, <2>3, <2>5, <2>6, <2>8 DEF Scan
    <2>10. RunKeeps(B, Owed, Deleted)
      BY <2>6, <2>7, <2>9 DEF RunKeeps
    <2> QED
      BY <1>1, <1>4, <2>10, RunStep DEF page, seen
  <1> QED
    BY <1>3, <1>4

\* The cursor goes no further than an unbroken run of what converged.
LEMMA SafeOf ==
  ASSUME NEW safe \in Nat, NEW page \in SUBSET Posts, NEW conv
  PROVE  /\ Safe(safe, page, conv) \in Nat /\ safe <= Safe(safe, page, conv)
         /\ Safe(safe, page, conv) = safe \/ Safe(safe, page, conv) \in page
         /\ \A p \in page : p <= Safe(safe, page, conv) => p <= safe \/ p \in conv
         /\ page \subseteq conv => \A p \in page : p <= Safe(safe, page, conv)
  <1> DEFINE T == {p \in page : \A q \in page : q <= p => q \in conv}
             S == {safe} \cup T
  <1>1. Posts \subseteq Nat /\ IsFiniteSet(T)
    BY PostsAssumption, FS_Subset
  <1>2. S \in SUBSET Nat /\ S # {} /\ IsFiniteSet(S)
    <2>1. IsFiniteSet(T \cup {safe}) /\ S = T \cup {safe}
      BY <1>1, FS_AddElement
    <2> QED
      BY <1>1, <2>1
  <1>3. Max(S) \in S /\ \A x \in S : x <= Max(S)
    BY <1>2, MaxOf
  <1>4. Safe(safe, page, conv) = Max(S)
    BY DEF Safe
  <1>5. page \subseteq conv => T = page
    OBVIOUS
  <1>6. \A p \in page : p <= Max(S) => p <= safe \/ p \in conv
    BY <1>1, <1>3
  <1> HIDE DEF S, T
  <1> QED
    BY <1>2, <1>3, <1>4, <1>5, <1>6 DEF S, T

\* Storing the cursor of a page leaves nothing behind that is still owed.
LEMMA Advance ==
  ASSUME NEW R, NEW owed, NEW owing \in SUBSET owed, owed \subseteq Posts, Holding(R), Scan(R, owed),
         NEW conv, \A p \in owing : p \notin conv,
         NEW safe, safe = IF R.blocked THEN R.safe ELSE Safe(R.safe, DOMAIN R.page, conv),
         \A p \in owing : p <= safe => ~Unasked(R, p)
  PROVE  /\ safe \in Nat /\ \A p \in owing : p > safe
         /\ ~R.blocked /\ DOMAIN R.page \subseteq conv => \A p \in DOMAIN R.page : p <= safe
  <1> DEFINE page == DOMAIN R.page
  <1>1. R.safe \in Nat /\ R.scan \in Nat /\ page \in SUBSET Posts /\ owing \subseteq Nat /\ page \subseteq Nat
    BY PostsAssumption DEF Holding
  <1>2. CASE R.blocked
    BY <1>1, <1>2 DEF Scan
  <1>3. CASE ~R.blocked
    <2>1. /\ safe \in Nat /\ R.safe <= safe /\ (safe = R.safe \/ safe \in page)
          /\ \A p \in page : p <= safe => p <= R.safe \/ p \in conv
          /\ page \subseteq conv => \A p \in page : p <= safe
      BY <1>1, <1>3, SafeOf
    <2>2. ASSUME NEW p \in owing, p <= safe
          PROVE  FALSE
      <3>1. p \in Nat /\ p > R.safe /\ p \in owed
        BY <1>1 DEF Scan
      <3>2. safe \in page
        BY <1>1, <2>1, <2>2, <3>1
      <3>3. p <= R.scan
        BY <1>1, <2>1, <2>2, <3>1, <3>2 DEF Scan
      <3>4. p \in page
        BY <1>3, <2>2, <3>1, <3>3 DEF Scan
      <3> QED
        BY <1>1, <2>1, <2>2, <3>1, <3>4
    <2>3. ASSUME NEW p \in owing PROVE p > safe
      <3>1. p \in Nat /\ safe \in Nat /\ ~(p <= safe)
        BY <1>1, <2>1, <2>2
      <3> QED
        BY <3>1
    <2> HIDE DEF page
    <2> QED
      BY <2>1, <2>3 DEF page
  <1> QED
    BY <1>2, <1>3

LEMMA SortCursor ==
  ASSUME CursorInv, NEW r \in Runs, Sort(r)
  PROVE  CursorInv'
  <1> DEFINE R == run[r]
             page == DOMAIN R.page
             conv == {p \in page : Converged(p, R.page[p])}
             bury == {p \in page : Buries(p, R.page[p])}
             gone == {p \in conv : parked[p] = Absent /\ state.known[p] # Absent /\ Forgets(state.known[p], R.page[p])
                                     /\ state.known[p].ver # R.page[p].ver}
             safe == IF R.blocked THEN R.safe ELSE Safe(R.safe, page, conv)
             known == [p \in Posts |-> IF p \in gone THEN Absent ELSE state.known[p]]
             at == IF page = conv \cup bury THEN "bury" ELSE "pull"
             todo == page \ (conv \cup bury)
             X == [R EXCEPT !.at = at, !.conv = conv, !.bury = bury, !.todo = todo, !.safe = safe]
  <1>1. /\ R.at = "sort" /\ Sets(r, X) /\ UNCHANGED <<source, pair, parked>>
        /\ state' = [state EXCEPT !.cursor = safe, !.known = known]
        /\ missed' = missed \cup Passes(r, safe) \cup {p \in conv : parked[p] = Absent /\ known[p] = Absent}
    BY DEF Sort, still, inbox
  <1>2. RunKeeps(R, Owed, Deleted) /\ Holding(R) /\ Scan(R, Owed) /\ StoredOK
    BY <1>1 DEF CursorInv, RunKeeps, Scanning
  <1>3. page \subseteq Posts /\ conv \subseteq page /\ bury \subseteq page /\ gone \subseteq conv /\ todo \subseteq page
    BY <1>2 DEF Holding
  <1>4. \A p \in bury : p \notin conv /\ state.known[p] # Absent
    BY DEF Buries, Unwanted
  <1>5. at \in {"bury", "pull"}
    OBVIOUS
  <1> HIDE DEF conv, bury, gone, at, todo, safe
  <1>6. \A p \in Posts : known[p] = IF p \in gone THEN Absent ELSE state.known[p]
    OBVIOUS
  <1>7. known \in [Posts -> Entry \cup {Absent}]
    BY <1>2 DEF StoredOK
  <1> HIDE DEF known
  <1>8. DOMAIN state' = {"cursor", "turn", "known"} /\ state'.cursor = safe /\ state'.known = known
    BY <1>1, <1>2 DEF StoredOK
  <1>9. \A p \in gone : parked[p] = Absent
    BY DEF gone
  <1>10. Owed' = {p \in Posts : source[p].st # "gone" /\ p \notin missed' /\ known[p] = Absent /\ parked[p] = Absent}
    BY <1>1, <1>8 DEF Owed
  <1>11. \A p \in Owed' : p \in Owed /\ p \notin conv /\ p \notin bury /\ p \notin Passes(r, safe)
    BY <1>1, <1>3, <1>4, <1>6, <1>9, <1>10 DEF Owed
  <1>12. Deleted' = Deleted
    BY <1>1 DEF Deleted
  <1>13. \A p \in Owed' : p <= safe => ~Unasked(R, p)
    BY <1>11 DEF Passes, Unasked
  <1>14. safe = IF R.blocked THEN R.safe ELSE Safe(R.safe, DOMAIN R.page, conv)
    BY DEF safe
  <1>15. Owed \subseteq Posts /\ Owed' \in SUBSET Owed
    BY <1>11 DEF Owed
  <1>16. safe \in Nat /\ \A p \in Owed' : p > safe
    <2> HIDE DEF Owed, Scan, Unasked, Holding
    <2> QED
      BY <1>2, <1>11, <1>13, <1>14, <1>15, Advance
  <1>17. /\ DOMAIN X = DOMAIN Idle /\ X.at = at /\ X.scan = R.scan /\ X.safe = safe /\ X.blocked = R.blocked
         /\ X.pair = R.pair /\ X.page = R.page /\ X.got = R.got /\ X.conv = conv /\ X.bury = bury
         /\ X.todo = todo
    BY <1>2 DEF Holding, Idle
  <1>18. DOMAIN run' = Runs /\ run'[r] = X /\ \A s \in Runs \ {r} : run'[s] = run[s]
    BY <1>1 DEF CursorInv, Sets
  <1> HIDE DEF X
  <1>19. Scan(X, Owed')
    BY <1>2, <1>3, <1>5, <1>11, <1>16, <1>17 DEF Scan, Unasked
  <1>20. Holding(X)
    BY <1>1, <1>2, <1>3, <1>5, <1>16, <1>17 DEF Holding
  <1>21. RunKeeps(X, Owed', Deleted')
    BY <1>5, <1>17, <1>19, <1>20 DEF RunKeeps
  <1>22. StoredOK'
    BY <1>1, <1>2, <1>7, <1>8, <1>16 DEF StoredOK
  <1> QED
    BY <1>8, <1>12, <1>15, <1>16, <1>18, <1>21, <1>22, CursorStep

LEMMA PullCursor ==
  ASSUME CursorInv, NEW r \in Runs, Pull(r)
  PROVE  CursorInv'
  <1> DEFINE batch == FirstOf(run[r].todo, PullBatch)
             todo == run[r].todo \ batch
             got == [p \in batch |-> source[p].ver]
             A == [run[r] EXCEPT !.at = "bury"]
             B == [run[r] EXCEPT !.at = "ship", !.todo = todo, !.got = got]
  <1>1. /\ UNCHANGED <<source, pair, parked, missed, state>> /\ run[r].at = "pull"
        /\ Sets(r, A) \/ Sets(r, B)
    BY DEF Pull, still, inbox, To
  <1>2. RunKeeps(run[r], Owed, Deleted) /\ Holding(run[r]) /\ Scan(run[r], Owed)
    BY <1>1 DEF CursorInv, RunKeeps, Scanning
  <1>3. /\ DOMAIN A = DOMAIN Idle /\ A.at = "bury" /\ A.scan = run[r].scan /\ A.safe = run[r].safe
        /\ A.blocked = run[r].blocked /\ A.pair = run[r].pair /\ A.page = run[r].page /\ A.got = run[r].got
        /\ A.conv = run[r].conv /\ A.bury = run[r].bury /\ A.todo = run[r].todo
    BY <1>2 DEF Holding, Idle
  <1> HIDE DEF A
  <1>4. RunKeeps(A, Owed, Deleted)
    BY <1>1, <1>2, <1>3 DEF RunKeeps, Scan, Holding, Unasked
  <1>5. batch \subseteq run[r].todo /\ todo \subseteq run[r].todo /\ DOMAIN got = batch /\ \A p \in batch : got[p] = source[p].ver
    BY DEF FirstOf
  <1> HIDE DEF batch, todo, got
  <1>6. /\ DOMAIN B = DOMAIN Idle /\ B.at = "ship" /\ B.scan = run[r].scan /\ B.safe = run[r].safe
        /\ B.blocked = run[r].blocked /\ B.pair = run[r].pair /\ B.page = run[r].page /\ B.got = got
        /\ B.conv = run[r].conv /\ B.bury = run[r].bury /\ B.todo = todo
    BY <1>2 DEF Holding, Idle
  <1> HIDE DEF B
  <1>7. \A p \in batch : p \in Posts /\ source[p].ver \in Nat
    BY <1>2, <1>5 DEF Holding, CursorInv, StoredOK, Source
  <1>8. RunKeeps(B, Owed, Deleted)
    <2>1. Holding(B)
      BY <1>1, <1>2, <1>5, <1>6, <1>7 DEF Holding
    <2>2. Scan(B, Owed)
      BY <1>2, <1>6 DEF Scan, Unasked
    <2> QED
      BY <1>6, <2>1, <2>2 DEF RunKeeps
  <1> QED
    BY <1>1, <1>4, <1>8, RunStep DEF A, B

\* A post that is delivered is parked or known.
LEMMA Delivered ==
  ASSUME CursorInv, NEW r \in Runs, NEW p \in Posts, NEW v \in Nat, Delivers(r, p, v),
         UNCHANGED <<source, pair, missed>>
  PROVE  StoredOK' /\ state'.cursor = state.cursor /\ Owed' \subseteq Owed /\ p \notin Owed' /\ Deleted' = Deleted
  <1>1. StoredOK
    BY DEF CursorInv
  <1>2. /\ Shipped(v) \in Entry /\ Shipped(v) # Absent
        /\ [ver |-> v, by |-> Absent] \in Waiting /\ [ver |-> v, by |-> Absent] # Absent
    <2>1. Absent \notin Entry /\ Absent \notin Waiting
      BY AbsentAssumption
    <2>2. Shipped(v) \in Entry
      BY DEF Shipped, Entry
    <2>3. [ver |-> v, by |-> Absent] \in Waiting
      BY DEF Waiting
    <2> QED
      BY <2>1, <2>2, <2>3
  <1>3. CASE run[r].pair.parks
    <2>1. UNCHANGED state /\ \E w : parked' = [parked EXCEPT ![p] = w] /\ w \in {[ver |-> v, by |-> Absent], parked[p]}
                                   /\ w # Absent
      <3> DEFINE w == IF parked[p] = Absent THEN [ver |-> v, by |-> Absent]
                      ELSE IF parked[p].by = Absent THEN [ver |-> v, by |-> Absent] ELSE parked[p]
      <3>1. UNCHANGED state /\ parked' = [parked EXCEPT ![p] = w]
        BY <1>3 DEF Delivers
      <3>2. w \in {[ver |-> v, by |-> Absent], parked[p]} /\ w # Absent
        BY <1>2
      <3> HIDE DEF w
      <3> QED
        BY <3>1, <3>2
    <2>2. PICK w : parked' = [parked EXCEPT ![p] = w] /\ w \in {[ver |-> v, by |-> Absent], parked[p]} /\ w # Absent
      BY <2>1
    <2>3. parked' \in [Posts -> Waiting \cup {Absent}] /\ parked'[p] = w /\ \A q \in Posts \ {p} : parked'[q] = parked[q]
      BY <1>1, <1>2, <2>2 DEF StoredOK
    <2> QED
      BY <1>1, <2>1, <2>2, <2>3 DEF StoredOK, Owed, Deleted
  <1>4. CASE ~run[r].pair.parks
    <2> DEFINE e == Shipped(v)
    <2>1. state' = [state EXCEPT !.known[p] = e] /\ UNCHANGED parked
      BY <1>4 DEF Delivers, Known
    <2> HIDE DEF e
    <2>2. DOMAIN state' = {"cursor", "turn", "known"} /\ state'.cursor = state.cursor
          /\ state'.known = [state.known EXCEPT ![p] = e]
      BY <1>1, <2>1 DEF StoredOK
    <2>3. e \in Entry /\ e # Absent
      BY <1>2 DEF e
    <2>4. state'.known \in [Posts -> Entry \cup {Absent}] /\ state'.known[p] = e
          /\ \A q \in Posts \ {p} : state'.known[q] = state.known[q]
      BY <1>1, <2>2, <2>3 DEF StoredOK
    <2> QED
      BY <1>1, <2>1, <2>2, <2>3, <2>4 DEF StoredOK, Owed, Deleted
  <1> QED
    BY <1>3, <1>4

LEMMA ShipCursor ==
  ASSUME CursorInv, NEW r \in Runs, Ship(r)
  PROVE  CursorInv'
  <1> DEFINE got == run[r].got
             rest(p) == [q \in DOMAIN got \ {p} |-> got[q]]
             at(p) == IF rest(p) # <<>> THEN "ship" ELSE IF run[r].todo = {} THEN "bury" ELSE "pull"
  <1>1. PICK p \in FirstOf(DOMAIN got, 1) :
          \/ Delivers(r, p, got[p])
               /\ Sets(r, [run[r] EXCEPT !.conv = @ \cup {p}, !.got = rest(p), !.at = at(p)])
          \/ Stops(r, p, Upsert(got[p], r)) /\ Sets(r, [run[r] EXCEPT !.got = rest(p), !.at = at(p)])
    BY DEF Ship
  <1>2. run[r].at = "ship" /\ UNCHANGED <<source, pair, missed>>
    BY DEF Ship, still
  <1>3. RunKeeps(run[r], Owed, Deleted) /\ Holding(run[r]) /\ Scan(run[r], Owed) /\ StoredOK
    BY <1>2 DEF CursorInv, RunKeeps, Scanning
  <1>4. p \in Posts /\ got[p] \in Nat
    BY <1>1, <1>3 DEF FirstOf, Holding
  <1> DEFINE g == rest(p)
             a == at(p)
             A == [run[r] EXCEPT !.conv = run[r].conv \cup {p}, !.got = g, !.at = a]
             B == [run[r] EXCEPT !.got = g, !.at = a]
  <1>5. a \in {"ship", "bury", "pull"} /\ DOMAIN g \subseteq Posts /\ \A q \in DOMAIN g : g[q] \in Nat
    BY <1>3 DEF Holding
  <1>6. (Delivers(r, p, got[p]) /\ Sets(r, A)) \/ (Stops(r, p, Upsert(got[p], r)) /\ Sets(r, B))
    BY <1>1
  <1> HIDE DEF g, a
  <1>7. /\ DOMAIN A = DOMAIN Idle /\ A.at = a /\ A.scan = run[r].scan /\ A.safe = run[r].safe
        /\ A.blocked = run[r].blocked /\ A.pair = run[r].pair /\ A.page = run[r].page /\ A.got = g
        /\ A.conv = run[r].conv \cup {p} /\ A.bury = run[r].bury
        /\ A.todo = run[r].todo
    BY <1>3 DEF Holding, Idle
  <1>8. /\ DOMAIN B = DOMAIN Idle /\ B.at = a /\ B.scan = run[r].scan /\ B.safe = run[r].safe
        /\ B.blocked = run[r].blocked /\ B.pair = run[r].pair /\ B.page = run[r].page /\ B.got = g
        /\ B.conv = run[r].conv /\ B.bury = run[r].bury
        /\ B.todo = run[r].todo
    BY <1>3 DEF Holding, Idle
  <1> HIDE DEF A, B
  <1>9. CASE Delivers(r, p, got[p]) /\ Sets(r, A)
    <2>1. /\ StoredOK' /\ state'.cursor = state.cursor /\ Owed' \subseteq Owed /\ p \notin Owed' /\ Deleted' = Deleted
      BY <1>2, <1>4, <1>9, Delivered
    <2>2. DOMAIN run' = Runs /\ run'[r] = A /\ \A s \in Runs \ {r} : run'[s] = run[s]
      BY <1>9 DEF CursorInv, Sets
    <2>3. Scan(A, Owed')
      BY <1>3, <1>5, <1>7, <2>1 DEF Scan, Unasked
    <2>4. Holding(A)
      BY <1>2, <1>3, <1>5, <1>7 DEF Holding
    <2>5. RunKeeps(A, Owed', Deleted')
      BY <1>5, <1>7, <2>3, <2>4 DEF RunKeeps
    <2>6. \A q \in Owed' : q > state'.cursor
      BY <2>1 DEF CursorInv
    <2> QED
      BY <2>1, <2>2, <2>5, <2>6, CursorStep
  <1>10. CASE Stops(r, p, Upsert(got[p], r)) /\ Sets(r, B)
    <2>1. UNCHANGED <<source, pair, missed, state, parked>>
      BY <1>2, <1>10 DEF Stops
    <2>2. Scan(B, Owed)
      BY <1>3, <1>5, <1>8 DEF Scan, Unasked
    <2>3. Holding(B)
      BY <1>2, <1>3, <1>5, <1>8 DEF Holding
    <2>4. RunKeeps(B, Owed, Deleted)
      BY <1>5, <1>8, <2>2, <2>3 DEF RunKeeps
    <2> QED
      BY <1>10, <2>1, <2>4, RunStep
  <1> QED
    BY <1>6, <1>9, <1>10

\* An entry of a known post changes.
LEMMA Recorded ==
  ASSUME StoredOK, NEW p \in Posts, NEW e \in Entry \cup {Absent}, Known(p, e), UNCHANGED <<source, pair, parked>>
  PROVE  /\ StoredOK' /\ state'.cursor = state.cursor /\ state'.known[p] = e /\ Deleted' = Deleted
         /\ \A q \in Posts \ {p} : state'.known[q] = state.known[q]
  <1>1. DOMAIN state' = {"cursor", "turn", "known"} /\ state'.cursor = state.cursor
        /\ state'.known = [state.known EXCEPT ![p] = e]
    BY DEF StoredOK, Known
  <1>2. state'.known \in [Posts -> Entry \cup {Absent}] /\ state'.known[p] = e
        /\ \A q \in Posts \ {p} : state'.known[q] = state.known[q]
    BY <1>1 DEF StoredOK
  <1> QED
    BY <1>1, <1>2 DEF StoredOK, Deleted

LEMMA BuryCursor ==
  ASSUME CursorInv, NEW r \in Runs, Bury(r)
  PROVE  CursorInv'
  <1> DEFINE entry(p) == IF state.known[p] = Absent THEN Absent
                         ELSE [state.known[p] EXCEPT !.trash = TRUE, !.ver = run[r].page[p].ver]
             A(p) == [run[r] EXCEPT !.conv = @ \cup {p}, !.bury = @ \ {p}]
             B(p) == [run[r] EXCEPT !.bury = @ \ {p}]
  <1>1. PICK p \in FirstOf(run[r].bury, 1) :
          \/ Known(p, entry(p)) /\ Sets(r, A(p)) /\ UNCHANGED parked
          \/ Stops(r, p, Tomb("trash")) /\ Sets(r, B(p))
    BY DEF Bury
  <1>2. run[r].at = "bury" /\ UNCHANGED <<source, pair, missed>>
    BY DEF Bury, still
  <1>3. RunKeeps(run[r], Owed, Deleted) /\ Holding(run[r]) /\ Scan(run[r], Owed) /\ StoredOK
    BY <1>2 DEF CursorInv, RunKeeps, Scanning
  <1>4. p \in run[r].bury /\ p \in Posts /\ p \notin Owed
    BY <1>1, <1>3 DEF FirstOf, Holding, Scan
  <1> DEFINE X == A(p)
             Y == B(p)
             e == entry(p)
  <1>5. /\ DOMAIN X = DOMAIN Idle /\ X.at = "bury" /\ X.scan = run[r].scan /\ X.safe = run[r].safe
        /\ X.blocked = run[r].blocked /\ X.pair = run[r].pair /\ X.page = run[r].page /\ X.got = run[r].got
        /\ X.conv = run[r].conv \cup {p} /\ X.bury = run[r].bury \ {p} /\ X.todo = run[r].todo
    BY <1>2, <1>3 DEF Holding, Idle
  <1>6. /\ DOMAIN Y = DOMAIN Idle /\ Y.at = "bury" /\ Y.scan = run[r].scan /\ Y.safe = run[r].safe
        /\ Y.blocked = run[r].blocked /\ Y.pair = run[r].pair /\ Y.page = run[r].page /\ Y.got = run[r].got
        /\ Y.conv = run[r].conv /\ Y.bury = run[r].bury \ {p} /\ Y.todo = run[r].todo
    BY <1>2, <1>3 DEF Holding, Idle
  <1>7. \/ Known(p, e) /\ Sets(r, X) /\ UNCHANGED parked
        \/ Stops(r, p, Tomb("trash")) /\ Sets(r, Y)
    BY <1>1
  <1> HIDE DEF X, Y
  <1>8. CASE Known(p, e) /\ Sets(r, X) /\ UNCHANGED parked
    <2>1. e \in Entry \cup {Absent} /\ (state.known[p] # Absent => e # Absent)
      <3>1. CASE state.known[p] = Absent
        BY <3>1
      <3>2. CASE state.known[p] # Absent
        <4> DEFINE f == [state.known[p] EXCEPT !.trash = TRUE, !.ver = run[r].page[p].ver]
        <4>1. CASE p \in DOMAIN run[r].page
          <5>1. run[r].page[p].ver \in Nat /\ state.known[p] \in Entry
            BY <1>3, <1>4, <3>2, <4>1 DEF Holding, StoredOK
          <5>2. f \in Entry
            BY <5>1 DEF Entry
          <5>3. Absent \notin Entry
            BY AbsentAssumption
          <5> QED
            BY <3>2, <5>2, <5>3
        <4> QED
          BY <1>2, <1>3, <1>4, <4>1 DEF Scan
      <3> QED
        BY <3>1, <3>2
    <2> HIDE DEF e
    <2>2. /\ StoredOK' /\ state'.cursor = state.cursor /\ state'.known[p] = e /\ Deleted' = Deleted
          /\ \A q \in Posts \ {p} : state'.known[q] = state.known[q]
      BY <1>2, <1>3, <1>4, <1>8, <2>1, Recorded
    <2>3. \A q \in Owed' : q \in Owed /\ q # p
      BY <1>2, <1>4, <1>8, <2>1, <2>2 DEF Owed
    <2>4. DOMAIN run' = Runs /\ run'[r] = X /\ \A s \in Runs \ {r} : run'[s] = run[s]
      BY <1>8 DEF CursorInv, Sets
    <2>5. Scan(X, Owed')
      BY <1>3, <1>5, <2>3 DEF Scan, Unasked
    <2>6. Holding(X)
      BY <1>2, <1>3, <1>5 DEF Holding
    <2>7. RunKeeps(X, Owed', Deleted')
      BY <1>5, <2>5, <2>6 DEF RunKeeps
    <2>8. Owed' \subseteq Owed /\ \A q \in Owed' : q > state'.cursor
      BY <2>2, <2>3 DEF CursorInv
    <2> QED
      BY <2>2, <2>4, <2>7, <2>8, CursorStep
  <1>9. CASE Stops(r, p, Tomb("trash")) /\ Sets(r, Y)
    <2>1. UNCHANGED <<source, pair, missed, state, parked>>
      BY <1>2, <1>9 DEF Stops
    <2>2. Scan(Y, Owed)
      BY <1>2, <1>3, <1>6 DEF Scan, Unasked
    <2>3. Holding(Y)
      BY <1>2, <1>3, <1>6 DEF Holding
    <2>4. RunKeeps(Y, Owed, Deleted)
      BY <1>6, <2>2, <2>3 DEF RunKeeps
    <2> QED
      BY <1>9, <2>1, <2>4, RunStep
  <1> QED
    BY <1>7, <1>8, <1>9

LEMMA EndPageCursor ==
  ASSUME CursorInv, NEW r \in Runs, EndPage(r)
  PROVE  CursorInv'
  <1> DEFINE R == run[r]
             page == DOMAIN R.page
             safe == IF R.blocked THEN R.safe ELSE Safe(R.safe, page, R.conv)
             at == IF Cardinality(page) < PageSize THEN "rotate" ELSE "digest"
             blocked == R.blocked \/ Blocks(page, R.conv)
             X == [R EXCEPT !.at = at, !.safe = safe, !.blocked = blocked, !.page = <<>>, !.conv = {}, !.todo = {}]
  <1>1. /\ R.at = "bury" /\ R.bury = {} /\ Sets(r, X) /\ UNCHANGED <<source, pair, parked>>
        /\ state' = [state EXCEPT !.cursor = safe] /\ missed' = missed \cup Passes(r, safe)
    BY DEF EndPage, still, inbox
  <1>2. RunKeeps(R, Owed, Deleted) /\ Holding(R) /\ Scan(R, Owed) /\ StoredOK
    BY <1>1 DEF CursorInv, RunKeeps, Scanning
  <1>3. at \in {"rotate", "digest"}
    OBVIOUS
  <1>4. blocked \in BOOLEAN /\ (~blocked => ~R.blocked /\ page \subseteq R.conv)
    BY <1>2 DEF Blocks, Holding
  <1>5. safe = IF R.blocked THEN R.safe ELSE Safe(R.safe, DOMAIN R.page, R.conv)
    OBVIOUS
  <1> HIDE DEF at, blocked, safe
  <1>6. DOMAIN state' = {"cursor", "turn", "known"} /\ state'.cursor = safe /\ state'.known = state.known
    BY <1>1, <1>2 DEF StoredOK
  <1>7. \A p \in Owed' : p \in Owed /\ p \notin Passes(r, safe)
    BY <1>1, <1>6 DEF Owed
  <1>8. Owed \subseteq Posts /\ Owed' \in SUBSET Owed /\ Deleted' = Deleted
    BY <1>1, <1>7 DEF Owed, Deleted
  <1>9. /\ \A p \in Owed' : p \notin R.conv
        /\ \A p \in Owed' : p <= safe => ~Unasked(R, p)
    BY <1>2, <1>7 DEF Scan, Passes, Unasked
  <1>10. /\ safe \in Nat /\ \A p \in Owed' : p > safe
         /\ ~R.blocked /\ page \subseteq R.conv => \A p \in page : p <= safe
    <2> HIDE DEF Owed, Scan, Unasked, Holding
    <2> QED
      BY <1>2, <1>5, <1>8, <1>9, Advance
  <1>11. /\ DOMAIN X = DOMAIN Idle /\ X.at = at /\ X.scan = R.scan /\ X.safe = safe /\ X.blocked = blocked
         /\ X.pair = R.pair /\ X.page = <<>> /\ X.got = R.got /\ X.conv = {} /\ X.bury = {} /\ X.todo = {}
    BY <1>1, <1>2 DEF Holding, Idle
  <1>12. DOMAIN run' = Runs /\ run'[r] = X /\ \A s \in Runs \ {r} : run'[s] = run[s]
    BY <1>1 DEF CursorInv, Sets
  <1> HIDE DEF X
  <1>13. DOMAIN X.page = {}
    BY <1>11
  <1>14. Holding(X)
    BY <1>1, <1>2, <1>3, <1>4, <1>10, <1>11, <1>13 DEF Holding
  <1>15. ASSUME ~blocked, NEW p \in Owed', p <= R.scan PROVE Unasked(X, p)
    <2>1. p \in page \/ Unasked(R, p)
      BY <1>2, <1>4, <1>7, <1>15 DEF Scan
    <2>2. p \notin page
      <3>1. p \in Nat /\ p > safe
        BY <1>8, <1>10, PostsAssumption
      <3> QED
        BY <1>4, <1>10, <1>15, <3>1
    <2> QED
      BY <1>11, <2>1, <2>2 DEF Unasked
  <1>16. Scan(X, Owed')
    BY <1>10, <1>11, <1>13, <1>15 DEF Scan
  <1>17. RunKeeps(X, Owed', Deleted')
    BY <1>3, <1>11, <1>14, <1>16 DEF RunKeeps
  <1>18. StoredOK'
    BY <1>1, <1>2, <1>6, <1>10 DEF StoredOK
  <1> QED
    BY <1>6, <1>8, <1>10, <1>12, <1>17, <1>18, CursorStep

-----------------------------------------------------------------------------
(* The rotation *)

LEMMA RotateCursor ==
  ASSUME CursorInv, NEW r \in Runs, Rotate(r)
  PROVE  CursorInv'
  <1>1. RunKeeps(run[r], Owed, Deleted) /\ Holding(run[r]) /\ run[r].at = "rotate" /\ StoredOK
    BY DEF CursorInv, RunKeeps, Rotate
  <1>2. UNCHANGED <<source, pair, parked, missed, state>>
    BY DEF Rotate, still, inbox
  <1>3. CASE Sets(r, Idle)
    BY <1>2, <1>3, IdleRun, RunStep
  <1>4. CASE ~Sets(r, Idle)
    <2>1. \E slice, next : /\ slice \subseteq {p \in Posts : state.known[p] # Absent}
                           /\ Sets(r, [run[r] EXCEPT !.at = "ask", !.page = [p \in slice |-> state.known[p]],
                                                     !.next = next])
      BY <1>4 DEF Rotate, FirstOf
    <2>2. PICK slice, next : /\ slice \subseteq {p \in Posts : state.known[p] # Absent}
                             /\ Sets(r, [run[r] EXCEPT !.at = "ask", !.page = [p \in slice |-> state.known[p]],
                                                       !.next = next])
      BY <2>1
    <2> DEFINE page == [p \in slice |-> state.known[p]]
               X == [run[r] EXCEPT !.at = "ask", !.page = page, !.next = next]
    <2>3. DOMAIN page \subseteq Posts /\ \A p \in DOMAIN page : page[p].ver \in Nat
      BY <1>1, <2>2 DEF StoredOK, Entry
    <2> HIDE DEF page
    <2>4. /\ DOMAIN X = DOMAIN Idle /\ X.at = "ask" /\ X.scan = run[r].scan /\ X.safe = run[r].safe
          /\ X.blocked = run[r].blocked /\ X.pair = run[r].pair /\ X.page = page /\ X.got = run[r].got
          /\ X.bury = run[r].bury /\ X.todo = run[r].todo
      BY <1>1 DEF Holding, Idle
    <2>5. Sets(r, X)
      BY <2>2 DEF page
    <2> HIDE DEF X
    <2>6. RunKeeps(X, Owed, Deleted)
      BY <1>1, <2>3, <2>4 DEF RunKeeps, Holding, Scanning
    <2> QED
      BY <1>2, <2>5, <2>6, RunStep
  <1> QED
    BY <1>3, <1>4

LEMMA AskCursor ==
  ASSUME CursorInv, NEW r \in Runs, Ask(r)
  PROVE  CursorInv'
  <1> DEFINE page == run[r].page
             todo == {p \in DOMAIN page : source[p].st # "gone" /\ source[p].ver # page[p].ver}
             bury == {p \in DOMAIN page : source[p].st = "gone"}
             X == [run[r] EXCEPT !.at = "act", !.todo = todo, !.bury = bury]
  <1>1. run[r].at = "ask" /\ Sets(r, X) /\ UNCHANGED <<source, pair, parked, missed, state>>
    BY DEF Ask, still, inbox
  <1>2. RunKeeps(run[r], Owed, Deleted) /\ Holding(run[r])
    BY DEF CursorInv, RunKeeps
  <1>3. todo \subseteq Posts /\ bury \subseteq Deleted /\ bury \subseteq Posts
    BY <1>2 DEF Holding, Deleted
  <1> HIDE DEF todo, bury
  <1>4. /\ DOMAIN X = DOMAIN Idle /\ X.at = "act" /\ X.scan = run[r].scan /\ X.safe = run[r].safe
        /\ X.blocked = run[r].blocked /\ X.pair = run[r].pair /\ X.page = run[r].page /\ X.got = run[r].got
        /\ X.bury = bury /\ X.todo = todo
    BY <1>2 DEF Holding, Idle
  <1> HIDE DEF X
  <1>5. RunKeeps(X, Owed, Deleted)
    BY <1>1, <1>2, <1>3, <1>4 DEF RunKeeps, Holding, Scanning
  <1> QED
    BY <1>1, <1>5, RunStep

LEMMA ActCursor ==
  ASSUME CursorInv, NEW r \in Runs, Act(r)
  PROVE  CursorInv'
  <1>1. run[r].at = "act" /\ UNCHANGED <<source, pair, missed>>
    BY DEF Act, still
  <1>2. RunKeeps(run[r], Owed, Deleted) /\ Holding(run[r]) /\ run[r].bury \subseteq Deleted /\ StoredOK
    BY <1>1 DEF CursorInv, RunKeeps
  <1>3. PICK p \in FirstOf(run[r].todo \cup run[r].bury, 1) :
          IF p \in run[r].bury THEN Missing(r, p) ELSE Newer(r, p)
    BY DEF Act
  <1>4. p \in Posts
    BY <1>2, <1>3 DEF FirstOf, Holding
  <1> DEFINE X == [run[r] EXCEPT !.todo = run[r].todo \ {p}, !.bury = run[r].bury \ {p}]
  <1>5. Sets(r, X)
    BY <1>3 DEF Missing, Newer, Handled
  <1>6. /\ DOMAIN X = DOMAIN Idle /\ X.at = "act" /\ X.scan = run[r].scan /\ X.safe = run[r].safe
        /\ X.blocked = run[r].blocked /\ X.pair = run[r].pair /\ X.page = run[r].page /\ X.got = run[r].got
        /\ X.bury = run[r].bury \ {p} /\ X.todo = run[r].todo \ {p}
    BY <1>1, <1>2 DEF Holding, Idle
  <1> HIDE DEF X
  <1>7. RunKeeps(X, Owed, Deleted)
    BY <1>1, <1>2, <1>6 DEF RunKeeps, Holding, Scanning
  <1>8. CASE UNCHANGED <<state, parked>>
    BY <1>1, <1>5, <1>7, <1>8, RunStep
  <1>9. ASSUME StoredOK', state'.cursor = state.cursor, Owed' \subseteq Owed, Deleted' = Deleted
        PROVE  CursorInv'
    <2>1. RunKeeps(X, Owed', Deleted')
      BY <1>7, <1>9, RunStays
    <2>2. DOMAIN run' = Runs /\ run'[r] = X /\ \A s \in Runs \ {r} : run'[s] = run[s]
      BY <1>5 DEF CursorInv, Sets
    <2>3. \A q \in Owed' : q > state'.cursor
      BY <1>9 DEF CursorInv
    <2> QED
      BY <1>9, <2>1, <2>2, <2>3, CursorStep
  <1>10. CASE p \in run[r].bury /\ ~UNCHANGED <<state, parked>>
    <2>1. Known(p, Absent) /\ UNCHANGED parked /\ p \in Deleted
      BY <1>2, <1>3, <1>10 DEF Missing, Stops, inbox
    <2>2. /\ StoredOK' /\ state'.cursor = state.cursor /\ Deleted' = Deleted
          /\ \A q \in Posts \ {p} : state'.known[q] = state.known[q]
      BY <1>1, <1>2, <1>4, <2>1, Recorded
    <2>3. Owed' \subseteq Owed
      BY <1>1, <2>1, <2>2 DEF Owed, Deleted
    <2> QED
      BY <1>9, <2>2, <2>3
  <1>11. CASE p \notin run[r].bury /\ ~UNCHANGED <<state, parked>>
    <2>1. Delivers(r, p, source[p].ver)
      BY <1>3, <1>11 DEF Newer, Stops, inbox
    <2>2. source[p].ver \in Nat
      BY <1>2, <1>4 DEF StoredOK, Source
    <2> QED
      BY <1>1, <1>4, <1>9, <2>1, <2>2, Delivered
  <1> QED
    BY <1>8, <1>10, <1>11

LEMMA EndCursor ==
  ASSUME CursorInv, NEW r \in Runs, Finish(r) \/ CallFails(r)
  PROVE  CursorInv'
  <1>1. UNCHANGED <<source, pair, parked, missed>>
    BY DEF Finish, CallFails, still, inbox
  <1>2. DOMAIN state = {"cursor", "turn", "known"}
    BY DEF CursorInv, StoredOK
  <1>3. CASE Sets(r, Idle) /\ (UNCHANGED state \/ \E turn : state' = [state EXCEPT !.turn = turn])
    <2>1. DOMAIN state' = DOMAIN state /\ state'.cursor = state.cursor /\ state'.known = state.known
      BY <1>2, <1>3
    <2> QED
      BY <1>1, <1>3, <2>1, IdleRun, RunStep
  <1>4. CASE run[r].at = "pull" /\ To(r, "bury") /\ UNCHANGED state
    <2>1. RunKeeps(run[r], Owed, Deleted) /\ Holding(run[r]) /\ Scan(run[r], Owed)
      BY <1>4 DEF CursorInv, RunKeeps, Scanning
    <2> DEFINE A == [run[r] EXCEPT !.at = "bury"]
    <2>2. /\ DOMAIN A = DOMAIN Idle /\ A.at = "bury" /\ A.scan = run[r].scan /\ A.safe = run[r].safe
          /\ A.blocked = run[r].blocked /\ A.pair = run[r].pair /\ A.page = run[r].page /\ A.got = run[r].got
          /\ A.conv = run[r].conv /\ A.bury = run[r].bury /\ A.todo = run[r].todo
      BY <2>1 DEF Holding, Idle
    <2>3. Sets(r, A)
      BY <1>4 DEF To
    <2> HIDE DEF A
    <2>4. Holding(A) /\ Scan(A, Owed)
      BY <1>4, <2>1, <2>2 DEF Holding, Scan, Unasked
    <2>5. RunKeeps(A, Owed, Deleted)
      BY <2>2, <2>4 DEF RunKeeps
    <2> QED
      BY <1>1, <1>4, <2>3, <2>5, RunStep
  <1> QED
    BY <1>3, <1>4 DEF Finish, CallFails

-----------------------------------------------------------------------------
(* The inbox, the operator and the source *)

LEMMA ReviewCursor ==
  ASSUME CursorInv, KeysInv, NEW p \in Posts, Approve(p) \/ Reject(p)
  PROVE  CursorInv'
  <1>1. UNCHANGED <<source, pair, missed, run>> /\ StoredOK /\ parked[p] # Absent /\ parked[p] \in Waiting
    BY DEF Approve, Reject, still, CursorInv, StoredOK
  <1>2. Absent \notin Entry /\ Absent \notin Waiting
    BY AbsentAssumption
  <1>3. ASSUME NEW e \in Entry, Known(p, e), parked' = [parked EXCEPT ![p] = Absent]
        PROVE  CursorInv'
    <2>1. DOMAIN state' = {"cursor", "turn", "known"} /\ state'.cursor = state.cursor
          /\ state'.known = [state.known EXCEPT ![p] = e]
      BY <1>1, <1>3 DEF StoredOK, Known
    <2>2. state'.known \in [Posts -> Entry \cup {Absent}] /\ state'.known[p] = e
          /\ \A q \in Posts \ {p} : state'.known[q] = state.known[q]
      BY <1>1, <2>1 DEF StoredOK
    <2>3. parked' \in [Posts -> Waiting \cup {Absent}] /\ \A q \in Posts \ {p} : parked'[q] = parked[q]
      BY <1>1, <1>3 DEF StoredOK
    <2>4. StoredOK' /\ Deleted' = Deleted /\ Owed' \subseteq Owed
      BY <1>1, <1>2, <2>1, <2>2, <2>3 DEF StoredOK, Owed, Deleted
    <2>5. \A q \in Owed' : q > state'.cursor
      BY <2>1, <2>4 DEF CursorInv
    <2> QED
      BY <1>1, <2>4, <2>5, StoredStep
  <1>4. CASE Known(p, Shipped(parked[p].ver)) /\ parked' = [parked EXCEPT ![p] = Absent]
    <2>1. Shipped(parked[p].ver) \in Entry
      BY <1>1 DEF Shipped, Entry, Waiting
    <2> QED
      BY <1>3, <1>4, <2>1
  <1>5. CASE Reject(p)
    <2> DEFINE shipped == IF state.known[p] = Absent THEN FALSE ELSE state.known[p].shipped
               e == [ver |-> parked[p].ver, trash |-> FALSE, rejected |-> TRUE, shipped |-> shipped]
    <2>1. shipped \in BOOLEAN
      BY <1>1 DEF StoredOK, Entry
    <2>2. Known(p, e) /\ parked' = [parked EXCEPT ![p] = Absent]
      BY <1>5 DEF Reject
    <2> HIDE DEF shipped
    <2>3. e \in Entry
      BY <1>1, <2>1 DEF Entry, Waiting
    <2> HIDE DEF e
    <2> QED
      BY <1>3, <2>2, <2>3
  <1>6. CASE Approve(p) /\ parked' = [parked EXCEPT ![p].by = Authority] /\ UNCHANGED state
    <2> DEFINE w == [parked[p] EXCEPT !.by = Authority]
    <2>1. Authority \in Nat \X Client
      <3>1. pair \in Terms /\ client \in Client
        BY <1>1, <1>6 DEF Approve, StoredOK, KeysInv, PeersOK
      <3> QED
        BY <3>1 DEF Authority, Terms
    <2> HIDE DEF Authority
    <2>2. w \in Waiting /\ w # Absent
      BY <1>1, <1>2, <2>1 DEF Waiting
    <2>3. parked' = [parked EXCEPT ![p] = w]
      BY <1>6
    <2> HIDE DEF w
    <2>4. parked' \in [Posts -> Waiting \cup {Absent}] /\ parked'[p] = w
          /\ \A q \in Posts \ {p} : parked'[q] = parked[q]
      BY <1>1, <2>2, <2>3 DEF StoredOK
    <2>5. StoredOK' /\ Deleted' = Deleted /\ Owed' \subseteq Owed
      BY <1>1, <1>2, <1>6, <2>2, <2>4 DEF StoredOK, Owed, Deleted
    <2>6. \A q \in Owed' : q > state'.cursor
      BY <1>6, <2>5 DEF CursorInv
    <2> QED
      BY <1>1, <2>5, <2>6, StoredStep
  <1> QED
    BY <1>4, <1>5, <1>6 DEF Approve

LEMMA EditCursor ==
  ASSUME CursorInv, Edit \/ Create
  PROVE  CursorInv'
  <1>1. UNCHANGED <<source, state, parked, run, missed>> /\ StoredOK
    BY DEF Edit, Create, inbox, CursorInv
  <1>2. pair' \in Terms
    <2>1. CASE Edit
      <3>1. pair \in Terms
        BY <1>1, <2>1 DEF Edit, StoredOK
      <3>2. \A b \in BOOLEAN, n \in Nat : /\ [pair EXCEPT !.on = b] \in Terms
                                          /\ [pair EXCEPT !.extra = b] \in Terms
                                          /\ [pair EXCEPT !.parks = b] \in Terms
                                          /\ [pair EXCEPT !.set = n] \in Terms
        BY <3>1 DEF Terms
      <3>3. (~pair.on) \in BOOLEAN /\ (~pair.parks) \in BOOLEAN /\ TRUE \in BOOLEAN /\ pair.set + 1 \in Nat
        BY <3>1 DEF Terms
      <3>4. \/ pair' = [pair EXCEPT !.on = ~pair.on] \/ pair' = [pair EXCEPT !.extra = TRUE]
            \/ pair' = [pair EXCEPT !.parks = ~pair.parks] \/ pair' = [pair EXCEPT !.set = pair.set + 1]
        BY <2>1 DEF Edit, Toggle
      <3> QED
        BY <3>2, <3>3, <3>4
    <2>2. CASE Create
      BY <2>2 DEF Create, Terms
    <2> QED
      BY <2>1, <2>2
  <1>3. StoredOK' /\ Owed' = Owed /\ Deleted' = Deleted
    BY <1>1, <1>2 DEF StoredOK, Owed, Deleted
  <1>4. \A p \in Owed : p > state.cursor
    BY DEF CursorInv
  <1> QED
    BY <1>1, <1>3, <1>4, StoredStep

\* A run that is under way may write its cursor again: then nothing counts as
\* owed; otherwise the new pair begins at the beginning.
LEMMA DeleteCursor ==
  ASSUME CursorInv, Delete
  PROVE  CursorInv'
  <1>1. /\ UNCHANGED <<source, parked, run>> /\ state' = Empty /\ StoredOK /\ pair' \in {pair, Absent}
        /\ missed' = IF \A r \in Runs : run[r] = Idle THEN {} ELSE Posts
    BY DEF Delete, inbox, CursorInv
  <1>2. StoredOK'
    BY <1>1 DEF StoredOK, Empty
  <1>3. Deleted' = Deleted
    BY <1>1 DEF Deleted
  <1>4. CASE \A r \in Runs : run[r] = Idle
    <2>1. ASSUME NEW r \in Runs PROVE RunKeeps(run'[r], Owed', Deleted')
      BY <1>1, <1>4, IdleRun
    <2>2. \A p \in Owed' : p > state'.cursor
      BY <1>1, PostsAssumption DEF Owed, Empty
    <2> HIDE DEF RunKeeps, Owed, Deleted
    <2> QED
      BY <1>1, <1>2, <2>1, <2>2 DEF CursorInv
  <1>5. CASE ~ \A r \in Runs : run[r] = Idle
    <2>1. Owed' = {}
      BY <1>1, <1>5 DEF Owed
    <2> QED
      BY <1>1, <1>2, <1>3, <2>1, StoredStep
  <1> QED
    BY <1>4, <1>5

LEMMA PeersCursor ==
  ASSUME CursorInv,
         (\E h \in Pairings : Greet(h) \/ Register(h) \/ Remember(h)) \/ Forget \/ UNCHANGED pairVars
  PROVE  CursorInv'
  <1>1. UNCHANGED <<source, pair, state, parked, run, missed>>
    BY DEF Greet, Register, Remember, Forget, inbox, pairVars
  <1>2. StoredOK' /\ Owed' = Owed /\ Deleted' = Deleted /\ \A p \in Owed : p > state.cursor
    BY <1>1 DEF StoredOK, Owed, Deleted, CursorInv
  <1> QED
    BY <1>1, <1>2, StoredStep

LEMMA SourceCursor ==
  ASSUME CursorInv, Published
  PROVE  CursorInv'
  <1>1. PICK p \in Posts, s \in {"live", "trash", "gone"} :
          source[p].st # "gone" /\ source' = [source EXCEPT ![p] = [ver |-> @.ver + 1, st |-> s]]
    BY DEF Published
  <1>2. UNCHANGED <<pair, state, parked, run, missed>> /\ StoredOK
    BY DEF Published, inbox, CursorInv
  <1> DEFINE x == [ver |-> source[p].ver + 1, st |-> s]
  <1>3. x \in Source
    BY <1>2 DEF StoredOK, Source
  <1>4. source' = [source EXCEPT ![p] = x]
    BY <1>1
  <1> HIDE DEF x
  <1>5. source' \in [Posts -> Source] /\ \A q \in Posts \ {p} : source'[q] = source[q]
    BY <1>2, <1>3, <1>4 DEF StoredOK
  <1>6. StoredOK' /\ Owed' \subseteq Owed /\ Deleted \subseteq Deleted'
    BY <1>1, <1>2, <1>5 DEF StoredOK, Owed, Deleted
  <1>7. \A q \in Owed' : q > state'.cursor
    BY <1>2, <1>6 DEF CursorInv
  <1> QED
    BY <1>2, <1>6, <1>7, StoredStep

LEMMA CrashCursor ==
  ASSUME CursorInv, Crash
  PROVE  CursorInv'
  <1>1. UNCHANGED <<source, pair, state, parked, missed>> /\ run' = [r \in Runs |-> Idle]
    BY DEF Crash, inbox
  <1>2. StoredOK' /\ Owed' = Owed /\ Deleted' = Deleted /\ \A p \in Owed : p > state.cursor
    BY <1>1 DEF StoredOK, Owed, Deleted, CursorInv
  <1>3. \A r \in Runs : RunKeeps(run'[r], Owed', Deleted')
    BY <1>1, IdleRun
  <1> HIDE DEF RunKeeps, Owed, Deleted
  <1> QED
    BY <1>1, <1>2, <1>3 DEF CursorInv

LEMMA CursorInit == PairInit => CursorInv
  <1> SUFFICES ASSUME PairInit PROVE CursorInv
    OBVIOUS
  <1>1. /\ source \in [Posts -> {[ver |-> 1, st |-> s] : s \in {"live", "trash"}}]
        /\ \E b \in BOOLEAN : pair = [on |-> TRUE, extra |-> FALSE, parks |-> b, set |-> 0]
        /\ state = Empty /\ parked = [p \in Posts |-> Absent] /\ run = [r \in Runs |-> Idle]
    BY DEF PairInit
  <1>2. pair \in Terms
    BY <1>1 DEF Terms
  <1>3. source \in [Posts -> Source]
    <2>1. \A s \in {"live", "trash"} : [ver |-> 1, st |-> s] \in Source
      BY DEF Source
    <2> QED
      BY <1>1, <2>1
  <1>4. StoredOK
    BY <1>1, <1>2, <1>3 DEF StoredOK, Empty
  <1>5. \A p \in Owed : p > state.cursor
    BY <1>1, PostsAssumption DEF Owed, Empty
  <1>6. \A r \in Runs : RunKeeps(run[r], Owed, Deleted)
    BY <1>1, IdleRun
  <1> HIDE DEF RunKeeps, Owed, Deleted
  <1> QED
    BY <1>1, <1>4, <1>5, <1>6 DEF CursorInv

LEMMA CursorNext == CursorInv /\ KeysInv /\ [PairNext]_pairVars => CursorInv'
  <1> SUFFICES ASSUME CursorInv, KeysInv, [PairNext]_pairVars PROVE CursorInv'
    OBVIOUS
  <1>1. ASSUME NEW r \in Runs, Begin(r) \/ PairStep(r) PROVE CursorInv'
    BY <1>1, BeginCursor, DigestCursor, SortCursor, PullCursor, ShipCursor, BuryCursor, EndPageCursor,
       RotateCursor, AskCursor, ActCursor, EndCursor DEF PairStep
  <1>2. ASSUME NEW p \in Posts, Approve(p) \/ Reject(p) PROVE CursorInv'
    BY <1>2, ReviewCursor
  <1>3. CASE Edit \/ Create \/ Delete \/ Published \/ Crash
    BY <1>3, EditCursor, DeleteCursor, SourceCursor, CrashCursor
  <1>4. CASE (\E h \in Pairings : Greet(h) \/ Register(h) \/ Remember(h)) \/ Forget \/ UNCHANGED pairVars
    BY <1>4, PeersCursor
  <1> QED
    BY <1>1, <1>2, <1>3, <1>4 DEF PairNext

\* What is still owed lies above the stored cursor and above the one of every
\* scan; between that and the end of the scan it is on the page in hand.
THEOREM CursorInvariance == PairSpec => []CursorInv
  <1> QED
    BY CursorInit, CursorNext, KeysInvariance, PTL DEF PairSpec

\* What the cursor has passed is known or waits in the inbox: no order of
\* pages, failed batches and overlapping sync_pair_run calls loses a post.
THEOREM PassedIsKnown == PairSpec => []NothingSkipped
  <1>1. CursorInv => NothingSkipped
    <2> SUFFICES ASSUME CursorInv, NEW p \in Posts, p <= state.cursor, source[p].st = "live", p \notin missed,
                        state.known[p] = Absent, parked[p] = Absent
                 PROVE  FALSE
      BY DEF NothingSkipped
    <2>1. p \in Owed /\ p \in Nat /\ state.cursor \in Nat
      BY PostsAssumption DEF Owed, CursorInv, StoredOK
    <2> QED
      BY <2>1 DEF CursorInv
  <1> QED
    BY <1>1, CursorInvariance, PTL
=============================================================================
