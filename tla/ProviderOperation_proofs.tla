---------------------- MODULE ProviderOperation_proofs ----------------------
(***************************************************************************)
(* Machine-checked proofs about ProviderOperation, for any sets of units,  *)
(* revisions, bindings, runners and reviewers.                             *)
(***************************************************************************)
EXTENDS ProviderOperation, TLAPS

\* A busy runner or reviewer knows its unit, and carries a result once it is
\* past the point where it got one.
Placed ==
  /\ \A r \in Runners : pc[r] # "idle" =>
       /\ loc[r].unit \in Units
       /\ loc[r].rev \in Revisions
       /\ loc[r].bind \in Bindings
  /\ \A r \in Runners : pc[r] \in {"save_sync", "save_done", "close", "return"} =>
       loc[r].res \in Results
  /\ \A w \in Reviewers : review[w].stage # "idle" =>
       review[w].unit \in Units /\ review[w].rev \in Revisions

\* A ready operation has its result.
ReadyHasResult ==
  \A u \in Units, v \in Revisions :
    op[u][v].state = "result_ready" => op[u][v].result \in Results

Typed == TypeOK /\ Placed /\ ReadyHasResult

-----------------------------------------------------------------------------
LEMMA TypedInit == Init => Typed
  <1> SUFFICES ASSUME Init PROVE Typed
    OBVIOUS
  <1> USE DEF Init, Vacant, NoRow, NoLoc, NoReview
  <1>1. TypeOK
    <2>1. op \in [Units -> [Revisions -> Operation]]
      BY DEF Operation
    <2>2. row \in [Units -> Row]
      BY DEF Row
    <2>3. loc \in [Runners -> Loc] /\ pc \in [Runners -> PC]
      BY DEF Loc, PC
    <2>4. review \in [Reviewers -> Review]
      BY DEF Review, Operation
    <2>5. /\ paid \in [Units -> [Revisions -> Nat]]
          /\ sends \in [Units -> [Revisions -> Nat]]
          /\ wire \in [Units -> [Revisions -> Nat]]
      OBVIOUS
    <2> QED
      BY <2>1, <2>2, <2>3, <2>4, <2>5 DEF TypeOK, Actors
  <1>2. Placed /\ ReadyHasResult
    BY DEF Placed, ReadyHasResult
  <1> QED
    BY <1>1, <1>2 DEF Typed

(* What one update does to one variable.                                    *)

Carrying == {"save_sync", "save_done", "close", "return"}

LEMMA OpUpdate ==
  ASSUME Typed, NEW u \in Units, NEW v \in Revisions, NEW o \in Operation,
         o.state = "result_ready" => o.result \in Results,
         SetOp(u, v, o)
  PROVE  /\ op' \in [Units -> [Revisions -> Operation]]
         /\ op'[u][v] = o
         /\ \A x \in Units, y \in Revisions : x # u \/ y # v => op'[x][y] = op[x][y]
         /\ ReadyHasResult'
  <1>1. op \in [Units -> [Revisions -> Operation]]
    BY DEF Typed, TypeOK
  <1>2. op'[u] = [op[u] EXCEPT ![v] = o] /\ \A x \in Units : x # u => op'[x] = op[x]
    BY <1>1 DEF SetOp
  <1>3. /\ op'[u][v] = o
        /\ \A x \in Units, y \in Revisions : x # u \/ y # v => op'[x][y] = op[x][y]
    BY <1>1, <1>2
  <1>4. op' \in [Units -> [Revisions -> Operation]]
    BY <1>1 DEF SetOp
  <1>5. ReadyHasResult'
    BY <1>3 DEF Typed, ReadyHasResult
  <1> QED
    BY <1>3, <1>4, <1>5

LEMMA RowUpdate ==
  ASSUME Typed, NEW u \in Units, NEW x \in Row, SetRow(u, x)
  PROVE  /\ row' \in [Units -> Row]
         /\ row'[u] = x
         /\ \A y \in Units : y # u => row'[y] = row[y]
  BY DEF SetRow, Typed, TypeOK

LEMMA RunnerUpdate ==
  ASSUME Typed, NEW r \in Runners, NEW next \in PC, NEW l \in Loc,
         next # "idle" => l.unit \in Units /\ l.rev \in Revisions /\ l.bind \in Bindings,
         next \in Carrying => l.res \in Results,
         Goto(r, next), SetLoc(r, l), UNCHANGED review
  PROVE  /\ pc' \in [Runners -> PC] /\ pc'[r] = next
         /\ loc' \in [Runners -> Loc] /\ loc'[r] = l
         /\ \A s \in Runners : s # r => pc'[s] = pc[s] /\ loc'[s] = loc[s]
         /\ Placed'
  <1>1. /\ pc' \in [Runners -> PC] /\ pc'[r] = next
        /\ loc' \in [Runners -> Loc] /\ loc'[r] = l
        /\ \A s \in Runners : s # r => pc'[s] = pc[s] /\ loc'[s] = loc[s]
    BY DEF Goto, SetLoc, Typed, TypeOK
  <1>2. Placed'
    BY <1>1 DEF Placed, Typed, Carrying
  <1> QED
    BY <1>1, <1>2

\* A move that leaves what the runner carries alone.
LEMMA RunnerMove ==
  ASSUME Typed, NEW r \in Runners, NEW next \in PC, pc[r] # "idle",
         next \in Carrying => loc[r].res \in Results,
         Goto(r, next), UNCHANGED <<loc, review>>
  PROVE  /\ pc' \in [Runners -> PC] /\ pc'[r] = next
         /\ \A s \in Runners : s # r => pc'[s] = pc[s]
         /\ Placed'
  <1>1. /\ pc' \in [Runners -> PC] /\ pc'[r] = next
        /\ \A s \in Runners : s # r => pc'[s] = pc[s]
    BY DEF Goto, Typed, TypeOK
  <1>2. Placed'
    BY <1>1 DEF Placed, Typed, Carrying
  <1> QED
    BY <1>1, <1>2

LEMMA Here ==
  ASSUME Typed, NEW r \in Runners, pc[r] # "idle"
  PROVE  /\ loc[r].unit \in Units /\ loc[r].rev \in Revisions /\ loc[r].bind \in Bindings
         /\ loc[r] \in Loc /\ loc[r].job \in Nat /\ loc[r].tries \in Nat
         /\ loc[r].res \in Results \cup {None}
         /\ pc[r] \in Carrying => loc[r].res \in Results
         /\ op[loc[r].unit][loc[r].rev] \in Operation
         /\ row[loc[r].unit] \in Row
  BY DEF Typed, TypeOK, Placed, Loc, Carrying

-----------------------------------------------------------------------------
(* Type correctness.                                                        *)

LEMMA RefuseTyped ==
  ASSUME Typed, NEW r \in Runners, Refuse(r)
  PROVE  Typed'
  <1>1. NoLoc \in Loc /\ "idle" \in PC \ Carrying
    BY DEF NoLoc, Loc, PC, Carrying
  <1>2. pc' \in [Runners -> PC] /\ loc' \in [Runners -> Loc] /\ Placed'
    BY <1>1, RunnerUpdate DEF Refuse, Leave
  <1>3. TypeOK' /\ ReadyHasResult'
    BY <1>2 DEF Refuse, Leave, Release, Typed, TypeOK, ReadyHasResult
  <1> QED
    BY <1>2, <1>3 DEF Typed

LEMMA PassTyped ==
  ASSUME Typed, NEW r \in Runners, NEW next \in PC, Pass(r, next), pc[r] # "idle",
         next \in Carrying => pc[r] \in Carrying
  PROVE  Typed'
  <1>1. pc' \in [Runners -> PC] /\ Placed'
    BY RunnerMove, Here DEF Pass
  <1> QED
    BY <1>1 DEF Pass, Typed, TypeOK, ReadyHasResult

LEMMA ReplayTyped ==
  ASSUME Typed, NEW r \in Runners, pc[r] # "idle",
         op[loc[r].unit][loc[r].rev].state = "result_ready",
         Replay(r, loc[r].unit, loc[r].rev)
  PROVE  Typed'
  <1> DEFINE l == [loc[r] EXCEPT !.res = op[loc[r].unit][loc[r].rev].result]
  <1>1. op[loc[r].unit][loc[r].rev].result \in Results
    BY Here DEF Typed, ReadyHasResult
  <1>2. /\ l \in Loc /\ l.unit \in Units /\ l.rev \in Revisions /\ l.bind \in Bindings
        /\ l.res \in Results
    BY <1>1, Here DEF Loc
  <1>3. "return" \in PC
    BY DEF PC
  <1>4. SetLoc(r, l) /\ Goto(r, "return")
    BY DEF Replay
  <1>5. UNCHANGED <<op, row, claim, lock, review, sends, wire, paid, answers>>
    BY DEF Replay
  <1> HIDE DEF l
  <1>6. pc' \in [Runners -> PC] /\ loc' \in [Runners -> Loc] /\ Placed'
    BY <1>2, <1>3, <1>4, <1>5, RunnerUpdate
  <1> QED
    BY <1>5, <1>6 DEF Typed, TypeOK, ReadyHasResult

\* A step that writes the operation and moves on.
LEMMA OpStepTyped ==
  ASSUME Typed, NEW r \in Runners, pc[r] # "idle", NEW o \in Operation,
         o.state = "result_ready" => o.result \in Results,
         SetOp(loc[r].unit, loc[r].rev, o),
         NEW next \in PC, Goto(r, next), next \in Carrying => pc[r] \in Carrying,
         UNCHANGED <<row, claim, lock, loc, review, sends, wire, paid, answers>>
  PROVE  Typed'
  <1>1. pc' \in [Runners -> PC] /\ Placed'
    BY RunnerMove, Here
  <1>2. op' \in [Units -> [Revisions -> Operation]] /\ ReadyHasResult'
    BY OpUpdate, Here
  <1> QED
    BY <1>1, <1>2 DEF Typed, TypeOK

\* A step that writes the projection and moves on.
LEMMA RowStepTyped ==
  ASSUME Typed, NEW r \in Runners, pc[r] # "idle", NEW x \in Row,
         SetRow(loc[r].unit, x),
         NEW next \in PC, Goto(r, next), next \in Carrying => pc[r] \in Carrying,
         UNCHANGED <<op, claim, lock, loc, review, sends, wire, paid, answers>>
  PROVE  Typed'
  <1>1. pc' \in [Runners -> PC] /\ Placed'
    BY RunnerMove, Here
  <1>2. row' \in [Units -> Row]
    BY RowUpdate, Here
  <1> QED
    BY <1>1, <1>2 DEF Typed, TypeOK, ReadyHasResult

\* A step that only changes what the runner carries and moves on.
LEMMA LocStepTyped ==
  ASSUME Typed, NEW r \in Runners, pc[r] # "idle", NEW l \in Loc,
         l.unit = loc[r].unit, l.rev = loc[r].rev, l.bind = loc[r].bind,
         SetLoc(r, l), NEW next \in PC, Goto(r, next),
         next \in Carrying => l.res \in Results,
         UNCHANGED <<op, row, claim, lock, review, sends, wire, paid, answers>>
  PROVE  Typed'
  <1>1. pc' \in [Runners -> PC] /\ loc' \in [Runners -> Loc] /\ Placed'
    BY RunnerUpdate, Here
  <1> QED
    BY <1>1 DEF Typed, TypeOK, ReadyHasResult

LEMMA RunnerTyped ==
  ASSUME Typed, NEW r \in Runners, RunnerStep(r)
  PROVE  Typed'
  <1> DEFINE u == loc[r].unit
             v == loc[r].rev
  <1>1. CASE Peek(r)
    BY <1>1, RefuseTyped, PassTyped, ReplayTyped DEF Peek, Recovery, PC, Carrying
  <1>2. CASE Acquire(r)
    <2>1. CASE Refuse(r)
      BY <2>1, RefuseTyped
    <2>2. CASE ~Refuse(r)
      <3>1. pc' \in [Runners -> PC] /\ Placed'
        BY <1>2, <2>2, RunnerMove DEF Acquire, PC, Holding, Carrying
      <3>2. u \in Units
        BY <1>2, Here DEF Acquire
      <3>3. /\ lock' \in [Units -> Actors \cup {None}]
            /\ claim' \in [Units -> Actors \cup {None}]
        BY <1>2, <2>2, <3>2 DEF Acquire, Typed, TypeOK, Actors
      <3> QED
        BY <1>2, <2>2, <3>1, <3>3 DEF Acquire, Typed, TypeOK, ReadyHasResult
    <2> QED
      BY <2>1, <2>2
  <1>3. CASE RecoverOwned(r)
    <2>1. CASE Recovery(u, v, loc[r].bind) # "polling"
      BY <1>3, <2>1, RefuseTyped, PassTyped, ReplayTyped
         DEF RecoverOwned, Recovery, PC, Holding, Carrying
    <2>2. CASE Recovery(u, v, loc[r].bind) = "polling"
      <3> DEFINE l == [loc[r] EXCEPT !.job = op[u][v].job, !.tries = row[u].attempts]
      <3>1. pc[r] # "idle"
        BY <1>3 DEF RecoverOwned
      <3>2. l \in Loc /\ l.unit = loc[r].unit /\ l.rev = loc[r].rev /\ l.bind = loc[r].bind
        BY <3>1, Here DEF Loc, Operation, Row
      <3>3. /\ SetLoc(r, l) /\ Goto(r, "project")
            /\ UNCHANGED <<op, row, claim, lock, review, sends, wire, paid, answers>>
        BY <1>3, <2>2 DEF RecoverOwned, Adopt
      <3> HIDE DEF l
      <3> QED
        BY <3>1, <3>2, <3>3, LocStepTyped DEF PC, Holding, Carrying
    <2> QED
      BY <2>1, <2>2
  <1>4. CASE FindPollingJob(r)
    <2>1. CASE row[u].status # "polling"
      BY <1>4, <2>1, PassTyped DEF FindPollingJob, PC, Holding, Carrying
    <2>2. CASE row[u].status = "polling"
      <3> DEFINE l == [loc[r] EXCEPT !.job = row[u].job, !.tries = row[u].attempts]
      <3>1. pc[r] # "idle"
        BY <1>4 DEF FindPollingJob
      <3>2. l \in Loc /\ l.unit = loc[r].unit /\ l.rev = loc[r].rev /\ l.bind = loc[r].bind
        BY <3>1, Here DEF Loc, Row
      <3>3. /\ SetLoc(r, l) /\ Goto(r, "resave")
            /\ UNCHANGED <<op, row, claim, lock, review, sends, wire, paid, answers>>
        BY <1>4, <2>2 DEF FindPollingJob, Adopt
      <3> HIDE DEF l
      <3> QED
        BY <3>1, <3>2, <3>3, LocStepTyped DEF PC, Holding, Carrying
    <2> QED
      BY <2>1, <2>2
  <1>5. CASE BeginProviderRuntimeIntent(r)
    <2>1. CASE Refuse(r)
      BY <2>1, RefuseTyped
    <2>2. CASE ~Refuse(r)
      <3> DEFINE o == [Vacant EXCEPT !.state = "submit_unknown", !.bind = loc[r].bind]
      <3>1. pc[r] # "idle"
        BY <1>5 DEF BeginProviderRuntimeIntent
      <3>2. o \in Operation /\ o.state # "result_ready"
        BY <3>1, Here DEF Operation, Vacant
      <3>3. /\ SetOp(u, v, o) /\ Goto(r, "context")
            /\ UNCHANGED <<row, claim, lock, loc, review, sends, wire, paid, answers>>
        BY <1>5, <2>2 DEF BeginProviderRuntimeIntent
      <3> HIDE DEF o
      <3> QED
        BY <3>1, <3>2, <3>3, OpStepTyped DEF PC, Holding, Carrying
    <2> QED
      BY <2>1, <2>2
  <1>6. CASE CommitProviderSubmitContext(r)
    <2> DEFINE o == [op[u][v] EXCEPT !.ready = TRUE]
    <2>1. pc[r] # "idle"
      BY <1>6 DEF CommitProviderSubmitContext
    <2>2. o \in Operation /\ o.state # "result_ready"
      BY <1>6, <2>1, Here DEF CommitProviderSubmitContext, Operation
    <2>3. /\ SetOp(u, v, o) /\ Goto(r, "submit")
          /\ UNCHANGED <<row, claim, lock, loc, review, sends, wire, paid, answers>>
      BY <1>6 DEF CommitProviderSubmitContext
    <2> HIDE DEF o
    <2> QED
      BY <2>1, <2>2, <2>3, OpStepTyped DEF PC, Holding, Carrying
  <1>7. CASE Submit(r)
    <2>1. pc' \in [Runners -> PC] /\ Placed'
      BY <1>7, RunnerMove DEF Submit, PC, Holding, Carrying
    <2> QED
      BY <1>7, <2>1, Here DEF Submit, Typed, TypeOK, ReadyHasResult
  <1>8. CASE SubmitAnswered(r)
    <2>1. pc[r] # "idle"
      BY <1>8 DEF SubmitAnswered
    <2>2. ASSUME NEW x \in Results, SetLoc(r, [loc[r] EXCEPT !.res = x]), Goto(r, Immediate)
          PROVE  Typed'
      BY <1>8, <2>1, <2>2, LocStepTyped, Here
         DEF SubmitAnswered, Immediate, PC, Holding, Carrying, Loc
    <2>3. ASSUME SetLoc(r, [loc[r] EXCEPT !.job = paid[u][v]]), Goto(r, "save_job")
          PROVE  Typed'
      <3>1. paid[u][v] \in Nat
        BY <2>1, Here DEF Typed, TypeOK
      <3> QED
        BY <1>8, <2>1, <2>3, <3>1, LocStepTyped, Here
           DEF SubmitAnswered, PC, Holding, Carrying, Loc
    <2> QED
      BY <1>8, <2>2, <2>3 DEF SubmitAnswered
  <1>9. CASE SubmitFailed(r) \/ PollTransportError(r)
    BY <1>9, PassTyped DEF SubmitFailed, PollTransportError, PC, Carrying
  <1>10. ASSUME NEW from \in {"save_job", "resave"}, NEW next \in {"project", "poll"},
                SaveProviderJob(r, from, next)
         PROVE  Typed'
    <2> DEFINE o == [op[u][v] EXCEPT !.state = "polling", !.job = loc[r].job,
                                     !.bind = loc[r].bind]
    <2>1. pc[r] # "idle"
      BY <1>10 DEF SaveProviderJob
    <2>2. o \in Operation /\ o.state # "result_ready"
      BY <2>1, Here DEF Operation
    <2>3. /\ SetOp(u, v, o) /\ Goto(r, next)
          /\ UNCHANGED <<row, claim, lock, loc, review, sends, wire, paid, answers>>
      BY <1>10 DEF SaveProviderJob
    <2> HIDE DEF o
    <2> QED
      BY <2>1, <2>2, <2>3, OpStepTyped DEF PC, Holding, Polling, Carrying
  <1>11. CASE UpsertPollingJob(r)
    <2> DEFINE x == IF row[u].status = "polling" THEN row[u]
                    ELSE [status |-> "polling", rev |-> v, bind |-> loc[r].bind,
                          job |-> loc[r].job, attempts |-> 0]
    <2>1. pc[r] # "idle"
      BY <1>11 DEF UpsertPollingJob
    <2>2. x \in Row
      BY <2>1, Here DEF Row
    <2>3. /\ SetRow(u, x) /\ Goto(r, "resave")
          /\ UNCHANGED <<op, claim, lock, loc, review, sends, wire, paid, answers>>
      BY <1>11 DEF UpsertPollingJob
    <2> HIDE DEF x
    <2> QED
      BY <2>1, <2>2, <2>3, RowStepTyped DEF PC, Holding, Carrying
  <1>12. CASE TouchPollingJob(r)
    <2> DEFINE n == Saturate(loc[r].tries)
               x == [row[u] EXCEPT !.attempts = n]
               l == [loc[r] EXCEPT !.tries = n]
    <2>1. pc[r] # "idle"
      BY <1>12 DEF TouchPollingJob
    <2>2. n \in Nat
      BY <2>1, Here, MaxAttemptsAssumption DEF Saturate
    <2>3. /\ SetRow(u, x) /\ SetLoc(r, l) /\ Goto(r, "await")
          /\ UNCHANGED <<op, claim, lock, review, sends, wire, paid, answers>>
      BY <1>12 DEF TouchPollingJob
    <2> HIDE DEF n
    <2>4. /\ x \in Row /\ l \in Loc
          /\ l.unit \in Units /\ l.rev \in Revisions /\ l.bind \in Bindings
      BY <2>1, <2>2, Here DEF Row, Loc
    <2> HIDE DEF x, l
    <2>5. row' \in [Units -> Row]
      BY <2>1, <2>3, <2>4, RowUpdate, Here
    <2>6. pc' \in [Runners -> PC] /\ loc' \in [Runners -> Loc] /\ Placed'
      BY <2>3, <2>4, RunnerUpdate DEF PC, Holding, Polling, Carrying
    <2> QED
      BY <2>3, <2>5, <2>6 DEF Typed, TypeOK, ReadyHasResult
  <1>13. CASE PollAnswered(r)
    <2>1. CASE Pass(r, "poll") \/ Pass(r, "mark_failed")
      BY <1>13, <2>1, PassTyped DEF PollAnswered, PC, Holding, Polling, Carrying
    <2>2. ASSUME NEW x \in Results, SetLoc(r, [loc[r] EXCEPT !.res = x]),
                 Goto(r, "save_done"),
                 UNCHANGED <<op, row, claim, lock, review, sends, wire, paid, answers>>
          PROVE  Typed'
      BY <1>13, <2>2, LocStepTyped, Here DEF PollAnswered, PC, Holding, Polling, Carrying, Loc
    <2> QED
      BY <1>13, <2>1, <2>2 DEF PollAnswered
  <1>14. ASSUME NEW from \in {"save_sync", "save_done"}, NEW next \in {"return", "close"},
                SaveProviderResult(r, from, next)
         PROVE  Typed'
    <2> DEFINE o == WithResult(op[u][v], loc[r].res)
    <2>1. pc[r] # "idle" /\ pc[r] \in Carrying
      BY <1>14 DEF SaveProviderResult, Carrying
    <2>2. o \in Operation /\ o.result \in Results
      BY <2>1, Here DEF Operation, WithResult
    <2>3. /\ SetOp(u, v, o) /\ Goto(r, next)
          /\ UNCHANGED <<row, claim, lock, loc, review, sends, wire, paid, answers>>
      BY <1>14 DEF SaveProviderResult
    <2> HIDE DEF o
    <2> QED
      BY <2>1, <2>2, <2>3, OpStepTyped DEF PC, Holding
  <1>15. CASE CloseJob(r)
    <2>1. NoRow \in Row
      BY DEF NoRow, Row
    <2> QED
      BY <1>15, <2>1, RowStepTyped DEF CloseJob, PC, Carrying
  <1>16. CASE MarkJobFailed(r)
    <2>1. [row[u] EXCEPT !.status = "failed"] \in Row
      BY <1>16, Here DEF MarkJobFailed, Row
    <2> QED
      BY <1>16, <2>1, RowStepTyped DEF MarkJobFailed, PC, Carrying
  <1>17. CASE ReturnResult(r)
    <2>1. NoLoc \in Loc /\ "idle" \in PC \ Carrying
      BY DEF NoLoc, Loc, PC, Carrying
    <2>2. pc' \in [Runners -> PC] /\ loc' \in [Runners -> Loc] /\ Placed'
      BY <1>17, <2>1, RunnerUpdate DEF ReturnResult, Leave
    <2>3. u \in Units /\ v \in Revisions /\ loc[r].res \in Results
      BY <1>17, Here DEF ReturnResult, Carrying
    <2>4. answers' \in [Units -> [Revisions -> SUBSET Results]]
      <3>1. answers[u] \in [Revisions -> SUBSET Results]
        BY <2>3 DEF Typed, TypeOK
      <3>2. answers' = [answers EXCEPT ![u] =
                          [answers[u] EXCEPT ![v] = answers[u][v] \cup {loc[r].res}]]
        BY <1>17 DEF ReturnResult
      <3>3. [answers[u] EXCEPT ![v] = answers[u][v] \cup {loc[r].res}]
              \in [Revisions -> SUBSET Results]
        BY <2>3, <3>1
      <3> QED
        BY <2>3, <3>2, <3>3 DEF Typed, TypeOK
    <2>5. lock' \in [Units -> Actors \cup {None}]
      BY <1>17 DEF ReturnResult, Leave, Release, Typed, TypeOK
    <2> QED
      BY <1>17, <2>2, <2>4, <2>5 DEF ReturnResult, Typed, TypeOK, ReadyHasResult
  <1>18. CASE ReturnError(r)
    BY <1>18, RefuseTyped DEF ReturnError
  <1> QED
    BY <1>1, <1>2, <1>3, <1>4, <1>5, <1>6, <1>7, <1>8, <1>9, <1>10, <1>11, <1>12,
       <1>13, <1>14, <1>15, <1>16, <1>17, <1>18 DEF RunnerStep

LEMMA ReviewerTyped ==
  ASSUME Typed, NEW w \in Reviewers, ReviewerStep(w)
  PROVE  Typed'
  <1> USE DEF Reviewed, Release
  <1>1. ASSUME NEW u \in Units, NEW v \in Revisions, ReviewProviderOperation(w, u, v)
        PROVE  Typed'
    BY <1>1 DEF ReviewProviderOperation, Typed, TypeOK, Placed, ReadyHasResult, Review
  <1>2. CASE VerifiedJobContext(w)
    BY <1>2 DEF VerifiedJobContext, Typed, TypeOK, Placed, ReadyHasResult, Review
  <1>3. CASE AcquireForReview(w)
    BY <1>3 DEF AcquireForReview, Typed, TypeOK, Placed, ReadyHasResult, Review, Actors
  <1>4. CASE CommitProviderReconciliation(w)
    <2> DEFINE u == review[w].unit
               v == review[w].rev
               o == [op[u][v] EXCEPT !.state = "polling", !.job = review[w].job]
    <2>1. u \in Units /\ v \in Revisions /\ o \in Operation /\ o.state # "result_ready"
      <3>1. /\ u \in Units /\ v \in Revisions /\ review[w].job \in Nat
        BY <1>4 DEF CommitProviderReconciliation, Typed, TypeOK, Placed, Review
      <3>2. op[u][v] \in Operation
        BY <3>1 DEF Typed, TypeOK
      <3> QED
        BY <3>1, <3>2 DEF Operation
    <2>2. SetOp(u, v, o)
      BY <1>4 DEF CommitProviderReconciliation
    <2> HIDE DEF o
    <2>3. op' \in [Units -> [Revisions -> Operation]] /\ ReadyHasResult'
      BY <2>1, <2>2, OpUpdate
    <2>4. review' \in [Reviewers -> Review] /\ Placed'
      BY <1>4 DEF CommitProviderReconciliation, Typed, TypeOK, Placed, Review, NoReview,
                  Operation, Vacant
    <2> QED
      BY <1>4, <2>3, <2>4 DEF CommitProviderReconciliation, Typed, TypeOK
  <1>5. CASE ReviewEnds(w)
    BY <1>5 DEF ReviewEnds, Typed, TypeOK, Placed, ReadyHasResult,
                Review, NoReview, Operation, Vacant
  <1> QED
    BY <1>1, <1>2, <1>3, <1>4, <1>5 DEF ReviewerStep

LEMMA TypedStep == Typed /\ [Next]_vars => Typed'
  <1> SUFFICES ASSUME Typed, [Next]_vars PROVE Typed'
    OBVIOUS
  <1>1. ASSUME NEW r \in Runners, StartAny(r) PROVE Typed'
    <2> PICK u \in Units, v \in Revisions, b \in Bindings : Start(r, u, v, b)
      BY <1>1 DEF StartAny
    <2> DEFINE l == [NoLoc EXCEPT !.unit = u, !.rev = v, !.bind = b]
    <2>1. l \in Loc /\ l.unit \in Units /\ l.rev \in Revisions /\ l.bind \in Bindings
      BY DEF NoLoc, Loc
    <2>2. pc' \in [Runners -> PC] /\ loc' \in [Runners -> Loc] /\ Placed'
      BY <2>1, RunnerUpdate DEF Start, PC, Carrying
    <2> QED
      BY <2>2 DEF Start, Typed, TypeOK, ReadyHasResult
  <1>2. ASSUME NEW r \in Runners, RunnerStep(r) PROVE Typed'
    BY <1>2, RunnerTyped
  <1>3. ASSUME NEW r \in Runners, DeadlineExpired(r) PROVE Typed'
    BY <1>3, PassTyped DEF DeadlineExpired, PC, Holding, Polling, Carrying
  <1>4. ASSUME NEW r \in Runners, Abandon(r) PROVE Typed'
    BY <1>4, RefuseTyped DEF Abandon
  <1>5. ASSUME NEW w \in Reviewers, ReviewerStep(w) PROVE Typed'
    BY <1>5, ReviewerTyped
  <1>6. CASE Environment
    <2> PICK u \in Units, v \in Revisions : ProviderAccepts(u, v) \/ SubmitLost(u, v)
      BY <1>6 DEF Environment
    <2>0. wire[u][v] \in Nat /\ wire[u][v] > 0 /\ paid[u][v] \in Nat
      BY DEF ProviderAccepts, SubmitLost, Typed, TypeOK
    <2>1. /\ wire' \in [Units -> [Revisions -> Nat]]
          /\ paid' \in [Units -> [Revisions -> Nat]]
      <3>1. wire[u][v] - 1 \in Nat /\ paid[u][v] + 1 \in Nat
        BY <2>0
      <3>2. /\ wire' = [wire EXCEPT ![u] = [wire[u] EXCEPT ![v] = wire[u][v] - 1]]
            /\ \/ paid' = paid
               \/ paid' = [paid EXCEPT ![u] = [paid[u] EXCEPT ![v] = paid[u][v] + 1]]
        BY DEF ProviderAccepts, SubmitLost
      <3>3. /\ [wire[u] EXCEPT ![v] = wire[u][v] - 1] \in [Revisions -> Nat]
            /\ [paid[u] EXCEPT ![v] = paid[u][v] + 1] \in [Revisions -> Nat]
        BY <3>1 DEF Typed, TypeOK
      <3> QED
        BY <3>2, <3>3 DEF Typed, TypeOK
    <2> QED
      BY <2>1 DEF ProviderAccepts, SubmitLost, Typed, TypeOK, Placed, ReadyHasResult
  <1>7. CASE Crash
    BY <1>7 DEF Crash, NoLoc, NoReview, Vacant, Typed, TypeOK, Placed, ReadyHasResult,
                PC, Loc, Review, Operation
  <1>8. CASE UNCHANGED vars
    BY <1>8 DEF vars, Typed, TypeOK, Placed, ReadyHasResult
  <1> QED
    BY <1>1, <1>2, <1>3, <1>4, <1>5, <1>6, <1>7, <1>8 DEF Next

\* Every reachable state of the ledger, projection, claims, runners and
\* reviews has its declared type, for any sets of actors, units and results.
THEOREM TypeCorrect == Spec => []TypeOK
  <1>1. Typed => TypeOK
    BY DEF Typed
  <1> QED
    BY <1>1, TypedInit, TypedStep, PTL DEF Spec
-----------------------------------------------------------------------------
(* One live owner per unit.                                                 *)

\* A step of a runner that takes no lock and does not change its unit.
LEMMA RunnerKeepsOwners ==
  ASSUME Typed, OwnerIsCurrent, NEW r \in Runners, NEW next,
         Goto(r, next), next \in Holding => pc[r] \in Holding,
         next \in Holding => loc'[r].unit = loc[r].unit,
         \A s \in Runners : s # r => loc'[s] = loc[s],
         lock' = lock \/ Release(r),
         next \in Holding => lock' = lock,
         UNCHANGED <<claim, review>>
  PROVE  OwnerIsCurrent'
  <1>1. ASSUME NEW s \in Runners, pc'[s] \in Holding
        PROVE  lock'[loc'[s].unit] = s /\ claim'[loc'[s].unit] = s
    <2>1. CASE s = r
      <3>1. next \in Holding
        BY <1>1, <2>1 DEF Goto, Typed, TypeOK
      <3> QED
        BY <2>1, <3>1 DEF OwnerIsCurrent
    <2>2. CASE s # r
      <3>1. pc[s] \in Holding /\ loc'[s] = loc[s]
        BY <1>1, <2>2 DEF Goto, Typed, TypeOK
      <3>2. loc[s].unit \in Units
        BY <3>1 DEF Typed, Placed, Holding, Polling
      <3>3. lock[loc[s].unit] = s /\ claim[loc[s].unit] = s
        BY <3>1 DEF OwnerIsCurrent
      <3> QED
        BY <2>2, <3>1, <3>2, <3>3 DEF Release
    <2> QED
      BY <2>1, <2>2
  <1>2. ASSUME NEW w \in Reviewers, review'[w].stage = "owner"
        PROVE  lock'[review'[w].unit] = w /\ claim'[review'[w].unit] = w
    <2>1. /\ review[w].stage = "owner" /\ review[w].unit \in Units /\ w # r
          /\ lock[review[w].unit] = w /\ claim[review[w].unit] = w
      BY <1>2, ActorsAssumption DEF OwnerIsCurrent, Typed, Placed
    <2> QED
      BY <2>1 DEF Release
  <1> QED
    BY <1>1, <1>2 DEF OwnerIsCurrent

LEMMA RunnerOwned ==
  ASSUME Typed, OwnerIsCurrent, NEW r \in Runners, RunnerStep(r)
  PROVE  OwnerIsCurrent'
  <1>1. CASE Acquire(r) /\ ~Refuse(r)
    <2> DEFINE u == loc[r].unit
    <2>1. /\ u \in Units /\ lock[u] = None
          /\ lock' = [lock EXCEPT ![u] = r] /\ claim' = [claim EXCEPT ![u] = r]
          /\ UNCHANGED <<loc, review>>
          /\ Goto(r, "recover")
      BY <1>1, Here DEF Acquire, Acquirable
    <2>2. lock \in [Units -> Actors \cup {None}] /\ claim \in [Units -> Actors \cup {None}]
      BY DEF Typed, TypeOK
    <2>3. ASSUME NEW s \in Runners, pc'[s] \in Holding
          PROVE  lock'[loc'[s].unit] = s /\ claim'[loc'[s].unit] = s
      <3>1. CASE s = r
        BY <2>1, <2>2, <3>1
      <3>2. CASE s # r
        <4>1. pc[s] \in Holding
          BY <2>1, <2>3, <3>2 DEF Goto, Typed, TypeOK
        <4>2. lock[loc[s].unit] = s /\ claim[loc[s].unit] = s /\ loc[s].unit # u
          BY <2>1, <4>1, ActorsAssumption DEF OwnerIsCurrent
        <4>3. loc[s].unit \in Units
          BY <4>1 DEF Typed, Placed, Holding, Polling
        <4> QED
          BY <2>1, <2>2, <4>2, <4>3
      <3> QED
        BY <3>1, <3>2
    <2>4. ASSUME NEW w \in Reviewers, review'[w].stage = "owner"
          PROVE  lock'[review'[w].unit] = w /\ claim'[review'[w].unit] = w
      <3>1. /\ review[w].unit \in Units /\ lock[review[w].unit] = w
            /\ claim[review[w].unit] = w /\ review[w].unit # u
        BY <2>1, <2>4, ActorsAssumption DEF OwnerIsCurrent, Typed, Placed
      <3> QED
        BY <2>1, <2>2, <3>1
    <2> QED
      BY <2>3, <2>4 DEF OwnerIsCurrent
  <1>2. CASE Refuse(r)
    <2>1. "idle" \notin Holding
      BY DEF Holding, Polling
    <2> QED
      BY <1>2, <2>1, RunnerKeepsOwners DEF Refuse, Leave, SetLoc, Typed, TypeOK
  <1>3. ASSUME NEW next \in PC, Pass(r, next), next \in Holding => pc[r] \in Holding
        PROVE  OwnerIsCurrent'
    BY <1>3, RunnerKeepsOwners DEF Pass
  <1>4. ASSUME NEW next \in PC, Goto(r, next), next \in Holding => pc[r] \in Holding,
               NEW l, SetLoc(r, l), l.unit = loc[r].unit, UNCHANGED <<lock, claim, review>>
        PROVE  OwnerIsCurrent'
    BY <1>4, RunnerKeepsOwners DEF SetLoc, Typed, TypeOK
  <1>5. ASSUME NEW next \in PC, Goto(r, next), next \in Holding => pc[r] \in Holding,
               UNCHANGED <<loc, lock, claim, review>>
        PROVE  OwnerIsCurrent'
    BY <1>5, RunnerKeepsOwners
  <1>6. ASSUME NEW u, NEW v, Replay(r, u, v)
        PROVE  OwnerIsCurrent'
    <2>1. loc[r] \in Loc /\ "return" \in PC /\ "return" \notin Holding
      BY DEF Typed, TypeOK, PC, Holding, Polling
    <2> DEFINE l == [loc[r] EXCEPT !.res = op[u][v].result]
    <2>2. l.unit = loc[r].unit
      BY <2>1 DEF Loc
    <2>3. Goto(r, "return") /\ SetLoc(r, l) /\ UNCHANGED <<lock, claim, review>>
      BY <1>6 DEF Replay
    <2> HIDE DEF l
    <2> QED
      BY <2>1, <2>2, <2>3, <1>4
  <1>7. loc[r] \in Loc
    BY DEF Typed, TypeOK
  <1>8. CASE Peek(r)
    BY <1>8, <1>2, <1>3, <1>6 DEF Peek, PC, Holding, Polling
  <1>9. CASE Acquire(r) /\ Refuse(r)
    BY <1>9, <1>2
  <1>10. CASE RecoverOwned(r)
    <2>1. CASE \E next \in PC : Pass(r, next) /\ (next \in Holding => pc[r] \in Holding)
      BY <2>1, <1>3
    <2>2. CASE Goto(r, "project") /\ Adopt(r, op[loc[r].unit][loc[r].rev].job,
                                              row[loc[r].unit].attempts)
      <3> DEFINE l == [loc[r] EXCEPT !.job = op[loc[r].unit][loc[r].rev].job,
                                     !.tries = row[loc[r].unit].attempts]
      <3>1. l.unit = loc[r].unit
        BY <1>7 DEF Loc
      <3>2. SetLoc(r, l)
        BY <2>2 DEF Adopt
      <3> HIDE DEF l
      <3>3. UNCHANGED <<lock, claim, review>> \/ Refuse(r)
        BY <1>10 DEF RecoverOwned, Replay, Pass
      <3>4. pc[r] \in Holding /\ "project" \in PC
        BY <1>10 DEF RecoverOwned, Holding, PC
      <3> QED
        BY <2>2, <3>1, <3>2, <3>3, <3>4, <1>2, <1>4
    <2> QED
      BY <1>10, <2>1, <2>2, <1>2, <1>6 DEF RecoverOwned, PC, Holding
  <1>11. CASE FindPollingJob(r)
    <2>1. CASE Pass(r, "begin")
      BY <1>11, <2>1, <1>3 DEF FindPollingJob, PC, Holding
    <2>2. CASE ~Pass(r, "begin")
      <3> DEFINE l == [loc[r] EXCEPT !.job = row[loc[r].unit].job,
                                     !.tries = row[loc[r].unit].attempts]
      <3>1. l.unit = loc[r].unit
        BY <1>7 DEF Loc
      <3>2. SetLoc(r, l) /\ Goto(r, "resave") /\ UNCHANGED <<lock, claim, review>>
        BY <1>11, <2>2 DEF FindPollingJob, Adopt
      <3> HIDE DEF l
      <3> QED
        BY <1>11, <3>1, <3>2, <1>4 DEF FindPollingJob, PC, Holding
    <2> QED
      BY <2>1, <2>2
  <1>12. CASE BeginProviderRuntimeIntent(r)
    BY <1>12, <1>2, <1>5 DEF BeginProviderRuntimeIntent, PC, Holding
  <1>13. CASE CommitProviderSubmitContext(r) \/ Submit(r)
    BY <1>13, <1>5 DEF CommitProviderSubmitContext, Submit, PC, Holding
  <1>14. CASE SubmitAnswered(r)
    <2>1. ASSUME NEW x, SetLoc(r, [loc[r] EXCEPT !.res = x]), Goto(r, "save_sync")
          PROVE  OwnerIsCurrent'
      BY <1>14, <2>1, <1>4, <1>7 DEF SubmitAnswered, PC, Holding, Loc
    <2>2. ASSUME NEW n, SetLoc(r, [loc[r] EXCEPT !.job = n]), Goto(r, "save_job")
          PROVE  OwnerIsCurrent'
      BY <1>14, <2>2, <1>4, <1>7 DEF SubmitAnswered, PC, Holding, Loc
    <2> QED
      BY <1>14, <2>1, <2>2 DEF SubmitAnswered, Immediate
  <1>15. CASE SubmitFailed(r) \/ PollTransportError(r)
    BY <1>15, <1>3 DEF SubmitFailed, PollTransportError, PC, Holding, Polling
  <1>16. ASSUME NEW from \in Holding, NEW next \in PC,
                \/ SaveProviderJob(r, from, next)
                \/ SaveProviderResult(r, from, next)
         PROVE  OwnerIsCurrent'
    BY <1>16, <1>5 DEF SaveProviderJob, SaveProviderResult
  <1>17. CASE UpsertPollingJob(r) \/ CloseJob(r) \/ MarkJobFailed(r)
    BY <1>17, <1>5 DEF UpsertPollingJob, CloseJob, MarkJobFailed, PC, Holding, Polling
  <1>18. CASE TouchPollingJob(r)
    BY <1>18, <1>4, <1>7 DEF TouchPollingJob, PC, Holding, Polling, Loc
  <1>19. CASE PollAnswered(r)
    <2>1. ASSUME NEW x, SetLoc(r, [loc[r] EXCEPT !.res = x]), Goto(r, "save_done"),
                 UNCHANGED <<lock, claim, review>>
          PROVE  OwnerIsCurrent'
      BY <1>19, <2>1, <1>4, <1>7 DEF PollAnswered, PC, Holding, Polling, Loc
    <2> QED
      BY <1>19, <2>1, <1>3 DEF PollAnswered, PC, Holding, Polling
  <1>20. CASE ReturnResult(r)
    <2>1. "idle" \notin Holding
      BY DEF Holding, Polling
    <2> QED
      BY <1>20, <2>1, RunnerKeepsOwners DEF ReturnResult, Leave, SetLoc, Typed, TypeOK
  <1>21. CASE ReturnError(r)
    BY <1>21, <1>2 DEF ReturnError
  <1>22. /\ {"save_job", "resave", "save_sync", "save_done"} \subseteq Holding
         /\ {"project", "poll", "return", "close"} \subseteq PC
    BY DEF PC, Holding, Polling
  <1> QED
    BY <1>1, <1>8, <1>9, <1>10, <1>11, <1>12, <1>13, <1>14, <1>15, <1>16, <1>17,
       <1>18, <1>19, <1>20, <1>21, <1>22 DEF RunnerStep

\* A step of a reviewer that takes no lock.
LEMMA ReviewerKeepsOwners ==
  ASSUME Typed, OwnerIsCurrent, NEW w \in Reviewers, NEW to, Reviewed(w, to),
         to.stage = "owner" => review[w].stage = "owner" /\ to.unit = review[w].unit,
         to.stage = "owner" => lock' = lock,
         lock' = lock \/ Release(w),
         UNCHANGED <<claim, pc, loc>>
  PROVE  OwnerIsCurrent'
  <1>1. ASSUME NEW r \in Runners, pc'[r] \in Holding
        PROVE  lock'[loc'[r].unit] = r /\ claim'[loc'[r].unit] = r
    <2>1. /\ loc[r].unit \in Units /\ r # w
          /\ lock[loc[r].unit] = r /\ claim[loc[r].unit] = r
      BY <1>1, ActorsAssumption DEF OwnerIsCurrent, Typed, Placed, Holding, Polling
    <2> QED
      BY <2>1 DEF Release
  <1>2. ASSUME NEW x \in Reviewers, review'[x].stage = "owner"
        PROVE  lock'[review'[x].unit] = x /\ claim'[review'[x].unit] = x
    <2>1. CASE x = w
      <3>1. review'[w] = to
        BY DEF Reviewed, Typed, TypeOK
      <3> QED
        BY <1>2, <2>1, <3>1 DEF OwnerIsCurrent
    <2>2. CASE x # w
      <3>1. /\ review'[x] = review[x] /\ review[x].unit \in Units
            /\ lock[review[x].unit] = x /\ claim[review[x].unit] = x
        BY <1>2, <2>2 DEF Reviewed, OwnerIsCurrent, Typed, TypeOK, Placed
      <3> QED
        BY <2>2, <3>1 DEF Release
    <2> QED
      BY <2>1, <2>2
  <1> QED
    BY <1>1, <1>2 DEF OwnerIsCurrent

LEMMA ReviewerOwned ==
  ASSUME Typed, OwnerIsCurrent, NEW w \in Reviewers, ReviewerStep(w)
  PROVE  OwnerIsCurrent'
  <1> DEFINE u == review[w].unit
  <1>1. ASSUME NEW x \in Units, NEW v \in Revisions, ReviewProviderOperation(w, x, v)
        PROVE  OwnerIsCurrent'
    BY <1>1, ReviewerKeepsOwners DEF ReviewProviderOperation
  <1>2. CASE VerifiedJobContext(w)
    BY <1>2, ReviewerKeepsOwners DEF VerifiedJobContext, Typed, TypeOK, Review
  <1>3. CASE AcquireForReview(w)
    <2>1. /\ u \in Units /\ lock[u] = None
          /\ lock' = [lock EXCEPT ![u] = w] /\ claim' = [claim EXCEPT ![u] = w]
          /\ review' = [review EXCEPT ![w] = [review[w] EXCEPT !.stage = "owner"]]
          /\ UNCHANGED <<pc, loc>>
      BY <1>3 DEF AcquireForReview, Acquirable, Reviewed, Typed, Placed
    <2>2. /\ lock \in [Units -> Actors \cup {None}] /\ claim \in [Units -> Actors \cup {None}]
          /\ review \in [Reviewers -> Review]
      BY DEF Typed, TypeOK
    <2>3. ASSUME NEW r \in Runners, pc'[r] \in Holding
          PROVE  lock'[loc'[r].unit] = r /\ claim'[loc'[r].unit] = r
      <3>1. /\ loc[r].unit \in Units /\ loc[r].unit # u
            /\ lock[loc[r].unit] = r /\ claim[loc[r].unit] = r
        BY <2>1, <2>3, ActorsAssumption DEF OwnerIsCurrent, Typed, Placed, Holding, Polling
      <3> QED
        BY <2>1, <2>2, <3>1
    <2>4. ASSUME NEW x \in Reviewers, review'[x].stage = "owner"
          PROVE  lock'[review'[x].unit] = x /\ claim'[review'[x].unit] = x
      <3>1. CASE x = w
        <4>1. review'[x].unit = u
          BY <2>1, <2>2, <3>1 DEF Review
        <4> QED
          BY <2>1, <2>2, <3>1, <4>1
      <3>2. CASE x # w
        <4>1. /\ review'[x] = review[x] /\ review[x].unit \in Units /\ review[x].unit # u
              /\ lock[review[x].unit] = x /\ claim[review[x].unit] = x
          BY <2>1, <2>2, <2>4, <3>2, ActorsAssumption DEF OwnerIsCurrent, Typed, Placed
        <4> QED
          BY <2>1, <2>2, <4>1
      <3> QED
        BY <3>1, <3>2
    <2> QED
      BY <2>3, <2>4 DEF OwnerIsCurrent
  <1>4. CASE CommitProviderReconciliation(w) \/ ReviewEnds(w)
    BY <1>4, ReviewerKeepsOwners DEF CommitProviderReconciliation, ReviewEnds, NoReview
  <1> QED
    BY <1>1, <1>2, <1>3, <1>4 DEF ReviewerStep

LEMMA OwnedStep == Typed /\ OwnerIsCurrent /\ [Next]_vars => OwnerIsCurrent'
  <1> SUFFICES ASSUME Typed, OwnerIsCurrent, [Next]_vars PROVE OwnerIsCurrent'
    OBVIOUS
  <1>0. "idle" \notin Holding /\ "peek" \notin Holding
    BY DEF Holding, Polling
  <1>1. ASSUME NEW r \in Runners, StartAny(r) PROVE OwnerIsCurrent'
    BY <1>0, <1>1, RunnerKeepsOwners DEF StartAny, Start, SetLoc, Typed, TypeOK
  <1>2. ASSUME NEW r \in Runners, RunnerStep(r) PROVE OwnerIsCurrent'
    BY <1>2, RunnerOwned
  <1>3. ASSUME NEW r \in Runners, DeadlineExpired(r) PROVE OwnerIsCurrent'
    BY <1>3, RunnerKeepsOwners DEF DeadlineExpired, Pass, Holding, Polling
  <1>4. ASSUME NEW r \in Runners, Abandon(r) PROVE OwnerIsCurrent'
    BY <1>0, <1>4, RunnerKeepsOwners DEF Abandon, Refuse, Leave, SetLoc, Typed, TypeOK
  <1>5. ASSUME NEW w \in Reviewers, ReviewerStep(w) PROVE OwnerIsCurrent'
    BY <1>5, ReviewerOwned
  <1>6. CASE Environment \/ UNCHANGED vars
    BY <1>6 DEF Environment, ProviderAccepts, SubmitLost, vars, OwnerIsCurrent
  <1>7. CASE Crash
    BY <1>0, <1>7 DEF Crash, NoReview, OwnerIsCurrent
  <1> QED
    BY <1>1, <1>2, <1>3, <1>4, <1>5, <1>6, <1>7 DEF Next

\* Whoever is past the claim of a unit alone holds its native lock, in every
\* revision of the unit, and its claim is the one assert_owner finds.
THEOREM OneOwner == Spec => []OwnerIsCurrent
  <1>1. Init => OwnerIsCurrent
    BY DEF Init, NoReview, OwnerIsCurrent, Holding, Polling
  <1> QED
    BY <1>1, TypedInit, TypedStep, OwnedStep, PTL DEF Spec
-----------------------------------------------------------------------------
(* The paid request leaves once.                                            *)

\* What was sent is accounted for by a durable record of its revision.
Accounted ==
  \A u \in Units, v \in Revisions : sends[u][v] > 0 =>
    \/ op[u][v].state # "vacant"
    \/ row[u].status # "none" /\ row[u].rev = v

\* A runner about to submit has committed its intent and sent nothing yet.
IntentIsFresh ==
  \A r \in Runners : pc[r] \in {"context", "submit"} =>
    /\ op[loc[r].unit][loc[r].rev].state = "submit_unknown"
    /\ sends[loc[r].unit][loc[r].rev] = 0

Bought == Accounted /\ IntentIsFresh /\ AtMostOneSubmit

Inv == Typed /\ OwnerIsCurrent /\ Bought

\* Two runners that hold units hold different ones.
LEMMA Apart ==
  ASSUME Inv, NEW r \in Runners, NEW s \in Runners, r # s,
         pc[r] \in Holding, pc[s] \in Holding
  PROVE  loc[r].unit # loc[s].unit
  BY DEF Inv, OwnerIsCurrent

\* A step that touches no record keeps Bought.
LEMMA QuietBought ==
  ASSUME Inv, NEW r \in Runners, NEW next, Goto(r, next),
         next \notin {"context", "submit"},
         \A s \in Runners : s # r => loc'[s] = loc[s],
         UNCHANGED <<op, row, sends, wire, paid>>
  PROVE  Bought'
  <1>1. Accounted' /\ AtMostOneSubmit'
    BY DEF Inv, Bought, Accounted, AtMostOneSubmit
  <1>2. IntentIsFresh'
    BY DEF Inv, Bought, IntentIsFresh, Goto, Typed, TypeOK
  <1> QED
    BY <1>1, <1>2 DEF Bought

\* A step of an owner that writes its operation keeps Bought.
LEMMA OpBought ==
  ASSUME Inv, NEW r \in Runners, pc[r] \in Holding, NEW o \in Operation,
         o.state # "vacant",
         o.state = "result_ready" => o.result \in Results,
         SetOp(loc[r].unit, loc[r].rev, o),
         NEW next, Goto(r, next),
         next \in {"context", "submit"} =>
           o.state = "submit_unknown" /\ sends[loc[r].unit][loc[r].rev] = 0,
         UNCHANGED <<row, loc, sends, wire, paid>>
  PROVE  Bought'
  <1> DEFINE u == loc[r].unit
             v == loc[r].rev
  <1>1. /\ u \in Units /\ v \in Revisions
        /\ op'[u][v] = o
        /\ \A x \in Units, y \in Revisions : x # u \/ y # v => op'[x][y] = op[x][y]
    BY Here, OpUpdate DEF Inv, Holding, Polling
  <1>2. Accounted'
    BY <1>1 DEF Accounted, Inv, Bought
  <1>3. AtMostOneSubmit'
    BY DEF AtMostOneSubmit, Inv, Bought
  <1>4. ASSUME NEW s \in Runners, pc'[s] \in {"context", "submit"}
        PROVE  /\ op'[loc'[s].unit][loc'[s].rev].state = "submit_unknown"
               /\ sends'[loc'[s].unit][loc'[s].rev] = 0
    <2>1. CASE s = r
      BY <1>1, <1>4, <2>1 DEF Goto, Inv, Typed, TypeOK
    <2>2. CASE s # r
      <3>1. pc[s] = pc'[s] /\ pc[s] \in Holding
        BY <1>4, <2>2 DEF Goto, Inv, Typed, TypeOK, Holding
      <3>2. loc[s].unit # u
        BY <2>2, <3>1, Apart
      <3>3. loc[s].unit \in Units /\ loc[s].rev \in Revisions
        BY <3>1, Here DEF Inv, Holding, Polling
      <3> QED
        BY <1>1, <1>4, <3>1, <3>2, <3>3 DEF Inv, Bought, IntentIsFresh
    <2> QED
      BY <2>1, <2>2
  <1> QED
    BY <1>2, <1>3, <1>4 DEF Bought, IntentIsFresh

\* A step that writes the projection of its own unit, or closes it beside a
\* saved operation, keeps Bought.
LEMMA RowBought ==
  ASSUME Inv, NEW r \in Runners, pc[r] # "idle", NEW x \in Row,
         SetRow(loc[r].unit, x),
         \A v \in Revisions :
           \/ op[loc[r].unit][v].state # "vacant"
           \/ row[loc[r].unit].status # "none" /\ row[loc[r].unit].rev = v
              => x.status # "none" /\ x.rev = v,
         NEW next, Goto(r, next), next \notin {"context", "submit"},
         \A s \in Runners : s # r => loc'[s] = loc[s],
         UNCHANGED <<op, sends, wire, paid>>
  PROVE  Bought'
  <1> DEFINE u == loc[r].unit
  <1>1. /\ u \in Units
        /\ row'[u] = x
        /\ \A y \in Units : y # u => row'[y] = row[y]
    BY Here, RowUpdate DEF Inv
  <1>2. Accounted'
    BY <1>1 DEF Accounted, Inv, Bought
  <1>3. AtMostOneSubmit'
    BY DEF AtMostOneSubmit, Inv, Bought
  <1>4. IntentIsFresh'
    BY DEF Inv, Bought, IntentIsFresh, Goto, Typed, TypeOK
  <1> QED
    BY <1>2, <1>3, <1>4 DEF Bought

LEMMA RunnerBought ==
  ASSUME Inv, NEW r \in Runners, RunnerStep(r)
  PROVE  Bought'
  <1> DEFINE u == loc[r].unit
             v == loc[r].rev
  <1>0. Typed /\ loc[r] \in Loc
    BY DEF Inv, Typed, TypeOK
  <1>1. ASSUME NEW next, Pass(r, next), next \notin {"context", "submit"}
        PROVE  Bought'
    BY <1>1, QuietBought DEF Pass
  <1>2. ASSUME Refuse(r) PROVE Bought'
    BY <1>2, <1>0, QuietBought DEF Refuse, Leave, SetLoc, Typed, TypeOK
  <1>3. CASE Peek(r) \/ RecoverOwned(r) \/ FindPollingJob(r)
    <2>1. \A x, y : Replay(r, x, y) => Bought'
      BY <1>0, QuietBought DEF Replay, SetLoc, Typed, TypeOK
    <2>2. \A j, n, next : Adopt(r, j, n) /\ Goto(r, next) /\ next \in {"project", "resave"}
             /\ UNCHANGED <<op, row, claim, lock, review, sends, wire, paid, answers>>
          => Bought'
      BY <1>0, QuietBought DEF Adopt, SetLoc, Typed, TypeOK
    <2>3. CASE Peek(r)
      BY <2>1, <2>3, <1>1, <1>2 DEF Peek
    <2>4. CASE RecoverOwned(r)
      BY <2>1, <2>2, <2>4, <1>1, <1>2 DEF RecoverOwned
    <2>5. CASE FindPollingJob(r)
      BY <2>2, <2>5, <1>1 DEF FindPollingJob
    <2> QED
      BY <1>3, <2>3, <2>4, <2>5
  <1>4. CASE Acquire(r)
    <2>1. CASE Refuse(r)
      BY <2>1, <1>2
    <2>2. CASE ~Refuse(r)
      BY <1>4, <2>2, QuietBought DEF Acquire
    <2> QED
      BY <2>1, <2>2
  <1>5. CASE BeginProviderRuntimeIntent(r)
    <2>1. CASE Refuse(r)
      BY <2>1, <1>2
    <2>2. CASE ~Refuse(r)
      <3> DEFINE o == [Vacant EXCEPT !.state = "submit_unknown", !.bind = loc[r].bind]
      <3>1. pc[r] \in Holding
        BY <1>5 DEF BeginProviderRuntimeIntent, Holding
      <3>2. u \in Units /\ v \in Revisions /\ loc[r].bind \in Bindings
        BY <1>0, <3>1, Here DEF Holding, Polling
      <3>3. o \in Operation /\ o.state = "submit_unknown"
        BY <3>2 DEF Operation, Vacant
      <3>4. /\ SetOp(u, v, o) /\ Goto(r, "context")
            /\ UNCHANGED <<row, loc, sends, wire, paid>>
            /\ MayIntend(r, u, v)
        BY <1>5, <2>2 DEF BeginProviderRuntimeIntent
      <3>5. sends[u][v] = 0
        <4>1. ~(sends[u][v] > 0)
          BY <3>2, <3>4 DEF MayIntend, Inv, Bought, Accounted
        <4>2. sends[u][v] \in Nat
          BY <3>2, <1>0 DEF Typed, TypeOK
        <4> QED
          BY <4>1, <4>2
      <3> HIDE DEF o
      <3> QED
        BY <3>1, <3>3, <3>4, <3>5, OpBought
    <2> QED
      BY <2>1, <2>2
  <1>6. CASE CommitProviderSubmitContext(r)
    <2> DEFINE o == [op[u][v] EXCEPT !.ready = TRUE]
    <2>1. pc[r] \in Holding /\ pc[r] = "context" /\ op[u][v].state = "submit_unknown"
      BY <1>6 DEF CommitProviderSubmitContext, Holding
    <2>2. op[u][v] \in Operation
      BY <1>0, <2>1, Here
    <2>3. o \in Operation /\ o.state = "submit_unknown"
      BY <2>1, <2>2 DEF Operation
    <2>4. /\ SetOp(u, v, o) /\ Goto(r, "submit")
          /\ UNCHANGED <<row, loc, sends, wire, paid>>
      BY <1>6 DEF CommitProviderSubmitContext
    <2>5. sends[u][v] = 0
      BY <2>1 DEF Inv, Bought, IntentIsFresh
    <2> HIDE DEF o
    <2> QED
      BY <2>1, <2>3, <2>4, <2>5, OpBought
  <1>7. CASE Submit(r)
    <2>1. /\ pc[r] = "submit" /\ pc[r] \in Holding
          /\ Goto(r, "sent") /\ UNCHANGED <<op, row, loc, paid>>
          /\ sends' = [sends EXCEPT ![u] = [sends[u] EXCEPT ![v] = sends[u][v] + 1]]
          /\ wire' = [wire EXCEPT ![u] = [wire[u] EXCEPT ![v] = wire[u][v] + 1]]
      BY <1>7 DEF Submit, Holding
    <2>2. u \in Units /\ v \in Revisions
      BY <1>0, <2>1, Here
    <2>3. /\ sends \in [Units -> [Revisions -> Nat]]
          /\ wire \in [Units -> [Revisions -> Nat]]
          /\ paid \in [Units -> [Revisions -> Nat]]
      BY <1>0 DEF Typed, TypeOK
    <2>4. op[u][v].state = "submit_unknown" /\ sends[u][v] = 0
      BY <2>1 DEF Inv, Bought, IntentIsFresh
    <2>5. /\ sends'[u][v] = 1 /\ wire'[u][v] = wire[u][v] + 1
          /\ \A x \in Units, y \in Revisions : x # u \/ y # v =>
               sends'[x][y] = sends[x][y] /\ wire'[x][y] = wire[x][y]
      BY <2>1, <2>2, <2>3, <2>4
    <2>6. wire[u][v] + paid[u][v] <= sends[u][v]
      BY <2>2 DEF Inv, Bought, AtMostOneSubmit
    <2>7. wire'[u][v] + paid'[u][v] <= sends'[u][v]
      BY <2>1, <2>2, <2>3, <2>4, <2>5, <2>6
    <2>8. AtMostOneSubmit'
      BY <2>1, <2>5, <2>7 DEF AtMostOneSubmit, Inv, Bought
    <2>9. Accounted'
      BY <2>1, <2>4, <2>5 DEF Accounted, Inv, Bought
    <2>10. ASSUME NEW s \in Runners, pc'[s] \in {"context", "submit"}
           PROVE  /\ op'[loc'[s].unit][loc'[s].rev].state = "submit_unknown"
                  /\ sends'[loc'[s].unit][loc'[s].rev] = 0
      <3>1. s # r /\ pc[s] = pc'[s] /\ pc[s] \in Holding
        BY <2>1, <2>10, <1>0 DEF Goto, Typed, TypeOK, Holding
      <3>2. loc[s].unit # u /\ loc[s].unit \in Units /\ loc[s].rev \in Revisions
        BY <1>0, <2>1, <3>1, Apart, Here DEF Holding, Polling
      <3> QED
        BY <2>1, <2>5, <2>10, <3>1, <3>2 DEF Inv, Bought, IntentIsFresh
    <2> QED
      BY <2>8, <2>9, <2>10 DEF Bought, IntentIsFresh
  <1>8. CASE SubmitAnswered(r)
    <2>1. Goto(r, "save_sync") \/ Goto(r, "save_job")
      BY <1>8 DEF SubmitAnswered, Immediate
    <2>2. \A s \in Runners : s # r => loc'[s] = loc[s]
      BY <1>8, <1>0 DEF SubmitAnswered, SetLoc, Typed, TypeOK
    <2> QED
      BY <1>8, <2>1, <2>2, QuietBought DEF SubmitAnswered
  <1>9. CASE SubmitFailed(r) \/ PollTransportError(r)
    BY <1>9, <1>1 DEF SubmitFailed, PollTransportError
  <1>10. ASSUME NEW from \in Holding, NEW next \in {"project", "poll"},
                SaveProviderJob(r, from, next)
         PROVE  Bought'
    <2> DEFINE o == [op[u][v] EXCEPT !.state = "polling", !.job = loc[r].job,
                                     !.bind = loc[r].bind]
    <2>1. pc[r] \in Holding
      BY <1>10 DEF SaveProviderJob
    <2>2. o \in Operation /\ o.state = "polling"
      BY <1>0, <2>1, Here DEF Operation, Holding, Polling
    <2>3. /\ SetOp(u, v, o) /\ Goto(r, next)
          /\ UNCHANGED <<row, loc, sends, wire, paid>>
      BY <1>10 DEF SaveProviderJob
    <2> HIDE DEF o
    <2> QED
      BY <2>1, <2>2, <2>3, OpBought
  <1>11. CASE UpsertPollingJob(r)
    <2> DEFINE x == IF row[u].status = "polling" THEN row[u]
                    ELSE [status |-> "polling", rev |-> v, bind |-> loc[r].bind,
                          job |-> loc[r].job, attempts |-> 0]
    <2>1. pc[r] # "idle"
      BY <1>11 DEF UpsertPollingJob
    <2>2. row[u] \in Row /\ loc[r].job \in Nat /\ v \in Revisions /\ loc[r].bind \in Bindings
      BY <1>0, <2>1, Here
    <2>3. x \in Row /\ (row[u].status # "none" => x = row[u])
      BY <1>11, <2>2 DEF UpsertPollingJob, Row
    <2>4. /\ SetRow(u, x) /\ Goto(r, "resave")
          /\ UNCHANGED <<op, loc, sends, wire, paid>>
      BY <1>11 DEF UpsertPollingJob
    <2> HIDE DEF x
    <2> QED
      BY <2>1, <2>3, <2>4, RowBought
  <1>12. CASE TouchPollingJob(r)
    <2> DEFINE n == Saturate(loc[r].tries)
               x == [row[u] EXCEPT !.attempts = n]
    <2>1. pc[r] # "idle"
      BY <1>12 DEF TouchPollingJob
    <2>2. n \in Nat /\ row[u] \in Row
      BY <1>0, <2>1, Here, MaxAttemptsAssumption DEF Saturate
    <2>3. /\ SetRow(u, x) /\ Goto(r, "await") /\ UNCHANGED <<op, sends, wire, paid>>
          /\ \A s \in Runners : s # r => loc'[s] = loc[s]
      BY <1>12, <1>0 DEF TouchPollingJob, SetLoc, Typed, TypeOK
    <2> HIDE DEF n
    <2>4. x \in Row /\ x.status = row[u].status /\ x.rev = row[u].rev
      BY <2>2 DEF Row
    <2> HIDE DEF x
    <2> QED
      BY <2>1, <2>3, <2>4, RowBought
  <1>13. CASE PollAnswered(r)
    <2>1. Goto(r, "poll") \/ Goto(r, "mark_failed") \/ Goto(r, "save_done")
      BY <1>13 DEF PollAnswered, Pass
    <2>2. \A s \in Runners : s # r => loc'[s] = loc[s]
      BY <1>13, <1>0 DEF PollAnswered, Pass, SetLoc, Typed, TypeOK
    <2>3. UNCHANGED <<op, row, sends, wire, paid>>
      BY <1>13 DEF PollAnswered, Pass
    <2> QED
      BY <2>1, <2>2, <2>3, QuietBought
  <1>14. ASSUME NEW from \in {"save_sync", "save_done"}, NEW next \in {"return", "close"},
                SaveProviderResult(r, from, next)
         PROVE  Bought'
    <2> DEFINE o == WithResult(op[u][v], loc[r].res)
    <2>1. pc[r] \in Holding /\ pc[r] \in Carrying
      BY <1>14 DEF SaveProviderResult, Holding, Polling, Carrying
    <2>2. o \in Operation /\ o.result \in Results /\ o.state = "result_ready"
      BY <1>0, <2>1, Here DEF Operation, WithResult, Holding, Polling
    <2>3. /\ SetOp(u, v, o) /\ Goto(r, next)
          /\ UNCHANGED <<row, loc, sends, wire, paid>>
      BY <1>14 DEF SaveProviderResult
    <2> HIDE DEF o
    <2> QED
      BY <2>1, <2>2, <2>3, OpBought
  <1>15. CASE CloseJob(r)
    <2>1. NoRow \in Row
      BY DEF NoRow, Row
    <2>2. op[u][v].state = "result_ready" /\ row[u].rev = v
      BY <1>15 DEF CloseJob, Readable, RowFits
    <2> QED
      BY <1>15, <2>1, <2>2, RowBought DEF CloseJob
  <1>16. CASE MarkJobFailed(r)
    <2> DEFINE x == [row[u] EXCEPT !.status = "failed"]
    <2>1. x \in Row /\ x.status # "none" /\ x.rev = row[u].rev
      BY <1>16, <1>0, Here DEF MarkJobFailed, Row
    <2>2. SetRow(u, x) /\ Goto(r, "error") /\ UNCHANGED <<op, loc, sends, wire, paid>>
      BY <1>16 DEF MarkJobFailed
    <2> HIDE DEF x
    <2> QED
      BY <1>16, <2>1, <2>2, RowBought DEF MarkJobFailed
  <1>17. CASE ReturnResult(r)
    BY <1>17, <1>0, QuietBought DEF ReturnResult, Leave, SetLoc, Typed, TypeOK
  <1>18. CASE ReturnError(r)
    BY <1>18, <1>2 DEF ReturnError
  <1>19. "save_job" \in Holding /\ "resave" \in Holding
    BY DEF Holding
  <1> QED
    BY <1>3, <1>4, <1>5, <1>6, <1>7, <1>8, <1>9, <1>10, <1>11, <1>12, <1>13,
       <1>14, <1>15, <1>16, <1>17, <1>18, <1>19 DEF RunnerStep

LEMMA ReviewerBought ==
  ASSUME Inv, NEW w \in Reviewers, ReviewerStep(w)
  PROVE  Bought'
  <1>1. CASE ~CommitProviderReconciliation(w)
    <2>1. UNCHANGED <<op, row, sends, wire, paid, pc, loc>>
      BY <1>1 DEF ReviewerStep, ReviewProviderOperation, VerifiedJobContext,
                  AcquireForReview, ReviewEnds
    <2> QED
      BY <2>1 DEF Inv, Bought, Accounted, IntentIsFresh, AtMostOneSubmit
  <1>2. CASE CommitProviderReconciliation(w)
    <2> DEFINE u == review[w].unit
               v == review[w].rev
               o == [op[u][v] EXCEPT !.state = "polling", !.job = review[w].job]
    <2>1. /\ u \in Units /\ v \in Revisions /\ review[w].job \in Nat
          /\ lock[u] = w
      BY <1>2 DEF CommitProviderReconciliation, Inv, Typed, TypeOK, Placed, Review,
                  OwnerIsCurrent
    <2>2. op[u][v] \in Operation
      BY <2>1 DEF Inv, Typed, TypeOK
    <2>3. o \in Operation /\ o.state = "polling"
      BY <2>1, <2>2 DEF Operation
    <2>4. SetOp(u, v, o) /\ UNCHANGED <<row, sends, wire, paid, pc, loc>>
      BY <1>2 DEF CommitProviderReconciliation
    <2> HIDE DEF o
    <2>5. /\ op'[u][v] = o
          /\ \A x \in Units, y \in Revisions : x # u \/ y # v => op'[x][y] = op[x][y]
      BY <2>1, <2>3, <2>4, OpUpdate DEF Inv
    <2>6. Accounted' /\ AtMostOneSubmit'
      BY <2>3, <2>4, <2>5 DEF Inv, Bought, Accounted, AtMostOneSubmit
    <2>7. ASSUME NEW s \in Runners, pc[s] \in {"context", "submit"}
          PROVE  /\ loc[s].unit \in Units /\ loc[s].rev \in Revisions
                 /\ loc[s].unit # u
      BY <2>1, <2>7, ActorsAssumption, Here
         DEF Inv, OwnerIsCurrent, Holding
    <2>8. IntentIsFresh'
      BY <2>4, <2>5, <2>7 DEF Inv, Bought, IntentIsFresh
    <2> QED
      BY <2>6, <2>8 DEF Bought
  <1> QED
    BY <1>1, <1>2

LEMMA InvInit == Init => Inv
  <1> SUFFICES ASSUME Init PROVE Inv
    OBVIOUS
  <1>1. OwnerIsCurrent
    BY DEF Init, NoReview, OwnerIsCurrent, Holding, Polling
  <1>2. Bought
    BY DEF Init, Bought, Accounted, IntentIsFresh, AtMostOneSubmit
  <1> QED
    BY <1>1, <1>2, TypedInit DEF Inv

LEMMA InvStep == Inv /\ [Next]_vars => Inv'
  <1> SUFFICES ASSUME Inv, [Next]_vars PROVE Inv'
    OBVIOUS
  <1>1. Typed' /\ OwnerIsCurrent'
    BY TypedStep, OwnedStep DEF Inv
  <1>2. Typed
    BY DEF Inv
  <1>3. ASSUME NEW r \in Runners, StartAny(r) PROVE Bought'
    BY <1>2, <1>3, QuietBought DEF StartAny, Start, SetLoc, Typed, TypeOK
  <1>4. ASSUME NEW r \in Runners, RunnerStep(r) PROVE Bought'
    BY <1>4, RunnerBought
  <1>5. ASSUME NEW r \in Runners, DeadlineExpired(r) PROVE Bought'
    BY <1>5, QuietBought DEF DeadlineExpired, Pass
  <1>6. ASSUME NEW r \in Runners, Abandon(r) PROVE Bought'
    BY <1>2, <1>6, QuietBought DEF Abandon, Refuse, Leave, SetLoc, Typed, TypeOK
  <1>7. ASSUME NEW w \in Reviewers, ReviewerStep(w) PROVE Bought'
    BY <1>7, ReviewerBought
  <1>8. ASSUME Environment PROVE Bought'
    <2> PICK u \in Units, v \in Revisions : ProviderAccepts(u, v) \/ SubmitLost(u, v)
      BY <1>8 DEF Environment
    <2>1. /\ wire[u][v] \in Nat /\ wire[u][v] > 0 /\ paid[u][v] \in Nat
          /\ wire[u][v] + paid[u][v] <= sends[u][v] /\ sends[u][v] \in Nat
      BY <1>2 DEF ProviderAccepts, SubmitLost, Typed, TypeOK, Inv, Bought, AtMostOneSubmit
    <2>2. /\ wire' = [wire EXCEPT ![u] = [wire[u] EXCEPT ![v] = wire[u][v] - 1]]
          /\ \/ paid' = paid
             \/ paid' = [paid EXCEPT ![u] = [paid[u] EXCEPT ![v] = paid[u][v] + 1]]
          /\ UNCHANGED <<op, row, pc, loc, sends>>
      BY DEF ProviderAccepts, SubmitLost
    <2>3. /\ \A x \in Units, y \in Revisions : x # u \/ y # v =>
               wire'[x][y] = wire[x][y] /\ paid'[x][y] = paid[x][y]
          /\ wire'[u][v] = wire[u][v] - 1
          /\ paid'[u][v] = paid[u][v] \/ paid'[u][v] = paid[u][v] + 1
      BY <1>2, <2>2 DEF Typed, TypeOK
    <2>4. wire'[u][v] + paid'[u][v] <= sends[u][v]
      BY <2>1, <2>3
    <2>5. AtMostOneSubmit'
      BY <2>2, <2>3, <2>4 DEF AtMostOneSubmit, Inv, Bought
    <2> QED
      BY <2>2, <2>5 DEF Inv, Bought, Accounted, IntentIsFresh
  <1>9. ASSUME Crash PROVE Bought'
    BY <1>9 DEF Crash, Inv, Bought, Accounted, IntentIsFresh, AtMostOneSubmit
  <1>10. ASSUME UNCHANGED vars PROVE Bought'
    BY <1>10 DEF vars, Inv, Bought, Accounted, IntentIsFresh, AtMostOneSubmit
  <1>11. Bought'
    BY <1>3, <1>4, <1>5, <1>6, <1>7, <1>8, <1>9, <1>10 DEF Next
  <1> QED
    BY <1>1, <1>11 DEF Inv

\* The paid request of an operation leaves the client at most once, and the
\* provider bills it at most once, whatever is lost, late, reviewed or crashed.
THEOREM PaidOnce == Spec => []AtMostOneSubmit
  <1>1. Inv => AtMostOneSubmit
    BY DEF Inv, Bought
  <1> QED
    BY <1>1, InvInit, InvStep, PTL DEF Spec

-----------------------------------------------------------------------------
(* A saved result is final.                                                 *)

\* The steps that write an operation.
Writes ==
  \/ \E r \in Runners :
       \/ BeginProviderRuntimeIntent(r)
       \/ CommitProviderSubmitContext(r)
       \/ SaveProviderJob(r, "save_job", "project")
       \/ SaveProviderJob(r, "resave", "poll")
       \/ SaveProviderResult(r, "save_sync", "return")
       \/ SaveProviderResult(r, "save_done", "close")
  \/ \E w \in Reviewers : CommitProviderReconciliation(w)

LEMMA Writers == Next /\ ~(UNCHANGED op) => Writes
  <1> SUFFICES ASSUME Next, ~(UNCHANGED op) PROVE Writes
    OBVIOUS
  <1>1. ASSUME NEW r \in Runners, RunnerStep(r) PROVE Writes
    BY <1>1 DEF Writes, RunnerStep, Peek, Acquire, RecoverOwned, FindPollingJob, Submit,
                SubmitAnswered, SubmitFailed, UpsertPollingJob, TouchPollingJob,
                PollAnswered, PollTransportError, CloseJob, MarkJobFailed,
                ReturnResult, ReturnError, Replay, Pass, Refuse
  <1>2. ASSUME NEW w \in Reviewers, ReviewerStep(w) PROVE Writes
    <2>1. CommitProviderReconciliation(w)
      BY <1>2 DEF ReviewerStep, ReviewProviderOperation, VerifiedJobContext,
                  AcquireForReview, ReviewEnds
    <2> QED
      BY <2>1, Zenon DEF Writes
  <1>3. ASSUME NEW r \in Runners, StartAny(r) \/ DeadlineExpired(r) \/ Abandon(r)
        PROVE  FALSE
    BY <1>3 DEF StartAny, Start, DeadlineExpired, Abandon, Refuse, Pass
  <1>4. ~(Environment \/ Crash)
    BY DEF Environment, ProviderAccepts, SubmitLost, Crash
  <1> QED
    BY <1>1, <1>2, <1>3, <1>4 DEF Next

Kept ==
  \A u \in Units, v \in Revisions :
    /\ op[u][v].state = "result_ready" => op'[u][v] = op[u][v]
    /\ op[u][v].state # "vacant" => op'[u][v].state # "vacant"

LEMMA KeptStep == Inv /\ [Next]_vars => Kept
  <1> SUFFICES ASSUME Inv, [Next]_vars PROVE Kept
    OBVIOUS
  <1>0. Typed
    BY DEF Inv
  <1>1. CASE UNCHANGED op
    BY <1>1 DEF Kept
  <1>2. ASSUME NEW u \in Units, NEW v \in Revisions, NEW o \in Operation,
               SetOp(u, v, o), o.state # "vacant",
               o.state = "result_ready" => o.result \in Results,
               op[u][v].state = "result_ready" => o = op[u][v]
        PROVE  Kept
    BY <1>0, <1>2, OpUpdate DEF Kept
  <1>3. ASSUME NEW r \in Runners, BeginProviderRuntimeIntent(r)
        PROVE  Kept
    <2> DEFINE o == [Vacant EXCEPT !.state = "submit_unknown", !.bind = loc[r].bind]
    <2>1. loc[r].unit \in Units /\ loc[r].rev \in Revisions /\ loc[r].bind \in Bindings
      BY <1>0, <1>3, Here DEF BeginProviderRuntimeIntent
    <2>2. o \in Operation /\ o.state = "submit_unknown"
      BY <2>1 DEF Operation, Vacant
    <2> HIDE DEF o
    <2> QED
      BY <1>1, <1>2, <1>3, <2>1, <2>2
         DEF BeginProviderRuntimeIntent, MayIntend, Refuse, o
  <1>4. ASSUME NEW r \in Runners, CommitProviderSubmitContext(r)
        PROVE  Kept
    <2> DEFINE o == [op[loc[r].unit][loc[r].rev] EXCEPT !.ready = TRUE]
    <2>1. /\ loc[r].unit \in Units /\ loc[r].rev \in Revisions
          /\ op[loc[r].unit][loc[r].rev] \in Operation
      BY <1>0, <1>4, Here DEF CommitProviderSubmitContext
    <2>2. o \in Operation /\ o.state = "submit_unknown"
      BY <1>4, <2>1 DEF CommitProviderSubmitContext, Operation
    <2>3. SetOp(loc[r].unit, loc[r].rev, o)
      BY <1>4 DEF CommitProviderSubmitContext
    <2> HIDE DEF o
    <2> QED
      BY <1>2, <1>4, <2>1, <2>2, <2>3 DEF CommitProviderSubmitContext
  <1>5. ASSUME NEW r \in Runners, NEW from, NEW next, from # "idle",
               SaveProviderJob(r, from, next)
        PROVE  Kept
    <2> DEFINE o == [op[loc[r].unit][loc[r].rev] EXCEPT
                       !.state = "polling", !.job = loc[r].job, !.bind = loc[r].bind]
    <2>1. /\ loc[r].unit \in Units /\ loc[r].rev \in Revisions
          /\ op[loc[r].unit][loc[r].rev] \in Operation
          /\ loc[r].job \in Nat /\ loc[r].bind \in Bindings
      BY <1>0, <1>5, Here DEF SaveProviderJob
    <2>2. o \in Operation /\ o.state = "polling"
      BY <2>1 DEF Operation
    <2>3. SetOp(loc[r].unit, loc[r].rev, o)
      BY <1>5 DEF SaveProviderJob
    <2> HIDE DEF o
    <2> QED
      BY <1>2, <1>5, <2>1, <2>2, <2>3 DEF SaveProviderJob
  <1>6. ASSUME NEW r \in Runners, NEW from \in {"save_sync", "save_done"}, NEW next,
               SaveProviderResult(r, from, next)
        PROVE  Kept
    <2> DEFINE o == WithResult(op[loc[r].unit][loc[r].rev], loc[r].res)
    <2>1. /\ loc[r].unit \in Units /\ loc[r].rev \in Revisions
          /\ op[loc[r].unit][loc[r].rev] \in Operation
          /\ loc[r].res \in Results
      BY <1>0, <1>6, Here DEF SaveProviderResult, Carrying
    <2>2. o \in Operation /\ o.state = "result_ready" /\ o.result \in Results
      BY <2>1 DEF Operation, WithResult
    <2>3. op[loc[r].unit][loc[r].rev].state = "result_ready"
            => o = op[loc[r].unit][loc[r].rev]
      BY <1>6, <2>1 DEF SaveProviderResult, WithResult, Operation
    <2>4. SetOp(loc[r].unit, loc[r].rev, o)
      BY <1>6 DEF SaveProviderResult
    <2> HIDE DEF o
    <2> QED
      BY <1>2, <2>1, <2>2, <2>3, <2>4
  <1>7. ASSUME NEW w \in Reviewers, CommitProviderReconciliation(w)
        PROVE  Kept
    <2> DEFINE o == [op[review[w].unit][review[w].rev] EXCEPT
                       !.state = "polling", !.job = review[w].job]
    <2>1. /\ review[w].unit \in Units /\ review[w].rev \in Revisions
          /\ review[w].job \in Nat
      BY <1>0, <1>7 DEF CommitProviderReconciliation, Typed, TypeOK, Placed, Review
    <2>2. op[review[w].unit][review[w].rev] \in Operation
      BY <1>0, <2>1 DEF Typed, TypeOK
    <2>3. o \in Operation /\ o.state = "polling"
      BY <2>1, <2>2 DEF Operation
    <2>4. /\ SetOp(review[w].unit, review[w].rev, o)
          /\ op[review[w].unit][review[w].rev].state = "submit_unknown"
      BY <1>7 DEF CommitProviderReconciliation, Fresh
    <2> HIDE DEF o
    <2> QED
      BY <1>2, <2>1, <2>3, <2>4
  <1>8. CASE ~(UNCHANGED op)
    <2>1. Writes
      BY <1>8, Writers DEF vars
    <2> QED
      BY <2>1, <1>1, <1>3, <1>4, <1>5, <1>6, <1>7 DEF Writes
  <1> QED
    BY <1>1, <1>8

\* A saved result is never replaced and an operation is never forgotten.
THEOREM ResultKept == Spec => ResultIsFinal
  <1>1. Inv /\ [Next]_vars => [Kept]_vars
    BY KeptStep
  <1> QED
    BY <1>1, InvInit, InvStep, PTL DEF Spec, ResultIsFinal, Kept

-----------------------------------------------------------------------------
(* What is paid for: every record, runner and reviewer that speaks of a     *)
(* job or a result speaks of a purchase the provider accepted.              *)

Sold ==
  \A u \in Units, v \in Revisions :
    /\ op[u][v].state \in {"polling", "result_ready"} => paid[u][v] > 0
    /\ op[u][v].state # "result_ready" => op[u][v].result = None

PaidRow ==
  \A u \in Units : row[u].status # "none" =>
    row[u].rev \in Revisions /\ paid[u][row[u].rev] > 0

\* Past the provider's answer, and not yet handing it over.
Answered == {"save_sync", "save_job", "project", "resave", "close"} \cup Polling

Carries(r) ==
  /\ pc[r] \in Answered => paid[loc[r].unit][loc[r].rev] > 0
  /\ pc[r] \in {"close", "return"} =>
       /\ op[loc[r].unit][loc[r].rev].state = "result_ready"
       /\ op[loc[r].unit][loc[r].rev].result = loc[r].res

CarriesPaid == \A r \in Runners : Carries(r)

ReviewPaid ==
  \A w \in Reviewers : review[w].stage \in {"proved", "owner"} =>
    paid[review[w].unit][review[w].rev] > 0

Promised == Sold /\ PaidRow /\ CarriesPaid /\ ReviewPaid /\ AnswersAreSaved

LEMMA PromisedInit == Init => Promised
  <1> SUFFICES ASSUME Init PROVE Promised
    OBVIOUS
  <1>1. Sold /\ PaidRow
    BY DEF Init, Sold, PaidRow, Vacant, NoRow
  <1>2. CarriesPaid /\ ReviewPaid
    BY DEF Init, CarriesPaid, Carries, Answered, Polling, ReviewPaid, NoReview
  <1>3. AnswersAreSaved
    BY DEF Init, AnswersAreSaved
  <1> QED
    BY <1>1, <1>2, <1>3 DEF Promised

\* What the provider accepted stays accepted.
LEMMA PaidGrows ==
  ASSUME Inv, [Next]_vars, NEW u \in Units, NEW v \in Revisions, paid[u][v] > 0
  PROVE  paid'[u][v] > 0
  <1>1. CASE UNCHANGED paid
    BY <1>1
  <1>2. CASE \E x \in Units, y \in Revisions : ProviderAccepts(x, y)
    <2> PICK x \in Units, y \in Revisions : ProviderAccepts(x, y)
      BY <1>2
    <2>1. paid \in [Units -> [Revisions -> Nat]]
      BY DEF Inv, Typed, TypeOK
    <2>2. paid' = [paid EXCEPT ![x] = [paid[x] EXCEPT ![y] = paid[x][y] + 1]]
      BY DEF ProviderAccepts
    <2>3. paid'[u][v] = paid[u][v] \/ paid'[u][v] = paid[u][v] + 1
      BY <2>1, <2>2
    <2>4. paid[u][v] \in Nat
      BY <2>1
    <2> QED
      BY <2>3, <2>4
  <1>3. ASSUME NEW r \in Runners, StartAny(r) \/ DeadlineExpired(r) \/ Abandon(r)
        PROVE  UNCHANGED paid
    BY <1>3 DEF StartAny, Start, DeadlineExpired, Abandon, Refuse, Pass
  <1>4. ASSUME NEW r \in Runners, RunnerStep(r) PROVE UNCHANGED paid
    BY <1>4 DEF RunnerStep, Peek, Acquire, RecoverOwned, FindPollingJob,
                BeginProviderRuntimeIntent, CommitProviderSubmitContext, Submit,
                SubmitAnswered, SubmitFailed, SaveProviderJob, UpsertPollingJob,
                TouchPollingJob, PollAnswered, PollTransportError,
                SaveProviderResult, CloseJob, MarkJobFailed, ReturnResult,
                ReturnError, Replay, Pass, Refuse
  <1>5. ASSUME NEW w \in Reviewers, ReviewerStep(w) PROVE UNCHANGED paid
    BY <1>5 DEF ReviewerStep, ReviewProviderOperation, VerifiedJobContext,
                AcquireForReview, CommitProviderReconciliation, ReviewEnds
  <1>6. Environment => UNCHANGED paid \/ \E x \in Units, y \in Revisions : ProviderAccepts(x, y)
    BY DEF Environment, SubmitLost
  <1>7. Crash \/ UNCHANGED vars => UNCHANGED paid
    BY DEF Crash, vars
  <1> QED
    BY <1>1, <1>2, <1>3, <1>4, <1>5, <1>6, <1>7 DEF Next

\* Only a paid purchase is recorded as polling or finished.
LEMMA SoldStep ==
  ASSUME Inv, Promised, [Next]_vars
  PROVE  Sold'
  <1>0. Typed /\ Sold /\ CarriesPaid /\ ReviewPaid
    BY DEF Inv, Promised
  <1>1. CASE UNCHANGED op
    BY <1>0, <1>1, PaidGrows DEF Sold
  <1>2. ASSUME NEW u \in Units, NEW v \in Revisions, NEW o \in Operation,
               SetOp(u, v, o), o.state = "result_ready" => o.result \in Results,
               o.state \in {"polling", "result_ready"} => paid[u][v] > 0,
               o.state # "result_ready" => o.result = None
        PROVE  Sold'
    BY <1>0, <1>2, OpUpdate, PaidGrows DEF Sold
  <1>3. ASSUME NEW r \in Runners, BeginProviderRuntimeIntent(r), ~(UNCHANGED op)
        PROVE  Sold'
    <2> DEFINE o == [Vacant EXCEPT !.state = "submit_unknown", !.bind = loc[r].bind]
    <2>1. loc[r].unit \in Units /\ loc[r].rev \in Revisions /\ loc[r].bind \in Bindings
      BY <1>0, <1>3, Here DEF BeginProviderRuntimeIntent
    <2>2. o \in Operation /\ o.state = "submit_unknown" /\ o.result = None
      BY <2>1 DEF Operation, Vacant
    <2>3. SetOp(loc[r].unit, loc[r].rev, o)
      BY <1>3 DEF BeginProviderRuntimeIntent, Refuse
    <2> HIDE DEF o
    <2> QED
      BY <1>2, <2>1, <2>2, <2>3
  <1>4. ASSUME NEW r \in Runners, CommitProviderSubmitContext(r)
        PROVE  Sold'
    <2> DEFINE o == [op[loc[r].unit][loc[r].rev] EXCEPT !.ready = TRUE]
    <2>1. /\ loc[r].unit \in Units /\ loc[r].rev \in Revisions
          /\ op[loc[r].unit][loc[r].rev] \in Operation
          /\ op[loc[r].unit][loc[r].rev].state = "submit_unknown"
      BY <1>0, <1>4, Here DEF CommitProviderSubmitContext
    <2>2. o \in Operation /\ o.state = "submit_unknown"
          /\ o.result = op[loc[r].unit][loc[r].rev].result
      BY <2>1 DEF Operation
    <2>3. SetOp(loc[r].unit, loc[r].rev, o)
      BY <1>4 DEF CommitProviderSubmitContext
    <2>4. o.result = None
      BY <1>0, <2>1, <2>2 DEF Sold
    <2> HIDE DEF o
    <2> QED
      BY <1>2, <2>1, <2>2, <2>3, <2>4
  <1>5. ASSUME NEW r \in Runners, NEW from \in {"save_job", "resave"}, NEW next,
               SaveProviderJob(r, from, next)
        PROVE  Sold'
    <2> DEFINE o == [op[loc[r].unit][loc[r].rev] EXCEPT
                       !.state = "polling", !.job = loc[r].job, !.bind = loc[r].bind]
    <2>1. /\ loc[r].unit \in Units /\ loc[r].rev \in Revisions
          /\ op[loc[r].unit][loc[r].rev] \in Operation
          /\ loc[r].job \in Nat /\ loc[r].bind \in Bindings
      BY <1>0, <1>5, Here DEF SaveProviderJob
    <2>2. o \in Operation /\ o.state = "polling"
          /\ o.result = op[loc[r].unit][loc[r].rev].result
      BY <2>1 DEF Operation
    <2>3. SetOp(loc[r].unit, loc[r].rev, o)
      BY <1>5 DEF SaveProviderJob
    <2>4. op[loc[r].unit][loc[r].rev].state # "result_ready"
      BY <1>5 DEF SaveProviderJob
    <2>5. o.result = None
      BY <1>0, <2>1, <2>2, <2>4 DEF Sold
    <2>6. paid[loc[r].unit][loc[r].rev] > 0
      BY <1>0, <1>5 DEF SaveProviderJob, CarriesPaid, Carries, Answered
    <2> HIDE DEF o
    <2> QED
      BY <1>2, <2>1, <2>2, <2>3, <2>5, <2>6
  <1>6. ASSUME NEW r \in Runners, NEW from \in {"save_sync", "save_done"}, NEW next,
               SaveProviderResult(r, from, next)
        PROVE  Sold'
    <2> DEFINE o == WithResult(op[loc[r].unit][loc[r].rev], loc[r].res)
    <2>1. /\ loc[r].unit \in Units /\ loc[r].rev \in Revisions
          /\ op[loc[r].unit][loc[r].rev] \in Operation
          /\ loc[r].res \in Results
      BY <1>0, <1>6, Here DEF SaveProviderResult, Carrying
    <2>2. o \in Operation /\ o.state = "result_ready" /\ o.result \in Results
      BY <2>1 DEF Operation, WithResult
    <2>3. SetOp(loc[r].unit, loc[r].rev, o)
      BY <1>6 DEF SaveProviderResult
    <2>4. paid[loc[r].unit][loc[r].rev] > 0
      BY <1>0, <1>6 DEF SaveProviderResult, CarriesPaid, Carries, Answered, Polling
    <2> HIDE DEF o
    <2> QED
      BY <1>2, <2>1, <2>2, <2>3, <2>4
  <1>7. ASSUME NEW w \in Reviewers, CommitProviderReconciliation(w)
        PROVE  Sold'
    <2> DEFINE o == [op[review[w].unit][review[w].rev] EXCEPT
                       !.state = "polling", !.job = review[w].job]
    <2>1. /\ review[w].unit \in Units /\ review[w].rev \in Revisions
          /\ review[w].job \in Nat
      BY <1>0, <1>7 DEF CommitProviderReconciliation, Typed, TypeOK, Placed, Review
    <2>2. op[review[w].unit][review[w].rev] \in Operation
      BY <1>0, <2>1 DEF Typed, TypeOK
    <2>3. o \in Operation /\ o.state = "polling"
          /\ o.result = op[review[w].unit][review[w].rev].result
      BY <2>1, <2>2 DEF Operation
    <2>4. /\ SetOp(review[w].unit, review[w].rev, o)
          /\ op[review[w].unit][review[w].rev].state = "submit_unknown"
      BY <1>7 DEF CommitProviderReconciliation, Fresh
    <2>5. o.result = None
      BY <1>0, <2>1, <2>3, <2>4 DEF Sold
    <2>6. paid[review[w].unit][review[w].rev] > 0
      BY <1>0, <1>7 DEF CommitProviderReconciliation, ReviewPaid
    <2> HIDE DEF o
    <2> QED
      BY <1>2, <2>1, <2>3, <2>4, <2>5, <2>6
  <1>8. CASE ~(UNCHANGED op)
    <2>1. Writes
      BY <1>8, Writers DEF vars
    <2> QED
      BY <1>8, <2>1, <1>3, <1>4, <1>5, <1>6, <1>7 DEF Writes
  <1> QED
    BY <1>1, <1>8

\* A row is only kept for a purchase that is paid.
LEMMA PaidRowStep ==
  ASSUME Inv, Promised, [Next]_vars
  PROVE  PaidRow'
  <1>0. Typed /\ PaidRow /\ CarriesPaid
    BY DEF Inv, Promised
  <1>1. CASE UNCHANGED row
    BY <1>0, <1>1, PaidGrows DEF PaidRow
  <1>2. ASSUME NEW u \in Units, NEW x \in Row, SetRow(u, x),
               x.status # "none" => x.rev \in Revisions /\ paid[u][x.rev] > 0
        PROVE  PaidRow'
    BY <1>0, <1>2, RowUpdate, PaidGrows DEF PaidRow
  <1>3. ASSUME NEW r \in Runners, UpsertPollingJob(r)
        PROVE  PaidRow'
    <2> DEFINE u == loc[r].unit
               x == IF row[u].status = "polling" THEN row[u]
                    ELSE [status |-> "polling", rev |-> loc[r].rev, bind |-> loc[r].bind,
                          job |-> loc[r].job, attempts |-> 0]
    <2>1. /\ u \in Units /\ loc[r].rev \in Revisions /\ loc[r].bind \in Bindings
          /\ loc[r].job \in Nat /\ row[u] \in Row
      BY <1>0, <1>3, Here DEF UpsertPollingJob
    <2>2. paid[u][loc[r].rev] > 0
      BY <1>0, <1>3 DEF UpsertPollingJob, CarriesPaid, Carries, Answered
    <2>3. CASE row[u].status = "polling"
      <3>1. SetRow(u, row[u])
        BY <1>3, <2>3 DEF UpsertPollingJob
      <3> QED
        BY <1>0, <1>2, <2>1, <3>1 DEF PaidRow
    <2>4. CASE row[u].status # "polling"
      <3>1. SetRow(u, x) /\ x \in Row /\ x.rev = loc[r].rev
        BY <1>3, <2>1, <2>4 DEF UpsertPollingJob, Row
      <3> HIDE DEF x
      <3> QED
        BY <1>2, <2>1, <2>2, <3>1
    <2> QED
      BY <2>3, <2>4
  <1>4. ASSUME NEW r \in Runners, NEW x, pc[r] # "idle",
               row[loc[r].unit].status # "none",
               x \in Row, x.rev = row[loc[r].unit].rev, SetRow(loc[r].unit, x)
        PROVE  PaidRow'
    BY <1>0, <1>2, <1>4, Here DEF PaidRow
  <1>5. ASSUME NEW r \in Runners, TouchPollingJob(r)
        PROVE  PaidRow'
    <2> DEFINE n == Saturate(loc[r].tries)
               x == [row[loc[r].unit] EXCEPT !.attempts = n]
    <2>1. n \in Nat /\ row[loc[r].unit] \in Row
      BY <1>0, <1>5, Here, MaxAttemptsAssumption DEF TouchPollingJob, Saturate
    <2>2. x \in Row /\ x.rev = row[loc[r].unit].rev
      BY <2>1 DEF Row
    <2>3. SetRow(loc[r].unit, x) /\ row[loc[r].unit].status = "polling" /\ pc[r] # "idle"
      BY <1>5 DEF TouchPollingJob, PollingRow
    <2> HIDE DEF x
    <2> QED
      BY <1>4, <2>2, <2>3
  <1>6. ASSUME NEW r \in Runners, MarkJobFailed(r)
        PROVE  PaidRow'
    <2> DEFINE x == [row[loc[r].unit] EXCEPT !.status = "failed"]
    <2>1. row[loc[r].unit] \in Row
      BY <1>0, <1>6, Here DEF MarkJobFailed
    <2>2. x \in Row /\ x.rev = row[loc[r].unit].rev
      BY <2>1 DEF Row
    <2>3. SetRow(loc[r].unit, x) /\ row[loc[r].unit].status = "polling" /\ pc[r] # "idle"
      BY <1>6 DEF MarkJobFailed, PollingRow
    <2> HIDE DEF x
    <2> QED
      BY <1>4, <2>2, <2>3
  <1>7. ASSUME NEW r \in Runners, CloseJob(r)
        PROVE  PaidRow'
    <2>1. NoRow \in Row /\ NoRow.status = "none"
      BY DEF NoRow, Row
    <2>2. loc[r].unit \in Units
      BY <1>0, <1>7, Here DEF CloseJob
    <2> QED
      BY <1>2, <1>7, <2>1, <2>2 DEF CloseJob
  <1>8. ASSUME NEW r \in Runners, RunnerStep(r), ~(UNCHANGED row)
        PROVE  PaidRow'
    <2>1. \/ UpsertPollingJob(r) \/ TouchPollingJob(r)
          \/ MarkJobFailed(r) \/ CloseJob(r)
      BY <1>8 DEF RunnerStep, Peek, Acquire, RecoverOwned, FindPollingJob,
                  BeginProviderRuntimeIntent, CommitProviderSubmitContext, Submit,
                  SubmitAnswered, SubmitFailed, SaveProviderJob, PollAnswered,
                  PollTransportError, SaveProviderResult, ReturnResult,
                  ReturnError, Replay, Pass, Refuse
    <2> QED
      BY <2>1, <1>3, <1>5, <1>6, <1>7
  <1>9. ASSUME NEW r \in Runners, StartAny(r) \/ DeadlineExpired(r) \/ Abandon(r)
        PROVE  UNCHANGED row
    BY <1>9 DEF StartAny, Start, DeadlineExpired, Abandon, Refuse, Pass
  <1>10. ASSUME NEW w \in Reviewers, ReviewerStep(w) PROVE UNCHANGED row
    BY <1>10 DEF ReviewerStep, ReviewProviderOperation, VerifiedJobContext,
                 AcquireForReview, CommitProviderReconciliation, ReviewEnds
  <1>11. Environment \/ Crash \/ UNCHANGED vars => UNCHANGED row
    BY DEF Environment, SubmitLost, ProviderAccepts, Crash, vars
  <1> QED
    BY <1>1, <1>8, <1>9, <1>10, <1>11 DEF Next

\* A step of one runner moves no other.
LEMMA OthersStay ==
  ASSUME Typed, NEW r \in Runners,
         StartAny(r) \/ RunnerStep(r) \/ DeadlineExpired(r) \/ Abandon(r),
         NEW s \in Runners, s # r
  PROVE  pc'[s] = pc[s] /\ loc'[s] = loc[s]
  <1>0. pc \in [Runners -> PC] /\ loc \in [Runners -> Loc]
    BY DEF Typed, TypeOK
  <1>1. /\ \A next : Goto(r, next) => pc'[s] = pc[s]
        /\ \A l : SetLoc(r, l) => loc'[s] = loc[s]
    BY <1>0 DEF Goto, SetLoc
  <1>2. /\ \A next : Pass(r, next) => pc'[s] = pc[s] /\ loc'[s] = loc[s]
        /\ Refuse(r) => pc'[s] = pc[s] /\ loc'[s] = loc[s]
        /\ \A x, y : Replay(r, x, y) => pc'[s] = pc[s] /\ loc'[s] = loc[s]
    BY <1>1 DEF Pass, Refuse, Leave, Replay
  <1>3. StartAny(r) \/ DeadlineExpired(r) \/ Abandon(r)
          => pc'[s] = pc[s] /\ loc'[s] = loc[s]
    BY <1>1, <1>2 DEF StartAny, Start, DeadlineExpired, Abandon
  <1>4. ASSUME \/ Peek(r) \/ Acquire(r) \/ RecoverOwned(r) \/ FindPollingJob(r)
               \/ BeginProviderRuntimeIntent(r) \/ CommitProviderSubmitContext(r)
               \/ Submit(r) \/ SubmitAnswered(r) \/ SubmitFailed(r)
        PROVE  pc'[s] = pc[s] /\ loc'[s] = loc[s]
    BY <1>1, <1>2, <1>4 DEF Peek, Acquire, RecoverOwned, FindPollingJob, Adopt,
       BeginProviderRuntimeIntent, CommitProviderSubmitContext, Submit,
       SubmitAnswered, SubmitFailed
  <1>5. \A from, next : SaveProviderJob(r, from, next) \/ SaveProviderResult(r, from, next)
          => pc'[s] = pc[s] /\ loc'[s] = loc[s]
    BY <1>1 DEF SaveProviderJob, SaveProviderResult
  <1>6. ASSUME \/ UpsertPollingJob(r) \/ TouchPollingJob(r) \/ PollAnswered(r)
               \/ PollTransportError(r) \/ CloseJob(r) \/ MarkJobFailed(r)
               \/ ReturnResult(r) \/ ReturnError(r)
        PROVE  pc'[s] = pc[s] /\ loc'[s] = loc[s]
    BY <1>1, <1>2, <1>6 DEF UpsertPollingJob, TouchPollingJob, PollAnswered,
       PollTransportError, CloseJob, MarkJobFailed, ReturnResult, ReturnError, Leave
  <1> QED
    BY <1>3, <1>4, <1>5, <1>6 DEF RunnerStep

\* A runner keeps what it learnt of its purchase.
LEMMA CarriesStays ==
  ASSUME Inv, Promised, [Next]_vars, NEW s \in Runners,
         pc'[s] = pc[s], loc'[s] = loc[s]
  PROVE  Carries(s)'
  <1>1. CASE pc[s] = "idle"
    BY <1>1 DEF Carries, Answered, Polling
  <1>2. CASE pc[s] # "idle"
    <2>1. loc[s].unit \in Units /\ loc[s].rev \in Revisions /\ Carries(s)
      BY <1>2, Here DEF Inv, Promised, CarriesPaid
    <2>2. pc[s] \in Answered => paid'[loc[s].unit][loc[s].rev] > 0
      BY <2>1, PaidGrows DEF Carries
    <2>3. pc[s] \in {"close", "return"} =>
            op'[loc[s].unit][loc[s].rev] = op[loc[s].unit][loc[s].rev]
      BY <2>1, KeptStep DEF Carries, Kept
    <2> QED
      BY <2>1, <2>2, <2>3 DEF Carries
  <1> QED
    BY <1>1, <1>2

LEMMA CarriesStep ==
  ASSUME Inv, Promised, NEW r \in Runners, RunnerStep(r)
  PROVE  Carries(r)'
  <1> DEFINE u == loc[r].unit
             v == loc[r].rev
  <1>0. Typed /\ Sold /\ PaidRow /\ Carries(r)
    BY DEF Inv, Promised, CarriesPaid
  <1>1. pc \in [Runners -> PC] /\ loc \in [Runners -> Loc]
    BY <1>0 DEF Typed, TypeOK
  <1>2. ASSUME NEW next, Goto(r, next), next \notin Answered \cup {"close", "return"}
        PROVE  Carries(r)'
    BY <1>1, <1>2 DEF Goto, Carries
  \* A job is taken up: the purchase is paid, and no result is carried yet.
  <1>3. ASSUME NEW next, Goto(r, next), next \notin {"close", "return"},
               loc'[r].unit = u, loc'[r].rev = v, UNCHANGED paid, paid[u][v] > 0
        PROVE  Carries(r)'
    BY <1>1, <1>3 DEF Goto, Carries
  <1>5. ASSUME Replay(r, u, v), op[u][v].state = "result_ready"
        PROVE  Carries(r)'
    <2> DEFINE l == [loc[r] EXCEPT !.res = op[u][v].result]
    <2>1. l.unit = u /\ l.rev = v /\ l.res = op[u][v].result
      BY <1>1 DEF Loc
    <2>2. loc'[r] = l /\ pc'[r] = "return" /\ UNCHANGED <<op, paid>>
      BY <1>1, <1>5 DEF Replay, Goto, SetLoc
    <2> HIDE DEF l
    <2> QED
      BY <1>5, <2>1, <2>2 DEF Carries, Answered, Polling
  <1>6. ASSUME Refuse(r) PROVE Carries(r)'
    BY <1>2, <1>6 DEF Refuse, Leave, Answered, Polling
  <1>7. ASSUME NEW next, Pass(r, next), next \notin Answered \cup {"close", "return"}
        PROVE  Carries(r)'
    BY <1>2, <1>7 DEF Pass
  <1>8. ASSUME NEW next, NEW j, NEW n, Adopt(r, j, n), Goto(r, next), UNCHANGED paid,
               next \notin {"close", "return"}, paid[u][v] > 0
        PROVE  Carries(r)'
    <2>1. loc'[r] = [loc[r] EXCEPT !.job = j, !.tries = n]
      BY <1>1, <1>8 DEF Adopt, SetLoc
    <2>2. loc'[r].unit = u /\ loc'[r].rev = v
      BY <1>1, <2>1 DEF Loc
    <2> QED
      BY <1>3, <1>8, <2>2
  <1>9. CASE Peek(r)
    <2>1. Recovery(u, v, loc[r].bind) = "result_ready" => op[u][v].state = "result_ready"
      BY DEF Recovery
    <2> QED
      BY <1>5, <1>6, <1>7, <1>9, <2>1 DEF Peek, Answered, Polling
  <1>10. CASE RecoverOwned(r)
    <2>1. /\ Recovery(u, v, loc[r].bind) = "result_ready" => op[u][v].state = "result_ready"
          /\ Recovery(u, v, loc[r].bind) = "polling" => op[u][v].state = "polling"
      BY DEF Recovery
    <2>2. u \in Units /\ v \in Revisions
      BY <1>0, <1>10, Here DEF RecoverOwned
    <2>3. op[u][v].state = "polling" => paid[u][v] > 0
      BY <1>0, <2>2 DEF Sold
    <2> QED
      BY <1>5, <1>6, <1>7, <1>8, <1>10, <2>1, <2>3 DEF RecoverOwned, Answered, Polling
  <1>11. CASE FindPollingJob(r)
    <2>1. u \in Units
      BY <1>0, <1>11, Here DEF FindPollingJob
    <2>2. row[u].status = "polling" => paid[u][v] > 0
      BY <1>0, <1>11, <2>1 DEF PaidRow, FindPollingJob, RowFits
    <2> QED
      BY <1>7, <1>8, <1>11, <2>2 DEF FindPollingJob, Answered, Polling
  <1>12. CASE \/ Acquire(r) \/ BeginProviderRuntimeIntent(r)
              \/ CommitProviderSubmitContext(r)
              \/ Submit(r) \/ SubmitFailed(r) \/ PollTransportError(r)
              \/ MarkJobFailed(r) \/ ReturnResult(r) \/ ReturnError(r)
    BY <1>2, <1>6, <1>7, <1>12 DEF Acquire, BeginProviderRuntimeIntent,
       CommitProviderSubmitContext, Submit, SubmitFailed, PollTransportError,
       MarkJobFailed, ReturnResult, Leave, ReturnError, Answered, Polling
  <1>13. CASE SubmitAnswered(r)
    <2>1. CASE Goto(r, "save_sync") /\ \E x \in Results : SetLoc(r, [loc[r] EXCEPT !.res = x])
      <3> PICK x \in Results : SetLoc(r, [loc[r] EXCEPT !.res = x])
        BY <2>1
      <3>1. loc'[r].unit = u /\ loc'[r].rev = v
        BY <1>1 DEF SetLoc, Loc
      <3> QED
        BY <1>3, <1>13, <2>1, <3>1 DEF SubmitAnswered
    <2>2. CASE Goto(r, "save_job") /\ SetLoc(r, [loc[r] EXCEPT !.job = paid[u][v]])
      <3>1. loc'[r].unit = u /\ loc'[r].rev = v
        BY <1>1, <2>2 DEF SetLoc, Loc
      <3> QED
        BY <1>3, <1>13, <2>2, <3>1 DEF SubmitAnswered
    <2> QED
      BY <1>13, <2>1, <2>2 DEF SubmitAnswered, Immediate
  <1>14. CASE \/ SaveProviderJob(r, "save_job", "project")
              \/ SaveProviderJob(r, "resave", "poll")
              \/ UpsertPollingJob(r)
    <2>1. paid[u][v] > 0
      BY <1>0, <1>14 DEF SaveProviderJob, UpsertPollingJob, Carries, Answered
    <2> QED
      BY <1>3, <1>14, <2>1 DEF SaveProviderJob, UpsertPollingJob
  <1>15. CASE TouchPollingJob(r)
    <2>1. paid[u][v] > 0
      BY <1>0, <1>15 DEF TouchPollingJob, Carries, Answered, Polling
    <2>2. loc'[r].unit = u /\ loc'[r].rev = v
      BY <1>1, <1>15 DEF TouchPollingJob, SetLoc, Loc
    <2> QED
      BY <1>3, <1>15, <2>1, <2>2 DEF TouchPollingJob
  <1>16. CASE PollAnswered(r)
    <2>1. paid[u][v] > 0
      BY <1>0, <1>16 DEF PollAnswered, Carries, Answered, Polling
    <2>2. loc'[r].unit = u /\ loc'[r].rev = v
      BY <1>1, <1>16 DEF PollAnswered, SetLoc, Loc, Pass
    <2> QED
      BY <1>3, <1>16, <2>1, <2>2 DEF PollAnswered, Pass
  <1>17. ASSUME NEW from \in {"save_sync", "save_done"}, NEW next,
                SaveProviderResult(r, from, next)
         PROVE  Carries(r)'
    <2>1. /\ u \in Units /\ v \in Revisions /\ op[u][v] \in Operation
          /\ op \in [Units -> [Revisions -> Operation]]
      BY <1>0, <1>17, Here DEF SaveProviderResult, Typed, TypeOK
    <2>2. op'[u][v] = WithResult(op[u][v], loc[r].res)
      BY <1>17, <2>1 DEF SaveProviderResult, SetOp
    <2>3. op'[u][v].state = "result_ready" /\ op'[u][v].result = loc[r].res
      BY <2>1, <2>2 DEF WithResult, Operation
    <2>4. paid[u][v] > 0
      BY <1>0, <1>17 DEF SaveProviderResult, Carries, Answered, Polling
    <2>5. loc' = loc /\ paid' = paid
      BY <1>17 DEF SaveProviderResult
    <2> QED
      BY <2>3, <2>4, <2>5 DEF Carries
  <1>18. CASE CloseJob(r)
    <2>1. pc[r] = "close" /\ pc'[r] = "return" /\ UNCHANGED <<op, loc, paid>>
      BY <1>1, <1>18 DEF CloseJob, Goto
    <2> QED
      BY <1>0, <2>1 DEF Carries, Answered, Polling
  <1>19. SaveProviderResult(r, "save_sync", "return") \/ SaveProviderResult(r, "save_done", "close")
           => Carries(r)'
    BY <1>17
  <1> QED
    BY <1>9, <1>10, <1>11, <1>12, <1>13, <1>14, <1>15, <1>16, <1>18, <1>19 DEF RunnerStep

LEMMA CarriesPaidStep ==
  ASSUME Inv, Promised, [Next]_vars
  PROVE  CarriesPaid'
  <1>0. Typed
    BY DEF Inv
  <1>1. ASSUME NEW r \in Runners,
               StartAny(r) \/ RunnerStep(r) \/ DeadlineExpired(r) \/ Abandon(r)
        PROVE  CarriesPaid'
    <2>1. \A s \in Runners : s # r => Carries(s)'
      BY <1>0, <1>1, OthersStay, CarriesStays
    <2>2. Carries(r)'
      <3>1. pc \in [Runners -> PC]
        BY <1>0 DEF Typed, TypeOK
      <3>2. CASE RunnerStep(r)
        BY <3>2, CarriesStep
      <3>3. CASE StartAny(r) \/ Abandon(r)
        BY <3>1, <3>3 DEF StartAny, Start, Abandon, Refuse, Leave, Goto, Carries,
                          Answered, Polling
      <3>4. CASE DeadlineExpired(r)
        <4>1. /\ pc[r] \in Answered /\ pc'[r] = "mark_failed"
              /\ UNCHANGED <<loc, paid>>
          BY <3>1, <3>4 DEF DeadlineExpired, Pass, Goto, Answered, Polling
        <4> QED
          BY <4>1 DEF Promised, CarriesPaid, Carries
      <3> QED
        BY <1>1, <3>2, <3>3, <3>4
    <2> QED
      BY <2>1, <2>2 DEF CarriesPaid
  <1>2. CASE UNCHANGED <<pc, loc>>
    BY <1>2, CarriesStays DEF CarriesPaid
  <1>3. CASE Crash
    BY <1>3 DEF Crash, CarriesPaid, Carries, Answered, Polling
  <1>4. ASSUME NEW w \in Reviewers, ReviewerStep(w) PROVE UNCHANGED <<pc, loc>>
    BY <1>4 DEF ReviewerStep, ReviewProviderOperation, VerifiedJobContext,
                AcquireForReview, CommitProviderReconciliation, ReviewEnds
  <1>5. Environment \/ UNCHANGED vars => UNCHANGED <<pc, loc>>
    BY DEF Environment, SubmitLost, ProviderAccepts, vars
  <1> QED
    BY <1>1, <1>2, <1>3, <1>4, <1>5 DEF Next

LEMMA ReviewPaidStep ==
  ASSUME Inv, Promised, [Next]_vars
  PROVE  ReviewPaid'
  <1>0. Typed /\ ReviewPaid
    BY DEF Inv, Promised
  <1>1. CASE UNCHANGED review
    BY <1>0, <1>1, PaidGrows DEF ReviewPaid, Typed, Placed
  <1>2. ASSUME NEW w \in Reviewers, NEW x, Reviewed(w, x),
               x.stage \in {"proved", "owner"} => paid'[x.unit][x.rev] > 0
        PROVE  ReviewPaid'
    <2>1. /\ review'[w] = x
          /\ \A z \in Reviewers : z # w => review'[z] = review[z]
      BY <1>0, <1>2 DEF Reviewed, Typed, TypeOK
    <2>2. \A z \in Reviewers : z # w /\ review[z].stage \in {"proved", "owner"} =>
            paid'[review[z].unit][review[z].rev] > 0
      BY <1>0, PaidGrows DEF ReviewPaid, Typed, Placed
    <2> QED
      BY <1>2, <2>1, <2>2 DEF ReviewPaid
  <1>3. ASSUME NEW w \in Reviewers, ReviewerStep(w) PROVE ReviewPaid'
    <2>0. review[w] \in Review
      BY <1>0 DEF Typed, TypeOK
    <2>1. CASE \E u \in Units, v \in Revisions : ReviewProviderOperation(w, u, v)
      BY <2>1, <1>2 DEF ReviewProviderOperation
    <2>2. CASE VerifiedJobContext(w)
      <3> DEFINE x == [review[w] EXCEPT !.stage = "proved", !.job = 1]
      <3>1. x.unit = review[w].unit /\ x.rev = review[w].rev
        BY <2>0 DEF Review
      <3>2. Reviewed(w, x) /\ paid' = paid /\ paid[review[w].unit][review[w].rev] > 0
        BY <2>2 DEF VerifiedJobContext, Proven
      <3> HIDE DEF x
      <3> QED
        BY <1>2, <3>1, <3>2
    <2>3. CASE AcquireForReview(w)
      <3> DEFINE x == [review[w] EXCEPT !.stage = "owner"]
      <3>1. x.unit = review[w].unit /\ x.rev = review[w].rev
        BY <2>0 DEF Review
      <3>2. Reviewed(w, x) /\ paid' = paid /\ review[w].stage = "proved"
        BY <2>3 DEF AcquireForReview
      <3> HIDE DEF x
      <3> QED
        BY <1>0, <1>2, <3>1, <3>2 DEF ReviewPaid
    <2>4. CASE CommitProviderReconciliation(w) \/ ReviewEnds(w)
      BY <2>4, <1>2 DEF CommitProviderReconciliation, ReviewEnds, NoReview
    <2> QED
      BY <1>3, <2>1, <2>2, <2>3, <2>4 DEF ReviewerStep
  <1>4. ASSUME NEW r \in Runners, StartAny(r) \/ DeadlineExpired(r) \/ Abandon(r)
        PROVE  UNCHANGED review
    BY <1>4 DEF StartAny, Start, DeadlineExpired, Abandon, Refuse, Pass
  <1>5. ASSUME NEW r \in Runners, RunnerStep(r) PROVE UNCHANGED review
    BY <1>5 DEF RunnerStep, Peek, Acquire, RecoverOwned, FindPollingJob,
                BeginProviderRuntimeIntent, CommitProviderSubmitContext, Submit,
                SubmitAnswered, SubmitFailed, SaveProviderJob, UpsertPollingJob,
                TouchPollingJob, PollAnswered, PollTransportError,
                SaveProviderResult, CloseJob, MarkJobFailed, ReturnResult,
                ReturnError, Replay, Pass, Refuse
  <1>6. Environment \/ UNCHANGED vars => UNCHANGED review
    BY DEF Environment, SubmitLost, ProviderAccepts, vars
  <1>7. Crash => ReviewPaid'
    BY DEF Crash, ReviewPaid, NoReview
  <1> QED
    BY <1>1, <1>3, <1>4, <1>5, <1>6, <1>7 DEF Next

\* The steps that hand a result over are the returns.
LEMMA Handing ==
  ASSUME Next, ~(UNCHANGED answers)
  PROVE  \E r \in Runners : ReturnResult(r)
  <1>1. ASSUME NEW r \in Runners, StartAny(r) \/ DeadlineExpired(r) \/ Abandon(r)
        PROVE  UNCHANGED answers
    BY <1>1 DEF StartAny, Start, DeadlineExpired, Abandon, Refuse, Pass
  <1>2. ASSUME NEW r \in Runners, RunnerStep(r)
        PROVE  ReturnResult(r) \/ UNCHANGED answers
    BY <1>2 DEF RunnerStep, Peek, Acquire, RecoverOwned, FindPollingJob,
                BeginProviderRuntimeIntent, CommitProviderSubmitContext, Submit,
                SubmitAnswered, SubmitFailed, SaveProviderJob, UpsertPollingJob,
                TouchPollingJob, PollAnswered, PollTransportError,
                SaveProviderResult, CloseJob, MarkJobFailed,
                ReturnError, Replay, Pass, Refuse
  <1>3. ASSUME NEW w \in Reviewers, ReviewerStep(w) PROVE UNCHANGED answers
    BY <1>3 DEF ReviewerStep, ReviewProviderOperation, VerifiedJobContext,
                AcquireForReview, CommitProviderReconciliation, ReviewEnds
  <1>4. Environment \/ Crash => UNCHANGED answers
    BY DEF Environment, SubmitLost, ProviderAccepts, Crash
  <1> QED
    BY <1>1, <1>2, <1>3, <1>4 DEF Next

LEMMA AnswersStep ==
  ASSUME Inv, Promised, [Next]_vars
  PROVE  AnswersAreSaved'
  <1>0. Typed /\ Sold /\ CarriesPaid /\ AnswersAreSaved
    BY DEF Inv, Promised
  <1>1. \A u \in Units, v \in Revisions :
          answers[u][v] \subseteq {op'[u][v].result} \ {None}
    <2> SUFFICES ASSUME NEW u \in Units, NEW v \in Revisions, NEW x \in answers[u][v]
                 PROVE  x = op'[u][v].result /\ x # None
      OBVIOUS
    <2>1. x = op[u][v].result /\ x # None
      BY <1>0 DEF AnswersAreSaved
    <2>2. op[u][v].state = "result_ready"
      BY <1>0, <2>1 DEF Sold
    <2> QED
      BY <2>1, <2>2, KeptStep DEF Kept
  <1>2. CASE UNCHANGED answers
    BY <1>1, <1>2 DEF AnswersAreSaved
  <1>3. ASSUME NEW r \in Runners, ReturnResult(r)
        PROVE  AnswersAreSaved'
    <2> DEFINE u == loc[r].unit
               v == loc[r].rev
    <2>1. u \in Units /\ v \in Revisions /\ loc[r].res \in Results
      BY <1>0, <1>3, Here DEF ReturnResult, Carrying
    <2>2. op[u][v].result = loc[r].res /\ loc[r].res # None /\ op' = op
      BY <1>0, <1>3, <2>1, ActorsAssumption DEF ReturnResult, CarriesPaid, Carries
    <2>3. answers' = [answers EXCEPT ![u] = [answers[u] EXCEPT ![v] = answers[u][v] \cup {loc[r].res}]]
      BY <1>3 DEF ReturnResult
    <2>4. answers \in [Units -> [Revisions -> SUBSET Results]]
      BY <1>0 DEF Typed, TypeOK
    <2>5. ASSUME NEW x \in Units, NEW y \in Revisions
          PROVE  answers'[x][y] \subseteq {op'[x][y].result} \ {None}
      <3>1. CASE x = u /\ y = v
        BY <1>1, <2>1, <2>2, <2>3, <2>4, <3>1
      <3>2. CASE x # u \/ y # v
        <4>1. answers'[x][y] = answers[x][y]
          BY <2>1, <2>3, <2>4, <3>2
        <4> QED
          BY <1>1, <4>1
      <3> QED
        BY <3>1, <3>2
    <2> QED
      BY <2>5 DEF AnswersAreSaved
  <1>4. CASE ~(UNCHANGED answers)
    <2>1. Next
      BY <1>4 DEF vars
    <2> QED
      BY <1>3, <1>4, <2>1, Handing
  <1> QED
    BY <1>2, <1>4

LEMMA PromisedStep == Inv /\ Promised /\ [Next]_vars => Promised'
  BY SoldStep, PaidRowStep, CarriesPaidStep, ReviewPaidStep, AnswersStep DEF Promised

\* Every caller, before or after a crash, gets the one saved result of its
\* operation, and it is saved before the first caller gets it.
THEOREM AnswersSaved == Spec => []AnswersAreSaved
  <1>1. Promised => AnswersAreSaved
    BY DEF Promised
  <1> QED
    BY <1>1, InvInit, InvStep, PromisedInit, PromisedStep, PTL DEF Spec

-----------------------------------------------------------------------------
(* The refinement: every step is a step of PaidSubmission or a stutter.     *)

LEMMA PurchaseParts ==
  /\ \A p \in Purchases : p[1] \in Units /\ p[2] \in Revisions /\ p = <<p[1], p[2]>>
  /\ \A u \in Units, v \in Revisions :
       <<u, v>> \in Purchases /\ <<u, v>>[1] = u /\ <<u, v>>[2] = v
  BY DEF Purchases

LEMMA AbstractInit == Init => Promise!AbsInit
  <1> SUFFICES ASSUME Init PROVE Promise!AbsInit
    OBVIOUS
  <1>1. \A p \in Purchases :
          /\ paid[p[1]][p[2]] \in {0, 1} /\ sends[p[1]][p[2]] = paid[p[1]][p[2]]
          /\ OpOf(p) = Vacant /\ answers[p[1]][p[2]] = {}
    BY PurchaseParts DEF Init, OpOf
  <1>2. [p \in Purchases |-> paid[p[1]][p[2]]] \in [Purchases -> {0, 1}]
    BY <1>1
  <1>3. [p \in Purchases |-> sends[p[1]][p[2]]] = [p \in Purchases |-> paid[p[1]][p[2]]]
    BY <1>1
  <1>4. {p \in Purchases : OpOf(p).state # "vacant" \/ sends[p[1]][p[2]] > 0}
          = {p \in Purchases : [q \in Purchases |-> sends[q[1]][q[2]]][p] = 1}
    BY <1>1 DEF Vacant
  <1>5. /\ [p \in Purchases |-> OpOf(p).result] = [p \in Purchases |-> None]
        /\ [p \in Purchases |-> answers[p[1]][p[2]]] = [p \in Purchases |-> {}]
    BY <1>1 DEF Vacant
  <1> QED
    BY <1>2, <1>3, <1>4, <1>5 DEF Promise!AbsInit

\* An operation written without a new intent or a new result is a stutter.
LEMMA AbstractStutter ==
  ASSUME UNCHANGED <<sends, paid, answers>>,
         \A u \in Units, v \in Revisions :
           /\ op'[u][v].result = op[u][v].result
           /\ op'[u][v].state # "vacant" \/ sends[u][v] > 0
                <=> op[u][v].state # "vacant" \/ sends[u][v] > 0
  PROVE  UNCHANGED Promise!absvars
  <1>1. \A p \in Purchases :
           /\ op'[p[1]][p[2]].result = op[p[1]][p[2]].result
           /\ op'[p[1]][p[2]].state # "vacant" \/ sends[p[1]][p[2]] > 0
                <=> op[p[1]][p[2]].state # "vacant" \/ sends[p[1]][p[2]] > 0
    BY PurchaseParts
  <1>2. {p \in Purchases : op'[p[1]][p[2]].state # "vacant" \/ sends[p[1]][p[2]] > 0}
          = {p \in Purchases : op[p[1]][p[2]].state # "vacant" \/ sends[p[1]][p[2]] > 0}
    BY <1>1
  <1>3. [p \in Purchases |-> op'[p[1]][p[2]].result] = [p \in Purchases |-> op[p[1]][p[2]].result]
    BY <1>1
  <1> QED
    BY <1>2, <1>3 DEF Promise!absvars, OpOf

LEMMA AbstractIntend ==
  ASSUME NEW u \in Units, NEW v \in Revisions,
         op[u][v].state = "vacant", ~(sends[u][v] > 0),
         op'[u][v].state # "vacant", op'[u][v].result = op[u][v].result,
         \A x \in Units, y \in Revisions : x # u \/ y # v => op'[x][y] = op[x][y],
         UNCHANGED <<sends, paid, answers>>
  PROVE  Promise!Intend(<<u, v>>)
  <1> DEFINE p == <<u, v>>
  <1>1. \A q \in Purchases \ {p} : op'[q[1]][q[2]] = op[q[1]][q[2]]
    BY PurchaseParts
  <1>2. p \in Purchases /\ p[1] = u /\ p[2] = v
    BY PurchaseParts
  <1>3. p \notin {q \in Purchases : op[q[1]][q[2]].state # "vacant" \/ sends[q[1]][q[2]] > 0}
    BY <1>2
  <1>4. {q \in Purchases : op'[q[1]][q[2]].state # "vacant" \/ sends[q[1]][q[2]] > 0}
          = {q \in Purchases : op[q[1]][q[2]].state # "vacant" \/ sends[q[1]][q[2]] > 0} \cup {p}
    BY <1>1, <1>2
  <1>5. [q \in Purchases |-> op'[q[1]][q[2]].result] = [q \in Purchases |-> op[q[1]][q[2]].result]
    BY <1>1, <1>2
  <1> QED
    BY <1>3, <1>4, <1>5 DEF Promise!Intend, OpOf

LEMMA AbstractConclude ==
  ASSUME Typed, NEW u \in Units, NEW v \in Revisions,
         op[u][v].state # "vacant", op[u][v].result = None, paid[u][v] = 1,
         op'[u][v].state # "vacant", op'[u][v].result \in Results,
         \A x \in Units, y \in Revisions : x # u \/ y # v => op'[x][y] = op[x][y],
         UNCHANGED <<sends, paid, answers>>
  PROVE  Promise!Conclude(<<u, v>>)
  <1> DEFINE p == <<u, v>>
             f == [q \in Purchases |-> op[q[1]][q[2]].result]
             g == [q \in Purchases |-> op'[q[1]][q[2]].result]
  <1>1. \A q \in Purchases \ {p} : op'[q[1]][q[2]] = op[q[1]][q[2]]
    BY PurchaseParts
  <1>2. p \in Purchases /\ p[1] = u /\ p[2] = v
    BY PurchaseParts
  <1>3. {q \in Purchases : op'[q[1]][q[2]].state # "vacant" \/ sends[q[1]][q[2]] > 0}
          = {q \in Purchases : op[q[1]][q[2]].state # "vacant" \/ sends[q[1]][q[2]] > 0}
    BY <1>1, <1>2
  <1>4. g = [f EXCEPT ![p] = op'[u][v].result]
    BY <1>1, <1>2
  <1>5. [q \in Purchases |-> paid[q[1]][q[2]]][p] = 1 /\ f[p] = None
    BY <1>2
  <1> QED
    BY <1>3, <1>4, <1>5 DEF Promise!Conclude, OpOf

LEMMA AbstractSend ==
  ASSUME Inv, NEW r \in Runners, Submit(r)
  PROVE  \E p \in Purchases : Promise!Send(p)
  <1>0. loc[r].unit \in Units /\ loc[r].rev \in Revisions
    BY Here DEF Inv, Submit
  <1> PICK u \in Units, v \in Revisions : u = loc[r].unit /\ v = loc[r].rev
    BY <1>0
  <1> DEFINE p == <<u, v>>
             f == [q \in Purchases |-> sends[q[1]][q[2]]]
             g == [q \in Purchases |-> sends'[q[1]][q[2]]]
  <1>2. p \in Purchases /\ p[1] = u /\ p[2] = v
    BY PurchaseParts
  <1>3. op[u][v].state = "submit_unknown" /\ sends[u][v] = 0
    BY DEF Submit, Inv, Bought, IntentIsFresh
  <1>4. sends' = [sends EXCEPT ![u] = [sends[u] EXCEPT ![v] = sends[u][v] + 1]]
    BY DEF Submit
  <1>5. sends \in [Units -> [Revisions -> Nat]]
    BY DEF Inv, Typed, TypeOK
  <1>6. /\ sends'[u][v] = 1
        /\ \A x \in Units, y \in Revisions : x # u \/ y # v => sends'[x][y] = sends[x][y]
    BY <1>3, <1>4, <1>5
  <1>7. \A q \in Purchases \ {p} : sends'[q[1]][q[2]] = sends[q[1]][q[2]]
    BY <1>6, PurchaseParts
  <1>8. g = [f EXCEPT ![p] = 1] /\ f[p] = 0
    <2>1. f[p] = 0 /\ g[p] = 1
      BY <1>2, <1>3, <1>6
    <2>2. \A q \in Purchases \ {p} : g[q] = f[q]
      BY <1>7
    <2> QED
      BY <1>2, <2>1, <2>2
  <1>9. {q \in Purchases : op[q[1]][q[2]].state # "vacant" \/ sends'[q[1]][q[2]] > 0}
          = {q \in Purchases : op[q[1]][q[2]].state # "vacant" \/ sends[q[1]][q[2]] > 0}
    BY <1>2, <1>3, <1>7
  <1>10. p \in {q \in Purchases : op[q[1]][q[2]].state # "vacant" \/ sends[q[1]][q[2]] > 0}
    BY <1>2, <1>3
  <1>11. UNCHANGED <<op, paid, answers>>
    BY DEF Submit
  <1>12. Promise!Send(p)
    BY <1>2, <1>8, <1>9, <1>10, <1>11 DEF Promise!Send, OpOf
  <1> QED
    BY <1>2, <1>12

LEMMA LastOne ==
  ASSUME NEW a \in Nat, NEW b \in Nat, NEW c \in Nat, a > 0, c <= 1, a + b <= c
  PROVE  b = 0 /\ c = 1
  OBVIOUS

LEMMA AbstractBill ==
  ASSUME Inv, NEW u \in Units, NEW v \in Revisions, ProviderAccepts(u, v)
  PROVE  Promise!Bill(<<u, v>>)
  <1> DEFINE p == <<u, v>>
             f == [q \in Purchases |-> paid[q[1]][q[2]]]
             g == [q \in Purchases |-> paid'[q[1]][q[2]]]
  <1>1. p \in Purchases /\ p[1] = u /\ p[2] = v
    BY PurchaseParts
  <1>2. /\ wire[u][v] \in Nat /\ paid[u][v] \in Nat /\ sends[u][v] \in Nat
        /\ paid \in [Units -> [Revisions -> Nat]]
    BY DEF Inv, Typed, TypeOK
  <1>3. /\ wire[u][v] > 0 /\ sends[u][v] <= 1
        /\ wire[u][v] + paid[u][v] <= sends[u][v]
    BY DEF ProviderAccepts, Inv, Bought, AtMostOneSubmit
  <1>4. paid[u][v] = 0 /\ sends[u][v] = 1
    BY <1>2, <1>3, LastOne
  <1>5. paid' = [paid EXCEPT ![u] = [paid[u] EXCEPT ![v] = paid[u][v] + 1]]
    BY DEF ProviderAccepts
  <1>6. /\ paid'[u][v] = 1
        /\ \A x \in Units, y \in Revisions : x # u \/ y # v => paid'[x][y] = paid[x][y]
    BY <1>2, <1>4, <1>5
  <1>7. \A q \in Purchases \ {p} : paid'[q[1]][q[2]] = paid[q[1]][q[2]]
    BY <1>6, PurchaseParts
  <1>8. g = [f EXCEPT ![p] = 1] /\ f[p] = 0
    <2>1. f[p] = 0 /\ g[p] = 1
      BY <1>1, <1>4, <1>6
    <2>2. \A q \in Purchases \ {p} : g[q] = f[q]
      BY <1>7
    <2> QED
      BY <1>1, <2>1, <2>2
  <1>9. [q \in Purchases |-> sends[q[1]][q[2]]][p] = 1
    BY <1>1, <1>4
  <1>10. UNCHANGED <<op, sends, answers>>
    BY DEF ProviderAccepts
  <1> QED
    BY <1>8, <1>9, <1>10 DEF Promise!Bill, OpOf

LEMMA AbstractHand ==
  ASSUME Inv, Promised, NEW r \in Runners, ReturnResult(r)
  PROVE  \E p \in Purchases : Promise!Hand(p)
  <1>0. loc[r].unit \in Units /\ loc[r].rev \in Revisions
    BY Here DEF Inv, ReturnResult
  <1> PICK u \in Units, v \in Revisions : u = loc[r].unit /\ v = loc[r].rev
    BY <1>0
  <1> DEFINE p == <<u, v>>
             f == [q \in Purchases |-> answers[q[1]][q[2]]]
             g == [q \in Purchases |-> answers'[q[1]][q[2]]]
  <1>1. loc[r].res \in Results
    BY Here DEF Inv, ReturnResult, Carrying
  <1>2. p \in Purchases /\ p[1] = u /\ p[2] = v
    BY PurchaseParts
  <1>3. op[u][v].result = loc[r].res /\ loc[r].res # None
    BY <1>1, ActorsAssumption DEF ReturnResult, Promised, CarriesPaid, Carries
  <1>4. answers' = [answers EXCEPT ![u] = [answers[u] EXCEPT ![v] = answers[u][v] \cup {loc[r].res}]]
    BY DEF ReturnResult
  <1>5. answers \in [Units -> [Revisions -> SUBSET Results]]
    BY DEF Inv, Typed, TypeOK
  <1>6. /\ answers'[u][v] = answers[u][v] \cup {op[u][v].result}
        /\ \A x \in Units, y \in Revisions : x # u \/ y # v => answers'[x][y] = answers[x][y]
    BY <1>3, <1>4, <1>5
  <1>7. \A q \in Purchases \ {p} : answers'[q[1]][q[2]] = answers[q[1]][q[2]]
    BY <1>6, PurchaseParts
  <1>8. [q \in Purchases |-> op[q[1]][q[2]].result][p] = op[u][v].result
    BY <1>2
  <1>9. g = [f EXCEPT ![p] = f[p] \cup {op[u][v].result}]
    BY <1>2, <1>6, <1>7
  <1>10. UNCHANGED <<op, sends, paid>>
    BY DEF ReturnResult
  <1>11. Promise!Hand(p)
    BY <1>2, <1>3, <1>8, <1>9, <1>10 DEF Promise!Hand, OpOf
  <1> QED
    BY <1>2, <1>11

\* What the writers of an operation mean to the caller.
LEMMA AbstractWrite ==
  ASSUME Inv, Promised, [Next]_vars, Writes, ~(UNCHANGED op)
  PROVE  UNCHANGED Promise!absvars
           \/ \E p \in Purchases : Promise!Intend(p) \/ Promise!Conclude(p)
  <1> DEFINE Goal == UNCHANGED Promise!absvars
               \/ \E p \in Purchases : Promise!Intend(p) \/ Promise!Conclude(p)
  <1>0. Typed /\ Sold /\ CarriesPaid /\ PaidRow
    BY DEF Inv, Promised
  <1>1. ASSUME NEW u \in Units, NEW v \in Revisions, NEW o \in Operation,
               SetOp(u, v, o), o.state # "vacant",
               o.state = "result_ready" => o.result \in Results,
               o.result = op[u][v].result, op[u][v].state # "vacant" \/ sends[u][v] > 0,
               UNCHANGED <<sends, paid, answers>>
        PROVE  Goal
    <2>1. /\ op'[u][v] = o
          /\ \A x \in Units, y \in Revisions : x # u \/ y # v => op'[x][y] = op[x][y]
      BY <1>0, <1>1, OpUpdate
    <2> QED
      BY <1>1, <2>1, AbstractStutter
  <1>2. ASSUME NEW r \in Runners, BeginProviderRuntimeIntent(r)
        PROVE  Goal
    <2> DEFINE o == [Vacant EXCEPT !.state = "submit_unknown", !.bind = loc[r].bind]
    <2>1. loc[r].unit \in Units /\ loc[r].rev \in Revisions /\ loc[r].bind \in Bindings
      BY <1>0, <1>2, Here DEF BeginProviderRuntimeIntent
    <2> PICK u \in Units, v \in Revisions : u = loc[r].unit /\ v = loc[r].rev
      BY <2>1
    <2>2. o \in Operation /\ o.state = "submit_unknown" /\ o.result = None
      BY <2>1 DEF Operation, Vacant
    <2>3. /\ SetOp(u, v, o) /\ MayIntend(r, u, v)
          /\ UNCHANGED <<sends, paid, answers>>
      BY <1>2 DEF BeginProviderRuntimeIntent, Refuse
    <2>4. op[u][v].state = "vacant" /\ op[u][v].result = None /\ ~(sends[u][v] > 0)
      BY <1>0, <2>1, <2>3 DEF MayIntend, Sold, Inv, Bought, Accounted
    <2> HIDE DEF o
    <2>5. /\ op'[u][v] = o
          /\ \A x \in Units, y \in Revisions : x # u \/ y # v => op'[x][y] = op[x][y]
      BY <1>0, <2>1, <2>2, <2>3, OpUpdate
    <2>6. Promise!Intend(<<u, v>>)
      BY <2>1, <2>2, <2>3, <2>4, <2>5, AbstractIntend
    <2>7. <<u, v>> \in Purchases
      BY <2>1, PurchaseParts
    <2> QED
      BY <2>6, <2>7
  <1>3. ASSUME NEW r \in Runners, CommitProviderSubmitContext(r)
        PROVE  Goal
    <2> DEFINE o == [op[loc[r].unit][loc[r].rev] EXCEPT !.ready = TRUE]
    <2>1. /\ loc[r].unit \in Units /\ loc[r].rev \in Revisions
          /\ op[loc[r].unit][loc[r].rev] \in Operation
          /\ op[loc[r].unit][loc[r].rev].state = "submit_unknown"
      BY <1>0, <1>3, Here DEF CommitProviderSubmitContext
    <2>2. o \in Operation /\ o.state = "submit_unknown"
          /\ o.result = op[loc[r].unit][loc[r].rev].result
      BY <2>1 DEF Operation
    <2>3. /\ SetOp(loc[r].unit, loc[r].rev, o)
          /\ UNCHANGED <<sends, paid, answers>>
      BY <1>3 DEF CommitProviderSubmitContext
    <2> HIDE DEF o
    <2> QED
      BY <1>1, <2>1, <2>2, <2>3
  <1>4. ASSUME NEW r \in Runners, NEW from \in {"save_job", "resave"}, NEW next,
               SaveProviderJob(r, from, next)
        PROVE  Goal
    <2> DEFINE u == loc[r].unit
               v == loc[r].rev
               o == [op[u][v] EXCEPT
                       !.state = "polling", !.job = loc[r].job, !.bind = loc[r].bind]
    <2>1. /\ u \in Units /\ v \in Revisions /\ op[u][v] \in Operation
          /\ loc[r].job \in Nat /\ loc[r].bind \in Bindings
      BY <1>0, <1>4, Here DEF SaveProviderJob
    <2>2. o \in Operation /\ o.state = "polling" /\ o.result = op[u][v].result
      BY <2>1 DEF Operation
    <2>3. SetOp(u, v, o) /\ UNCHANGED <<sends, paid, answers>>
      BY <1>4 DEF SaveProviderJob
    \* A projection without an operation was paid for, so it was sent.
    <2>4. sends[u][v] > 0
      <3>1. paid[u][v] > 0
        BY <1>0, <1>4 DEF SaveProviderJob, CarriesPaid, Carries, Answered
      <3>2. sends[u][v] \in Nat /\ paid[u][v] \in Nat /\ wire[u][v] \in Nat
        BY <1>0, <2>1 DEF Typed, TypeOK
      <3>3. wire[u][v] + paid[u][v] <= sends[u][v]
        BY <2>1 DEF Inv, Bought, AtMostOneSubmit
      <3> QED
        BY <3>1, <3>2, <3>3
    <2> HIDE DEF o
    <2> QED
      BY <1>1, <2>1, <2>2, <2>3, <2>4
  <1>5. ASSUME NEW r \in Runners, NEW from \in {"save_sync", "save_done"}, NEW next,
               SaveProviderResult(r, from, next)
        PROVE  Goal
    <2> DEFINE u == loc[r].unit
               v == loc[r].rev
               o == WithResult(op[u][v], loc[r].res)
    <2>1. /\ u \in Units /\ v \in Revisions /\ op[u][v] \in Operation
          /\ loc[r].res \in Results
      BY <1>0, <1>5, Here DEF SaveProviderResult, Carrying
    <2>2. o \in Operation /\ o.state = "result_ready" /\ o.result = loc[r].res
      BY <2>1 DEF Operation, WithResult
    <2>3. SetOp(u, v, o) /\ UNCHANGED <<sends, paid, answers>>
      BY <1>5 DEF SaveProviderResult
    <2>4. CASE op[u][v].state = "result_ready"
      <3>1. op[u][v].result = loc[r].res
        BY <1>5, <2>4 DEF SaveProviderResult
      <3> HIDE DEF o
      <3> QED
        BY <1>1, <2>1, <2>2, <2>3, <2>4, <3>1
    <2>5. CASE op[u][v].state # "result_ready"
      <3>1. op[u][v].state # "vacant" /\ op[u][v].result = None
        BY <1>0, <1>5, <2>1, <2>5 DEF SaveProviderResult, Sold
      <3>2. paid[u][v] > 0
        BY <1>0, <1>5 DEF SaveProviderResult, CarriesPaid, Carries, Answered, Polling
      <3>3. paid[u][v] = 1
        <4>1. sends[u][v] \in Nat /\ paid[u][v] \in Nat /\ wire[u][v] \in Nat
          BY <1>0, <2>1 DEF Typed, TypeOK
        <4>2. wire[u][v] + paid[u][v] <= sends[u][v] /\ sends[u][v] <= 1
          BY <2>1 DEF Inv, Bought, AtMostOneSubmit
        <4> QED
          BY <3>2, <4>1, <4>2
      <3> HIDE DEF o
      <3>4. /\ op'[u][v] = o
            /\ \A x \in Units, y \in Revisions : x # u \/ y # v => op'[x][y] = op[x][y]
        BY <1>0, <2>1, <2>2, <2>3, OpUpdate
      <3>5. Promise!Conclude(<<u, v>>)
        BY <1>0, <2>1, <2>2, <2>3, <3>1, <3>3, <3>4, AbstractConclude
      <3>6. <<u, v>> \in Purchases
        BY <2>1, PurchaseParts
      <3> QED
        BY <3>5, <3>6
    <2> QED
      BY <2>4, <2>5
  <1>6. ASSUME NEW w \in Reviewers, CommitProviderReconciliation(w)
        PROVE  Goal
    <2> DEFINE u == review[w].unit
               v == review[w].rev
               o == [op[u][v] EXCEPT !.state = "polling", !.job = review[w].job]
    <2>1. u \in Units /\ v \in Revisions /\ review[w].job \in Nat
      BY <1>0, <1>6 DEF CommitProviderReconciliation, Typed, TypeOK, Placed, Review
    <2>2. op[u][v] \in Operation
      BY <1>0, <2>1 DEF Typed, TypeOK
    <2>3. o \in Operation /\ o.state = "polling" /\ o.result = op[u][v].result
      BY <2>1, <2>2 DEF Operation
    <2>4. /\ SetOp(u, v, o) /\ op[u][v].state = "submit_unknown"
          /\ UNCHANGED <<sends, paid, answers>>
      BY <1>6 DEF CommitProviderReconciliation, Fresh
    <2> HIDE DEF o
    <2> QED
      BY <1>1, <2>1, <2>3, <2>4
  <1> QED
    BY <1>2, <1>3, <1>4, <1>5, <1>6 DEF Writes

\* The steps that move a request.
LEMMA Moving ==
  ASSUME Next, ~(UNCHANGED <<sends, paid>>)
  PROVE  \/ \E r \in Runners : Submit(r)
         \/ \E u \in Units, v \in Revisions : ProviderAccepts(u, v)
  <1>1. ASSUME NEW r \in Runners, StartAny(r) \/ DeadlineExpired(r) \/ Abandon(r)
        PROVE  UNCHANGED <<sends, paid>>
    BY <1>1 DEF StartAny, Start, DeadlineExpired, Abandon, Refuse, Pass
  <1>2. ASSUME NEW r \in Runners, RunnerStep(r)
        PROVE  Submit(r) \/ UNCHANGED <<sends, paid>>
    BY <1>2 DEF RunnerStep, Peek, Acquire, RecoverOwned, FindPollingJob,
                BeginProviderRuntimeIntent, CommitProviderSubmitContext,
                SubmitAnswered, SubmitFailed, SaveProviderJob, UpsertPollingJob,
                TouchPollingJob, PollAnswered, PollTransportError,
                SaveProviderResult, CloseJob, MarkJobFailed, ReturnResult,
                ReturnError, Replay, Pass, Refuse
  <1>3. ASSUME NEW w \in Reviewers, ReviewerStep(w) PROVE UNCHANGED <<sends, paid>>
    BY <1>3 DEF ReviewerStep, ReviewProviderOperation, VerifiedJobContext,
                AcquireForReview, CommitProviderReconciliation, ReviewEnds
  <1>4. Environment => UNCHANGED <<sends, paid>>
                         \/ \E u \in Units, v \in Revisions : ProviderAccepts(u, v)
    BY DEF Environment, SubmitLost
  <1>5. Crash => UNCHANGED <<sends, paid>>
    BY DEF Crash
  <1> QED
    BY <1>1, <1>2, <1>3, <1>4, <1>5 DEF Next

LEMMA AbstractStep ==
  Inv /\ Promised /\ [Next]_vars => [Promise!AbsNext]_Promise!absvars
  <1> SUFFICES ASSUME Inv, Promised, [Next]_vars
               PROVE  Promise!AbsNext \/ UNCHANGED Promise!absvars
    OBVIOUS
  <1>1. CASE ~(UNCHANGED op)
    <2>1. Writes
      BY <1>1, Writers DEF vars
    <2> QED
      BY <1>1, <2>1, AbstractWrite DEF Promise!AbsNext
  <1>2. CASE UNCHANGED op /\ ~(UNCHANGED answers)
    <2>1. \E r \in Runners : ReturnResult(r)
      BY <1>2, Handing DEF vars
    <2> QED
      BY <2>1, AbstractHand DEF Promise!AbsNext
  <1>3. CASE ~(UNCHANGED <<sends, paid>>)
    <2>1. \/ \E r \in Runners : Submit(r)
          \/ \E u \in Units, v \in Revisions : ProviderAccepts(u, v)
      BY <1>3, Moving DEF vars
    <2>2. ASSUME NEW u \in Units, NEW v \in Revisions, ProviderAccepts(u, v)
          PROVE  Promise!AbsNext
      BY <2>2, AbstractBill, PurchaseParts DEF Promise!AbsNext
    <2> QED
      BY <2>1, <2>2, AbstractSend DEF Promise!AbsNext
  <1>4. CASE UNCHANGED <<op, answers, sends, paid>>
    BY <1>4, AbstractStutter
  <1> QED
    BY <1>1, <1>2, <1>3, <1>4

\* The ledger, the claims, the native locks and the recovery together keep what
\* PaidSubmission promises a caller, under every loss, delay and crash.
THEOREM Refinement == Spec => KeepsPromise
  <1>1. Init => Promise!AbsInit
    BY AbstractInit
  <1>2. Inv /\ Promised /\ [Next]_vars => [Promise!AbsNext]_Promise!absvars
    BY AbstractStep
  <1> QED
    BY <1>1, <1>2, InvInit, InvStep, PromisedInit, PromisedStep, PTL
       DEF Spec, KeepsPromise, Promise!AbsSpec
=============================================================================
