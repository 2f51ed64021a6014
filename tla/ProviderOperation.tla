------------------------- MODULE ProviderOperation -------------------------
(***************************************************************************)
(* One translation unit bought from a paid provider: the encrypted         *)
(* operation ledger, the async job projection, the execution claim with    *)
(* its native lock, the runner of both lanes and the operator's            *)
(* reconciliation, with lost and late submits and a crash at every step.   *)
(*                                                                         *)
(* A unit is site x relation x object x field x chunk x lane.  A revision  *)
(* is the unit's source snapshot: it is part of the key of an operation    *)
(* but not of the key of the projection row or of the claim.  A binding is *)
(* the digest of template, language map and input: it is part of no key,   *)
(* and a record read under another binding is refused.                     *)
(*                                                                         *)
(* Every step taken under the database mutex is one action.  A step whose  *)
(* guards refuse rolls its savepoint back: the refusal changes no row and  *)
(* ends the call, which drops the native lock.  Refusals an owner can meet *)
(* have a disjunct of their own; Abandon stands for all the others.        *)
(***************************************************************************)
EXTENDS Integers

CONSTANTS
  Units,        \* physical translation units
  Revisions,    \* source snapshots of a unit
  Bindings,     \* runtime bindings (template x language map x input)
  Results,      \* texts or media references a provider may return
  Runners,      \* tasks translating a unit
  Reviewers,    \* requests reconciling an unknown submission
  MaxAttempts,  \* the poll counter saturates here
  None          \* the absent value

ASSUME ActorsAssumption ==
  /\ Runners \cap Reviewers = {}
  /\ None \notin Units \cup Results \cup Runners \cup Reviewers
ASSUME MaxAttemptsAssumption == MaxAttempts \in Nat

VARIABLES
  op,       \* operation ledger: Units -> Revisions -> Operation
  row,      \* async_jobs projection of a unit, or NoRow
  claim,    \* last owner written to the execution claim of a unit
  lock,     \* holder of the native lock of a unit
  pc,       \* where each runner stands
  loc,      \* what each runner carries
  review,   \* what each reviewer carries
  sends,    \* history: submits that left the client
  wire,     \* submits sent whose arrival is undecided
  paid,     \* submits the provider accepted and bills
  answers   \* history: translations handed to callers

vars == <<op, row, claim, lock, pc, loc, review, sends, wire, paid, answers>>

Actors == Runners \cup Reviewers

-----------------------------------------------------------------------------
(* Data. Job 0 is "no job"; job n is the provider's n-th accepted submit.   *)

Vacant == [state |-> "vacant", ready |-> FALSE, bind |-> None,
           job |-> 0, result |-> None]

Operation ==
  [state  : {"vacant", "submit_unknown", "polling", "result_ready"},
   ready  : BOOLEAN,
   bind   : Bindings \cup {None},
   job    : Nat,
   result : Results \cup {None}]

NoRow == [status |-> "none", rev |-> None, bind |-> None,
          job |-> 0, attempts |-> 0]

Row == [status   : {"none", "polling", "failed"},
        rev      : Revisions \cup {None},
        bind     : Bindings \cup {None},
        job      : Nat,
        attempts : Nat]

NoLoc == [unit |-> None, rev |-> None, bind |-> None,
          job |-> 0, tries |-> 0, res |-> None]

Loc == [unit  : Units \cup {None},
        rev   : Revisions \cup {None},
        bind  : Bindings \cup {None},
        job   : Nat,
        tries : Nat,
        res   : Results \cup {None}]

NoReview == [stage |-> "idle", unit |-> None, rev |-> None,
             op |-> Vacant, job |-> 0]

Review == [stage : {"idle", "reviewed", "proved", "owner"},
           unit  : Units \cup {None},
           rev   : Revisions \cup {None},
           op    : Operation,
           job   : Nat]

(* Program counters of a runner; at the last group it holds the unit.       *)
Polling  == {"poll", "await", "save_done", "mark_failed"}
Holding  == {"recover", "find", "begin", "context", "submit", "sent",
             "save_sync", "save_job", "project", "resave", "close"} \cup Polling
\* "return" and "error" are reached with or without the lock.
PC == {"idle", "peek", "acquire", "return", "error"} \cup Holding

-----------------------------------------------------------------------------
(* What the readers of the two records accept.                              *)

\* `load`: an operation under another binding is refused.
OpFits(u, v, b) == op[u][v].state # "vacant" => op[u][v].bind = b

\* `read_unit`: a row of another revision or binding is refused.
RowFits(u, v, b) ==
  row[u].status # "none" => row[u].rev = v /\ row[u].bind = b

\* `assert_projection_matches`, wherever both records exist.
Consistent(u, v) ==
  op[u][v].state # "vacant" /\ row[u].status # "none"
    => op[u][v].job = row[u].job

Readable(u, v, b) == OpFits(u, v, b) /\ RowFits(u, v, b) /\ Consistent(u, v)

\* `assert_owner`: the retained claim is still this execution's.
Owns(a, u) == claim[u] = a

\* The unit is free to be taken over: only a native lock proves liveness.
Acquirable(u, v, b) == lock[u] = None /\ Readable(u, v, b)

-----------------------------------------------------------------------------
Init ==
  /\ claim = [u \in Units |-> None]
  /\ lock = [u \in Units |-> None]
  /\ pc = [r \in Runners |-> "idle"]
  /\ loc = [r \in Runners |-> NoLoc]
  /\ review = [w \in Reviewers |-> NoReview]
  /\ op = [u \in Units |-> [v \in Revisions |-> Vacant]]
  /\ wire = [u \in Units |-> [v \in Revisions |-> 0]]
  /\ answers = [u \in Units |-> [v \in Revisions |-> {}]]
  \* A database written before the ledger existed may hold a paid projection.
  /\ row \in [Units -> {NoRow} \cup
                [status : {"polling", "failed"}, rev : Revisions,
                 bind : Bindings, job : {1}, attempts : {0}]]
  /\ paid = [u \in Units |-> [v \in Revisions |->
               IF row[u].status # "none" /\ row[u].rev = v THEN 1 ELSE 0]]
  /\ sends = paid

-----------------------------------------------------------------------------
(* Runner steps. Goto moves a runner on; Leave ends its call and drops its  *)
(* ProviderExecution, which frees the native lock but keeps the claim.      *)

Goto(r, next) == pc' = [pc EXCEPT ![r] = next]

SetOp(u, v, o) == op' = [op EXCEPT ![u][v] = o]
SetRow(u, x) == row' = [row EXCEPT ![u] = x]
SetLoc(r, l) == loc' = [loc EXCEPT ![r] = l]

Release(a) == lock' = [u \in Units |-> IF lock[u] = a THEN None ELSE lock[u]]

Leave(r) ==
  /\ Goto(r, "idle")
  /\ SetLoc(r, NoLoc)
  /\ Release(r)

Refuse(r) == Leave(r) /\ UNCHANGED <<op, row, claim, review, sends, wire, paid, answers>>

\* Move on with nothing but the runner's own position changed.
Pass(r, next) ==
  /\ Goto(r, next)
  /\ UNCHANGED <<op, row, claim, lock, loc, review, sends, wire, paid, answers>>

Start(r, u, v, b) ==
  /\ pc[r] = "idle"
  /\ Goto(r, "peek")
  /\ SetLoc(r, [NoLoc EXCEPT !.unit = u, !.rev = v, !.bind = b])
  /\ UNCHANGED <<op, row, claim, lock, review, sends, wire, paid, answers>>

\* What recover_provider_operation tells the runner.
Recovery(u, v, b) ==
  IF op[u][v].state = "vacant" THEN "vacant"
  ELSE IF \/ ~Readable(u, v, b)
          \/ op[u][v].state = "submit_unknown"
          \/ op[u][v].state = "polling" /\ row[u].status = "failed"
       THEN "refused"
  ELSE op[u][v].state

\* A saved result is replayed; the booking release changes no ledger state.
Replay(r, u, v) ==
  /\ Goto(r, "return")
  /\ SetLoc(r, [loc[r] EXCEPT !.res = op[u][v].result])
  /\ UNCHANGED <<op, row, claim, lock, review, sends, wire, paid, answers>>

\* The read-only look before ownership: only a saved result ends here.
Peek(r) ==
  LET u == loc[r].unit  v == loc[r].rev
      found == Recovery(u, v, loc[r].bind)
  IN /\ pc[r] = "peek"
     /\ \/ found = "result_ready" /\ Replay(r, u, v)
        \/ found \in {"vacant", "polling"} /\ Pass(r, "acquire")
        \/ found = "refused" /\ Refuse(r)

\* Take the native lock, then replace the orphaned claim by a fresh one.
Acquire(r) ==
  LET u == loc[r].unit  v == loc[r].rev  b == loc[r].bind
  IN /\ pc[r] = "acquire"
     /\ \/ /\ Acquirable(u, v, b)
           /\ lock' = [lock EXCEPT ![u] = r]
           /\ claim' = [claim EXCEPT ![u] = r]
           /\ Goto(r, "recover")
           /\ UNCHANGED <<op, row, loc, review, sends, wire, paid, answers>>
        \/ ~Acquirable(u, v, b) /\ Refuse(r)

\* Resume a job with its heartbeat count; key and token selection is skipped.
Adopt(r, j, n) == SetLoc(r, [loc[r] EXCEPT !.job = j, !.tries = n])

\* The second look, now as the owner.
RecoverOwned(r) ==
  LET u == loc[r].unit  v == loc[r].rev
      found == Recovery(u, v, loc[r].bind)
  IN /\ pc[r] = "recover"
     /\ \/ found = "result_ready" /\ Replay(r, u, v)
        \/ found = "vacant" /\ Pass(r, "find")
        \/ /\ found = "polling"
           /\ Goto(r, "project")
           /\ Adopt(r, op[u][v].job, row[u].attempts)
           /\ UNCHANGED <<op, row, claim, lock, review, sends, wire, paid, answers>>
        \/ found = "refused" /\ Refuse(r)

\* No operation: adopt a polling projection, or go on to a new intent.
FindPollingJob(r) ==
  LET u == loc[r].unit  v == loc[r].rev  b == loc[r].bind
  IN /\ pc[r] = "find"
     /\ RowFits(u, v, b)
     /\ \/ /\ row[u].status = "polling"
           /\ Goto(r, "resave")
           /\ Adopt(r, row[u].job, row[u].attempts)
           /\ UNCHANGED <<op, row, claim, lock, review, sends, wire, paid, answers>>
        \/ row[u].status # "polling" /\ Pass(r, "begin")

MayIntend(r, u, v) ==
  Owns(r, u) /\ op[u][v].state = "vacant" /\ row[u].status = "none"

\* A durable intent precedes every external effect of the unit.
BeginProviderRuntimeIntent(r) ==
  LET u == loc[r].unit  v == loc[r].rev
  IN /\ pc[r] = "begin"
     /\ \/ /\ MayIntend(r, u, v)
           /\ SetOp(u, v, [Vacant EXCEPT !.state = "submit_unknown",
                                         !.bind = loc[r].bind])
           /\ Goto(r, "context")
           /\ UNCHANGED <<row, claim, lock, loc, review, sends, wire, paid, answers>>
        \/ ~MayIntend(r, u, v) /\ Refuse(r)

\* Text runs straight on to this; media prepares and uploads first, and any
\* failure there is an Abandon.
CommitProviderSubmitContext(r) ==
  LET u == loc[r].unit  v == loc[r].rev
  IN /\ pc[r] = "context"
     /\ Owns(r, u)
     /\ Readable(u, v, loc[r].bind)
     /\ op[u][v].state = "submit_unknown"
     /\ ~op[u][v].ready
     /\ SetOp(u, v, [op[u][v] EXCEPT !.ready = TRUE])
     /\ Goto(r, "submit")
     /\ UNCHANGED <<row, claim, lock, loc, review, sends, wire, paid, answers>>

\* The one paid request.
Submit(r) ==
  LET u == loc[r].unit  v == loc[r].rev
  IN /\ pc[r] = "submit"
     /\ sends' = [sends EXCEPT ![u][v] = @ + 1]
     /\ wire' = [wire EXCEPT ![u][v] = @ + 1]
     /\ Goto(r, "sent")
     /\ UNCHANGED <<op, row, claim, lock, loc, review, paid, answers>>

ImmediateUnsaved == "return"  \* slip: handed over before it is saved
Immediate == "save_sync"      \* a translation in the answer is saved first

\* The answer is a translation or a job id; anything else, a timeout included,
\* is an error the runner returns with the outcome unknown.
SubmitAnswered(r) ==
  LET u == loc[r].unit  v == loc[r].rev
  IN /\ pc[r] = "sent"
     /\ paid[u][v] > 0
     /\ \/ /\ \E x \in Results : SetLoc(r, [loc[r] EXCEPT !.res = x])
           /\ Goto(r, Immediate)
        \/ /\ SetLoc(r, [loc[r] EXCEPT !.job = paid[u][v]])
           /\ Goto(r, "save_job")
     /\ UNCHANGED <<op, row, claim, lock, review, sends, wire, paid, answers>>

SubmitFailedForgets(r) ==  \* slip: a failed submit releases its intent
  /\ pc[r] = "sent"
  /\ SetOp(loc[r].unit, loc[r].rev, Vacant)
  /\ Goto(r, "error")
  /\ UNCHANGED <<row, claim, lock, loc, review, sends, wire, paid, answers>>

SubmitFailed(r) == pc[r] = "sent" /\ Pass(r, "error")

\* save_provider_job: also promotes a polling projection that has no operation,
\* and leaves an operation already polling this job as it is.
SaveProviderJob(r, from, next) ==
  LET u == loc[r].unit  v == loc[r].rev  b == loc[r].bind  j == loc[r].job
  IN /\ pc[r] = from
     /\ Owns(r, u)
     /\ Readable(u, v, b)
     /\ row[u].status # "failed"
     /\ \/ op[u][v].state = "submit_unknown"
        \/ op[u][v].state = "polling" /\ op[u][v].job = j
        \/ op[u][v].state = "vacant" /\ row[u].status # "none" /\ row[u].job = j
     /\ SetOp(u, v, [op[u][v] EXCEPT !.state = "polling", !.job = j, !.bind = b])
     /\ Goto(r, next)
     /\ UNCHANGED <<row, claim, lock, loc, review, sends, wire, paid, answers>>

\* upsert_polling_job, which the runner only reaches with a polling operation;
\* a live projection is kept as it is.
UpsertPollingJob(r) ==
  LET u == loc[r].unit  v == loc[r].rev  b == loc[r].bind
  IN /\ pc[r] = "project"
     /\ Owns(r, u)
     /\ op[u][v].state = "polling" /\ op[u][v].job = loc[r].job
     /\ Readable(u, v, b)
     /\ row[u].status # "failed"
     /\ SetRow(u, IF row[u].status = "polling" THEN row[u]
                  ELSE [status |-> "polling", rev |-> v, bind |-> b,
                        job |-> loc[r].job, attempts |-> 0])
     /\ Goto(r, "resave")
     /\ UNCHANGED <<op, claim, lock, loc, review, sends, wire, paid, answers>>

\* What touch_polling_job and mark_job_failed require of the ledger and row.
PollingRow(r) ==
  LET u == loc[r].unit  v == loc[r].rev
  IN /\ Owns(r, u)
     /\ Readable(u, v, loc[r].bind)
     /\ op[u][v].state \in {"vacant", "polling"}
     /\ row[u].status = "polling"

Saturate(n) == IF n < MaxAttempts THEN n + 1 ELSE MaxAttempts

TouchPollingJob(r) ==
  LET u == loc[r].unit
      n == Saturate(loc[r].tries)
  IN /\ pc[r] = "poll"
     /\ PollingRow(r)
     /\ n >= row[u].attempts
     /\ SetRow(u, [row[u] EXCEPT !.attempts = n])
     /\ SetLoc(r, [loc[r] EXCEPT !.tries = n])
     /\ Goto(r, "await")
     /\ UNCHANGED <<op, claim, lock, review, sends, wire, paid, answers>>

\* One poll answer: finished, still running, or failed.
PollAnswered(r) ==
  /\ pc[r] = "await"
  /\ \/ \E x \in Results :
          /\ SetLoc(r, [loc[r] EXCEPT !.res = x])
          /\ Goto(r, "save_done")
          /\ UNCHANGED <<op, row, claim, lock, review, sends, wire, paid, answers>>
     \/ Pass(r, "poll")
     \/ Pass(r, "mark_failed")

DeadlineOnlyFirst(r) ==  \* slip: the deadline is checked before polling only
  pc[r] = "poll" /\ loc[r].tries = 0 /\ Pass(r, "mark_failed")

\* The deadline is checked before a poll and bounds every wait of the loop.
DeadlineExpired(r) == pc[r] \in {"poll", "await"} /\ Pass(r, "mark_failed")

\* A poll that gets no usable response returns from the loop at once.
PollTransportError(r) == pc[r] = "await" /\ Pass(r, "error")

WithResult(o, x) == [o EXCEPT !.state = "result_ready", !.result = x]

\* An identical saved result is accepted again, a different one never.
SaveProviderResult(r, from, next) ==
  LET u == loc[r].unit  v == loc[r].rev
  IN /\ pc[r] = from
     /\ Owns(r, u)
     /\ Readable(u, v, loc[r].bind)
     /\ row[u].status # "failed"
     /\ \/ op[u][v].state \in {"submit_unknown", "polling"}
        \/ op[u][v].state = "result_ready" /\ op[u][v].result = loc[r].res
     /\ SetOp(u, v, WithResult(op[u][v], loc[r].res))
     /\ Goto(r, next)
     /\ UNCHANGED <<row, claim, lock, loc, review, sends, wire, paid, answers>>

CloseJob(r) ==
  LET u == loc[r].unit  v == loc[r].rev
  IN /\ pc[r] = "close"
     /\ Owns(r, u)
     /\ Readable(u, v, loc[r].bind)
     /\ op[u][v].state = "result_ready"
     /\ row[u].status = "polling"
     /\ SetRow(u, NoRow)
     /\ Goto(r, "return")
     /\ UNCHANGED <<op, claim, lock, loc, review, sends, wire, paid, answers>>

MarkJobFailed(r) ==
  /\ pc[r] = "mark_failed"
  /\ PollingRow(r)
  /\ SetRow(loc[r].unit, [row[loc[r].unit] EXCEPT !.status = "failed"])
  /\ Goto(r, "error")
  /\ UNCHANGED <<op, claim, lock, loc, review, sends, wire, paid, answers>>

ReturnResult(r) ==
  LET u == loc[r].unit  v == loc[r].rev
  IN /\ pc[r] = "return"
     /\ answers' = [answers EXCEPT ![u][v] = @ \cup {loc[r].res}]
     /\ Leave(r)
     /\ UNCHANGED <<op, row, claim, review, sends, wire, paid>>

ReturnError(r) == pc[r] = "error" /\ Refuse(r)

\* Any other `?` on the way (storage, encryption, key or token selection,
\* capacity, prepare, upload) and a task that is dropped at an await.
Abandon(r) == pc[r] # "idle" /\ Refuse(r)

-----------------------------------------------------------------------------
(* The provider and the network.                                            *)

ProviderAccepts(u, v) ==
  /\ wire[u][v] > 0
  /\ wire' = [wire EXCEPT ![u][v] = @ - 1]
  /\ paid' = [paid EXCEPT ![u][v] = @ + 1]
  /\ UNCHANGED <<op, row, claim, lock, pc, loc, review, sends, answers>>

SubmitLost(u, v) ==
  /\ wire[u][v] > 0
  /\ wire' = [wire EXCEPT ![u][v] = @ - 1]
  /\ UNCHANGED <<op, row, claim, lock, pc, loc, review, sends, paid, answers>>

-----------------------------------------------------------------------------
(* Reconciliation of an unknown submission.                                 *)

Reviewed(w, to) == review' = [review EXCEPT ![w] = to]

\* The worker was seen stopped once before this; runners may start after it.
ReviewProviderOperation(w, u, v) ==
  /\ review[w].stage = "idle"
  /\ op[u][v].state = "submit_unknown"
  /\ op[u][v].ready
  /\ row[u].status = "none"
  /\ Reviewed(w, [stage |-> "reviewed", unit |-> u, rev |-> v,
                  op |-> op[u][v], job |-> 0])
  /\ UNCHANGED <<op, row, claim, lock, pc, loc, sends, wire, paid, answers>>

\* The evidence names exactly one job with this attempt identity.
Proven(w) == paid[review[w].unit][review[w].rev] = 1

\* The read-only evidence query.
VerifiedJobContext(w) ==
  /\ review[w].stage = "reviewed"
  /\ Proven(w)
  /\ Reviewed(w, [review[w] EXCEPT !.stage = "proved", !.job = 1])
  /\ UNCHANGED <<op, row, claim, lock, pc, loc, sends, wire, paid, answers>>

AcquireForReview(w) ==
  LET u == review[w].unit  v == review[w].rev
  IN /\ review[w].stage = "proved"
     /\ Acquirable(u, v, review[w].op.bind)
     /\ lock' = [lock EXCEPT ![u] = w]
     /\ claim' = [claim EXCEPT ![u] = w]
     /\ Reviewed(w, [review[w] EXCEPT !.stage = "owner"])
     /\ UNCHANGED <<op, row, pc, loc, sends, wire, paid, answers>>

FreshUnchecked(w) == TRUE  \* slip: the review is never compared again

\* The ledger still holds the very record that was reviewed.
Fresh(w) ==
  LET u == review[w].unit  v == review[w].rev
  IN /\ op[u][v] = review[w].op
     /\ op[u][v].state = "submit_unknown"
     /\ row[u].status = "none"

\* Adopt only the unchanged reviewed intent; the runner recreates the row.
CommitProviderReconciliation(w) ==
  LET u == review[w].unit  v == review[w].rev
  IN /\ review[w].stage = "owner"
     /\ Owns(w, u)
     /\ Fresh(w)
     /\ SetOp(u, v, [op[u][v] EXCEPT !.state = "polling", !.job = review[w].job])
     /\ Reviewed(w, NoReview)
     /\ Release(w)
     /\ UNCHANGED <<row, claim, pc, loc, sends, wire, paid, answers>>

\* Every refusal, failed query and dropped request.
ReviewEnds(w) ==
  /\ review[w].stage # "idle"
  /\ Reviewed(w, NoReview)
  /\ Release(w)
  /\ UNCHANGED <<op, row, claim, pc, loc, sends, wire, paid, answers>>

-----------------------------------------------------------------------------
(* The process dies: native locks go, SQLite and requests on the wire stay. *)

Crash ==
  /\ pc' = [r \in Runners |-> "idle"]
  /\ loc' = [r \in Runners |-> NoLoc]
  /\ review' = [w \in Reviewers |-> NoReview]
  /\ lock' = [u \in Units |-> None]
  /\ UNCHANGED <<op, row, claim, sends, wire, paid, answers>>

-----------------------------------------------------------------------------
RunnerStep(r) ==
  \/ Peek(r)
  \/ Acquire(r)
  \/ RecoverOwned(r)
  \/ FindPollingJob(r)
  \/ BeginProviderRuntimeIntent(r)
  \/ CommitProviderSubmitContext(r)
  \/ Submit(r)
  \/ SubmitAnswered(r)
  \/ SubmitFailed(r)
  \/ SaveProviderJob(r, "save_job", "project")
  \/ UpsertPollingJob(r)
  \/ SaveProviderJob(r, "resave", "poll")
  \/ TouchPollingJob(r)
  \/ PollAnswered(r)
  \/ PollTransportError(r)
  \/ SaveProviderResult(r, "save_sync", "return")
  \/ SaveProviderResult(r, "save_done", "close")
  \/ CloseJob(r)
  \/ MarkJobFailed(r)
  \/ ReturnResult(r)
  \/ ReturnError(r)

ReviewerStep(w) ==
  \/ \E u \in Units, v \in Revisions : ReviewProviderOperation(w, u, v)
  \/ VerifiedJobContext(w)
  \/ AcquireForReview(w)
  \/ CommitProviderReconciliation(w)
  \/ ReviewEnds(w)

StartAny(r) == \E u \in Units, v \in Revisions, b \in Bindings : Start(r, u, v, b)

Environment ==
  \E u \in Units, v \in Revisions : ProviderAccepts(u, v) \/ SubmitLost(u, v)

Next ==
  \/ \E r \in Runners :
       StartAny(r) \/ RunnerStep(r) \/ DeadlineExpired(r) \/ Abandon(r)
  \/ \E w \in Reviewers : ReviewerStep(w)
  \/ Environment
  \/ Crash

Spec == Init /\ [][Next]_vars

\* The worker re-offers an unfinished item, a live task runs on, and a
\* request budget or the poll deadline ends every wait; a review that took the
\* unit commits or fails without waiting.  Nothing is assumed of the provider,
\* the network, the operator's will or of tasks that are dropped.
Fairness ==
  /\ \A r \in Runners :
       /\ WF_vars(StartAny(r))
       /\ WF_vars(RunnerStep(r))
       /\ WF_vars(DeadlineExpired(r))
  /\ \A w \in Reviewers :
       WF_vars(review[w].stage = "owner" /\ ReviewerStep(w))

FairSpec == Spec /\ Fairness

-----------------------------------------------------------------------------
(* Invariants.                                                              *)

TypeOK ==
  /\ op \in [Units -> [Revisions -> Operation]]
  /\ row \in [Units -> Row]
  /\ claim \in [Units -> Actors \cup {None}]
  /\ lock \in [Units -> Actors \cup {None}]
  /\ pc \in [Runners -> PC]
  /\ loc \in [Runners -> Loc]
  /\ review \in [Reviewers -> Review]
  /\ sends \in [Units -> [Revisions -> Nat]]
  /\ wire \in [Units -> [Revisions -> Nat]]
  /\ paid \in [Units -> [Revisions -> Nat]]
  /\ answers \in [Units -> [Revisions -> SUBSET Results]]

\* The paid request of an operation leaves the client at most once, whatever
\* is lost, late or crashed ("no automatic resubmit" in
\* recover_provider_operation and begin_provider_runtime_intent).
AtMostOneSubmit ==
  \A u \in Units, v \in Revisions :
    sends[u][v] <= 1 /\ wire[u][v] + paid[u][v] <= sends[u][v]

\* Whoever works on a unit alone holds its native lock, in any revision, and
\* its claim is the current one, so that assert_owner cannot refuse a live
\* owner nor pass a dead one.
OwnerIsCurrent ==
  /\ \A r \in Runners : pc[r] \in Holding =>
       lock[loc[r].unit] = r /\ claim[loc[r].unit] = r
  /\ \A w \in Reviewers : review[w].stage = "owner" =>
       lock[review[w].unit] = w /\ claim[review[w].unit] = w

\* Every caller, before or after a crash, gets the one saved result of the
\* operation, and it is saved before the first caller gets it.
AnswersAreSaved ==
  \A u \in Units, v \in Revisions : answers[u][v] \subseteq {op[u][v].result} \ {None}

-----------------------------------------------------------------------------
(* Action properties.                                                       *)

\* A saved result is never replaced, and an operation is never forgotten.
ResultIsFinal ==
  [][\A u \in Units, v \in Revisions :
       /\ op[u][v].state = "result_ready" => op'[u][v] = op[u][v]
       /\ op[u][v].state # "vacant" => op'[u][v].state # "vacant"]_vars

-----------------------------------------------------------------------------
(* Refinement and liveness.                                                 *)

Purchases == Units \X Revisions
OpOf(p) == op[p[1]][p[2]]

Promise == INSTANCE PaidSubmission WITH
  intended <- {p \in Purchases :
                 OpOf(p).state # "vacant" \/ sends[p[1]][p[2]] > 0},
  sent     <- [p \in Purchases |-> sends[p[1]][p[2]]],
  billed   <- [p \in Purchases |-> paid[p[1]][p[2]]],
  outcome  <- [p \in Purchases |-> OpOf(p).result],
  handed   <- [p \in Purchases |-> answers[p[1]][p[2]]]

\* The ledger, the claims and the recovery together keep the promise of
\* PaidSubmission, under every loss, delay and crash.
KeepsPromise == Promise!AbsSpec

\* The task that would resume u's poll is dropped where the code refuses nothing.
Drops(r, u) ==
  /\ pc[r] \notin {"idle", "error"} /\ loc[r].unit = u
  /\ row[u].status = "polling" /\ Readable(u, loc[r].rev, loc[r].bind)
  /\ lock[u] \in {None, r}
  /\ Abandon(r)

\* The process, or the tasks in it, keep dying.
KeepsDying == []<><<Crash \/ \E r \in Runners, u \in Units : Drops(r, u)>>_vars

\* Every resumed poll ends in a transport error.
KeepsUnreachable == []<><<\E r \in Runners : PollTransportError(r)>>_vars

\* Tasks keep coming for another source text than that of the row.
KeepsChanging(u) ==
  []<>(\E r \in Runners : loc[r].unit = u /\ loc[r].rev # row[u].rev)

\* A live poll, resumed after any crash, is closed with a saved result or
\* retained as failed: polls end because the deadline does.  The deadline of
\* a resumed poll starts anew, so this needs a provider that answers at last;
\* and only a task for the same source text resumes it.
PollingResolves ==
  \/ KeepsDying
  \/ KeepsUnreachable
  \/ \A u \in Units :
       \/ row[u].status = "polling" ~>
            (row[u].status # "polling" \/ op[u][row[u].rev].state = "result_ready")
       \/ KeepsChanging(u)
=============================================================================
