---------------------------- MODULE ContentUnit ----------------------------
(***************************************************************************)
(* One piece of content of one relation on its way to a site: the scan,    *)
(* outbox and retry lanes that translate it, the callback that waits until *)
(* the site has acknowledged it, the receipt of an acknowledged callback,  *)
(* the row of the job it belongs to, and the review of a parked result:    *)
(* edit, reject, approve (one or in bulk), deliver again, and translate    *)
(* again by hand under a request that survives a lost reply.               *)
(*                                                                         *)
(* The lease of the unit keeps the lanes and the review requests apart, so *)
(* one of them at a time is under way; what it does between two requests   *)
(* to the outside is interrupted only by a crash.  The site keeps the      *)
(* first body it accepts under an idempotency key and refuses another one. *)
(* Who claims an item and how often it is retried is DiscoveryRun's.       *)
(***************************************************************************)
EXTENDS Integers, FiniteSets

CONSTANTS
  MaxVersion,  \* versions of the source
  MaxBodies,   \* translations, edits and manual translations paid for
  MaxTries,    \* failed deliveries of a row before it counts as failed
  MaxCrashes,  \* interruptions
  Jobs,        \* job lanes: TRUE is the outbox, FALSE the retry queue
  Policies,    \* what the workflow decides after a translation
  Bulk,        \* reviewers approve in bulk
  None

ASSUME BoundsAssumption ==
  /\ {MaxVersion, MaxBodies, MaxTries} \subseteq Nat \ {0}
  /\ MaxCrashes \in Nat
ASSUME LanesAssumption ==
  Jobs \subseteq BOOLEAN /\ Policies \subseteq {"send", "park"} /\ Bulk \in BOOLEAN

VARIABLES
  source,    \* the version the source site serves
  files,     \* the result file of each source digest
  pending,   \* the pending callback of the unit
  receipt,   \* its content receipt
  record,    \* a translation record says that the unit was delivered
  row,       \* its row of translation_items
  manual,    \* the head of its manual requests
  exec,      \* the lane or request that owns the lease
  accepted,  \* the callbacks the site accepted
  made,      \* bodies paid for
  crashes

vars == <<source, files, pending, receipt, record, row, manual, exec, accepted, made, crashes>>
delivery == <<pending, receipt, record>>
world == <<source, crashes>>

Versions == 1..MaxVersion
Bodies == 1..MaxBodies

\* The digest of the data as served; the outbox merges its own id into it.
Digest == [ver : Versions, outbox : BOOLEAN]

\* An automatic callback is keyed by the source version alone.  An edit and
\* a manual request have a key of their own.
Key == ({"version"} \X Versions) \cup ({"own"} \X Bodies)
Own(n) == [key |-> <<"own", n>>, body |-> n]
Automatic(v, n) == [key |-> <<"version", v>>, body |-> n]
Payload == {Automatic(v, n) : v \in Versions, n \in Bodies} \cup {Own(n) : n \in Bodies}

Statuses == {"translated", "pending_review", "done", "failed", "rejected"}
Row == [status : Statuses, path : Digest \cup Payload, task : Key \cup {None}, tries : Nat]
Manual == [body : Bodies, state : {"open", "candidate", "finished"}]

Lanes == {"scan", "job"}
Requests == {"resume", "resubmit", "approve", "bulk"}
Exec == [lane : Lanes \cup Requests \cup {"manual"},
         pc : {"look", "translate", "save", "decide", "parking", "send", "acked",
               "failed", "close", "project"},
         snap : Digest \cup {None}, resync : BOOLEAN,
         payload : Payload \cup {None}, fresh : BOOLEAN]

Receipt == [digest : Digest, payload : Payload]

ASSUME NoneAssumption ==
  None \notin Digest \cup Payload \cup Row \cup Manual \cup Exec \cup Key \cup Receipt

Init ==
  /\ source = 1
  /\ files = [d \in Digest |-> None]
  /\ pending = None /\ receipt = None /\ record = FALSE
  /\ row = None /\ manual = None
  /\ exec = None
  /\ accepted = {} /\ made = 0 /\ crashes = 0

FileAt(path) == IF path \in Digest THEN files[path] ELSE path

Parked == row # None /\ row.status = "pending_review"

Unfinished == manual # None /\ manual.state # "finished"

At(pc) == exec # None /\ exec.pc = pc
Goto(pc) == exec' = [exec EXCEPT !.pc = pc]
Leave == exec' = None

-----------------------------------------------------------------------------
(* The lanes that translate *)

Enter(lane, outbox, resync) ==
  /\ exec = None
  /\ exec' = [lane |-> lane, pc |-> "look", snap |-> [ver |-> source, outbox |-> outbox],
              resync |-> resync, payload |-> None, fresh |-> FALSE]
  /\ UNCHANGED <<world, files, delivery, row, manual, accepted, made>>

\* The site says whether it wants the content again.
Scan(resync) == Enter("scan", FALSE, resync)

Job == \E outbox \in Jobs, resync \in BOOLEAN : Enter("job", outbox, resync)

\* record_item_outcome: an existing row keeps the task id it was made with.
Recorded(status, payload) ==
  IF row = None
  THEN [status |-> status, path |-> exec.snap, tries |-> 0,
        task |-> IF payload = None THEN None ELSE payload.key]
  ELSE [row EXCEPT !.status = status, !.path = exec.snap]

\* An error of the scan lane is projected onto the row; a job lane reports it.
Err ==
  /\ row' = IF exec.lane = "scan" THEN Recorded("failed", None) ELSE row
  /\ Leave

Receipted == receipt # None /\ receipt.digest = exec.snap

\* A source that changed while its callback is unconfirmed is refused.
Refuse ==
  /\ At("look") /\ exec.resync /\ pending # None
  /\ Leave
  /\ UNCHANGED <<world, files, delivery, row, manual, accepted, made>>

RedeliversFresh == pending # None /\ ~exec.resync /\ ~record  \* slip: only before the first success

Redelivers == pending # None /\ ~exec.resync

\* The pending callback goes again, as it was saved.
Redeliver ==
  /\ At("look") /\ Redelivers
  /\ exec' = [exec EXCEPT !.pc = "send", !.payload = pending]
  /\ UNCHANGED <<world, files, delivery, row, manual, accepted, made>>

\* A resync of what was already acknowledged sends the saved callback again.
Restore ==
  /\ At("look") /\ exec.resync /\ pending = None /\ Receipted
  /\ pending' = receipt.payload
  /\ exec' = [exec EXCEPT !.pc = "send", !.payload = receipt.payload]
  /\ UNCHANGED <<world, files, receipt, record, row, manual, accepted, made>>

\* Nothing to do, or a receipt that stands for another source.
Settled ==
  /\ ~exec.resync
  /\ \/ receipt # None
     \/ exec.lane = "scan" /\ (Parked \/ record)

Skip ==
  /\ At("look") /\ ~Redelivers /\ Settled
  /\ Leave
  /\ UNCHANGED <<world, files, delivery, row, manual, accepted, made>>

\* The inner check for a parked result comes last.
Start ==
  /\ At("look") /\ ~Redelivers /\ ~Settled
  /\ exec.resync => pending = None /\ ~Receipted
  /\ IF Parked THEN Err ELSE Goto("translate") /\ UNCHANGED row
  /\ UNCHANGED <<world, files, delivery, manual, accepted, made>>

\* Components are chosen and paid here; every attempt has a body of its own.
Translate ==
  /\ At("translate")
  /\ \/ Err /\ UNCHANGED made
     \/ /\ row' = Recorded("done", None)
        /\ Leave /\ UNCHANGED made
     \/ /\ made < MaxBodies
        /\ made' = made + 1
        /\ exec' = [exec EXCEPT !.pc = "save",
             !.payload = Automatic(exec.snap.ver, made + 1)]
        /\ UNCHANGED row
  /\ UNCHANGED <<world, files, delivery, manual, accepted>>

\* A saved result is never overwritten by another one.
Save ==
  /\ At("save")
  /\ IF files[exec.snap] = None
     THEN /\ files' = [files EXCEPT ![exec.snap] = exec.payload]
          /\ Goto("decide") /\ UNCHANGED row
     ELSE Err /\ UNCHANGED files
  /\ UNCHANGED <<world, delivery, manual, accepted, made>>

\* Rows that exist are parked first; the outcome is recorded next.
Park ==
  /\ At("decide") /\ "park" \in Policies
  /\ row' = IF row = None THEN None ELSE [row EXCEPT !.status = "pending_review"]
  /\ Goto("parking")
  /\ UNCHANGED <<world, files, delivery, manual, accepted, made>>

ParkRow ==
  /\ At("parking")
  /\ row' = Recorded("pending_review", exec.payload)
  /\ Leave
  /\ UNCHANGED <<world, files, delivery, manual, accepted, made>>

Queue ==
  /\ At("decide") /\ "send" \in Policies
  /\ pending' = exec.payload
  /\ exec' = [exec EXCEPT !.pc = "send", !.fresh = TRUE]
  /\ UNCHANGED <<world, files, receipt, record, row, manual, accepted, made>>

-----------------------------------------------------------------------------
(* Delivery *)

\* The site answers a key it knows from memory, if the body is the same.
Accepts(p) == \A q \in accepted : q.key = p.key => q = p

\* The site takes the callback and its answer arrives.
Acknowledge ==
  /\ At("send") /\ Accepts(exec.payload)
  /\ accepted' = accepted \cup {exec.payload}
  /\ Goto("acked")
  /\ UNCHANGED <<world, files, delivery, row, manual, made>>

\* Every attempt fails: refused, lost, or taken with the answer lost.
Unanswered ==
  /\ At("send")
  /\ accepted' \in {accepted} \cup (IF Accepts(exec.payload)
                                    THEN {accepted \cup {exec.payload}} ELSE {})
  /\ Goto("failed")
  /\ UNCHANGED <<world, files, delivery, row, manual, made>>

\* A receipt is never bound to another source or body under the same key.
Binds ==
  \/ receipt = None
  \/ receipt.payload.key # exec.payload.key
  \/ receipt = [digest |-> exec.snap, payload |-> exec.payload]

Closes(p) == row # None /\ row.task = p.key

AnsweredAny == At("acked") \/ At("failed")  \* slip: the answer is not validated

Answered == At("acked")

\* The receipt, the row, the record and the removal are one transaction; the
\* scan lane puts the outcome of a fresh translation into it.
Confirm ==
  /\ Answered /\ exec.lane \in Lanes
  /\ IF ~Binds
     THEN Leave /\ UNCHANGED <<delivery, row>>
     ELSE /\ receipt' = [digest |-> exec.snap, payload |-> exec.payload]
          /\ pending' = None /\ record' = TRUE
          /\ row' = IF exec.fresh /\ exec.lane = "scan" THEN Recorded("done", exec.payload)
                    ELSE IF Closes(exec.payload) THEN [row EXCEPT !.status = "done"] ELSE row
          /\ IF exec.fresh /\ exec.lane = "job" THEN Goto("close") ELSE Leave
  /\ UNCHANGED <<world, files, manual, accepted, made>>

\* A job lane records the outcome in a transaction of its own.
CloseJob ==
  /\ At("close")
  /\ row' = Recorded("done", exec.payload)
  /\ Leave
  /\ UNCHANGED <<world, files, delivery, manual, accepted, made>>

KeepPendingLost ==  \* slip: a failed delivery is given up
  /\ At("failed") /\ exec.lane \in Lanes
  /\ pending' = None
  /\ Leave
  /\ UNCHANGED <<world, files, receipt, record, row, manual, accepted, made>>

\* A fresh result waits on its row; a redelivery only counts the failure.
KeepPending ==
  /\ At("failed") /\ exec.lane \in Lanes
  /\ row' = IF exec.fresh THEN Recorded("translated", exec.payload) ELSE row
  /\ Leave
  /\ UNCHANGED <<world, files, delivery, manual, accepted, made>>

-----------------------------------------------------------------------------
(* Delivering the result of a row, for a resuming run and for a reviewer *)

\* Where a request puts the row when the delivery did not close it.
Fallback(lane, status) ==
  IF lane \in {"approve", "bulk"} THEN "pending_review"
  ELSE IF lane = "resubmit" THEN "translated" ELSE status

\* add_pending_callback takes the same callback twice and no other.
Adds(p) == pending \in {None, p}

Take(lane) ==
  LET p == FileAt(row.path) IN
  /\ exec = None
  /\ p # None
  /\ IF Adds(p)
     THEN /\ pending' = p
          /\ exec' = [lane |-> lane, pc |-> "send", snap |-> None, resync |-> FALSE,
                      payload |-> p, fresh |-> FALSE]
          /\ row' = IF lane = "resubmit" THEN [row EXCEPT !.status = "translated"] ELSE row
     ELSE /\ row' = [row EXCEPT !.status = Fallback(lane, row.status)]
          /\ UNCHANGED <<pending, exec>>
  /\ UNCHANGED <<world, files, receipt, record, manual, accepted, made>>

Resume ==
  /\ row # None /\ row.status = "translated" /\ row.tries < MaxTries
  /\ Take("resume")

Resubmit ==
  /\ row # None /\ row.status \in {"pending_review", "translated", "failed"}
  /\ ~Unfinished
  /\ Take("resubmit")

Approve == Parked /\ ~Unfinished /\ Take("approve")

\* The bulk form looks at the status alone.
BulkApprove == Bulk /\ Parked /\ Take("bulk")

\* complete_saved_callback: the row must still be the callback's.
Complete ==
  /\ Answered /\ exec.lane \in Requests
  /\ IF Closes(exec.payload)
     THEN /\ row' = [row EXCEPT !.status = "done"]
          /\ record' = TRUE /\ pending' = None
     ELSE /\ row' = [row EXCEPT !.status = Fallback(exec.lane, row.status)]
          /\ UNCHANGED <<record, pending>>
  /\ Leave
  /\ UNCHANGED <<world, files, receipt, manual, accepted, made>>

AfterFailure(tries) == IF tries >= MaxTries THEN "failed" ELSE "translated"

Postpone ==
  /\ At("failed") /\ exec.lane \in Requests
  /\ row' = [row EXCEPT !.tries = IF @ < MaxTries THEN @ + 1 ELSE @,
               !.status = Fallback(exec.lane, AfterFailure(row.tries + 1))]
  /\ Leave
  /\ UNCHANGED <<world, files, delivery, manual, accepted, made>>

-----------------------------------------------------------------------------
(* Review *)

EditableAlways == TRUE  \* slip: an unresolved delivery is not looked for

Editable == pending = None

Mutable == Editable /\ ~Unfinished

\* An edit is a new file under a new key.
Edited(n) == [row EXCEPT !.path = Own(n), !.task = Own(n).key]

Edit ==
  /\ exec = None
  /\ Parked /\ Mutable /\ FileAt(row.path) # None
  /\ made < MaxBodies
  /\ made' = made + 1
  /\ row' = Edited(made + 1)
  /\ UNCHANGED <<world, files, delivery, manual, exec, accepted>>

\* The single form and the bulk form ask for the same.
Rejectable == row # None /\ row.status \in {"pending_review", "translated"} /\ Mutable

Reject ==
  /\ exec = None
  /\ Rejectable
  /\ row' = [row EXCEPT !.status = "rejected"]
  /\ UNCHANGED <<world, files, delivery, manual, exec, accepted, made>>

\* A new request freezes its plan; it needs the last one finished.
NewRequest ==
  /\ ~Unfinished /\ made < MaxBodies
  /\ made' = made + 1
  /\ manual' = [body |-> made + 1, state |-> "open"]

\* An unfinished request is resumed under its own id.
Retranslate ==
  /\ exec = None
  /\ row # None /\ row.status \in {"pending_review", "rejected", "failed", "translated"}
  /\ Editable
  /\ \/ NewRequest
     \/ /\ Unfinished /\ manual.state = "open"
        /\ UNCHANGED <<made, manual>>
  /\ exec' = [lane |-> "manual", pc |-> "translate", snap |-> None, resync |-> FALSE,
              payload |-> None, fresh |-> FALSE]
  /\ UNCHANGED <<world, files, delivery, row, accepted>>

\* Only a complete result becomes a candidate.
PrepareResult ==
  /\ At("translate") /\ exec.lane = "manual"
  /\ \/ Leave /\ UNCHANGED manual
     \/ /\ manual' = [manual EXCEPT !.state = "candidate"]
        /\ Goto("project")
  /\ UNCHANGED <<world, files, delivery, row, accepted, made>>

ProjectManual ==
  /\ row' = [row EXCEPT !.status = "pending_review", !.path = Own(manual.body),
               !.task = Own(manual.body).key]
  /\ manual' = [manual EXCEPT !.state = "finished"]

FinishManual ==
  /\ At("project")
  /\ ProjectManual /\ Leave
  /\ UNCHANGED <<world, files, delivery, accepted, made>>

\* A repeated request completes a saved candidate before any other check.
RecoverManual ==
  /\ exec = None
  /\ manual # None /\ manual.state = "candidate"
  /\ row.status # "done"
  /\ ProjectManual
  /\ UNCHANGED <<world, files, delivery, exec, accepted, made>>

-----------------------------------------------------------------------------
(* The world *)

\* A lease does not outlive the process; everything else is on disk.
Crash ==
  /\ exec # None /\ crashes < MaxCrashes
  /\ crashes' = crashes + 1
  /\ Leave
  /\ UNCHANGED <<source, files, delivery, row, manual, accepted, made>>

Write ==
  /\ source < MaxVersion
  /\ source' = source + 1
  /\ UNCHANGED <<files, delivery, row, manual, exec, accepted, made, crashes>>

Lane ==
  \/ Refuse \/ Redeliver \/ Restore \/ Skip \/ Start
  \/ (exec # None /\ exec.lane \in Lanes /\ Translate)
  \/ Save \/ Park \/ ParkRow \/ Queue
Delivery == Acknowledge \/ Unanswered \/ Confirm \/ CloseJob \/ KeepPending \/ Complete \/ Postpone
Review == Resubmit \/ Approve \/ BulkApprove \/ Edit \/ Reject
Manually == Retranslate \/ PrepareResult \/ FinishManual \/ RecoverManual

Next ==
  \/ (\E resync \in BOOLEAN : Scan(resync)) \/ Job \/ Lane \/ Delivery \/ Resume \/ Review \/ Manually
  \/ Crash \/ Write

Spec == Init /\ [][Next]_vars

Step == Lane \/ Delivery \/ PrepareResult \/ FinishManual

\* A lane that has the lease goes on, the worker scans again and again, and a
\* site that is asked often enough answers.
Fairness ==
  /\ WF_vars(Step)
  /\ SF_vars(Scan(FALSE))
  /\ SF_vars(Acknowledge /\ exec.lane = "scan")

FairSpec == Spec /\ Fairness

-----------------------------------------------------------------------------
(* Properties *)

\* Whatever the site accepted is known to the client: as the pending callback
\* still to be confirmed, or as a delivery on record.  This is what keeps a
\* scan from paying for it again.
AcceptedIsKnown == \A p \in accepted : record \/ pending = p

\* A receipt, a delivery record and a row closed by a callback all stand for
\* a callback that the site accepted.
ConfirmedWasAccepted ==
  /\ receipt # None => receipt.payload \in accepted
  /\ record => accepted # {}

\* While the delivery of a row's result is unresolved the row stays with that
\* result: no lane, edit, rejection or new manual translation changes it.  Only
\* a manual result that was complete before takes its place.
DeliveredStays ==
  [][row # None /\ pending # None /\ FileAt(row.path) = pending /\ row'.path # row.path
       => Unfinished /\ row'.path = Own(manual.body)]_vars

\* A pending callback that the site can accept is confirmed in the end, once
\* the source rests and unless a receipt holds its key for other data.
PendingResolves ==
  \A p \in Payload :
    (/\ pending = p /\ source = MaxVersion /\ Accepts(p)
     /\ \/ receipt = None \/ receipt.payload.key # p.key
        \/ receipt = [digest |-> [ver |-> source, outbox |-> FALSE], payload |-> p])
      ~> pending # p

=============================================================================
