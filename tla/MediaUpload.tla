---------------------------- MODULE MediaUpload ----------------------------
(***************************************************************************)
(* The upload of a saved media result to the site it belongs to, over the  *)
(* data root that holds its evidence.                                      *)
(*                                                                         *)
(* The delivery of a translation writes a receipt into the database before *)
(* anything is sent (submitter/upload_receipt.rs), stages the asset,       *)
(* copies it into the upload's own directory and publishes a checkpoint    *)
(* with a fresh operation id (non_text/recovery.rs).  From there on every  *)
(* request carries that id, every request is announced in the checkpoint   *)
(* first, and a restart asks the site what became of it.  Small files go   *)
(* in one request, large ones in a session of chunks.  An operator may     *)
(* settle an import whose outcome the site itself does not know.           *)
(*                                                                         *)
(* The writes of the receipt and of the checkpoint are paid by nobody's    *)
(* booking: they need room in the root (StorageRoot) and a free lock.      *)
(***************************************************************************)
EXTENDS StorageRoot

Ops == 1 .. 2   \* operation ids; a second one exists only if one is given up

VARIABLES big,       \* the file is sent in chunks
          receipt,   \* "none", "intent", "done": the row of the database
          check,     \* the checkpoint: None or [id, st, up]
          remote,    \* what the site knows of an operation
          imports,   \* history: attachments the site has created
          net,       \* requests on their way
          w,         \* the delivery's place
          seen,      \* the last status it was told
          staged,    \* its temporary copy is on disk
          guard,     \* who holds the lock of the checkpoint's key
          oper       \* the operator's place

mediaVars == <<big, receipt, check, remote, imports, net, w, seen, staged, guard, oper>>
vars == <<rootVars, mediaVars>>

Pre == "prepared"
States == {Pre, "complete_unknown", "init_unknown", "uploading", "result_ready"}
Checkpoint == [id : Ops, st : States, up : BOOLEAN]

ASSUME NoneIsNoCheckpoint == None \notin Checkpoint

Request(k) == [id |-> check.id, kind |-> k]
Awaits == [single |-> "sent_single", init |-> "sent_init",
           chunk |-> "sent_chunk", complete |-> "sent_complete"]

MediaInit ==
    /\ big \in BOOLEAN
    /\ receipt = "none" /\ check = None
    /\ remote = [i \in Ops |-> "absent"] /\ imports = 0 /\ net = {}
    /\ w = "idle" /\ seen = "absent" /\ staged = FALSE
    /\ guard = None /\ oper = "idle"

---------------------------------------------------------------------------
(* The site (external): one import for one operation id, whatever arrives. *)

\* A request arrives, in any order, perhaps long after its sender has died.
Takes(id, k) ==
    CASE remote[id] = "absent" /\ k = "single"  -> "importing"
      [] remote[id] = "absent" /\ k = "init"    -> "open"
      [] remote[id] = "open" /\ k = "chunk"     -> "full"
      [] remote[id] = "full" /\ k = "complete"  -> "importing"
      [] OTHER -> remote[id]

Arrive(r) ==
    /\ r \in net /\ net' = net \ {r}
    /\ remote' = [remote EXCEPT ![r.id] = Takes(r.id, r.kind)]
    /\ UNCHANGED <<rootVars, big, receipt, check, imports, w, seen, staged, guard, oper>>

Import(i) ==
    /\ remote[i] = "importing"
    /\ \/ /\ remote' = [remote EXCEPT ![i] = "ready"]
          /\ imports' = imports + 1 /\ UNCHANGED faults
       \/ /\ remote' = [remote EXCEPT ![i] = "unknown"] /\ Fault
          /\ imports' \in {imports, imports + 1}
    /\ UNCHANGED <<limit, peak, data, log, book, base, lease, op, at, torn>>
    /\ UNCHANGED <<big, receipt, check, net, w, seen, staged, guard, oper>>

---------------------------------------------------------------------------
(* The checkpoint.                                                         *)

\* save: the owner is the same, and a result once saved is not taken back.
Keeps(new) ==
    /\ new.id = check.id
    /\ check.st = "result_ready" => new.st = "result_ready"
    /\ check.up => new.up

Saves(st, up) ==
    LET new == [check EXCEPT !.st = st, !.up = up]
    IN  CanWrite(Row) /\ Keeps(new) /\ check' = new

Step(from, to) == w = from /\ w' = to
Root == UNCHANGED rootVars
Others == UNCHANGED <<big, remote, imports, oper>>

\* A restarted or repeated delivery.  An intent without a checkpoint is an
\* upload of unknown outcome and is refused.
Deliver ==
    /\ op = "result_ready" /\ receipt # "done" /\ w = "idle"
    /\ \/ /\ receipt = "none" /\ CanWrite(Row)
          /\ receipt' = "intent" /\ data' = data + Row
          /\ w' = "fresh" /\ UNCHANGED guard
          /\ UNCHANGED <<limit, peak, log, book, base, lease, op, at, torn, faults>>
       \/ /\ receipt = "intent" /\ check # None /\ check.st = "result_ready"
          /\ w' = "adopt" /\ UNCHANGED <<receipt, guard>> /\ Root
       \/ /\ receipt = "intent" /\ check # None /\ check.st # "result_ready"
          /\ guard = None /\ guard' = "delivery"
          /\ w' = "go" /\ UNCHANGED receipt /\ Root
    /\ UNCHANGED <<check, net, seen, staged>> /\ Others

\* The bytes are staged, and copied into the upload's own directory.
Stage ==
    /\ Step("fresh", "staged") /\ CanWrite(Asset)
    /\ staged' = TRUE /\ data' = data + Asset
    /\ UNCHANGED <<limit, peak, log, book, base, lease, op, at, torn, faults>>
    /\ UNCHANGED <<receipt, check, net, seen, guard>> /\ Others

Copy ==
    /\ Step("staged", "copied") /\ CanWrite(Asset)
    /\ guard = None /\ guard' = "delivery"
    /\ data' = data + Asset
    /\ UNCHANGED <<limit, peak, log, book, base, lease, op, at, torn, faults>>
    /\ UNCHANGED <<receipt, check, net, seen, staged>> /\ Others

Publish ==
    /\ Step("copied", "go") /\ CanWrite(Row)
    /\ check' = [id |-> 1, st |-> Pre, up |-> FALSE]
    /\ data' = data + Row
    /\ UNCHANGED <<limit, peak, log, book, base, lease, op, at, torn, faults>>
    /\ UNCHANGED <<receipt, net, seen, staged, guard>> /\ Others

---------------------------------------------------------------------------
(* upload: announce, send, ask.                                            *)

\* What is sent next, and how it is announced.
Announce(from, kind, st) ==
    /\ Step(from, kind) /\ Saves(st, check.up)
    /\ UNCHANGED <<receipt, net, seen, staged, guard>> /\ Others /\ Root

Begin ==
    /\ w = "go" /\ check.st = Pre
    /\ \/ ~big /\ Announce("go", "single", "complete_unknown")
       \/ big /\ Announce("go", "init", "init_unknown")

Send ==
    /\ w \in DOMAIN Awaits
    /\ net' = net \cup {Request(w)} /\ w' = Awaits[w]
    /\ UNCHANGED <<receipt, check, seen, staged, guard>> /\ Others /\ Root

\* The site answers once it has dealt with the request.
Settled(k) ==
    /\ Request(k) \notin net
    /\ CASE k \in {"single", "complete"} -> remote[check.id] = "ready"
         [] k = "init"  -> remote[check.id] # "absent"
         [] k = "chunk" -> remote[check.id] # "open"

Answered ==
    \/ \E k \in {"single", "complete"} :
         /\ Step(Awaits[k], "adopt") /\ Settled(k)
         /\ Saves("result_ready", check.up)
    \/ /\ Step("sent_init", "ask") /\ Settled("init")
       /\ Saves("uploading", TRUE)
    \/ /\ Step("sent_chunk", "ask") /\ Settled("chunk")
       /\ UNCHANGED check

\* A delivery that has its result removes its temporary copy.
Discards ==
    IF w' = "adopt" /\ staged
    THEN /\ staged' = FALSE /\ data' = data - Asset
         /\ UNCHANGED <<limit, peak, log, book, base, lease, op, at, torn, faults>>
    ELSE UNCHANGED staged /\ Root

Receive ==
    /\ Answered
    /\ UNCHANGED <<receipt, net, seen, guard>> /\ Others
    /\ Discards

\* A checkpoint that is past "prepared", or a session, starts with a question.
Ask ==
    /\ \/ w = "ask" /\ w' = "seen"
       \/ w = "go" /\ check.st # Pre /\ w' = "told"
    /\ seen' = remote[check.id]
    /\ UNCHANGED <<receipt, check, net, staged, guard>> /\ Others /\ Root

ConfirmedOrBegun(s) == s \in {"ready", "importing"}   \* a slip
Confirmed(s) == s = "ready"
NotStartedAnew ==   \* a slip: a retry gets an operation id of its own
    CanWrite(Row) /\ check' = [id |-> 2, st |-> Pre, up |-> FALSE]
NotStarted == Saves(Pre, FALSE)

\* What the answer allows.  "told" is the first question of a resumed upload,
\* "seen" one within a session of chunks.
Follow ==
    /\ \/ /\ w \in {"told", "seen"} /\ Confirmed(seen)
          /\ Saves("result_ready", check.up) /\ w' = "adopt"
       \/ /\ w = "told" /\ seen = "absent" /\ ~check.up
          /\ NotStarted /\ w' = "go"
       \/ /\ w = "told" /\ seen \in {"open", "full"} /\ big
          /\ IF check.up THEN UNCHANGED check ELSE Saves("uploading", TRUE)
          /\ w' = "ask"
       \/ /\ w = "seen" /\ seen = "open"
          /\ w' = "chunk" /\ UNCHANGED check
       \/ /\ w = "seen" /\ seen = "full"
          /\ Saves("complete_unknown", check.up) /\ w' = "complete"
    /\ UNCHANGED <<receipt, net, seen, guard>> /\ Others
    /\ Discards

\* The attachment goes into the receipt, and with it into the callback.
Adopt ==
    /\ Step("adopt", "idle") /\ CanWrite(Row)
    /\ receipt' = "done"
    /\ guard' = IF guard = "delivery" THEN None ELSE guard
    /\ UNCHANGED <<check, net, seen, staged>> /\ Others /\ Root

EndsLocked ==   \* a slip: the lock of the key is not given back
    /\ w' = "idle" /\ staged' = FALSE
    /\ UNCHANGED <<receipt, check, net, seen, guard>> /\ Others

Ends ==
    /\ w' = "idle" /\ staged' = FALSE
    /\ guard' = IF guard = "delivery" THEN None ELSE guard
    /\ UNCHANGED <<receipt, check, net, seen>> /\ Others

\* A refused write, an answer that allows nothing, or a site that does not
\* know: the delivery ends with an error and may be repeated.
Refused ==
    \/ w \in {"staged", "fresh"} /\ ~CanWrite(Asset)
    \/ w \in {"copied", "go", "adopt"} /\ ~CanWrite(Row)
    \/ w \in {"sent_single", "sent_complete"} /\ remote[check.id] = "unknown"
    \/ w \in {"sent_single", "sent_complete", "sent_init", "told", "seen"} /\ ~CanWrite(Row)
    \/ w \in {"told", "seen"} /\ seen \in {"importing", "unknown"}
    \/ w = "told" /\ seen = "absent" /\ check.up
    \/ w = "seen" /\ seen = "absent"
    \/ w = "staged" /\ guard # None

Stop == w # "idle" /\ Refused /\ Ends /\ Root

\* A request, a question or a write fails.
Lose ==
    /\ w # "idle" /\ Ends /\ Fault
    /\ UNCHANGED <<limit, peak, data, log, book, base, lease, op, at, torn>>

---------------------------------------------------------------------------
(* reconcile: the operator settles an import the site does not know.       *)

Inspect ==
    /\ oper = "idle" /\ check # None /\ check.st # "result_ready"
    /\ guard = None /\ guard' = "operator"
    /\ oper' = remote[check.id]
    /\ UNCHANGED <<big, receipt, check, remote, imports, net, w, seen, staged>> /\ Root

\* The operator names the attachment, and the site verifies it.
Verify ==
    /\ oper = "unknown" /\ oper' = "ready"
    /\ remote' = [remote EXCEPT ![check.id] = "ready"]
    /\ UNCHANGED <<big, receipt, check, imports, net, w, seen, staged, guard>> /\ Root

Conclude ==
    /\ oper # "idle" /\ oper' = "idle" /\ guard' = None
    /\ IF Confirmed(oper) /\ CanWrite(Row)
       THEN Saves("result_ready", check.up)
       ELSE UNCHANGED check
    /\ UNCHANGED <<big, receipt, remote, imports, net, w, seen, staged>> /\ Root

---------------------------------------------------------------------------
\* The process dies with all that is not on disk; requests are on their way.
Crash ==
    /\ RootCrash
    /\ w' = "idle" /\ staged' = FALSE /\ guard' = None /\ oper' = "idle"
    /\ UNCHANGED <<big, receipt, check, remote, imports, net, seen>>

DeliveryStep == Deliver \/ Stage \/ Copy \/ Publish \/ Send \/ Receive \/ Ask
                \/ Begin \/ Follow \/ Adopt \/ Stop

Site == (\E r \in net : Arrive(r)) \/ (\E i \in Ops : Import(i))
Operator == Inspect \/ Verify \/ Conclude
RootStep == (UnitStep \/ OtherStep) /\ UNCHANGED mediaVars

Init == RootInit /\ MediaInit
Next == RootStep \/ DeliveryStep \/ Lose \/ Site \/ Operator \/ Crash

(***************************************************************************)
(* The executor repeats an unfinished delivery, requests arrive and the    *)
(* site finishes what it has begun, a dialogue of the operator ends and    *)
(* another process lets go of the lock.  Nobody has to open a dialogue, to *)
(* clear a log or to raise a limit.                                        *)
(***************************************************************************)
Fairness == /\ WF_vars(DeliveryStep)
            /\ SF_vars(Deliver)
            /\ WF_vars(Site)
            /\ WF_vars(Conclude)
            /\ WF_vars(Drop /\ UNCHANGED mediaVars)
            /\ WF_vars((SaveJob \/ SaveFails \/ OpenAsset \/ WriteAsset
                        \/ FinishAsset \/ SaveResult) /\ UNCHANGED mediaVars)

Spec == Init /\ [][Next]_vars /\ Fairness

---------------------------------------------------------------------------
(* Properties *)

(***************************************************************************)
(* The site creates one attachment for one result, however often requests  *)
(* are repeated, arrive late or get no answer: a retry keeps the operation *)
(* id of the checkpoint, and no checkpoint is made a second time.          *)
(***************************************************************************)
ImportedOnce == imports <= 1

(***************************************************************************)
(* A saved attachment is one the site has confirmed for this operation: an *)
(* import in progress or of unknown outcome is never taken for a result,   *)
(* by the delivery or by the operator.                                     *)
(***************************************************************************)
AdoptedIsImported ==
    receipt = "done" \/ (check # None /\ check.st = "result_ready")
        => check # None /\ remote[check.id] = "ready"

(***************************************************************************)
(* An upload with a checkpoint comes to an end if the root keeps room for  *)
(* its records: the receipt gets the attachment, or the site itself does   *)
(* not know and it waits for the operator.                                 *)
(***************************************************************************)
UploadSettles ==
    (<>[]Fits(Row)) => (check # None ~> (\/ receipt = "done"
                                         \/ \E i \in Ops : remote[i] = "unknown"))
============================================================================
