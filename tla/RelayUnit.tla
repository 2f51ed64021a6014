----------------------------- MODULE RelayUnit -----------------------------
(***************************************************************************)
(* Site synchronisation of one post of one pair: the runs that look for a  *)
(* difference between the source site and what the client knows it sent,   *)
(* ship it through a persisted row (sync_inflight), and the inbox in which *)
(* a pair that reviews parks a packet until a person approves or rejects   *)
(* it.  The worker lane and the manual trigger may run one pair at a time  *)
(* each; the unit lease is all that keeps them apart.                      *)
(*                                                                         *)
(* Requests travel on an unreliable network.  The target commits a packet  *)
(* id once, answers for it ever after, and may refuse it as a conflict.    *)
(* Translation and media, which come before the packet is frozen, are the  *)
(* business of other modules.                                              *)
(***************************************************************************)
EXTENDS Integers, FiniteSets

CONSTANTS
  Runs,        \* runs of the pair that may be under way together
  Reviewers,   \* approve, edit and reject requests that may be under way
  Parks,       \* the pair parks its upserts in the review inbox
  MaxVersion,  \* versions the source may write
  MaxPackets,  \* packets the client may build
  MaxEdits,    \* edits of one parked packet
  MaxCrashes,  \* interruptions of a run or a request
  None

Actors == Runs \cup Reviewers

ASSUME ActorsAssumption == Runs \cap Reviewers = {} /\ None \notin Actors
ASSUME ParksAssumption == Parks \in BOOLEAN
ASSUME BoundsAssumption ==
  /\ MaxVersion \in Nat \ {0}
  /\ {MaxPackets, MaxEdits, MaxCrashes} \subseteq Nat

VARIABLES
  source,     \* the post on the source site
  known,      \* the entry of the post in the pair's state file
  row,        \* its row of sync_inflight
  lease,      \* the run that owns the unit lease
  item,       \* its pending item in the review file
  itemLease,  \* the reviewer that owns the item's lease
  job,        \* what each actor is at
  made,       \* packets built
  wire,       \* push requests under way
  sent,       \* every packet ever put on the wire
  committed,  \* what the target committed, and whether it accepted it
  target,     \* the post on the target site
  crashes

vars == <<source, known, row, lease, item, itemLease, job, made, wire, sent,
          committed, target, crashes>>
inbox == <<item, itemLease>>
unit == <<row, lease>>
network == <<wire, sent>>
world == <<source, committed, target>>

Versions == 1..MaxVersion
Want == [kind : {"upsert", "trash", "delete"}, ver : Versions]
Scope == [kind : {"upsert", "trash", "delete"}, ver : 0..MaxVersion]
Packet == [id : 1..MaxPackets, scope : Scope, body : 0..MaxEdits]
Known == [ver : Versions, st : {"live", "trash"}, rejected : BOOLEAN, shipped : BOOLEAN]
Row == [scope : Scope, packet : Packet \cup {None},
        phase : {"open", "prepared", "submitted"}, receipt : BOOLEAN]
Item == [packet : Packet, delivery : {"none", "saved", "submitted"}, receipt : BOOLEAN]
Source == [ver : Versions, st : {"live", "trash", "gone"}]

ASSUME NoneAssumption == None \notin Row \cup Packet \cup Item \cup Known

\* A tombstone names the post and the action: its scope has no version.
ScopeOf(want) == IF want.kind = "upsert" THEN want ELSE [want EXCEPT !.ver = 0]

Shipped(v) == [ver |-> v, st |-> "live", rejected |-> FALSE, shipped |-> TRUE]

Idle == [pc |-> "idle", entry |-> None, src |-> None, want |-> None,
         absent |-> FALSE, copy |-> None]

Owning == {"leased", "park", "mark", "query", "push", "answer", "save",
           "received", "close"}

Init ==
  /\ source = [ver |-> 1, st |-> "live"]
  /\ known = None
  /\ row = None /\ lease = None
  /\ item = None /\ itemLease = None
  /\ job = [a \in Actors |-> Idle]
  /\ made = 0
  /\ wire = {} /\ sent = {}
  /\ committed = {} /\ target = None
  /\ crashes = 0

Goto(a, pc) == job' = [job EXCEPT ![a].pc = pc]
Rest(a) == job' = [job EXCEPT ![a] = Idle]
Wants(a, pc, kind, v) ==
  job' = [job EXCEPT ![a] = [Idle EXCEPT !.pc = pc, !.want = [kind |-> kind, ver |-> v]]]

\* The packet an actor delivers: the frozen one of the row it owns, or the
\* one in its copy of the item.
PacketOf(a) == IF a \in Runs THEN row.packet ELSE job[a].copy.packet

\* Rejecting writes the state file inside the lock of the review file.
ReviewFree == \A v \in Reviewers : job[v].pc # "rejecting"

-----------------------------------------------------------------------------
(* Looking for a difference *)

\* A digest page lists the post; the known entry is read after it.
Look(r) ==
  /\ job[r].pc = "idle"
  /\ source.st # "gone"
  /\ job' = [job EXCEPT ![r].pc = "seen", ![r].src = source, ![r].entry = known]
  /\ UNCHANGED <<world, known, unit, inbox, made, network, crashes>>

\* A rotation reads a known entry, then asks the source about it.
Rotate(r) ==
  /\ job[r].pc = "idle"
  /\ known # None
  /\ job' = [job EXCEPT ![r].pc = "asked", ![r].entry = known]
  /\ UNCHANGED <<world, known, unit, inbox, made, network, crashes>>

NeverShipped(entry) == entry.rejected /\ ~entry.shipped

Forget(r) ==
  /\ known' = None
  /\ Rest(r)

Settled(entry, src) == IF entry = None THEN src.st = "trash" ELSE entry.ver = src.ver

Buries(entry, src) == entry # None /\ src.st = "trash" /\ entry.st # "trash"

\* The review file is read after the known entry: a pending item hides the post.
Decide(r) ==
  LET entry == job[r].entry  src == job[r].src IN
  /\ job[r].pc = "seen"
  /\ \/ /\ item # None \/ Settled(entry, src)
        /\ Rest(r) /\ UNCHANGED known
     \/ /\ item = None /\ ~Settled(entry, src) /\ Buries(entry, src)
        /\ \/ NeverShipped(entry) /\ Forget(r)
           \/ ~NeverShipped(entry) /\ Wants(r, "lease", "trash", src.ver) /\ UNCHANGED known
     \/ /\ item = None /\ ~Settled(entry, src) /\ ~Buries(entry, src)
        /\ job' = [job EXCEPT ![r] = [Idle EXCEPT !.pc = "pull"]]
        /\ UNCHANGED known
  /\ UNCHANGED <<world, unit, inbox, made, network, crashes>>

\* "missing" is acted on whatever the inbox holds; "source_newer" is not.
Verdict(r) ==
  LET entry == job[r].entry IN
  /\ job[r].pc = "asked"
  /\ \/ /\ source.st = "gone"
        /\ \/ NeverShipped(entry) /\ Forget(r)
           \/ ~NeverShipped(entry) /\ Wants(r, "lease", "delete", entry.ver) /\ UNCHANGED known
     \/ /\ source.st # "gone" /\ source.ver # entry.ver
        /\ job' = [job EXCEPT ![r] = [Idle EXCEPT !.pc = "newer"]]
        /\ UNCHANGED known
     \/ /\ source.st # "gone" /\ source.ver = entry.ver
        /\ Rest(r) /\ UNCHANGED known
  /\ UNCHANGED <<world, unit, inbox, made, network, crashes>>

Newer(r) ==
  /\ job[r].pc = "newer"
  /\ IF item = None THEN Goto(r, "pull") ELSE Rest(r)
  /\ UNCHANGED <<world, known, unit, inbox, made, network, crashes>>

\* The source answers a pull with the version it has by now.
Pull(r) ==
  /\ job[r].pc = "pull"
  /\ IF source.st = "live" THEN Wants(r, "lease", "upsert", source.ver) ELSE Rest(r)
  /\ UNCHANGED <<world, known, unit, inbox, made, network, crashes>>

-----------------------------------------------------------------------------
(* Shipping through the row *)

UnitFree == lease = None

ReopensAlways(want) == TRUE  \* slip: a newer version takes the row over

Reopens(want) == row = None \/ row.scope = ScopeOf(want)

NewRow(want) ==
  [scope |-> ScopeOf(want), packet |-> None, phase |-> "open", receipt |-> FALSE]

\* The unit lease, the check of the unfinished row, then begin_shipping.
Acquire(r) ==
  /\ job[r].pc = "lease"
  /\ IF UnitFree /\ Reopens(job[r].want)
     THEN /\ lease' = r
          /\ row' = IF row # None /\ row.scope = ScopeOf(job[r].want) THEN row
                    ELSE NewRow(job[r].want)
          /\ Goto(r, "leased")
     ELSE Rest(r) /\ UNCHANGED unit
  /\ UNCHANGED <<world, known, inbox, made, network, crashes>>

\* Where the frozen packet of the row goes next.
Continue(frozen) ==
  IF Parks /\ frozen.scope.kind = "upsert" THEN "park"
  ELSE IF frozen.receipt THEN "received"
  ELSE IF frozen.phase = "submitted" THEN "query" ELSE "mark"

\* A resumed row keeps the packet it froze; a fresh one freezes its own.
Freeze(r) ==
  /\ job[r].pc = "leased"
  /\ \/ /\ row.packet # None
        /\ UNCHANGED <<row, made>>
     \/ /\ row.packet = None /\ made < MaxPackets
        /\ made' = made + 1
        /\ row' = [row EXCEPT !.phase = "prepared",
                     !.packet = [id |-> made + 1, scope |-> row.scope, body |-> 0]]
  /\ Goto(r, Continue(row'))
  /\ UNCHANGED <<world, known, lease, inbox, network, crashes>>

ReplaceableAlways == TRUE  \* slip: the delivery of the pending item is not looked at

\* A pending item is replaced unless its delivery has begun.
Replaceable == item = None \/ item.delivery = "none"

Park(r) ==
  /\ job[r].pc = "park" /\ ReviewFree
  /\ item' = IF Replaceable
             THEN [packet |-> row.packet, delivery |-> "none", receipt |-> FALSE]
             ELSE item
  /\ Goto(r, "close")
  /\ UNCHANGED <<world, known, unit, itemLease, made, network, crashes>>

\* The source freezes its own authority first (/sync/prepare).
Mark(r) ==
  /\ job[r].pc = "mark"
  /\ row' = [row EXCEPT !.phase = "submitted"]
  /\ Goto(r, "push")
  /\ UNCHANGED <<world, known, lease, inbox, made, network, crashes>>

Save(r) ==
  /\ job[r].pc = "save"
  /\ row' = [row EXCEPT !.receipt = TRUE]
  /\ Goto(r, "received")
  /\ UNCHANGED <<world, known, lease, inbox, made, network, crashes>>

\* The source confirms the mapping, then the state file learns the version.
\* A tombstone closes its row first.
Learn(r) ==
  /\ job[r].pc = "received"
  /\ known' = IF row.scope.kind = "upsert" THEN Shipped(job[r].want.ver) ELSE known
  /\ Goto(r, "close")
  /\ UNCHANGED <<world, unit, inbox, made, network, crashes>>

Close(r) ==
  /\ job[r].pc = "close"
  /\ row' = None /\ lease' = None
  /\ IF row.scope.kind = "upsert" THEN Rest(r) ELSE Goto(r, "after")
  /\ UNCHANGED <<world, known, inbox, made, network, crashes>>

\* The lease is gone when the state file learns of a tombstone.
After(r) ==
  LET want == job[r].want IN
  /\ job[r].pc = "after"
  /\ known' = IF want.kind = "delete" \/ known = None THEN None
              ELSE [known EXCEPT !.st = "trash", !.ver = want.ver]
  /\ Rest(r)
  /\ UNCHANGED <<world, unit, inbox, made, network, crashes>>

-----------------------------------------------------------------------------
(* Reviewing a parked packet *)

ItemFree == itemLease = None

UndeliveredOrNot == item # None  \* slip: only the status of the item is looked at

Undelivered == item # None /\ item.delivery = "none"

Edit(v) ==
  /\ job[v].pc = "idle" /\ ItemFree /\ ReviewFree
  /\ Undelivered /\ item.packet.body < MaxEdits
  /\ item' = [item EXCEPT !.packet.body = @ + 1]
  /\ UNCHANGED <<world, known, unit, itemLease, job, made, network, crashes>>

\* A rejected version counts as known, so that it is not offered again.
RejectKnown(v) ==
  /\ job[v].pc = "idle" /\ ItemFree /\ ReviewFree
  /\ Undelivered
  /\ itemLease' = v
  /\ known' = [ver |-> item.packet.scope.ver, st |-> "live", rejected |-> TRUE,
               shipped |-> IF known = None THEN FALSE ELSE known.shipped]
  /\ Goto(v, "rejecting")
  /\ UNCHANGED <<world, unit, item, made, network, crashes>>

RejectItem(v) ==
  /\ job[v].pc = "rejecting"
  /\ item' = None /\ itemLease' = None
  /\ Rest(v)
  /\ UNCHANGED <<world, known, unit, made, network, crashes>>

ResumeBlind(delivery) ==  \* slip: a saved intent is all that is looked for
  IF delivery = "none" THEN "intend" ELSE "mark"

\* Where an approval takes an item up.
Resume(delivery) ==
  CASE delivery = "none" -> "intend"
    [] delivery = "saved" -> "mark"
    [] delivery = "submitted" -> "query"

\* An approval takes the item's lease and a copy of the item.
Open(v) ==
  /\ job[v].pc = "idle" /\ ItemFree
  /\ item # None
  /\ itemLease' = v
  /\ job' = [job EXCEPT ![v].copy = item,
       ![v].pc = IF item.receipt THEN "received" ELSE Resume(item.delivery)]
  /\ UNCHANGED <<world, known, unit, item, made, network, crashes>>

\* Every write of the approval first compares the item with its copy.
Unaltered(v) == item = job[v].copy

Rewrite(v, new, pc) ==
  /\ ReviewFree
  /\ IF Unaltered(v)
     THEN /\ item' = new /\ UNCHANGED itemLease
          /\ job' = [job EXCEPT ![v].copy = new, ![v].pc = pc]
     ELSE /\ itemLease' = None /\ Rest(v)
          /\ UNCHANGED item
  /\ UNCHANGED <<world, known, unit, made, network, crashes>>

Intend(v) ==
  /\ job[v].pc = "intend"
  /\ Rewrite(v, [job[v].copy EXCEPT !.delivery = "saved"], "mark")

Submit(v) ==
  /\ job[v].pc = "mark"
  /\ Rewrite(v, [job[v].copy EXCEPT !.delivery = "submitted"], "push")

SaveReceipt(v) ==
  /\ job[v].pc = "save"
  /\ Rewrite(v, [job[v].copy EXCEPT !.receipt = TRUE], "received")

\* The source confirms the mapping, then the state file learns the version.
Approve(v) ==
  /\ job[v].pc = "received"
  /\ known' = Shipped(job[v].copy.packet.scope.ver)
  /\ Goto(v, "finish")
  /\ UNCHANGED <<world, unit, inbox, made, network, crashes>>

Finish(v) ==
  /\ job[v].pc = "finish" /\ ReviewFree
  /\ item' = IF Unaltered(v) THEN None ELSE item
  /\ itemLease' = None
  /\ Rest(v)
  /\ UNCHANGED <<world, known, unit, made, network, crashes>>

-----------------------------------------------------------------------------
(* Delivering a packet, for a run and for an approval *)

Push(a) ==
  /\ job[a].pc = "push"
  /\ wire' = wire \cup {PacketOf(a)}
  /\ sent' = sent \cup {PacketOf(a)}
  /\ job' = [job EXCEPT ![a].pc = "answer", ![a].absent = FALSE]
  /\ UNCHANGED <<world, known, unit, inbox, made, crashes>>

Verdicts(packet) == {c \in committed : c.packet.id = packet.id}

\* "success" and "skipped" complete a packet; "conflict" keeps it.
Succeeds(c) == c.ok

AbsentNever(a) == FALSE  \* slip: absence is an error like any other

Absent(a) == Verdicts(PacketOf(a)) = {}

Releases(a) ==
  /\ lease' = IF lease = a THEN None ELSE lease
  /\ itemLease' = IF itemLease = a THEN None ELSE itemLease
  /\ Rest(a)

\* The push is answered with what the target committed for the packet id.
Answer(a) ==
  /\ job[a].pc = "answer"
  /\ \E c \in Verdicts(PacketOf(a)) :
       IF Succeeds(c) THEN Goto(a, "save") /\ UNCHANGED <<lease, itemLease>> ELSE Releases(a)
  /\ UNCHANGED <<world, known, row, item, made, network, crashes>>

\* A packet submitted before is asked for first.  Only the target's proof
\* that it holds nothing of it lets the same packet go again.
Query(a) ==
  /\ job[a].pc = "query"
  /\ \/ /\ Absent(a)
        /\ job' = [job EXCEPT ![a].pc = "push", ![a].absent = TRUE]
        /\ UNCHANGED <<lease, itemLease>>
     \/ \E c \in Verdicts(PacketOf(a)) :
          IF Succeeds(c) THEN Goto(a, "save") /\ UNCHANGED <<lease, itemLease>> ELSE Releases(a)
  /\ UNCHANGED <<world, known, row, item, made, network, crashes>>

\* Any request may fail or time out; a run notes the error on its row.
Fail(a) ==
  /\ job[a].pc \in {"seen", "asked", "newer", "pull", "lease", "leased", "park",
                    "mark", "query", "push", "answer", "save", "received"}
  /\ Releases(a)
  /\ UNCHANGED <<world, known, row, item, made, network, crashes>>

\* The process ends, or a local store refuses a write: the leases go.
Crash(a) ==
  /\ job[a].pc # "idle" /\ crashes < MaxCrashes
  /\ crashes' = crashes + 1
  /\ Releases(a)
  /\ UNCHANGED <<world, known, row, item, made, network>>

-----------------------------------------------------------------------------
(* The two sites and the network *)

Write ==
  /\ source.st # "gone" /\ source.ver < MaxVersion
  /\ \E st \in {"live", "trash"} :
       /\ st = "live" \/ source.st = "live"
       /\ source' = [ver |-> source.ver + 1, st |-> st]
  /\ UNCHANGED <<known, unit, inbox, job, made, network, committed, target, crashes>>

Delete ==
  /\ source.st # "gone"
  /\ source' = [source EXCEPT !.st = "gone"]
  /\ UNCHANGED <<known, unit, inbox, job, made, network, committed, target, crashes>>

Effect(scope) ==
  CASE scope.kind = "upsert" -> [ver |-> scope.ver, st |-> "live"]
    [] scope.kind = "trash" -> IF target = None THEN None ELSE [target EXCEPT !.st = "trash"]
    [] scope.kind = "delete" -> None

\* A packet id already committed has no second effect.
Apply ==
  \E p \in wire :
    /\ wire' = wire \ {p}
    /\ IF Verdicts(p) # {} THEN UNCHANGED <<committed, target>>
       ELSE \E ok \in BOOLEAN :
              /\ committed' = committed \cup {[packet |-> p, ok |-> ok]}
              /\ target' = IF ok THEN Effect(p.scope) ELSE target
    /\ UNCHANGED <<source, known, unit, inbox, job, made, sent, crashes>>

Lose ==
  /\ \E p \in wire : wire' = wire \ {p}
  /\ UNCHANGED <<world, known, unit, inbox, job, made, sent, crashes>>

-----------------------------------------------------------------------------
RunStep(r) ==
  \/ Look(r) \/ Decide(r) \/ Rotate(r) \/ Verdict(r) \/ Newer(r) \/ Pull(r)
  \/ Acquire(r) \/ Freeze(r) \/ Park(r) \/ Mark(r) \/ Save(r) \/ Learn(r)
  \/ Close(r) \/ After(r)

ReviewStep(v) ==
  \/ Edit(v) \/ RejectKnown(v) \/ RejectItem(v) \/ Open(v) \/ Intend(v)
  \/ Submit(v) \/ SaveReceipt(v) \/ Approve(v) \/ Finish(v)

Deliver(a) == Push(a) \/ Answer(a) \/ Query(a)

Next ==
  \/ \E r \in Runs : RunStep(r)
  \/ \E v \in Reviewers : ReviewStep(v)
  \/ \E a \in Actors : Deliver(a) \/ Fail(a) \/ Crash(a)
  \/ Write \/ Delete \/ Apply \/ Lose

Spec == Init /\ [][Next]_vars

\* A push returns, with its answer or an error.
Returns(r) == job[r].pc = "answer" /\ (Answer(r) \/ Fail(r))

\* A run is started again and again, no step of it fails for ever, and a
\* packet that is sent again and again arrives.
Fairness ==
  /\ SF_vars(Apply)
  /\ \A r \in Runs :
       /\ WF_vars(known = None /\ Look(r)) /\ WF_vars(Rotate(r))
       /\ WF_vars(Close(r)) /\ WF_vars(After(r)) /\ WF_vars(Returns(r))
       /\ SF_vars(Decide(r)) /\ SF_vars(Verdict(r)) /\ SF_vars(Newer(r))
       /\ SF_vars(Pull(r)) /\ SF_vars(Acquire(r)) /\ SF_vars(Freeze(r))
       /\ SF_vars(Mark(r)) /\ SF_vars(Push(r)) /\ SF_vars(Query(r))
       /\ SF_vars(Save(r)) /\ SF_vars(Learn(r))

LiveSpec == Spec /\ Fairness

-----------------------------------------------------------------------------
TypeOK ==
  /\ source \in Source
  /\ known \in Known \cup {None}
  /\ row \in Row \cup {None} /\ lease \in Runs \cup {None}
  /\ item \in Item \cup {None} /\ itemLease \in Reviewers \cup {None}
  /\ made \in 0..MaxPackets /\ crashes \in 0..MaxCrashes
  /\ sent \subseteq Packet /\ wire \subseteq sent
  /\ committed \subseteq [packet : Packet, ok : BOOLEAN]
  /\ target \in [ver : Versions, st : {"live", "trash"}] \cup {None}
  /\ \A r \in Runs :
       /\ job[r].pc \in {"idle", "seen", "asked", "newer", "pull", "lease", "after"} \cup Owning
       /\ lease = r <=> job[r].pc \in Owning
       /\ job[r].pc \in Owning => row # None /\ row.scope = ScopeOf(job[r].want)
       /\ job[r].pc \in Owning \ {"leased"} => row.packet # None
  /\ \A v \in Reviewers : itemLease = v <=> job[v].pc # "idle"

Accepted(p) == \E c \in committed : c.packet.id = p.id /\ c.ok

\* The evidence of a packet that may have reached the target.
Retained(p) ==
  \/ row # None /\ row.packet = p /\ row.phase = "submitted"
  \/ item # None /\ item.packet = p /\ item.delivery = "submitted"

(* A packet that left for the target and is not known to be accepted there *)
(* is never given up: the row or the pending item keeps it, marked as      *)
(* submitted, through crashes, refusals, timeouts and newer versions.      *)
NothingForgotten == \A p \in sent : Accepted(p) \/ Retained(p)

(* A packet that has ever been sent goes again only on the target's proof  *)
(* that it holds nothing of it.                                            *)
NoBlindRepeat ==
  \A a \in Actors : job[a].pc = "push" /\ ~job[a].absent =>
    \A p \in sent : p.id # PacketOf(a).id

(* The same in a pair that reviews, for as long as nothing is interrupted:  *)
(* a row that an interruption leaves behind its park may be parked again,   *)
(* as an item that knows nothing of the first delivery.                     *)
ApprovalsAskFirst == crashes = 0 => NoBlindRepeat

(* What the state file says was shipped has been accepted by the target,   *)
(* in that very version; what it says is trashed, was trashed there.       *)
KnownIsApplied ==
  known # None /\ ~known.rejected =>
    \E c \in committed :
      /\ c.ok
      /\ IF known.st = "live" THEN c.packet.scope = [kind |-> "upsert", ver |-> known.ver]
         ELSE c.packet.scope.kind = "trash"

(* From its saved intent on, an approval delivers the pending item as it   *)
(* stands: no edit, rejection, second approval or newer park replaces it.  *)
DeliversPending ==
  \A v \in Reviewers :
    job[v].pc \in {"mark", "query", "push", "answer", "save", "received", "finish"} =>
      item = job[v].copy

(* A post the target holds can still be taken off it: the state file knows *)
(* it, or evidence of the packet that put it there is retained.            *)
HeldCopyIsTracked == target # None => known # None \/ row # None \/ item # None

\* The row of another version is kept, or the target refused its packet.
Blocked ==
  /\ row # None
  /\ \/ row.scope.ver # source.ver
     \/ \E c \in committed : c.packet = row.packet /\ ~c.ok

(* The last version of a post that stays published reaches the target and  *)
(* the state file.  Only an unfinished row of an older version, or a       *)
(* conflict, keeps it away.                                                *)
VersionShips ==
  [](source.st = "live") =>
    <>[](Blocked \/ (known # None /\ known.ver = source.ver))
=============================================================================
