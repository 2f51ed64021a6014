-------------------------- MODULE RelayUnit_proofs --------------------------
(***************************************************************************)
(* Proofs about RelayUnit for any number of runs, reviewers, versions,     *)
(* packets, edits and interruptions. Typed adds to the type invariant what *)
(* an actor knows at its place; Evidence, where the trace of a packet that *)
(* has left is kept; Truth, that a packet id stands for one scope and that *)
(* a run with a finished tombstone has the target's word for it; Fresh,    *)
(* that what goes without asking has never gone before; Tracked, what a    *)
(* run without a rival knows of the copy on the target.                    *)
(***************************************************************************)
EXTENDS RelayUnit, TLAPS

\* A reviewer at work on its copy of the item.
Approving == {"intend", "mark", "query", "push", "answer", "save", "received", "finish"}
Delivering == Approving \ {"intend"}

PC == {"idle", "seen", "asked", "newer", "pull", "lease", "after", "rejecting"}
        \cup Owning \cup Approving

Job == [pc : PC, entry : Known \cup {None}, src : Source \cup {None},
        want : Want \cup {None}, absent : BOOLEAN, copy : Item \cup {None}]

\* An upsert names the version it carries.
Genuine(scope) == scope.kind = "upsert" => scope.ver \in Versions
Parkable(scope) == scope.kind = "upsert" /\ scope.ver \in Versions

Stores ==
  /\ source \in Source
  /\ known \in Known \cup {None}
  /\ row \in Row \cup {None} /\ item \in Item \cup {None}
  /\ made \in 0..MaxPackets /\ crashes \in 0..MaxCrashes
  /\ sent \subseteq Packet /\ wire \subseteq sent
  /\ committed \subseteq [packet : sent, ok : BOOLEAN]
  /\ target \in [ver : Versions, st : {"live", "trash"}] \cup {None}
  /\ row # None => Genuine(row.scope)
  /\ row # None /\ row.packet # None => row.packet.scope = row.scope
  /\ item # None => Parkable(item.packet.scope)
  /\ \A p \in sent : Genuine(p.scope)

RunPlaced(r) ==
  /\ job[r].pc \in {"idle", "seen", "asked", "newer", "pull", "lease", "after"} \cup Owning
  /\ lease = r <=> job[r].pc \in Owning
  /\ job[r].pc = "seen" => job[r].src \in Source
  /\ job[r].pc = "asked" => job[r].entry \in Known
  /\ job[r].pc \in {"lease", "after"} \cup Owning => job[r].want \in Want
  /\ job[r].pc = "after" => job[r].want.kind # "upsert"
  /\ job[r].pc \in Owning => row # None /\ row.scope = ScopeOf(job[r].want)
  /\ job[r].pc \in Owning \ {"leased"} => row.packet # None
  /\ job[r].pc = "park" => Parks /\ row.scope.kind = "upsert"

ReviewPlaced(v) ==
  /\ job[v].pc \in {"idle", "rejecting"} \cup Approving
  /\ itemLease = v <=> job[v].pc # "idle"
  /\ job[v].pc \in Approving =>
       job[v].copy \in Item /\ Parkable(job[v].copy.packet.scope)

Places ==
  /\ job \in [Actors -> Job]
  /\ lease \in Runs \cup {None} /\ itemLease \in Reviewers \cup {None}
  /\ \A r \in Runs : RunPlaced(r)
  /\ \A v \in Reviewers : ReviewPlaced(v)

Typed == Stores /\ Places

\* What the row and the item say of their packets.
Records ==
  /\ row # None =>
       /\ row.packet = None => row.phase = "open" /\ ~row.receipt
       /\ row.receipt => Accepted(row.packet)
       /\ Parks /\ row.scope.kind = "upsert" => row.phase # "submitted"
  /\ item # None /\ item.receipt => Accepted(item.packet) /\ item.delivery # "none"

\* What an actor that delivers knows of its packet.
RunDelivers(r) ==
  /\ job[r].pc \in {"query", "push", "answer", "save"} => row.phase = "submitted"
  /\ job[r].pc \in {"mark", "query", "push", "answer", "save", "received"} =>
       ~(Parks /\ row.scope.kind = "upsert")
  /\ job[r].pc \in {"save", "received"} => Accepted(row.packet)
  /\ job[r].pc = "close" => Accepted(row.packet) \/ (Parks /\ row.scope.kind = "upsert")

ReviewDelivers(v) ==
  /\ job[v].pc = "rejecting" => item # None /\ item.delivery = "none"
  /\ job[v].pc = "intend" => job[v].copy.delivery = "none"
  /\ job[v].pc \in Delivering => item = job[v].copy /\ item.delivery # "none"
  /\ job[v].pc \in Approving /\ job[v].copy.receipt => Accepted(job[v].copy.packet)
  /\ job[v].pc \in {"query", "push", "answer", "save"} => item.delivery = "submitted"
  /\ job[v].pc \in {"save", "received", "finish"} => Accepted(item.packet)

Deliveries ==
  /\ \A r \in Runs : RunDelivers(r)
  /\ \A v \in Reviewers : ReviewDelivers(v)

Evidence == Records /\ Deliveries /\ NothingForgotten

\* Every packet that may still be sent, or was.
Exists(p) ==
  \/ p \in sent
  \/ row # None /\ row.packet = p
  \/ item # None /\ item.packet = p

Named ==
  \A p, q \in Packet : Exists(p) /\ Exists(q) =>
    p.id <= made /\ (p.id = q.id => p.scope = q.scope)

\* A run whose tombstone is done has the target's word for it.
Buried ==
  \A r \in Runs : job[r].pc = "after" =>
    \E c \in committed : c.ok /\ c.packet.scope.kind = job[r].want.kind

-----------------------------------------------------------------------------
(* Type correctness.                                                        *)

LEMMA TypedIsTypeOK == Typed => TypeOK
  BY DEF Typed, Stores, Places, RunPlaced, ReviewPlaced, TypeOK

LEMMA IdleJob == Idle \in Job
  BY DEF Idle, Job, PC

LEMMA WantScope ==
  ASSUME NEW w \in Want
  PROVE  ScopeOf(w) \in Scope /\ ScopeOf(w).kind = w.kind /\ Genuine(ScopeOf(w))
         /\ (w.kind = "upsert" => ScopeOf(w) = w)
  BY BoundsAssumption DEF ScopeOf, Want, Scope, Genuine, Versions

\* A run that moves leaves the row of another owner alone.
LEMMA RunMoves ==
  ASSUME Places, NEW r \in Runs, NEW j \in Job,
         job' = [job EXCEPT ![r] = j],
         UNCHANGED itemLease,
         lease' = IF j.pc \in Owning THEN r ELSE IF lease = r THEN None ELSE lease,
         j.pc \in Owning => lease \in {r, None},
         lease \notin {r, None} => row' = row,
         RunPlaced(r)'
  PROVE  Places'
  <1>1. /\ job' \in [Actors -> Job]
        /\ \A a \in Actors : a # r => job'[a] = job[a]
    BY DEF Places, Actors
  <1>2. \A s \in Runs : RunPlaced(s)'
    BY <1>1, ActorsAssumption DEF Places, RunPlaced, Actors
  <1>3. \A v \in Reviewers : ReviewPlaced(v)'
    BY <1>1, ActorsAssumption DEF Places, ReviewPlaced, Actors
  <1> QED
    BY <1>1, <1>2, <1>3 DEF Places

LEMMA ReviewMoves ==
  ASSUME Places, NEW v \in Reviewers, NEW j \in Job,
         job' = [job EXCEPT ![v] = j],
         UNCHANGED <<row, lease>>,
         itemLease' = IF j.pc # "idle" THEN v ELSE IF itemLease = v THEN None ELSE itemLease,
         j.pc # "idle" => itemLease \in {v, None},
         ReviewPlaced(v)'
  PROVE  Places'
  <1>1. /\ job' \in [Actors -> Job]
        /\ \A a \in Actors : a # v => job'[a] = job[a]
    BY DEF Places, Actors
  <1>2. \A r \in Runs : RunPlaced(r)'
    BY <1>1, ActorsAssumption DEF Places, RunPlaced, Actors
  <1>3. \A w \in Reviewers : ReviewPlaced(w)'
    BY <1>1, ActorsAssumption DEF Places, ReviewPlaced, Actors
  <1> QED
    BY <1>1, <1>2, <1>3 DEF Places

\* The packet that an actor delivers.
LEMMA PacketTyped ==
  ASSUME Typed, NEW a \in Actors,
         a \in Runs => job[a].pc \in Owning \ {"leased"},
         a \in Reviewers => job[a].pc \in Approving
  PROVE  PacketOf(a) \in Packet /\ Genuine(PacketOf(a).scope)
  <1>1. CASE a \in Runs
    <2>1. row \in Row /\ row.packet # None /\ row.packet.scope = row.scope /\ Genuine(row.scope)
      BY <1>1 DEF Typed, Stores, Places, RunPlaced
    <2> QED
      BY <1>1, <2>1 DEF PacketOf, Row
  <1>2. CASE a \in Reviewers
    <2>1. job[a].copy \in Item /\ Parkable(job[a].copy.packet.scope) /\ a \notin Runs
      BY <1>2, ActorsAssumption DEF Typed, Places, ReviewPlaced
    <2> QED
      BY <2>1 DEF PacketOf, Item, Parkable, Genuine
  <1> QED
    BY <1>1, <1>2 DEF Actors

LEMMA ItemTyped ==
  ASSUME Typed, item # None
  PROVE  /\ item \in Item /\ item.packet \in Packet /\ Parkable(item.packet.scope)
         /\ item.packet.scope \in Scope /\ item.packet.scope.ver \in Versions
  BY DEF Typed, Stores, Item, Packet, Parkable

LEMMA RewriteTyped ==
  ASSUME Typed, NEW v \in Reviewers, job[v].pc \in Approving,
         NEW new \in Item, new.packet = job[v].copy.packet,
         NEW pc, Rewrite(v, new, pc)
  PROVE  Stores'
  BY DEF Rewrite, Typed, Stores, Places, ReviewPlaced, world, unit, network

\* A packet frozen from the row.
LEMMA FrozenTyped ==
  ASSUME Stores, row # None, made < MaxPackets,
         row' = [row EXCEPT !.phase = "prepared",
                   !.packet = [id |-> made + 1, scope |-> row.scope, body |-> 0]]
  PROVE  /\ row' \in Row /\ row' # None /\ row'.scope = row.scope
         /\ row'.packet \in Packet /\ row'.packet # None /\ row'.packet.scope = row.scope
         /\ row'.packet.id = made + 1 /\ row'.phase = "prepared" /\ row'.receipt = row.receipt
  <1>1. row \in Row /\ made + 1 \in 1..MaxPackets /\ 0 \in 0..MaxEdits
    BY BoundsAssumption DEF Stores
  <1>2. [id |-> made + 1, scope |-> row.scope, body |-> 0] \in Packet
    BY <1>1 DEF Packet, Row
  <1> QED
    BY <1>1, <1>2, NoneAssumption DEF Row

LEMMA NewRowTyped ==
  ASSUME NEW w \in Want
  PROVE  NewRow(w) \in Row /\ NewRow(w) # None /\ NewRow(w).scope = ScopeOf(w)
  <1>1. NewRow(w) \in Row
    BY WantScope DEF NewRow, Row
  <1> QED
    BY <1>1, NoneAssumption DEF NewRow

LEMMA StoresStep ==
  ASSUME Typed, [Next]_vars
  PROVE  Stores'
  <1> USE DEF Typed
  <1>1. ASSUME NEW r \in Runs, Look(r) PROVE Stores'
    BY <1>1 DEF Look, Stores, world, unit, inbox, network
  <1>2. ASSUME NEW r \in Runs, Rotate(r) PROVE Stores'
    BY <1>2 DEF Rotate, Stores, world, unit, inbox, network
  <1>3. ASSUME NEW r \in Runs, Decide(r) PROVE Stores'
    BY <1>3 DEF Decide, Stores, world, unit, inbox, network, Forget
  <1>4. ASSUME NEW r \in Runs, Verdict(r) PROVE Stores'
    BY <1>4 DEF Verdict, Stores, world, unit, inbox, network, Forget
  <1>5. ASSUME NEW r \in Runs, Newer(r) PROVE Stores'
    BY <1>5 DEF Newer, Stores, world, unit, inbox, network
  <1>6. ASSUME NEW r \in Runs, Pull(r) PROVE Stores'
    BY <1>6 DEF Pull, Stores, world, unit, inbox, network
  <1>7. ASSUME NEW r \in Runs, Acquire(r) PROVE Stores'
    <2>1. job[r].want \in Want
      BY <1>7 DEF Acquire, Places, RunPlaced
    <2>2. NewRow(job[r].want) \in Row /\ Genuine(NewRow(job[r].want).scope)
      BY <2>1, WantScope DEF NewRow, Row
    <2>3. row' \in Row \cup {None} /\ (row' # None => Genuine(row'.scope))
      BY <1>7, <2>2 DEF Acquire, Stores, unit
    <2>4. row' # None /\ row'.packet # None => row'.packet.scope = row'.scope
      BY <1>7 DEF Acquire, Stores, unit, NewRow
    <2> QED
      BY <1>7, <2>3, <2>4 DEF Acquire, Stores, world, inbox, network
  <1>8. ASSUME NEW r \in Runs, Freeze(r) PROVE Stores'
    <2>1. row \in Row /\ Genuine(row.scope)
      BY <1>8 DEF Freeze, Stores, Places, RunPlaced, Owning
    <2>2. CASE row.packet = None /\ made < MaxPackets /\ made' = made + 1
               /\ row' = [row EXCEPT !.phase = "prepared",
                            !.packet = [id |-> made + 1, scope |-> row.scope, body |-> 0]]
      <3>1. made' \in 0..MaxPackets
        BY <2>2, BoundsAssumption DEF Stores
      <3>2. row # None
        BY <1>8 DEF Freeze, Places, RunPlaced, Owning
      <3> QED
        BY <1>8, <2>1, <2>2, <3>1, <3>2, FrozenTyped DEF Freeze, Stores, world, inbox, network
    <2>3. CASE UNCHANGED <<row, made>>
      BY <1>8, <2>3 DEF Freeze, Stores, world, inbox, network
    <2> QED
      BY <1>8, <2>2, <2>3 DEF Freeze
  <1>9. ASSUME NEW r \in Runs, Park(r) PROVE Stores'
    <2>1. row \in Row /\ row.packet \in Packet /\ row.packet.scope = row.scope
      BY <1>9 DEF Park, Stores, Places, RunPlaced, Owning, Row
    <2>2. Parkable(row.scope)
      BY <1>9 DEF Park, Stores, Places, RunPlaced, Owning, Genuine, Parkable
    <2>3. [packet |-> row.packet, delivery |-> "none", receipt |-> FALSE] \in Item
      BY <2>1 DEF Item
    <2> QED
      BY <1>9, <2>1, <2>2, <2>3 DEF Park, Stores, world, unit, network
  <1>10. ASSUME NEW r \in Runs, Mark(r) PROVE Stores'
    <2>1. row \in Row /\ row # None
      BY <1>10 DEF Mark, Stores, Places, RunPlaced, Owning
    <2>2. row' \in Row /\ row'.scope = row.scope /\ row'.packet = row.packet
      BY <1>10, <2>1 DEF Mark, Row
    <2> QED
      BY <1>10, <2>1, <2>2 DEF Mark, Stores, world, inbox, network
  <1>11. ASSUME NEW r \in Runs, Save(r) PROVE Stores'
    <2>1. row \in Row /\ row # None
      BY <1>11 DEF Save, Stores, Places, RunPlaced, Owning
    <2>2. row' \in Row /\ row'.scope = row.scope /\ row'.packet = row.packet
      BY <1>11, <2>1 DEF Save, Row
    <2> QED
      BY <1>11, <2>1, <2>2 DEF Save, Stores, world, inbox, network
  <1>12. ASSUME NEW r \in Runs, Learn(r) PROVE Stores'
    <2>1. job[r].want \in Want /\ Shipped(job[r].want.ver) \in Known
      BY <1>12 DEF Learn, Places, RunPlaced, Owning, Want, Shipped, Known
    <2> QED
      BY <1>12, <2>1 DEF Learn, Stores, world, unit, inbox, network
  <1>13. ASSUME NEW r \in Runs, Close(r) PROVE Stores'
    BY <1>13 DEF Close, Stores, world, unit, inbox, network
  <1>14. ASSUME NEW r \in Runs, After(r) PROVE Stores'
    <2>1. job[r].want.ver \in Versions
      BY <1>14 DEF After, Places, RunPlaced, Want
    <2>2. known' \in Known \cup {None}
      BY <1>14, <2>1 DEF After, Stores, Known
    <2> QED
      BY <1>14, <2>2 DEF After, Stores, world, unit, inbox, network
  <1>15. ASSUME NEW v \in Reviewers, Edit(v) PROVE Stores'
    <2>1. item \in Item /\ item.packet \in Packet
      BY <1>15, ItemTyped DEF Edit, Undelivered
    <2>2. item.packet.body + 1 \in 0..MaxEdits
      BY <1>15, <2>1, BoundsAssumption DEF Edit, Packet
    <2>3. item' = [item EXCEPT !.packet = [item.packet EXCEPT !.body = item.packet.body + 1]]
      BY <1>15, <2>1 DEF Edit, Item, Packet
    <2>4. [item.packet EXCEPT !.body = item.packet.body + 1] \in Packet
      BY <2>1, <2>2 DEF Packet
    <2>5. item' \in Item /\ item'.packet.scope = item.packet.scope
      BY <2>1, <2>3, <2>4 DEF Item, Packet
    <2> QED
      BY <1>15, <2>1, <2>5 DEF Edit, Undelivered, Stores, world, unit, network
  <1>16. ASSUME NEW v \in Reviewers, RejectKnown(v) PROVE Stores'
    <2>1. item.packet.scope.ver \in Versions
      BY <1>16, ItemTyped DEF RejectKnown, Undelivered
    <2>2. known' \in Known
      BY <1>16, <2>1 DEF RejectKnown, Stores, Known
    <2> QED
      BY <1>16, <2>2 DEF RejectKnown, Stores, world, unit, network
  <1>17. ASSUME NEW v \in Reviewers, RejectItem(v) PROVE Stores'
    BY <1>17 DEF RejectItem, Stores, world, unit, inbox, network
  <1>18. ASSUME NEW v \in Reviewers, Open(v) PROVE Stores'
    BY <1>18 DEF Open, Stores, world, unit, inbox, network
  <1>19. ASSUME NEW v \in Reviewers, Intend(v) PROVE Stores'
    <2>1. job[v].pc \in Approving /\ job[v].copy \in Item
      BY <1>19 DEF Intend, Places, ReviewPlaced, Approving
    <2> QED
      BY <1>19, <2>1, RewriteTyped DEF Intend, Item
  <1>20. ASSUME NEW v \in Reviewers, Submit(v) PROVE Stores'
    <2>1. job[v].pc \in Approving /\ job[v].copy \in Item
      BY <1>20 DEF Submit, Places, ReviewPlaced, Approving
    <2> QED
      BY <1>20, <2>1, RewriteTyped DEF Submit, Item
  <1>21. ASSUME NEW v \in Reviewers, SaveReceipt(v) PROVE Stores'
    <2>1. job[v].pc \in Approving /\ job[v].copy \in Item
      BY <1>21 DEF SaveReceipt, Places, ReviewPlaced, Approving
    <2> QED
      BY <1>21, <2>1, RewriteTyped DEF SaveReceipt, Item
  <1>22. ASSUME NEW v \in Reviewers, Approve(v) PROVE Stores'
    <2>1. Shipped(job[v].copy.packet.scope.ver) \in Known
      BY <1>22 DEF Approve, Places, ReviewPlaced, Approving, Parkable, Shipped, Known
    <2> QED
      BY <1>22, <2>1 DEF Approve, Stores, world, unit, inbox, network
  <1>23. ASSUME NEW v \in Reviewers, Finish(v) PROVE Stores'
    BY <1>23 DEF Finish, Stores, world, unit, inbox, network
  <1>24. ASSUME NEW a \in Actors, Push(a) PROVE Stores'
    <2>1. PacketOf(a) \in Packet /\ Genuine(PacketOf(a).scope)
      BY <1>24, PacketTyped DEF Push, Owning, Approving
    <2> QED
      BY <1>24, <2>1 DEF Push, Stores, world, unit, inbox
  <1>25. ASSUME NEW a \in Actors, Answer(a) PROVE Stores'
    BY <1>25 DEF Answer, Stores, world, network
  <1>26. ASSUME NEW a \in Actors, Query(a) PROVE Stores'
    BY <1>26 DEF Query, Stores, world, network
  <1>27. ASSUME NEW a \in Actors, Fail(a) PROVE Stores'
    BY <1>27 DEF Fail, Stores, world, network
  <1>28. ASSUME NEW a \in Actors, Crash(a) PROVE Stores'
    <2>1. crashes' \in 0..MaxCrashes
      BY <1>28, BoundsAssumption DEF Crash, Stores
    <2> QED
      BY <1>28, <2>1 DEF Crash, Stores, world, network
  <1>29. ASSUME Write PROVE Stores'
    <2>1. source' \in Source
      BY <1>29, BoundsAssumption DEF Write, Stores, Source, Versions
    <2> QED
      BY <1>29, <2>1 DEF Write, Stores, unit, inbox, network
  <1>30. ASSUME Delete PROVE Stores'
    <2>1. source' \in Source
      BY <1>30 DEF Delete, Stores, Source
    <2> QED
      BY <1>30, <2>1 DEF Delete, Stores, unit, inbox, network
  <1>31. ASSUME Apply PROVE Stores'
    <2>1. PICK p \in wire :
            /\ wire' = wire \ {p}
            /\ IF Verdicts(p) # {} THEN UNCHANGED <<committed, target>>
               ELSE \E ok \in BOOLEAN :
                      /\ committed' = committed \cup {[packet |-> p, ok |-> ok]}
                      /\ target' = IF ok THEN Effect(p.scope) ELSE target
            /\ UNCHANGED <<source, known, unit, inbox, job, made, sent, crashes>>
      BY <1>31 DEF Apply
    <2>2. p \in sent /\ p \in Packet /\ Genuine(p.scope) /\ p.scope \in Scope
      BY DEF Stores, Packet
    <2>3. Effect(p.scope) \in [ver : Versions, st : {"live", "trash"}] \cup {None}
      BY <2>2 DEF Effect, Scope, Genuine, Stores
    <2>4. /\ committed' \subseteq [packet : sent, ok : BOOLEAN]
          /\ target' \in [ver : Versions, st : {"live", "trash"}] \cup {None}
      BY <2>1, <2>2, <2>3 DEF Stores
    <2> QED
      BY <2>1, <2>4 DEF Stores, unit, inbox
  <1>32. ASSUME Lose PROVE Stores'
    BY <1>32 DEF Lose, Stores, world, unit, inbox
  <1>33. CASE UNCHANGED vars
    BY <1>33 DEF vars, Stores
  <1> QED
    BY <1>1, <1>2, <1>3, <1>4, <1>5, <1>6, <1>7, <1>8, <1>9, <1>10, <1>11, <1>12, <1>13, <1>14, <1>15, <1>16, <1>17, <1>18, <1>19, <1>20, <1>21, <1>22, <1>23, <1>24, <1>25, <1>26, <1>27, <1>28, <1>29, <1>30, <1>31, <1>32, <1>33 DEF Next, RunStep, ReviewStep, Deliver

-----------------------------------------------------------------------------
(* Where actors go.                                                         *)

LEMMA Going ==
  ASSUME Places, NEW a \in Actors, NEW pc \in PC
  PROVE  [job[a] EXCEPT !.pc = pc] \in Job
  BY DEF Places, Job

LEMMA Wanting ==
  ASSUME NEW pc \in PC, NEW w \in Want
  PROVE  [Idle EXCEPT !.pc = pc, !.want = w] \in Job
  BY IdleJob DEF Job

\* A run without the unit goes on without it.
LEMMA RunGoes ==
  ASSUME Places, NEW r \in Runs, NEW j \in Job,
         job' = [job EXCEPT ![r] = j],
         job[r].pc \notin Owning,
         j.pc \in {"idle", "seen", "asked", "newer", "pull", "lease"},
         j.pc = "seen" => j.src \in Source,
         j.pc = "asked" => j.entry \in Known,
         j.pc = "lease" => j.want \in Want,
         UNCHANGED <<row, lease, itemLease>>
  PROVE  Places'
  <1>1. job'[r] = j /\ lease # r /\ j.pc \notin Owning
    BY DEF Places, RunPlaced, Actors, Owning
  <1>2. RunPlaced(r)'
    BY <1>1 DEF RunPlaced
  <1> QED
    BY <1>1, <1>2, RunMoves

\* The owner of the unit goes on in it.
LEMMA OwnerGoes ==
  ASSUME Places, NEW r \in Runs, NEW j \in Job,
         job' = [job EXCEPT ![r] = j],
         job[r].pc \in Owning, j.pc \in Owning \ {"leased"}, j.want = job[r].want,
         UNCHANGED <<lease, itemLease>>,
         row' # None, row'.scope = row.scope, row'.packet # None,
         j.pc = "park" => Parks /\ row.scope.kind = "upsert"
  PROVE  Places'
  <1>1. job'[r] = j /\ lease = r
    BY DEF Places, RunPlaced, Actors
  <1>2. RunPlaced(r)'
    BY <1>1 DEF RunPlaced, Places, Owning
  <1> QED
    BY <1>1, <1>2, RunMoves

LEMMA RunRests ==
  ASSUME Places, NEW r \in Runs, Rest(r),
         UNCHANGED itemLease,
         lease' = IF lease = r THEN None ELSE lease,
         lease \notin {r, None} => row' = row
  PROVE  Places'
  <1>1. /\ job' = [job EXCEPT ![r] = Idle] /\ job'[r] = Idle
        /\ Idle.pc \notin Owning /\ Idle.pc = "idle" /\ lease' # r
    BY ActorsAssumption DEF Rest, Places, Actors, Idle, Owning
  <1>2. RunPlaced(r)'
    BY <1>1 DEF RunPlaced
  <1> QED
    BY <1>1, <1>2, RunMoves, IdleJob

\* A reviewer goes on with the lease of the item.
LEMMA ReviewGoes ==
  ASSUME Places, NEW v \in Reviewers, NEW j \in Job,
         job' = [job EXCEPT ![v] = j],
         j.pc \in {"rejecting"} \cup Approving,
         j.pc \in Approving => j.copy \in Item /\ Parkable(j.copy.packet.scope),
         itemLease \in {v, None}, itemLease' = v,
         UNCHANGED <<row, lease>>
  PROVE  Places'
  <1>1. job'[v] = j /\ j.pc # "idle"
    BY DEF Places, Actors, Approving
  <1>2. ReviewPlaced(v)'
    BY <1>1 DEF ReviewPlaced
  <1> QED
    BY <1>1, <1>2, ReviewMoves

LEMMA ReviewRests ==
  ASSUME Places, NEW v \in Reviewers, Rest(v),
         itemLease' = IF itemLease = v THEN None ELSE itemLease,
         UNCHANGED <<row, lease>>
  PROVE  Places'
  <1>1. /\ job' = [job EXCEPT ![v] = Idle] /\ job'[v] = Idle
        /\ Idle.pc = "idle" /\ "idle" \notin Approving /\ itemLease' # v
    BY ActorsAssumption DEF Rest, Places, Actors, Idle, Approving
  <1>2. ReviewPlaced(v)'
    BY <1>1 DEF ReviewPlaced
  <1> QED
    BY <1>1, <1>2, ReviewMoves, IdleJob

LEMMA Releasing ==
  ASSUME Places, NEW a \in Actors, Releases(a), UNCHANGED row
  PROVE  Places'
  <1>1. CASE a \in Runs
    <2>1. itemLease # a
      BY <1>1, ActorsAssumption DEF Places, Actors
    <2> QED
      BY <1>1, <2>1, RunRests DEF Releases
  <1>2. CASE a \in Reviewers
    <2>1. lease # a
      BY <1>2, ActorsAssumption DEF Places, Actors
    <2> QED
      BY <1>2, <2>1, ReviewRests DEF Releases
  <1> QED
    BY <1>1, <1>2 DEF Actors

\* An actor that delivers goes on with what it delivers.
LEMMA DeliveryGoes ==
  ASSUME Typed, NEW a \in Actors, NEW j \in Job,
         job' = [job EXCEPT ![a] = j],
         job[a].pc \in {"query", "push", "answer"},
         j.pc \in {"push", "answer", "save"},
         j.want = job[a].want, j.copy = job[a].copy,
         UNCHANGED <<row, lease, itemLease>>
  PROVE  Places'
  <1>1. CASE a \in Runs
    <2>1. job[a].pc \in Owning /\ row # None /\ row.packet # None
      BY <1>1 DEF Typed, Places, RunPlaced, Owning
    <2> QED
      BY <1>1, <2>1, OwnerGoes DEF Typed, Owning
  <1>2. CASE a \in Reviewers
    <2>1. /\ job[a].copy \in Item /\ Parkable(job[a].copy.packet.scope)
          /\ itemLease = a
      BY <1>2 DEF Typed, Places, ReviewPlaced, Approving
    <2> QED
      BY <1>2, <2>1, ReviewGoes DEF Typed, Approving
  <1> QED
    BY <1>1, <1>2 DEF Actors

LEMMA RewriteGoes ==
  ASSUME Typed, NEW v \in Reviewers, job[v].pc \in Approving,
         NEW new \in Item, new.packet = job[v].copy.packet,
         NEW pc \in Approving, Rewrite(v, new, pc)
  PROVE  Places'
  <1> DEFINE j == [job[v] EXCEPT !.copy = new, !.pc = pc]
  <1>1. itemLease = v /\ Parkable(job[v].copy.packet.scope)
    BY DEF Typed, Places, ReviewPlaced, Approving
  <1>2. CASE Unaltered(v)
    <2>1. j \in Job /\ j.pc = pc /\ j.copy = new
      BY DEF Typed, Places, Job, Actors, PC
    <2>2. job' = [job EXCEPT ![v] = j] /\ UNCHANGED <<row, lease, itemLease>>
      BY <1>2 DEF Rewrite, unit
    <2> QED
      BY <1>1, <2>1, <2>2, ReviewGoes DEF Typed
  <1>3. CASE ~Unaltered(v)
    BY <1>1, <1>3, ReviewRests DEF Rewrite, unit, Typed
  <1> QED
    BY <1>2, <1>3

LEMMA PlacesStep ==
  ASSUME Typed, [Next]_vars
  PROVE  Places'
  <1> USE DEF Typed
  <1>1. ASSUME NEW r \in Runs, Look(r) PROVE Places'
    <2> DEFINE j == [job[r] EXCEPT !.pc = "seen", !.src = source, !.entry = known]
    <2>1. j \in Job /\ j.pc = "seen" /\ j.src = source
      BY DEF Stores, Places, Job, Actors, PC
    <2>2. job' = [job EXCEPT ![r] = j]
      BY <1>1 DEF Look
    <2> QED
      BY <1>1, <2>1, <2>2, RunGoes DEF Look, Stores, Owning, unit, inbox
  <1>2. ASSUME NEW r \in Runs, Rotate(r) PROVE Places'
    <2> DEFINE j == [job[r] EXCEPT !.pc = "asked", !.entry = known]
    <2>1. j \in Job /\ j.pc = "asked" /\ j.entry = known
      BY DEF Stores, Places, Job, Actors, PC
    <2>2. job' = [job EXCEPT ![r] = j]
      BY <1>2 DEF Rotate
    <2> QED
      BY <1>2, <2>1, <2>2, RunGoes DEF Rotate, Stores, Owning, unit, inbox
  <1>3. ASSUME NEW r \in Runs, Decide(r) PROVE Places'
    <2>1. job[r].pc = "seen" /\ "seen" \notin Owning /\ UNCHANGED <<row, lease, itemLease>>
      BY <1>3 DEF Decide, Owning, unit, inbox
    <2>2. CASE Rest(r)
      BY <2>1, <2>2, RunRests DEF Places, RunPlaced
    <2>3. CASE Wants(r, "lease", "trash", job[r].src.ver)
      <3> DEFINE w == [kind |-> "trash", ver |-> job[r].src.ver]
      <3>1. w \in Want
        BY <2>1 DEF Places, RunPlaced, Source, Want
      <3>2. [Idle EXCEPT !.pc = "lease", !.want = w] \in Job
        BY <3>1, Wanting DEF PC
      <3> QED
        BY <2>1, <2>3, <3>1, <3>2, RunGoes DEF Wants, Idle
    <2>4. CASE job' = [job EXCEPT ![r] = [Idle EXCEPT !.pc = "pull"]]
      <3>1. [Idle EXCEPT !.pc = "pull"] \in Job
        BY IdleJob DEF Job, PC
      <3> QED
        BY <2>1, <2>4, <3>1, RunGoes DEF Idle
    <2> QED
      BY <1>3, <2>2, <2>3, <2>4 DEF Decide, Forget
  <1>4. ASSUME NEW r \in Runs, Verdict(r) PROVE Places'
    <2>1. job[r].pc = "asked" /\ "asked" \notin Owning /\ UNCHANGED <<row, lease, itemLease>>
      BY <1>4 DEF Verdict, Owning, unit, inbox
    <2>2. CASE Rest(r)
      BY <2>1, <2>2, RunRests DEF Places, RunPlaced
    <2>3. CASE Wants(r, "lease", "delete", job[r].entry.ver)
      <3> DEFINE w == [kind |-> "delete", ver |-> job[r].entry.ver]
      <3>1. w \in Want
        BY <2>1 DEF Places, RunPlaced, Known, Want
      <3>2. [Idle EXCEPT !.pc = "lease", !.want = w] \in Job
        BY <3>1, Wanting DEF PC
      <3> QED
        BY <2>1, <2>3, <3>1, <3>2, RunGoes DEF Wants, Idle
    <2>4. CASE job' = [job EXCEPT ![r] = [Idle EXCEPT !.pc = "newer"]]
      <3>1. [Idle EXCEPT !.pc = "newer"] \in Job
        BY IdleJob DEF Job, PC
      <3> QED
        BY <2>1, <2>4, <3>1, RunGoes DEF Idle
    <2> QED
      BY <1>4, <2>2, <2>3, <2>4 DEF Verdict, Forget
  <1>5. ASSUME NEW r \in Runs, Newer(r) PROVE Places'
    <2>1. job[r].pc = "newer" /\ "newer" \notin Owning /\ UNCHANGED <<row, lease, itemLease>>
      BY <1>5 DEF Newer, Owning, unit, inbox
    <2>2. CASE Rest(r)
      BY <2>1, <2>2, RunRests DEF Places, RunPlaced
    <2>3. CASE Goto(r, "pull")
      <3>1. [job[r] EXCEPT !.pc = "pull"] \in Job
        BY Going DEF PC, Actors
      <3>2. [job[r] EXCEPT !.pc = "pull"].pc = "pull"
        BY DEF Places, Job, Actors
      <3> QED
        BY <2>1, <2>3, <3>1, <3>2, RunGoes DEF Goto
    <2> QED
      BY <1>5, <2>2, <2>3 DEF Newer
  <1>6. ASSUME NEW r \in Runs, Pull(r) PROVE Places'
    <2>1. job[r].pc = "pull" /\ "pull" \notin Owning /\ UNCHANGED <<row, lease, itemLease>>
      BY <1>6 DEF Pull, Owning, unit, inbox
    <2>2. CASE Rest(r)
      BY <2>1, <2>2, RunRests DEF Places, RunPlaced
    <2>3. CASE Wants(r, "lease", "upsert", source.ver)
      <3> DEFINE w == [kind |-> "upsert", ver |-> source.ver]
      <3>1. w \in Want
        BY DEF Stores, Source, Want
      <3>2. [Idle EXCEPT !.pc = "lease", !.want = w] \in Job
        BY <3>1, Wanting DEF PC
      <3> QED
        BY <2>1, <2>3, <3>1, <3>2, RunGoes DEF Wants, Idle
    <2> QED
      BY <1>6, <2>2, <2>3 DEF Pull
  <1>7. ASSUME NEW r \in Runs, Acquire(r) PROVE Places'
    <2>1. job[r].pc = "lease" /\ job[r].want \in Want /\ lease # r /\ UNCHANGED itemLease
      BY <1>7 DEF Acquire, Places, RunPlaced, Owning, inbox
    <2>2. CASE Rest(r) /\ UNCHANGED unit
      BY <2>1, <2>2, RunRests DEF unit
    <2>3. CASE UnitFree /\ lease' = r /\ Goto(r, "leased")
      <3> DEFINE j == [job[r] EXCEPT !.pc = "leased"]
      <3>1. /\ j \in Job /\ j.pc = "leased" /\ j.want = job[r].want
            /\ "leased" \in Owning /\ "leased" # "park"
        BY Going DEF PC, Actors, Places, Job, Owning
      <3>2. job' = [job EXCEPT ![r] = j] /\ job'[r] = j /\ lease = None
        BY <2>3 DEF Goto, Places, Actors, UnitFree
      <3>3. row' # None /\ row'.scope = ScopeOf(job[r].want)
        BY <1>7, <2>1, <2>3, NewRowTyped DEF Acquire, Rest, Idle, Goto, unit
      <3>4. RunPlaced(r)'
        BY <2>1, <2>3, <3>1, <3>2, <3>3 DEF RunPlaced
      <3> QED
        BY <2>1, <2>3, <3>1, <3>2, <3>4, RunMoves
    <2> QED
      BY <1>7, <2>2, <2>3 DEF Acquire
  <1>8. ASSUME NEW r \in Runs, Freeze(r) PROVE Places'
    <2>1. job[r].pc \in Owning /\ row \in Row /\ row # None
      BY <1>8 DEF Freeze, Stores, Places, RunPlaced, Owning
    <2>2. row' # None /\ row'.scope = row.scope /\ row'.packet # None
      <3>1. CASE row.packet # None /\ UNCHANGED row
        BY <2>1, <3>1
      <3>2. CASE made < MaxPackets
                 /\ row' = [row EXCEPT !.phase = "prepared",
                              !.packet = [id |-> made + 1, scope |-> row.scope, body |-> 0]]
        BY <2>1, <3>2, FrozenTyped
      <3> QED
        BY <1>8, <3>1, <3>2 DEF Freeze
    <2>3. Continue(row') \in {"park", "received", "query", "mark"}
          /\ (Continue(row') = "park" => Parks /\ row.scope.kind = "upsert")
      BY <2>2 DEF Continue
    <2> DEFINE j == [job[r] EXCEPT !.pc = Continue(row')]
    <2>4. j \in Job /\ j.pc = Continue(row') /\ j.want = job[r].want
      BY <2>3, Going DEF PC, Actors, Places, Job, Owning
    <2>5. job' = [job EXCEPT ![r] = j] /\ UNCHANGED <<lease, itemLease>>
      BY <1>8 DEF Freeze, Goto, inbox
    <2> QED
      BY <2>1, <2>2, <2>3, <2>4, <2>5, OwnerGoes DEF Owning
  <1>9. ASSUME NEW r \in Runs, Park(r) PROVE Places'
    <2> DEFINE j == [job[r] EXCEPT !.pc = "close"]
    <2>1. job[r].pc \in Owning /\ row \in Row /\ row # None /\ row.packet # None
      BY <1>9 DEF Park, Stores, Places, RunPlaced, Owning
    <2>2. row' # None /\ row'.scope = row.scope /\ row'.packet # None
      BY <1>9, <2>1, NoneAssumption DEF Park, Row, unit
    <2>3. j \in Job /\ j.pc = "close" /\ j.want = job[r].want
      BY Going DEF PC, Actors, Places, Job, Owning
    <2>4. job' = [job EXCEPT ![r] = j] /\ UNCHANGED <<lease, itemLease>>
      BY <1>9 DEF Park, Goto, unit, inbox
    <2> QED
      BY <2>1, <2>2, <2>3, <2>4, OwnerGoes DEF Owning
  <1>10. ASSUME NEW r \in Runs, Mark(r) PROVE Places'
    <2> DEFINE j == [job[r] EXCEPT !.pc = "push"]
    <2>1. job[r].pc \in Owning /\ row \in Row /\ row # None /\ row.packet # None
      BY <1>10 DEF Mark, Stores, Places, RunPlaced, Owning
    <2>2. row' # None /\ row'.scope = row.scope /\ row'.packet # None
      BY <1>10, <2>1, NoneAssumption DEF Mark, Row, unit
    <2>3. j \in Job /\ j.pc = "push" /\ j.want = job[r].want
      BY Going DEF PC, Actors, Places, Job, Owning
    <2>4. job' = [job EXCEPT ![r] = j] /\ UNCHANGED <<lease, itemLease>>
      BY <1>10 DEF Mark, Goto, unit, inbox
    <2> QED
      BY <2>1, <2>2, <2>3, <2>4, OwnerGoes DEF Owning
  <1>11. ASSUME NEW r \in Runs, Save(r) PROVE Places'
    <2> DEFINE j == [job[r] EXCEPT !.pc = "received"]
    <2>1. job[r].pc \in Owning /\ row \in Row /\ row # None /\ row.packet # None
      BY <1>11 DEF Save, Stores, Places, RunPlaced, Owning
    <2>2. row' # None /\ row'.scope = row.scope /\ row'.packet # None
      BY <1>11, <2>1, NoneAssumption DEF Save, Row, unit
    <2>3. j \in Job /\ j.pc = "received" /\ j.want = job[r].want
      BY Going DEF PC, Actors, Places, Job, Owning
    <2>4. job' = [job EXCEPT ![r] = j] /\ UNCHANGED <<lease, itemLease>>
      BY <1>11 DEF Save, Goto, unit, inbox
    <2> QED
      BY <2>1, <2>2, <2>3, <2>4, OwnerGoes DEF Owning
  <1>12. ASSUME NEW r \in Runs, Learn(r) PROVE Places'
    <2> DEFINE j == [job[r] EXCEPT !.pc = "close"]
    <2>1. job[r].pc \in Owning /\ row \in Row /\ row # None /\ row.packet # None
      BY <1>12 DEF Learn, Stores, Places, RunPlaced, Owning
    <2>2. row' # None /\ row'.scope = row.scope /\ row'.packet # None
      BY <1>12, <2>1, NoneAssumption DEF Learn, Row, unit
    <2>3. j \in Job /\ j.pc = "close" /\ j.want = job[r].want
      BY Going DEF PC, Actors, Places, Job, Owning
    <2>4. job' = [job EXCEPT ![r] = j] /\ UNCHANGED <<lease, itemLease>>
      BY <1>12 DEF Learn, Goto, unit, inbox
    <2> QED
      BY <2>1, <2>2, <2>3, <2>4, OwnerGoes DEF Owning
  <1>13. ASSUME NEW r \in Runs, Close(r) PROVE Places'
    <2>1. /\ lease = r /\ lease' = None /\ UNCHANGED itemLease
          /\ job[r].want \in Want /\ row.scope = ScopeOf(job[r].want)
      BY <1>13 DEF Close, Places, RunPlaced, Owning, inbox
    <2>2. CASE Rest(r)
      BY <2>1, <2>2, RunRests
    <2>3. CASE row.scope.kind # "upsert" /\ Goto(r, "after")
      <3> DEFINE j == [job[r] EXCEPT !.pc = "after"]
      <3>1. j \in Job /\ j.pc = "after" /\ "after" \notin Owning /\ j.want = job[r].want
        BY Going DEF PC, Actors, Places, Job, Owning
      <3>2. job' = [job EXCEPT ![r] = j] /\ job'[r] = j
        BY <2>3 DEF Goto, Places, Actors
      <3>3. job[r].want.kind # "upsert"
        BY <2>1, <2>3, WantScope
      <3>4. RunPlaced(r)'
        BY <2>1, <3>1, <3>2, <3>3, ActorsAssumption DEF RunPlaced, Actors
      <3> QED
        BY <2>1, <3>1, <3>2, <3>4, RunMoves
    <2> QED
      BY <1>13, <2>2, <2>3 DEF Close
  <1>14. ASSUME NEW r \in Runs, After(r) PROVE Places'
    <2>1. lease # r /\ UNCHANGED <<row, lease, itemLease>>
      BY <1>14 DEF After, Places, RunPlaced, Owning, unit, inbox
    <2> QED
      BY <1>14, <2>1, RunRests DEF After
  <1>15. ASSUME NEW v \in Reviewers, Edit(v) PROVE Places'
    BY <1>15 DEF Edit, Places, RunPlaced, ReviewPlaced, unit
  <1>16. ASSUME NEW v \in Reviewers, RejectKnown(v) PROVE Places'
    <2> DEFINE j == [job[v] EXCEPT !.pc = "rejecting"]
    <2>1. j \in Job /\ j.pc = "rejecting"
      BY Going DEF PC, Actors, Places, Job
    <2>2. job' = [job EXCEPT ![v] = j]
      BY <1>16 DEF RejectKnown, Goto
    <2> QED
      BY <1>16, <2>1, <2>2, ReviewGoes DEF RejectKnown, ItemFree, unit, Approving
  <1>17. ASSUME NEW v \in Reviewers, RejectItem(v) PROVE Places'
    <2>1. itemLease = v
      BY <1>17 DEF RejectItem, Places, ReviewPlaced
    <2> QED
      BY <1>17, <2>1, ReviewRests DEF RejectItem, unit
  <1>18. ASSUME NEW v \in Reviewers, Open(v) PROVE Places'
    <2> DEFINE pc == IF item.receipt THEN "received" ELSE Resume(item.delivery)
               j == [job[v] EXCEPT !.copy = item, !.pc = pc]
    <2>1. item \in Item /\ Parkable(item.packet.scope)
      BY <1>18, ItemTyped DEF Open
    <2>2. pc \in Approving
      BY <2>1 DEF Resume, Item, Approving
    <2>3. j \in Job /\ j.pc = pc /\ j.copy = item
      BY <2>1, <2>2 DEF Places, Job, Actors, PC
    <2>4. job' = [job EXCEPT ![v] = j]
      BY <1>18 DEF Open
    <2>5. itemLease \in {v, None} /\ itemLease' = v /\ UNCHANGED <<row, lease>>
      BY <1>18 DEF Open, ItemFree, unit
    <2> HIDE DEF pc, j
    <2> QED
      BY <2>1, <2>2, <2>3, <2>4, <2>5, ReviewGoes
  <1>19. ASSUME NEW v \in Reviewers, Intend(v) PROVE Places'
    <2>1. job[v].pc \in Approving /\ job[v].copy \in Item
      BY <1>19 DEF Intend, Places, ReviewPlaced, Approving
    <2> QED
      BY <1>19, <2>1, RewriteGoes DEF Intend, Item, Approving
  <1>20. ASSUME NEW v \in Reviewers, Submit(v) PROVE Places'
    <2>1. job[v].pc \in Approving /\ job[v].copy \in Item
      BY <1>20 DEF Submit, Places, ReviewPlaced, Approving
    <2> QED
      BY <1>20, <2>1, RewriteGoes DEF Submit, Item, Approving
  <1>21. ASSUME NEW v \in Reviewers, SaveReceipt(v) PROVE Places'
    <2>1. job[v].pc \in Approving /\ job[v].copy \in Item
      BY <1>21 DEF SaveReceipt, Places, ReviewPlaced, Approving
    <2> QED
      BY <1>21, <2>1, RewriteGoes DEF SaveReceipt, Item, Approving
  <1>22. ASSUME NEW v \in Reviewers, Approve(v) PROVE Places'
    <2> DEFINE j == [job[v] EXCEPT !.pc = "finish"]
    <2>1. j \in Job /\ j.pc = "finish" /\ j.copy = job[v].copy
      BY Going DEF PC, Actors, Places, Job, Approving
    <2>2. itemLease = v /\ job[v].copy \in Item /\ Parkable(job[v].copy.packet.scope)
      BY <1>22 DEF Approve, Places, ReviewPlaced, Approving
    <2>3. job' = [job EXCEPT ![v] = j] /\ UNCHANGED <<row, lease, itemLease>>
      BY <1>22 DEF Approve, Goto, unit, inbox
    <2> QED
      BY <2>1, <2>2, <2>3, ReviewGoes DEF Approving
  <1>23. ASSUME NEW v \in Reviewers, Finish(v) PROVE Places'
    <2>1. itemLease = v
      BY <1>23 DEF Finish, Places, ReviewPlaced
    <2> QED
      BY <1>23, <2>1, ReviewRests DEF Finish, unit
  <1>24. ASSUME NEW a \in Actors, Push(a) PROVE Places'
    <2> DEFINE j == [job[a] EXCEPT !.pc = "answer", !.absent = FALSE]
    <2>1. j \in Job /\ j.pc = "answer" /\ j.want = job[a].want /\ j.copy = job[a].copy
      BY DEF Places, Job, PC, Owning
    <2>2. job' = [job EXCEPT ![a] = j] /\ UNCHANGED <<row, lease, itemLease>>
      BY <1>24 DEF Push, unit, inbox
    <2> QED
      BY <1>24, <2>1, <2>2, DeliveryGoes DEF Push
  <1>25. ASSUME NEW a \in Actors, Answer(a) PROVE Places'
    <2> DEFINE j == [job[a] EXCEPT !.pc = "save"]
    <2>1. CASE Releases(a)
      BY <1>25, <2>1, Releasing DEF Answer
    <2>2. CASE Goto(a, "save") /\ UNCHANGED <<lease, itemLease>>
      <3>1. j \in Job /\ j.pc = "save" /\ j.want = job[a].want /\ j.copy = job[a].copy
        BY Going DEF Places, Job, PC, Owning
      <3> QED
        BY <1>25, <2>2, <3>1, DeliveryGoes DEF Answer, Goto
    <2> QED
      BY <1>25, <2>1, <2>2 DEF Answer
  <1>26. ASSUME NEW a \in Actors, Query(a) PROVE Places'
    <2>1. CASE Releases(a)
      BY <1>26, <2>1, Releasing DEF Query
    <2>2. CASE Goto(a, "save") /\ UNCHANGED <<lease, itemLease>>
      <3> DEFINE j == [job[a] EXCEPT !.pc = "save"]
      <3>1. j \in Job /\ j.pc = "save" /\ j.want = job[a].want /\ j.copy = job[a].copy
        BY Going DEF Places, Job, PC, Owning
      <3> QED
        BY <1>26, <2>2, <3>1, DeliveryGoes DEF Query, Goto
    <2>3. CASE /\ job' = [job EXCEPT ![a].pc = "push", ![a].absent = TRUE]
               /\ UNCHANGED <<lease, itemLease>>
      <3> DEFINE j == [job[a] EXCEPT !.pc = "push", !.absent = TRUE]
      <3>1. j \in Job /\ j.pc = "push" /\ j.want = job[a].want /\ j.copy = job[a].copy
        BY DEF Places, Job, PC, Owning
      <3>2. job' = [job EXCEPT ![a] = j]
        BY <2>3
      <3> QED
        BY <1>26, <2>3, <3>1, <3>2, DeliveryGoes DEF Query
    <2> QED
      BY <1>26, <2>1, <2>2, <2>3 DEF Query
  <1>27. ASSUME NEW a \in Actors, Fail(a) PROVE Places'
    BY <1>27, Releasing DEF Fail
  <1>28. ASSUME NEW a \in Actors, Crash(a) PROVE Places'
    BY <1>28, Releasing DEF Crash
  <1>29. ASSUME Write PROVE Places'
    BY <1>29 DEF Write, Places, RunPlaced, ReviewPlaced, unit, inbox
  <1>30. ASSUME Delete PROVE Places'
    BY <1>30 DEF Delete, Places, RunPlaced, ReviewPlaced, unit, inbox
  <1>31. ASSUME Apply PROVE Places'
    BY <1>31 DEF Apply, Places, RunPlaced, ReviewPlaced, unit, inbox
  <1>32. ASSUME Lose PROVE Places'
    BY <1>32 DEF Lose, Places, RunPlaced, ReviewPlaced, unit, inbox
  <1>33. CASE UNCHANGED vars
    BY <1>33 DEF vars, Places, RunPlaced, ReviewPlaced
  <1> QED
    BY <1>1, <1>2, <1>3, <1>4, <1>5, <1>6, <1>7, <1>8, <1>9, <1>10, <1>11, <1>12, <1>13, <1>14, <1>15, <1>16, <1>17, <1>18, <1>19, <1>20, <1>21, <1>22, <1>23, <1>24, <1>25, <1>26, <1>27, <1>28, <1>29, <1>30, <1>31, <1>32, <1>33 DEF Next, RunStep, ReviewStep, Deliver

LEMMA TypedInit == Init => Typed
  <1> SUFFICES ASSUME Init PROVE Typed
    OBVIOUS
  <1>1. Stores
    BY BoundsAssumption DEF Init, Stores, Source, Versions
  <1>2. job \in [Actors -> Job] /\ \A a \in Actors : job[a].pc = "idle"
    BY IdleJob DEF Init, Idle
  <1>3. \A r \in Runs : RunPlaced(r)
    BY <1>2, ActorsAssumption DEF Init, RunPlaced, Actors, Owning
  <1>4. \A v \in Reviewers : ReviewPlaced(v)
    BY <1>2, ActorsAssumption DEF Init, ReviewPlaced, Actors, Approving
  <1> QED
    BY <1>1, <1>2, <1>3, <1>4 DEF Typed, Places, Init

LEMMA TypedStep == Typed /\ [Next]_vars => Typed'
  BY StoresStep, PlacesStep DEF Typed

(* The type invariant: stores and requests hold what they may, the unit    *)
(* and the item have one owner each, and the owner's row is its own.       *)
THEOREM TypeCorrect == Spec => []TypeOK
  <1>1. Spec => []Typed
    BY TypedInit, TypedStep, PTL DEF Spec
  <1> QED
    BY <1>1, TypedIsTypeOK, PTL

-----------------------------------------------------------------------------
(* Where the evidence is.                                                   *)

LEMMA AcceptedStays ==
  ASSUME committed \subseteq committed'
  PROVE  \A p : Accepted(p) => Accepted(p)'
  BY DEF Accepted

LEMMA CommittedGrows ==
  ASSUME Typed, [Next]_vars
  PROVE  committed \subseteq committed'
  BY DEF Next, RunStep, ReviewStep, Deliver, vars, world, Look, Rotate, Decide, Verdict,
     Newer, Pull, Acquire, Freeze, Park, Mark, Save, Learn, Close, After, Edit, RejectKnown,
     RejectItem, Open, Rewrite, Intend, Submit, SaveReceipt, Approve, Finish, Push, Answer,
     Query, Fail, Crash, Write, Delete, Apply, Lose

LEMMA RunEvidence ==
  ASSUME Typed, Deliveries, NEW r \in Runs,
         \A a \in Actors : a # r => job'[a] = job[a],
         committed' = committed,
         row' = row \/ lease \in {r, None},
         item' = item \/ (ReviewFree /\ Replaceable),
         RunDelivers(r)'
  PROVE  Deliveries'
  <1>1. \A s \in Runs : RunDelivers(s)'
    <2> SUFFICES ASSUME NEW s \in Runs, s # r PROVE RunDelivers(s)'
      OBVIOUS
    <2>1. job'[s] = job[s] /\ (row' = row \/ job[s].pc \notin Owning)
      BY ActorsAssumption DEF Typed, Places, RunPlaced, Actors
    <2> QED
      BY <2>1 DEF Deliveries, RunDelivers, Accepted, Owning
  <1>2. \A v \in Reviewers : ReviewDelivers(v)'
    <2> SUFFICES ASSUME NEW v \in Reviewers PROVE ReviewDelivers(v)'
      OBVIOUS
    <2>1. job'[v] = job[v]
      BY ActorsAssumption DEF Actors
    <2>2. CASE item' = item
      BY <2>1, <2>2 DEF Deliveries, ReviewDelivers, Accepted
    <2>3. CASE ReviewFree /\ Replaceable
      <3>1. job[v].pc # "rejecting" /\ job[v].pc \notin Delivering
        BY <2>3, NoneAssumption
           DEF ReviewFree, Replaceable, Deliveries, ReviewDelivers, Typed, Places, ReviewPlaced,
               Delivering
      <3> QED
        BY <2>1, <3>1 DEF Deliveries, ReviewDelivers, Accepted, Delivering, Approving
    <2> QED
      BY <2>2, <2>3
  <1> QED
    BY <1>1, <1>2 DEF Deliveries

LEMMA ReviewEvidence ==
  ASSUME Typed, Deliveries, NEW v \in Reviewers,
         \A a \in Actors : a # v => job'[a] = job[a],
         committed' = committed, row' = row,
         itemLease \in {v, None},
         ReviewDelivers(v)'
  PROVE  Deliveries'
  <1>1. \A r \in Runs : RunDelivers(r)'
    BY ActorsAssumption DEF Deliveries, RunDelivers, Accepted, Actors
  <1>2. \A w \in Reviewers : ReviewDelivers(w)'
    <2> SUFFICES ASSUME NEW w \in Reviewers, w # v PROVE ReviewDelivers(w)'
      OBVIOUS
    <2>1. job'[w] = job[w] /\ job[w].pc = "idle"
      BY ActorsAssumption DEF Typed, Places, ReviewPlaced, Actors
    <2> QED
      BY <2>1 DEF ReviewDelivers, Approving, Delivering
  <1> QED
    BY <1>1, <1>2 DEF Deliveries

\* A reviewer that is at rest again, or an actor that never delivers.
LEMMA RestEvidence ==
  ASSUME Typed, Deliveries, NEW a \in Actors, Rest(a),
         committed' = committed, row' = row, item' = item
  PROVE  Deliveries'
  <1>1. job'[a].pc = "idle" /\ \A b \in Actors : b # a => job'[b] = job[b]
    BY DEF Typed, Places, Rest, Idle
  <1>2. \A r \in Runs : RunDelivers(r)'
    BY <1>1 DEF Deliveries, RunDelivers, Accepted, Actors
  <1>3. \A v \in Reviewers : ReviewDelivers(v)'
    BY <1>1 DEF Deliveries, ReviewDelivers, Accepted, Actors, Approving, Delivering
  <1> QED
    BY <1>2, <1>3 DEF Deliveries

LEMMA WantsPc ==
  ASSUME Places, NEW a \in Actors, NEW pc, NEW kind, NEW v, Wants(a, pc, kind, v)
  PROVE  job'[a].pc = pc /\ job'[a].want = [kind |-> kind, ver |-> v]
  <1>1. job'[a] = [Idle EXCEPT !.pc = pc, !.want = [kind |-> kind, ver |-> v]]
    BY DEF Wants, Places
  <1> QED
    BY <1>1 DEF Idle

LEMMA RestPc ==
  ASSUME Places, NEW a \in Actors, Rest(a)
  PROVE  job'[a] = Idle /\ job'[a].pc = "idle"
  BY DEF Rest, Places, Idle

LEMMA FreeEvidence ==
  ASSUME Typed, Deliveries, NEW r \in Runs,
         \A a \in Actors : a # r => job'[a] = job[a],
         UNCHANGED <<committed, item>>,
         row' = row \/ lease \in {r, None},
         job'[r].pc \in {"idle", "seen", "asked", "newer", "pull", "lease", "after", "leased"}
  PROVE  Deliveries'
  <1>1. RunDelivers(r)'
    BY DEF RunDelivers
  <1> QED
    BY <1>1, RunEvidence

LEMMA DeliveryEvidence ==
  ASSUME Typed, Deliveries, NEW a \in Actors,
         \A b \in Actors : b # a => job'[b] = job[b],
         job'[a].copy = job[a].copy,
         job[a].pc \in {"query", "push", "answer"},
         job'[a].pc \in {"push", "answer", "save"},
         job'[a].pc = "save" => Accepted(PacketOf(a)),
         UNCHANGED <<row, item, committed>>
  PROVE  Deliveries'
  <1>1. CASE a \in Runs
    <2>1. RunDelivers(a)'
      BY <1>1 DEF Deliveries, RunDelivers, PacketOf, Accepted
    <2> QED
      BY <1>1, <2>1, RunEvidence
  <1>2. CASE a \in Reviewers
    <2>1. itemLease = a /\ a \notin Runs
      BY <1>2, ActorsAssumption DEF Typed, Places, ReviewPlaced
    <2>2. ReviewDelivers(a)'
      BY <1>2, <2>1 DEF Deliveries, ReviewDelivers, PacketOf, Accepted, Approving, Delivering
    <2> QED
      BY <1>2, <2>1, <2>2, ReviewEvidence
  <1> QED
    BY <1>1, <1>2 DEF Actors

LEMMA RewriteEvidence ==
  ASSUME Typed, Deliveries, NEW v \in Reviewers, job[v].pc \in Approving,
         NEW new, NEW pc, Rewrite(v, new, pc), committed' = committed,
         Unaltered(v) => ReviewDelivers(v)'
  PROVE  Deliveries'
  <1>1. itemLease = v /\ row' = row
    BY DEF Typed, Places, ReviewPlaced, Approving, Rewrite, unit
  <1>2. CASE Unaltered(v)
    <2>1. \A a \in Actors : a # v => job'[a] = job[a]
      BY <1>2 DEF Rewrite, Typed, Places
    <2> QED
      BY <1>1, <1>2, <2>1, ReviewEvidence
  <1>3. CASE ~Unaltered(v)
    BY <1>1, <1>3, RestEvidence DEF Rewrite, Actors
  <1> QED
    BY <1>2, <1>3

LEMMA DeliveriesStep ==
  ASSUME Typed, Records, Deliveries, [Next]_vars
  PROVE  Deliveries'
  <1> USE DEF Typed
  <1>1. ASSUME NEW r \in Runs, Look(r) PROVE Deliveries'
    <2>1. \A a \in Actors : a # r => job'[a] = job[a]
      BY <1>1 DEF Look, Places
    <2>2. job'[r].pc \in {"idle", "seen", "asked", "newer", "pull", "lease"}
      BY <1>1 DEF Look, Places, Actors, Job, Idle
    <2> QED
      BY <1>1, <2>1, <2>2, FreeEvidence DEF Look, world, unit, inbox
  <1>2. ASSUME NEW r \in Runs, Rotate(r) PROVE Deliveries'
    <2>1. \A a \in Actors : a # r => job'[a] = job[a]
      BY <1>2 DEF Rotate, Places
    <2>2. job'[r].pc \in {"idle", "seen", "asked", "newer", "pull", "lease"}
      BY <1>2 DEF Rotate, Places, Actors, Job, Idle
    <2> QED
      BY <1>2, <2>1, <2>2, FreeEvidence DEF Rotate, world, unit, inbox
  <1>3. ASSUME NEW r \in Runs, Decide(r) PROVE Deliveries'
    <2>1. \A a \in Actors : a # r => job'[a] = job[a]
      BY <1>3 DEF Decide, Places, Forget, Wants, Rest
    <2>2. job'[r].pc \in {"idle", "seen", "asked", "newer", "pull", "lease"}
      <3>1. CASE job' = [job EXCEPT ![r] = [Idle EXCEPT !.pc = "pull"]]
        <4>1. job'[r] = [Idle EXCEPT !.pc = "pull"]
          BY <3>1 DEF Places, Actors
        <4> QED
          BY <4>1 DEF Idle
      <3> QED
        BY <1>3, <3>1, WantsPc, RestPc DEF Decide, Forget, Actors
    <2> QED
      BY <1>3, <2>1, <2>2, FreeEvidence DEF Decide, world, unit, inbox
  <1>4. ASSUME NEW r \in Runs, Verdict(r) PROVE Deliveries'
    <2>1. \A a \in Actors : a # r => job'[a] = job[a]
      BY <1>4 DEF Verdict, Places, Forget, Wants, Rest
    <2>2. job'[r].pc \in {"idle", "seen", "asked", "newer", "pull", "lease"}
      <3>1. CASE job' = [job EXCEPT ![r] = [Idle EXCEPT !.pc = "newer"]]
        <4>1. job'[r] = [Idle EXCEPT !.pc = "newer"]
          BY <3>1 DEF Places, Actors
        <4> QED
          BY <4>1 DEF Idle
      <3> QED
        BY <1>4, <3>1, WantsPc, RestPc DEF Verdict, Forget, Actors
    <2> QED
      BY <1>4, <2>1, <2>2, FreeEvidence DEF Verdict, world, unit, inbox
  <1>5. ASSUME NEW r \in Runs, Newer(r) PROVE Deliveries'
    <2>1. \A a \in Actors : a # r => job'[a] = job[a]
      BY <1>5 DEF Newer, Places, Goto, Rest
    <2>2. job'[r].pc \in {"idle", "seen", "asked", "newer", "pull", "lease"}
      BY <1>5 DEF Newer, Places, Actors, Job, Idle, Goto, Rest
    <2> QED
      BY <1>5, <2>1, <2>2, FreeEvidence DEF Newer, world, unit, inbox
  <1>6. ASSUME NEW r \in Runs, Pull(r) PROVE Deliveries'
    <2>1. \A a \in Actors : a # r => job'[a] = job[a]
      BY <1>6 DEF Pull, Places, Wants, Rest
    <2>2. job'[r].pc \in {"idle", "seen", "asked", "newer", "pull", "lease"}
      BY <1>6, WantsPc, RestPc DEF Pull, Actors
    <2> QED
      BY <1>6, <2>1, <2>2, FreeEvidence DEF Pull, world, unit, inbox
  <1>7. ASSUME NEW r \in Runs, Acquire(r) PROVE Deliveries'
    <2>1. \A a \in Actors : a # r => job'[a] = job[a]
      BY <1>7 DEF Acquire, Places, Goto, Rest
    <2>2. job'[r].pc \in {"idle", "leased"}
      BY <1>7 DEF Acquire, Places, Actors, Job, Idle, Goto, Rest
    <2>3. row' = row \/ lease \in {r, None}
      BY <1>7 DEF Acquire, UnitFree, unit
    <2> QED
      BY <1>7, <2>1, <2>2, <2>3, FreeEvidence DEF Acquire, world, inbox
  <1>8. ASSUME NEW r \in Runs, Freeze(r) PROVE Deliveries'
    <2>1. lease = r /\ row # None
      BY <1>8 DEF Freeze, Places, RunPlaced, Owning
    <2>2. \A a \in Actors : a # r => job'[a] = job[a]
      BY <1>8 DEF Freeze, Places, Goto
    <2>3. job'[r].pc = Continue(row')
      BY <1>8 DEF Freeze, Goto, Places, Actors, Job
    <2>4. row'.receipt => Accepted(row'.packet)
      <3>1. CASE row' = row
        BY <2>1, <3>1 DEF Records
      <3>2. CASE /\ row.packet = None /\ made < MaxPackets
                 /\ row' = [row EXCEPT !.phase = "prepared",
                              !.packet = [id |-> made + 1, scope |-> row.scope, body |-> 0]]
        BY <2>1, <3>2, FrozenTyped DEF Records
      <3> QED
        BY <1>8, <3>1, <3>2 DEF Freeze
    <2>5. RunDelivers(r)'
      BY <1>8, <2>3, <2>4 DEF RunDelivers, Continue, Freeze, Accepted, world
    <2> QED
      BY <1>8, <2>1, <2>2, <2>5, RunEvidence DEF Freeze, world, inbox
  <1>9. ASSUME NEW r \in Runs, Park(r) PROVE Deliveries'
    <2>1. Parks /\ row.scope.kind = "upsert"
      BY <1>9 DEF Park, Places, RunPlaced
    <2>2. (\A a \in Actors : a # r => job'[a] = job[a]) /\ job'[r].pc = "close"
      BY <1>9 DEF Park, Places, Goto, Actors, Job
    <2>3. RunDelivers(r)'
      BY <1>9, <2>1, <2>2 DEF RunDelivers, Park, unit
    <2> QED
      BY <1>9, <2>2, <2>3, RunEvidence DEF Park, world, unit
  <1>10. ASSUME NEW r \in Runs, Mark(r) PROVE Deliveries'
    <2>1. lease = r /\ row # None /\ row \in Row
      BY <1>10 DEF Mark, Stores, Places, RunPlaced, Owning
    <2>2. (\A a \in Actors : a # r => job'[a] = job[a]) /\ job'[r].pc = "push"
      BY <1>10 DEF Mark, Places, Goto, Actors, Job
    <2>3. RunDelivers(r)'
      BY <1>10, <2>1, <2>2 DEF Deliveries, RunDelivers, Mark, Accepted, unit, world, Row
    <2> QED
      BY <1>10, <2>1, <2>2, <2>3, RunEvidence DEF Mark, world, unit, inbox
  <1>11. ASSUME NEW r \in Runs, Save(r) PROVE Deliveries'
    <2>1. lease = r /\ row # None /\ row \in Row
      BY <1>11 DEF Save, Stores, Places, RunPlaced, Owning
    <2>2. (\A a \in Actors : a # r => job'[a] = job[a]) /\ job'[r].pc = "received"
      BY <1>11 DEF Save, Places, Goto, Actors, Job
    <2>3. RunDelivers(r)'
      BY <1>11, <2>1, <2>2 DEF Deliveries, RunDelivers, Save, Accepted, unit, world, Row
    <2> QED
      BY <1>11, <2>1, <2>2, <2>3, RunEvidence DEF Save, world, unit, inbox
  <1>12. ASSUME NEW r \in Runs, Learn(r) PROVE Deliveries'
    <2>1. lease = r /\ row # None /\ row \in Row
      BY <1>12 DEF Learn, Stores, Places, RunPlaced, Owning
    <2>2. (\A a \in Actors : a # r => job'[a] = job[a]) /\ job'[r].pc = "close"
      BY <1>12 DEF Learn, Places, Goto, Actors, Job
    <2>3. RunDelivers(r)'
      BY <1>12, <2>1, <2>2 DEF Deliveries, RunDelivers, Learn, Accepted, unit, world, Row
    <2> QED
      BY <1>12, <2>1, <2>2, <2>3, RunEvidence DEF Learn, world, unit, inbox
  <1>13. ASSUME NEW r \in Runs, Close(r) PROVE Deliveries'
    <2>1. lease = r
      BY <1>13 DEF Close, Places, RunPlaced, Owning
    <2>2. \A a \in Actors : a # r => job'[a] = job[a]
      BY <1>13 DEF Close, Places, Goto, Rest
    <2>3. job'[r].pc \in {"idle", "after"}
      BY <1>13 DEF Close, Places, Actors, Job, Idle, Goto, Rest
    <2> QED
      BY <1>13, <2>1, <2>2, <2>3, FreeEvidence DEF Close, world, inbox
  <1>14. ASSUME NEW r \in Runs, After(r) PROVE Deliveries'
    BY <1>14, RestEvidence DEF After, Actors, world, unit, inbox
  <1>15. ASSUME NEW v \in Reviewers, Edit(v) PROVE Deliveries'
    <2>1. \A w \in Reviewers : job[w].pc = "idle"
      BY <1>15, ActorsAssumption DEF Edit, ItemFree, Places, ReviewPlaced, Actors
    <2>2. \A w \in Reviewers : ReviewDelivers(w)'
      BY <1>15, <2>1 DEF Edit, ReviewDelivers, Approving, Delivering
    <2> QED
      BY <1>15, <2>2 DEF Edit, Deliveries, RunDelivers, Accepted, world, unit
  <1>16. ASSUME NEW v \in Reviewers, RejectKnown(v) PROVE Deliveries'
    <2>1. (\A a \in Actors : a # v => job'[a] = job[a]) /\ job'[v].pc = "rejecting"
      BY <1>16 DEF RejectKnown, Places, Goto, Actors, Job
    <2>2. ReviewDelivers(v)'
      BY <1>16, <2>1 DEF ReviewDelivers, RejectKnown, Undelivered, Approving, Delivering
    <2> QED
      BY <1>16, <2>1, <2>2, ReviewEvidence DEF RejectKnown, ItemFree, world, unit
  <1>17. ASSUME NEW v \in Reviewers, RejectItem(v) PROVE Deliveries'
    <2>1. itemLease = v
      BY <1>17 DEF RejectItem, Places, ReviewPlaced
    <2>2. (\A a \in Actors : a # v => job'[a] = job[a]) /\ job'[v].pc = "idle"
      BY <1>17 DEF RejectItem, Rest, Idle, Places, Actors
    <2>3. ReviewDelivers(v)'
      BY <2>2 DEF ReviewDelivers, Approving, Delivering
    <2> QED
      BY <1>17, <2>1, <2>2, <2>3, ReviewEvidence DEF RejectItem, world, unit
  <1>18. ASSUME NEW v \in Reviewers, Finish(v) PROVE Deliveries'
    <2>1. itemLease = v
      BY <1>18 DEF Finish, Places, ReviewPlaced
    <2>2. (\A a \in Actors : a # v => job'[a] = job[a]) /\ job'[v].pc = "idle"
      BY <1>18 DEF Finish, Rest, Idle, Places, Actors
    <2>3. ReviewDelivers(v)'
      BY <2>2 DEF ReviewDelivers, Approving, Delivering
    <2> QED
      BY <1>18, <2>1, <2>2, <2>3, ReviewEvidence DEF Finish, world, unit
  <1>19. ASSUME NEW v \in Reviewers, Open(v) PROVE Deliveries'
    <2>1. item \in Item /\ (item.receipt => Accepted(item.packet) /\ item.delivery # "none")
      BY <1>19 DEF Open, Stores, Records
    <2>2. /\ \A a \in Actors : a # v => job'[a] = job[a]
          /\ job'[v].copy = item
          /\ job'[v].pc = IF item.receipt THEN "received" ELSE Resume(item.delivery)
      BY <1>19 DEF Open, Places, Actors, Job
    <2>3. ReviewDelivers(v)'
      <3>1. item' = item /\ committed' = committed /\ job'[v].copy = item
        BY <1>19, <2>2 DEF Open, world
      <3>2. CASE item.receipt
        BY <2>1, <2>2, <3>1, <3>2 DEF ReviewDelivers, Delivering, Approving, Accepted
      <3>3. CASE ~item.receipt
        <4>1. \/ item.delivery = "none" /\ job'[v].pc = "intend"
              \/ item.delivery = "saved" /\ job'[v].pc = "mark"
              \/ item.delivery = "submitted" /\ job'[v].pc = "query"
          BY <2>1, <2>2, <3>3 DEF Resume, Item
        <4> QED
          BY <3>1, <3>3, <4>1 DEF ReviewDelivers, Delivering, Approving
      <3> QED
        BY <3>2, <3>3
    <2> QED
      BY <1>19, <2>2, <2>3, ReviewEvidence DEF Open, ItemFree, world, unit
  <1>20. ASSUME NEW v \in Reviewers, Intend(v) PROVE Deliveries'
    <2>1. job[v].pc \in Approving /\ job[v].copy \in Item
      BY <1>20 DEF Intend, Places, ReviewPlaced, Approving
    <2>2. ASSUME Unaltered(v) PROVE ReviewDelivers(v)'
      <3>1. job'[v].pc = "mark" /\ job'[v].copy = item'
        BY <1>20, <2>2 DEF Intend, Rewrite, Places, Actors, Job
      <3> QED
        BY <1>20, <2>1, <2>2, <3>1
           DEF Intend, Rewrite, Deliveries, ReviewDelivers, Approving, Delivering, Item, Accepted,
               world, Unaltered
    <2> QED
      BY <1>20, <2>1, <2>2, RewriteEvidence DEF Intend, Rewrite, world
  <1>21. ASSUME NEW v \in Reviewers, Submit(v) PROVE Deliveries'
    <2>1. job[v].pc \in Approving /\ job[v].copy \in Item
      BY <1>21 DEF Submit, Places, ReviewPlaced, Approving
    <2>2. ASSUME Unaltered(v) PROVE ReviewDelivers(v)'
      <3>1. job'[v].pc = "push" /\ job'[v].copy = item'
        BY <1>21, <2>2 DEF Submit, Rewrite, Places, Actors, Job
      <3> QED
        BY <1>21, <2>1, <2>2, <3>1
           DEF Submit, Rewrite, Deliveries, ReviewDelivers, Approving, Delivering, Item, Accepted,
               world, Unaltered
    <2> QED
      BY <1>21, <2>1, <2>2, RewriteEvidence DEF Submit, Rewrite, world
  <1>22. ASSUME NEW v \in Reviewers, SaveReceipt(v) PROVE Deliveries'
    <2>1. job[v].pc \in Approving /\ job[v].copy \in Item
      BY <1>22 DEF SaveReceipt, Places, ReviewPlaced, Approving
    <2>2. ASSUME Unaltered(v) PROVE ReviewDelivers(v)'
      <3>1. job'[v].pc = "received" /\ job'[v].copy = item'
        BY <1>22, <2>2 DEF SaveReceipt, Rewrite, Places, Actors, Job
      <3> QED
        BY <1>22, <2>1, <2>2, <3>1
           DEF SaveReceipt, Rewrite, Deliveries, ReviewDelivers, Approving, Delivering, Item, Accepted,
               world, Unaltered
    <2> QED
      BY <1>22, <2>1, <2>2, RewriteEvidence DEF SaveReceipt, Rewrite, world
  <1>23. ASSUME NEW v \in Reviewers, Approve(v) PROVE Deliveries'
    <2>1. itemLease = v
      BY <1>23 DEF Approve, Places, ReviewPlaced
    <2>2. (\A a \in Actors : a # v => job'[a] = job[a]) /\ job'[v].pc = "finish" /\ job'[v].copy = job[v].copy
      BY <1>23 DEF Approve, Goto, Places, Actors, Job
    <2>3. ReviewDelivers(v)'
      BY <1>23, <2>2
         DEF Approve, Deliveries, ReviewDelivers, Approving, Delivering, Accepted, world, inbox
    <2> QED
      BY <1>23, <2>1, <2>2, <2>3, ReviewEvidence DEF Approve, world, unit
  <1>24. ASSUME NEW a \in Actors, Push(a) PROVE Deliveries'
    <2>1. /\ \A b \in Actors : b # a => job'[b] = job[b]
          /\ job'[a].pc = "answer" /\ job'[a].copy = job[a].copy
      BY <1>24 DEF Push, Places, Job
    <2> QED
      BY <1>24, <2>1, DeliveryEvidence DEF Push, world, unit, inbox
  <1>25. ASSUME NEW a \in Actors, Answer(a) PROVE Deliveries'
    <2>1. CASE Releases(a)
      BY <1>25, <2>1, RestEvidence DEF Answer, Releases, world
    <2>2. CASE Goto(a, "save") /\ Accepted(PacketOf(a))
      <3>1. /\ \A b \in Actors : b # a => job'[b] = job[b]
            /\ job'[a].pc = "save" /\ job'[a].copy = job[a].copy
        BY <2>2 DEF Goto, Places, Job
      <3> QED
        BY <1>25, <2>2, <3>1, DeliveryEvidence DEF Answer, world
    <2> QED
      BY <1>25, <2>1, <2>2 DEF Answer, Verdicts, Succeeds, Accepted
  <1>26. ASSUME NEW a \in Actors, Query(a) PROVE Deliveries'
    <2>1. CASE Releases(a)
      BY <1>26, <2>1, RestEvidence DEF Query, Releases, world
    <2>2. CASE Goto(a, "save") /\ Accepted(PacketOf(a))
      <3>1. /\ \A b \in Actors : b # a => job'[b] = job[b]
            /\ job'[a].pc = "save" /\ job'[a].copy = job[a].copy
        BY <2>2 DEF Goto, Places, Job
      <3> QED
        BY <1>26, <2>2, <3>1, DeliveryEvidence DEF Query, world
    <2>3. CASE job' = [job EXCEPT ![a].pc = "push", ![a].absent = TRUE]
      <3>1. /\ \A b \in Actors : b # a => job'[b] = job[b]
            /\ job'[a].pc = "push" /\ job'[a].copy = job[a].copy
        BY <2>3 DEF Places, Job
      <3> QED
        BY <1>26, <3>1, DeliveryEvidence DEF Query, world
    <2> QED
      BY <1>26, <2>1, <2>2, <2>3 DEF Query, Verdicts, Succeeds, Accepted
  <1>27. ASSUME NEW a \in Actors, Fail(a) PROVE Deliveries'
    BY <1>27, RestEvidence DEF Fail, Releases, world
  <1>28. ASSUME NEW a \in Actors, Crash(a) PROVE Deliveries'
    BY <1>28, RestEvidence DEF Crash, Releases, world
  <1>29. CASE UNCHANGED <<row, item, job>>
    BY <1>29, AcceptedStays, CommittedGrows DEF Deliveries, RunDelivers, ReviewDelivers
  <1> QED
    BY <1>1, <1>2, <1>3, <1>4, <1>5, <1>6, <1>7, <1>8, <1>9, <1>10, <1>11, <1>12, <1>13, <1>14, <1>15, <1>16, <1>17, <1>18, <1>19, <1>20, <1>21, <1>22, <1>23, <1>24, <1>25, <1>26, <1>27, <1>28, <1>29 DEF Next, RunStep, ReviewStep, Deliver, Write, Delete, Apply, Lose,
       vars, unit, inbox

LEMMA RecordsStep ==
  ASSUME Typed, Records, Deliveries, [Next]_vars
  PROVE  Records'
  <1> USE DEF Typed
  <1>1. ASSUME NEW r \in Runs, Acquire(r) PROVE Records'
    <2>1. job[r].want \in Want /\ (row' = row \/ row' = NewRow(job[r].want))
      BY <1>1 DEF Acquire, Places, RunPlaced, unit
    <2>2. CASE row' = row
      BY <1>1, <2>2 DEF Acquire, Records, Accepted, world, inbox
    <2>3. CASE row' = NewRow(job[r].want)
      BY <1>1, <2>1, <2>3 DEF Acquire, NewRow, Records, Accepted, world, inbox
    <2> QED
      BY <2>1, <2>2, <2>3
  <1>2. ASSUME NEW r \in Runs, Freeze(r) PROVE Records'
    <2>1. row # None /\ item' = item /\ committed' = committed
      BY <1>2 DEF Freeze, Places, RunPlaced, Owning, world, inbox
    <2>2. CASE row' = row
      BY <2>1, <2>2 DEF Records, Accepted
    <2>3. CASE /\ row.packet = None /\ made < MaxPackets
               /\ row' = [row EXCEPT !.phase = "prepared",
                            !.packet = [id |-> made + 1, scope |-> row.scope, body |-> 0]]
      BY <2>1, <2>3, FrozenTyped DEF Records, Accepted
    <2> QED
      BY <1>2, <2>2, <2>3 DEF Freeze
  <1>3. ASSUME NEW r \in Runs, Park(r) PROVE Records'
    <2>1. item' = item \/ (item'.receipt = FALSE)
      BY <1>3 DEF Park
    <2> QED
      BY <1>3, <2>1 DEF Park, Records, Accepted, world, unit
  <1>4. ASSUME NEW r \in Runs, Mark(r) PROVE Records'
    <2>1. row # None /\ row \in Row /\ row.packet # None
      BY <1>4 DEF Mark, Stores, Places, RunPlaced, Owning
    <2>2. row' = [row EXCEPT !.phase = "submitted"] /\ item' = item /\ committed' = committed
      BY <1>4 DEF Mark, world, inbox
    <2>3. row'.packet = row.packet /\ row'.scope = row.scope
          /\ row'.phase = "submitted"
          /\ row'.receipt = row.receipt
      BY <2>1, <2>2 DEF Row
    <2> QED
      BY <1>4, <2>1, <2>2, <2>3 DEF Mark, Records, Deliveries, RunDelivers, Accepted
  <1>5. ASSUME NEW r \in Runs, Save(r) PROVE Records'
    <2>1. row # None /\ row \in Row /\ row.packet # None
      BY <1>5 DEF Save, Stores, Places, RunPlaced, Owning
    <2>2. row' = [row EXCEPT !.receipt = TRUE] /\ item' = item /\ committed' = committed
      BY <1>5 DEF Save, world, inbox
    <2>3. row'.packet = row.packet /\ row'.scope = row.scope
          /\ row'.phase = row.phase
          /\ row'.receipt = TRUE
      BY <2>1, <2>2 DEF Row
    <2> QED
      BY <1>5, <2>1, <2>2, <2>3 DEF Save, Records, Deliveries, RunDelivers, Accepted
  <1>6. ASSUME NEW r \in Runs, Close(r) PROVE Records'
    BY <1>6 DEF Close, Records, Accepted, world, inbox
  <1>7. ASSUME NEW v \in Reviewers, Edit(v) PROVE Records'
    <2>1. item \in Item
      BY <1>7 DEF Edit, Undelivered, Stores
    <2>2. item'.receipt = item.receipt /\ ~item.receipt
      BY <1>7, <2>1 DEF Edit, Undelivered, Records, Item
    <2> QED
      BY <1>7, <2>2 DEF Edit, Records, Accepted, world, unit
  <1>8. ASSUME NEW v \in Reviewers, RejectItem(v) PROVE Records'
    BY <1>8 DEF RejectItem, Records, Accepted, world, unit
  <1>9. ASSUME NEW v \in Reviewers, Finish(v) PROVE Records'
    BY <1>9 DEF Finish, Records, Accepted, world, unit
  <1>10. ASSUME NEW v \in Reviewers, Intend(v) PROVE Records'
    <2>1. row' = row /\ committed' = committed /\ job[v].copy \in Item
      BY <1>10 DEF Intend, Rewrite, world, unit, Places, ReviewPlaced, Approving
    <2>2. CASE item' = item
      BY <2>1, <2>2 DEF Records, Accepted
    <2>3. CASE item = job[v].copy /\ item' = [item EXCEPT !.delivery = "saved"]
      <3>1. item'.packet = item.packet /\ item'.delivery = "saved" /\ item'.receipt = item.receipt
            /\ item # None
        BY <2>1, <2>3, NoneAssumption DEF Item
      <3> QED
        BY <1>10, <2>1, <2>3, <3>1 DEF Intend, Records, Deliveries, ReviewDelivers, Accepted
    <2> QED
      BY <1>10, <2>2, <2>3 DEF Intend, Rewrite, Unaltered
  <1>11. ASSUME NEW v \in Reviewers, Submit(v) PROVE Records'
    <2>1. row' = row /\ committed' = committed /\ job[v].copy \in Item
      BY <1>11 DEF Submit, Rewrite, world, unit, Places, ReviewPlaced, Approving
    <2>2. CASE item' = item
      BY <2>1, <2>2 DEF Records, Accepted
    <2>3. CASE item = job[v].copy /\ item' = [item EXCEPT !.delivery = "submitted"]
      <3>1. item'.packet = item.packet /\ item'.delivery = "submitted" /\ item'.receipt = item.receipt
            /\ item # None
        BY <2>1, <2>3, NoneAssumption DEF Item
      <3> QED
        BY <1>11, <2>1, <2>3, <3>1 DEF Submit, Records, Deliveries, ReviewDelivers, Accepted
    <2> QED
      BY <1>11, <2>2, <2>3 DEF Submit, Rewrite, Unaltered
  <1>12. ASSUME NEW v \in Reviewers, SaveReceipt(v) PROVE Records'
    <2>1. row' = row /\ committed' = committed /\ job[v].copy \in Item
      BY <1>12 DEF SaveReceipt, Rewrite, world, unit, Places, ReviewPlaced, Approving
    <2>2. CASE item' = item
      BY <2>1, <2>2 DEF Records, Accepted
    <2>3. CASE item = job[v].copy /\ item' = [item EXCEPT !.receipt = TRUE]
      <3>1. item'.packet = item.packet /\ item'.delivery = item.delivery /\ item'.receipt = TRUE
            /\ item # None
        BY <2>1, <2>3, NoneAssumption DEF Item
      <3> QED
        BY <1>12, <2>1, <2>3, <3>1 DEF SaveReceipt, Records, Deliveries, ReviewDelivers, Accepted
    <2> QED
      BY <1>12, <2>2, <2>3 DEF SaveReceipt, Rewrite, Unaltered
  <1>13. CASE UNCHANGED <<row, item>>
    BY <1>13, AcceptedStays, CommittedGrows DEF Records
  <1> QED
    BY <1>1, <1>2, <1>3, <1>4, <1>5, <1>6, <1>7, <1>8, <1>9, <1>10, <1>11, <1>12, <1>13
       DEF Next, RunStep, ReviewStep, Deliver, Look, Rotate, Decide, Verdict, Newer, Pull, Learn,
           After, RejectKnown, Open, Approve, Push, Answer, Query, Fail, Crash, Write, Delete,
           Apply, Lose, Releases, Forget, vars, unit, inbox

\* Evidence is given up only for a packet that is accepted.
LEMMA RetainedStays ==
  ASSUME Typed, Records, Deliveries, [Next]_vars, NEW p, Retained(p), ~Accepted(p)
  PROVE  Retained(p)'
  <1> USE DEF Typed
  <1>1. ASSUME NEW r \in Runs, Acquire(r) PROVE Retained(p)'
    BY <1>1 DEF Acquire, Reopens, Retained, unit, inbox
  <1>2. ASSUME NEW r \in Runs, Freeze(r) PROVE Retained(p)'
    <2>1. CASE row' = row
      BY <1>2, <2>1 DEF Freeze, Retained, inbox
    <2>2. CASE row.packet = None
      BY <1>2, <2>2 DEF Freeze, Records, Retained, inbox
    <2> QED
      BY <1>2, <2>1, <2>2 DEF Freeze
  <1>3. ASSUME NEW r \in Runs, Park(r) PROVE Retained(p)'
    BY <1>3 DEF Park, Replaceable, Retained, unit
  <1>4. ASSUME NEW r \in Runs, Mark(r) PROVE Retained(p)'
    <2>1. row # None /\ row \in Row /\ row.packet # None
      BY <1>4 DEF Mark, Stores, Places, RunPlaced, Owning
    <2>2. row' # None /\ row'.packet = row.packet /\ (row.phase = "submitted" => row'.phase = "submitted")
      BY <1>4, <2>1, NoneAssumption DEF Mark, Row
    <2> QED
      BY <1>4, <2>1, <2>2 DEF Mark, Retained, inbox
  <1>5. ASSUME NEW r \in Runs, Save(r) PROVE Retained(p)'
    <2>1. row # None /\ row \in Row /\ row.packet # None
      BY <1>5 DEF Save, Stores, Places, RunPlaced, Owning
    <2>2. row' # None /\ row'.packet = row.packet /\ (row.phase = "submitted" => row'.phase = "submitted")
      BY <1>5, <2>1, NoneAssumption DEF Save, Row
    <2> QED
      BY <1>5, <2>1, <2>2 DEF Save, Retained, inbox
  <1>6. ASSUME NEW r \in Runs, Close(r) PROVE Retained(p)'
    <2>1. row # None /\ (row.packet = p => row.phase # "submitted")
      BY <1>6 DEF Close, Places, RunPlaced, Owning, Deliveries, RunDelivers, Records
    <2> QED
      BY <1>6, <2>1 DEF Close, Retained, inbox
  <1>7. ASSUME NEW v \in Reviewers, Edit(v) PROVE Retained(p)'
    BY <1>7 DEF Edit, Undelivered, Retained, unit
  <1>8. ASSUME NEW v \in Reviewers, RejectItem(v) PROVE Retained(p)'
    BY <1>8 DEF RejectItem, Deliveries, ReviewDelivers, Retained, unit
  <1>9. ASSUME NEW v \in Reviewers, Intend(v) PROVE Retained(p)'
    <2>1. CASE item' = item
      BY <1>9, <2>1 DEF Intend, Rewrite, Retained, unit
    <2>2. CASE item = job[v].copy /\ item' = [item EXCEPT !.delivery = "saved"]
      <3>1. item \in Item /\ (item.delivery = "submitted" => job[v].pc # "intend")
        BY <1>9, <2>2 DEF Intend, Places, ReviewPlaced, Approving, Deliveries, ReviewDelivers
      <3>2. /\ item' # None /\ item'.packet = item.packet
            /\ item.delivery = "submitted" => item'.delivery = "submitted"
        BY <1>9, <2>2, <3>1, NoneAssumption DEF Intend, Item
      <3> QED
        BY <1>9, <2>2, <3>2 DEF Intend, Rewrite, Retained, unit
    <2> QED
      BY <1>9, <2>1, <2>2 DEF Intend, Rewrite, Unaltered
  <1>10. ASSUME NEW v \in Reviewers, Submit(v) PROVE Retained(p)'
    <2>1. CASE item' = item
      BY <1>10, <2>1 DEF Submit, Rewrite, Retained, unit
    <2>2. CASE item = job[v].copy /\ item' = [item EXCEPT !.delivery = "submitted"]
      <3>1. item \in Item /\ (item.delivery = "submitted" => job[v].pc # "intend")
        BY <1>10, <2>2 DEF Submit, Places, ReviewPlaced, Approving, Deliveries, ReviewDelivers
      <3>2. /\ item' # None /\ item'.packet = item.packet
            /\ item.delivery = "submitted" => item'.delivery = "submitted"
        BY <1>10, <2>2, <3>1, NoneAssumption DEF Submit, Item
      <3> QED
        BY <1>10, <2>2, <3>2 DEF Submit, Rewrite, Retained, unit
    <2> QED
      BY <1>10, <2>1, <2>2 DEF Submit, Rewrite, Unaltered
  <1>11. ASSUME NEW v \in Reviewers, SaveReceipt(v) PROVE Retained(p)'
    <2>1. CASE item' = item
      BY <1>11, <2>1 DEF SaveReceipt, Rewrite, Retained, unit
    <2>2. CASE item = job[v].copy /\ item' = [item EXCEPT !.receipt = TRUE]
      <3>1. item \in Item /\ (item.delivery = "submitted" => job[v].pc # "intend")
        BY <1>11, <2>2 DEF SaveReceipt, Places, ReviewPlaced, Approving, Deliveries, ReviewDelivers
      <3>2. /\ item' # None /\ item'.packet = item.packet
            /\ item.delivery = "submitted" => item'.delivery = "submitted"
        BY <1>11, <2>2, <3>1, NoneAssumption DEF SaveReceipt, Item
      <3> QED
        BY <1>11, <2>2, <3>2 DEF SaveReceipt, Rewrite, Retained, unit
    <2> QED
      BY <1>11, <2>1, <2>2 DEF SaveReceipt, Rewrite, Unaltered
  <1>12. ASSUME NEW v \in Reviewers, Finish(v) PROVE Retained(p)'
    <2>1. item # None /\ item.packet = p => item' = item
      BY <1>12 DEF Finish, Deliveries, ReviewDelivers
    <2> QED
      BY <1>12, <2>1 DEF Finish, Retained, unit
  <1>13. CASE UNCHANGED <<row, item>>
    BY <1>13 DEF Retained
  <1> QED
    BY <1>1, <1>2, <1>3, <1>4, <1>5, <1>6, <1>7, <1>8, <1>9, <1>10, <1>11, <1>12, <1>13
       DEF Next, RunStep, ReviewStep, Deliver, Look, Rotate, Decide, Verdict, Newer, Pull, Learn,
           After, RejectKnown, Open, Approve, Push, Answer, Query, Fail, Crash, Write, Delete,
           Apply, Lose, Releases, Forget, vars, unit, inbox

LEMMA SentIsRetained ==
  ASSUME Typed, Deliveries, NEW a \in Actors, Push(a)
  PROVE  Retained(PacketOf(a))'
  <1> USE DEF Typed
  <1>1. UNCHANGED <<row, item, job[a].copy>>
    BY DEF Push, unit, inbox, Places, Job
  <1>2. CASE a \in Runs
    <2>1. row # None /\ row.phase = "submitted"
      BY <1>2 DEF Push, Places, RunPlaced, Owning, Deliveries, RunDelivers
    <2> QED
      BY <1>1, <1>2, <2>1 DEF Retained, PacketOf
  <1>3. CASE a \in Reviewers
    <2>1. a \notin Runs /\ item # None /\ item = job[a].copy /\ item.delivery = "submitted"
      BY <1>3, ActorsAssumption, NoneAssumption
         DEF Push, Places, ReviewPlaced, Approving, Delivering, Deliveries, ReviewDelivers
    <2> QED
      BY <1>1, <1>3, <2>1 DEF Retained, PacketOf
  <1> QED
    BY <1>2, <1>3 DEF Actors

LEMMA SentGrows ==
  ASSUME Typed, [Next]_vars
  PROVE  sent' = sent \/ \E a \in Actors : Push(a) /\ sent' = sent \cup {PacketOf(a)}
  BY DEF Next, RunStep, ReviewStep, Deliver, vars, network, Look, Rotate, Decide, Verdict,
     Newer, Pull, Acquire, Freeze, Park, Mark, Save, Learn, Close, After, Edit, RejectKnown,
     RejectItem, Open, Rewrite, Intend, Submit, SaveReceipt, Approve, Finish, Push, Answer,
     Query, Fail, Crash, Write, Delete, Apply, Lose

LEMMA ForgottenStep ==
  ASSUME Typed, Evidence, [Next]_vars
  PROVE  NothingForgotten'
  <1> USE DEF Typed, Evidence
  <1>1. ASSUME NEW p \in sent PROVE Accepted(p)' \/ Retained(p)'
    BY <1>1, AcceptedStays, CommittedGrows, RetainedStays DEF NothingForgotten
  <1>2. ASSUME NEW a \in Actors, Push(a), sent' = sent \cup {PacketOf(a)}
        PROVE  NothingForgotten'
    <2>1. PacketOf(a)' = PacketOf(a)
      BY <1>2 DEF Push, PacketOf, unit, Places, Job
    <2>2. \A p \in {PacketOf(a)} : Retained(p)'
      BY <1>2, <2>1, SentIsRetained DEF Retained
    <2> QED
      BY <1>1, <1>2, <2>2 DEF NothingForgotten
  <1>3. CASE sent' = sent
    BY <1>1, <1>3 DEF NothingForgotten
  <1> QED
    BY <1>2, <1>3, SentGrows

LEMMA EvidenceInit == Init => Evidence
  BY DEF Init, Idle, Evidence, Records, Deliveries, RunDelivers, ReviewDelivers, Actors,
     NothingForgotten, Approving, Delivering

LEMMA EvidenceStep == Typed /\ Evidence /\ [Next]_vars => Evidence'
  BY RecordsStep, DeliveriesStep, ForgottenStep DEF Evidence

LEMMA EvidenceAlways == Spec => [](Typed /\ Evidence)
  BY TypedInit, TypedStep, EvidenceInit, EvidenceStep, PTL DEF Spec

(* A packet that left for the target and is not known to be accepted there *)
(* is kept, marked as submitted, in the row or in the pending item.        *)
THEOREM EvidenceKept == Spec => []NothingForgotten
  BY EvidenceAlways, PTL DEF Evidence

LEMMA DeliveriesPending == Typed /\ Evidence => DeliversPending
  BY DEF Evidence, Deliveries, ReviewDelivers, Delivering, Approving, DeliversPending

(* From its saved intent on, an approval delivers the pending item as it   *)
(* stands, whoever edits, rejects, approves or parks beside it.            *)
THEOREM PendingDelivered == Spec => []DeliversPending
  BY EvidenceAlways, DeliveriesPending, PTL

-----------------------------------------------------------------------------
(* What the state file says.                                                *)

\* The packet of a row is the one it had, or it is frozen with a new id.
LEMMA RowOrigin ==
  ASSUME Typed, [Next]_vars, row' # None, row'.packet # None
  PROVE  \/ row # None /\ row.packet = row'.packet /\ made' = made
         \/ row'.packet.id = made + 1 /\ made' = made + 1 /\ UNCHANGED <<item, sent>>
  <1> USE DEF Typed
  <1>1. ASSUME NEW r \in Runs, Acquire(r) PROVE row # None /\ row.packet = row'.packet /\ made' = made
    BY <1>1 DEF Acquire, NewRow, unit
  <1>2. ASSUME NEW r \in Runs, Freeze(r) PROVE
           \/ row # None /\ row.packet = row'.packet /\ made' = made
           \/ row'.packet.id = made + 1 /\ made' = made + 1 /\ UNCHANGED <<item, sent>>
    <2>1. row # None
      BY <1>2 DEF Freeze, Places, RunPlaced, Owning
    <2>2. CASE UNCHANGED <<row, made>>
      BY <2>1, <2>2
    <2>3. CASE /\ made < MaxPackets /\ made' = made + 1
               /\ row' = [row EXCEPT !.phase = "prepared",
                            !.packet = [id |-> made + 1, scope |-> row.scope, body |-> 0]]
      BY <1>2, <2>1, <2>3, FrozenTyped DEF Freeze, inbox, network
    <2> QED
      BY <1>2, <2>2, <2>3 DEF Freeze
  <1>3. ASSUME NEW r \in Runs, Mark(r) \/ Save(r) PROVE row # None /\ row.packet = row'.packet /\ made' = made
    BY <1>3 DEF Mark, Save, Stores, Places, RunPlaced, Owning, Row
  <1>4. ASSUME NEW r \in Runs, Close(r) PROVE FALSE
    BY <1>4 DEF Close
  <1>5. CASE row' = row /\ made' = made
    BY <1>5
  <1> QED
    BY <1>1, <1>2, <1>3, <1>4, <1>5
       DEF Next, RunStep, ReviewStep, Deliver, Look, Rotate, Decide, Verdict, Newer, Pull, Park,
           Learn, After, Edit, RejectKnown, RejectItem, Open, Rewrite, Intend, Submit,
           SaveReceipt, Approve, Finish, Push, Answer, Query, Fail, Crash, Write, Delete,
           Apply, Lose, vars, unit

LEMMA MadeGrows ==
  ASSUME Typed, [Next]_vars
  PROVE  made' = made \/ (row' # None /\ row'.packet # None)
  <1>1. ASSUME NEW r \in Runs, Freeze(r) PROVE made' = made \/ (row' # None /\ row'.packet # None)
    <2>1. row # None
      BY <1>1 DEF Typed, Freeze, Places, RunPlaced, Owning
    <2> QED
      BY <1>1, <2>1, FrozenTyped DEF Typed, Freeze
  <1> QED
    BY <1>1
       DEF Next, RunStep, ReviewStep, Deliver, Look, Rotate, Decide, Verdict, Newer, Pull, Park,
           Acquire, Mark, Save, Close,
           Learn, After, Edit, RejectKnown, RejectItem, Open, Rewrite, Intend, Submit,
           SaveReceipt, Approve, Finish, Push, Answer, Query, Fail, Crash, Write, Delete,
           Apply, Lose, vars

\* The packet of an item is the one it had, edited at most, or a run parks its row's.
LEMMA ItemOrigin ==
  ASSUME Typed, [Next]_vars, item' # None
  PROVE  \/ /\ item # None
            /\ item.packet.id = item'.packet.id /\ item.packet.scope = item'.packet.scope
         \/ /\ \E r \in Runs : Park(r)
            /\ row # None /\ row.packet # None /\ row.packet = item'.packet
  <1> USE DEF Typed
  <1> DEFINE Had == /\ item # None
                    /\ item.packet.id = item'.packet.id /\ item.packet.scope = item'.packet.scope
  <1>1. ASSUME NEW r \in Runs, Park(r)
        PROVE  Had \/ (row # None /\ row.packet # None /\ row.packet = item'.packet)
    BY <1>1 DEF Park, Places, RunPlaced, Owning
  <1>2. ASSUME NEW v \in Reviewers, Edit(v) PROVE Had
    <2>1. item # None /\ item \in Item /\ item.packet \in Packet
      BY <1>2, ItemTyped DEF Edit, Undelivered
    <2>2. item' = [item EXCEPT !.packet = [item.packet EXCEPT !.body = item.packet.body + 1]]
      BY <1>2, <2>1 DEF Edit, Item, Packet
    <2>3. item'.packet = [item.packet EXCEPT !.body = item.packet.body + 1]
      BY <2>1, <2>2 DEF Item
    <2> QED
      BY <2>1, <2>3 DEF Packet
  <1>3. ASSUME NEW v \in Reviewers, NEW new \in Item, new.packet = job[v].copy.packet,
               job[v].pc \in Approving, NEW pc, Rewrite(v, new, pc)
        PROVE  Had
    BY <1>3, NoneAssumption DEF Rewrite, Unaltered, Places, ReviewPlaced
  <1>4. ASSUME NEW v \in Reviewers, Intend(v) \/ Submit(v) \/ SaveReceipt(v) PROVE Had
    <2>1. job[v].pc \in Approving /\ job[v].copy \in Item
      BY <1>4 DEF Intend, Submit, SaveReceipt, Places, ReviewPlaced, Approving
    <2> QED
      BY <1>3, <1>4, <2>1 DEF Intend, Submit, SaveReceipt, Item
  <1>5. ASSUME NEW v \in Reviewers, RejectItem(v) \/ Finish(v) PROVE Had
    BY <1>5 DEF RejectItem, Finish
  <1>6. CASE item' = item
    BY <1>6
  <1> QED
    BY <1>1, <1>2, <1>4, <1>5, <1>6
       DEF Next, RunStep, ReviewStep, Deliver, Look, Rotate, Decide, Verdict, Newer, Pull,
           Acquire, Freeze, Mark, Save, Learn, Close, After, RejectKnown, Open, Approve, Push,
           Answer, Query, Fail, Crash, Write, Delete, Apply, Lose, Releases, Forget, vars, inbox

\* A packet id stands for one scope.
LEMMA NamedStep ==
  ASSUME Typed, Evidence, Named, [Next]_vars
  PROVE  Named'
  <1>1. ASSUME NEW a \in Actors, Push(a)
        PROVE  PacketOf(a) \in Packet /\ Exists(PacketOf(a))
    <2>1. CASE a \in Runs
      <3>1. row # None /\ row.packet \in Packet
        BY <1>1, <2>1 DEF Typed, Stores, Places, RunPlaced, Push, Owning, Row
      <3> QED
        BY <2>1, <3>1 DEF PacketOf, Exists
    <2>2. CASE a \in Reviewers
      <3>1. a \notin Runs /\ item = job[a].copy /\ item \in Item
        BY <1>1, <2>2, ActorsAssumption
           DEF Typed, Places, ReviewPlaced, Evidence, Deliveries, ReviewDelivers, Push,
               Approving, Delivering
      <3> QED
        BY <3>1, NoneAssumption DEF PacketOf, Exists, Item
    <2> QED
      BY <2>1, <2>2 DEF Actors
  <1>2. \A p \in sent' : p \in sent \/ (p \in Packet /\ Exists(p))
    BY <1>1, SentGrows
  <1>3. ASSUME made' = made, NEW p \in Packet, Exists(p)'
        PROVE  \E q \in Packet : Exists(q) /\ q.id = p.id /\ q.scope = p.scope
    <2>1. CASE p \in sent'
      BY <1>2, <2>1 DEF Exists
    <2>2. CASE row' # None /\ row'.packet = p
      <3>1. p # None
        BY NoneAssumption
      <3> QED
        BY <1>3, <2>2, <3>1, RowOrigin DEF Exists, Typed, Stores
    <2>3. CASE item' # None /\ item'.packet = p
      <3>1. CASE item # None /\ item.packet.id = p.id /\ item.packet.scope = p.scope
        BY <3>1, ItemTyped DEF Exists
      <3>2. CASE row # None /\ row.packet = p
        BY <3>2 DEF Exists
      <3> QED
        BY <2>3, <3>1, <3>2, ItemOrigin
    <2> QED
      BY <1>3, <2>1, <2>2, <2>3 DEF Exists
  <1>4. CASE made' = made
    BY <1>3, <1>4 DEF Named
  <1>5. CASE made' # made
    <2>1. /\ row' # None /\ row'.packet.id = made + 1 /\ made' = made + 1
          /\ UNCHANGED <<item, sent>>
      BY <1>5, MadeGrows, RowOrigin
    <2>2. \A p \in Packet : Exists(p)' => p = row'.packet \/ (Exists(p) /\ p.id <= made)
      BY <2>1 DEF Exists, Named
    <2>3. made \in Nat
      BY BoundsAssumption DEF Typed, Stores
    <2> QED
      BY <2>1, <2>2, <2>3 DEF Named, Packet
  <1> QED
    BY <1>4, <1>5

\* Only the close of its row brings a run to the state file of a tombstone.
LEMMA AfterClose ==
  ASSUME Typed, [Next]_vars, NEW r \in Runs, job'[r].pc = "after"
  PROVE  job'[r] = job[r] \/ (Close(r) /\ job'[r].want = job[r].want)
  <1> USE DEF Typed
  <1> DEFINE Same == job'[r] = job[r]
  <1>1. r \in Actors /\ job \in [Actors -> Job]
    BY DEF Actors, Places
  <1>2. ASSUME NEW a \in Actors, NEW pc, pc # "after", Goto(a, pc) PROVE Same
    BY <1>1, <1>2 DEF Goto, Job
  <1>3. ASSUME NEW a \in Actors, Rest(a) PROVE Same
    BY <1>1, <1>3 DEF Rest, Idle
  <1>4. ASSUME NEW a \in Actors, NEW kind, NEW ver, Wants(a, "lease", kind, ver) PROVE Same
    BY <1>1, <1>4, IdleJob DEF Wants, Job
  <1>5. ASSUME NEW s \in Runs, Close(s) PROVE Same \/ (Close(r) /\ job'[r].want = job[r].want)
    BY <1>1, <1>3, <1>5 DEF Close, Goto, Job, Actors
  <1>6. ASSUME NEW s \in Runs, Freeze(s) PROVE Same
    <2>1. Continue(row') # "after"
      BY DEF Continue
    <2> QED
      BY <1>2, <1>6, <2>1 DEF Freeze, Actors
  <1>7. ASSUME NEW s \in Runs,
               \/ Look(s) \/ Decide(s) \/ Rotate(s) \/ Verdict(s) \/ Newer(s) \/ Pull(s)
               \/ Acquire(s) \/ Park(s) \/ Mark(s) \/ Save(s) \/ Learn(s) \/ After(s)
        PROVE  Same
    <2>1. s \in Actors
      BY DEF Actors
    <2>2. CASE Look(s)
      BY <1>1, <2>1, <2>2 DEF Look, Job
    <2>3. CASE Rotate(s)
      BY <1>1, <2>1, <2>3 DEF Rotate, Job
    <2>4. CASE Decide(s)
      <3>1. CASE job' = [job EXCEPT ![s] = [Idle EXCEPT !.pc = "pull"]]
        BY <1>1, <2>1, <3>1, IdleJob DEF Job
      <3> QED
        BY <1>3, <1>4, <2>1, <2>4, <3>1 DEF Decide, Forget
    <2>5. CASE Verdict(s)
      <3>1. CASE job' = [job EXCEPT ![s] = [Idle EXCEPT !.pc = "newer"]]
        BY <1>1, <2>1, <3>1, IdleJob DEF Job
      <3> QED
        BY <1>3, <1>4, <2>1, <2>5, <3>1 DEF Verdict, Forget
    <2> QED
      BY <1>2, <1>3, <1>4, <1>7, <2>1, <2>2, <2>3, <2>4, <2>5
         DEF Newer, Pull, Acquire, Park, Mark, Save, Learn, After
  <1>8. ASSUME NEW v \in Reviewers, job' = job \/ (r # v /\ \A a \in Actors : a # v => job'[a] = job[a])
        PROVE  Same
    BY <1>1, <1>8
  <1>9. ASSUME NEW v \in Reviewers, ReviewStep(v) PROVE Same
    <2>1. job' = job \/ \A a \in Actors : a # v => job'[a] = job[a]
      BY <1>1, <1>9
         DEF ReviewStep, Edit, RejectKnown, RejectItem, Open, Rewrite, Intend, Submit,
             SaveReceipt, Approve, Finish, Goto, Rest
    <2> QED
      BY <1>8, <2>1, ActorsAssumption
  <1>10. ASSUME NEW a \in Actors, Deliver(a) \/ Fail(a) \/ Crash(a) PROVE Same
    <2>1. CASE job' = [job EXCEPT ![a].pc = "answer", ![a].absent = FALSE]
      BY <1>1, <2>1 DEF Job
    <2>2. CASE job' = [job EXCEPT ![a].pc = "push", ![a].absent = TRUE]
      BY <1>1, <2>2 DEF Job
    <2> QED
      BY <1>2, <1>3, <1>10, <2>1, <2>2 DEF Deliver, Push, Answer, Query, Fail, Crash, Releases
  <1> QED
    BY <1>5, <1>6, <1>7, <1>9, <1>10 DEF Next, RunStep, Write, Delete, Apply, Lose, vars

LEMMA BuriedStep ==
  ASSUME Typed, Evidence, Named, Buried, [Next]_vars
  PROVE  Buried'
  <1> SUFFICES ASSUME NEW r \in Runs, job'[r].pc = "after"
               PROVE  \E c \in committed' : c.ok /\ c.packet.scope.kind = job'[r].want.kind
    BY DEF Buried
  <1>1. CASE job'[r] = job[r]
    BY <1>1, CommittedGrows DEF Buried
  <1>2. CASE Close(r) /\ job'[r].want = job[r].want
    <2>1. /\ row # None /\ row.packet \in Packet /\ job[r].want \in Want
          /\ row.packet.scope = ScopeOf(job[r].want) /\ row.scope = ScopeOf(job[r].want)
      BY <1>2 DEF Close, Typed, Stores, Places, RunPlaced, Owning, Row
    <2>2. job[r].want.kind # "upsert"
      <3>1. ~Rest(r)
        BY <1>2 DEF Rest, Idle, Typed, Places, Actors
      <3> QED
        BY <1>2, <2>1, <3>1, WantScope DEF Close
    <2>3. Accepted(row.packet)
      BY <1>2, <2>1, <2>2, WantScope
         DEF Close, Typed, Stores, Evidence, Deliveries, RunDelivers
    <2>4. PICK c \in committed : c.packet.id = row.packet.id /\ c.ok
      BY <2>3 DEF Accepted
    <2>5. c.packet \in Packet /\ Exists(c.packet) /\ Exists(row.packet)
      BY <2>1, <2>4 DEF Typed, Stores, Exists
    <2> QED
      BY <1>2, <2>1, <2>4, <2>5, WantScope, CommittedGrows DEF Named
  <1> QED
    BY <1>1, <1>2, AfterClose

Truth == Named /\ Buried /\ KnownIsApplied

\* A version counts as shipped by an accepted packet of that version.
LEMMA ShippedApplied ==
  ASSUME Typed, Named, NEW p \in Packet, Exists(p), Accepted(p),
         Parkable(p.scope), known' = Shipped(p.scope.ver), committed' = committed
  PROVE  KnownIsApplied'
  <1>1. PICK c \in committed : c.packet.id = p.id /\ c.ok
    BY DEF Accepted
  <1>2. c.packet \in Packet /\ Exists(c.packet)
    BY <1>1 DEF Typed, Stores, Exists
  <1>3. c.packet.scope = p.scope
    BY <1>1, <1>2 DEF Named
  <1>4. p.scope = [kind |-> "upsert", ver |-> p.scope.ver]
    BY DEF Packet, Scope, Parkable
  <1> QED
    BY <1>1, <1>3, <1>4 DEF KnownIsApplied, Shipped

LEMMA KnownStep ==
  ASSUME Typed, Evidence, Truth, [Next]_vars
  PROVE  KnownIsApplied'
  <1> USE DEF Typed, Truth
  <1>1. ASSUME NEW r \in Runs, Learn(r) PROVE KnownIsApplied'
    <2>1. /\ row # None /\ row.packet \in Packet /\ job[r].want \in Want
          /\ row.packet.scope = row.scope /\ row.scope = ScopeOf(job[r].want)
          /\ Genuine(row.scope) /\ Accepted(row.packet) /\ committed' = committed
      BY <1>1 DEF Learn, Stores, Places, RunPlaced, Owning, Row, Evidence, Deliveries,
                  RunDelivers, world
    <2>2. CASE row.scope.kind = "upsert"
      <3>1. known' = Shipped(row.packet.scope.ver)
        BY <1>1, <2>1, <2>2, WantScope DEF Learn
      <3> QED
        BY <2>1, <2>2, <3>1, ShippedApplied DEF Exists, Parkable, Genuine
    <2>3. CASE row.scope.kind # "upsert"
      BY <1>1, <2>1, <2>3 DEF Learn, KnownIsApplied
    <2> QED
      BY <2>2, <2>3
  <1>2. ASSUME NEW v \in Reviewers, Approve(v) PROVE KnownIsApplied'
    <2>1. /\ item = job[v].copy /\ item \in Item /\ Parkable(item.packet.scope)
          /\ Accepted(item.packet) /\ committed' = committed
      BY <1>2 DEF Approve, Places, ReviewPlaced, Approving, Delivering, Evidence, Deliveries,
                  ReviewDelivers, world
    <2>2. item.packet \in Packet /\ Exists(item.packet)
      BY <2>1, NoneAssumption DEF Item, Exists
    <2> QED
      BY <1>2, <2>1, <2>2, ShippedApplied DEF Approve
  <1>3. ASSUME NEW r \in Runs, After(r) PROVE KnownIsApplied'
    <2>1. /\ job[r].want \in Want /\ job[r].want.kind # "upsert" /\ committed' = committed
          /\ \E c \in committed : c.ok /\ c.packet.scope.kind = job[r].want.kind
      BY <1>3 DEF After, Places, RunPlaced, Buried, world
    <2>2. CASE known' = None
      BY <2>2 DEF KnownIsApplied
    <2>3. CASE known' # None
      <3>1. known \in Known /\ job[r].want.kind = "trash"
        BY <1>3, <2>1, <2>3 DEF After, Stores, Want
      <3>2. known'.st = "trash"
        BY <1>3, <2>3, <3>1 DEF After, Known
      <3> QED
        BY <2>1, <3>1, <3>2 DEF KnownIsApplied
    <2> QED
      BY <2>2, <2>3
  <1>4. ASSUME NEW v \in Reviewers, RejectKnown(v) PROVE KnownIsApplied'
    BY <1>4 DEF RejectKnown, KnownIsApplied
  <1>5. CASE known' = None
    BY <1>5 DEF KnownIsApplied
  <1>6. CASE known' = known
    BY <1>6, CommittedGrows DEF KnownIsApplied
  <1> QED
    BY <1>1, <1>2, <1>3, <1>4, <1>5, <1>6
       DEF Next, RunStep, ReviewStep, Deliver, Look, Rotate, Decide, Verdict, Newer, Pull, Park,
           Acquire, Freeze, Mark, Save, Close, Edit, RejectItem, Open, Rewrite, Intend, Submit,
           SaveReceipt, Finish, Push, Answer, Query, Fail, Crash, Write, Delete, Apply, Lose,
           Forget, vars

LEMMA TruthInit == Init => Truth
  BY DEF Init, Truth, Named, Exists, Buried, Idle, KnownIsApplied, Actors

LEMMA TruthStep == Typed /\ Evidence /\ Truth /\ [Next]_vars => Truth'
  BY NamedStep, BuriedStep, KnownStep DEF Truth

(* The state file never claims more than the target: a version it calls    *)
(* shipped was accepted in that very version, and what it calls trashed    *)
(* was trashed there, through crashes, rival runs, edits and approvals.    *)
THEOREM KnownApplied == Spec => []KnownIsApplied
  <1>1. Spec => []Truth
    BY EvidenceAlways, TruthInit, TruthStep, PTL DEF Spec
  <1> QED
    BY <1>1, PTL DEF Truth

-----------------------------------------------------------------------------
(* What goes without asking has never gone before.                          *)

\* The target may have been sent a packet of that id.
SentBefore(packet) == \E p \in sent : p.id = packet.id

\* A row behind its park is closed next: the item has its packet now.
Parked == /\ Parks /\ row.scope.kind = "upsert"
          /\ \E r \in Runs : job[r].pc = "close"

RowFresh ==
  row # None /\ row.packet # None /\ ~Parked =>
    /\ row.phase # "submitted" => ~SentBefore(row.packet)
    /\ item # None => item.packet.id # row.packet.id

ItemFresh ==
  item # None => Parks /\ (item.delivery # "submitted" => ~SentBefore(item.packet))

\* An actor about to mark a packet as submitted is the first to do so.
FirstMark ==
  /\ \A r \in Runs : job[r].pc = "mark" => row.phase # "submitted"
  /\ \A v \in Reviewers : job[v].pc = "mark" => item.delivery # "submitted"

Fresh == RowFresh /\ ItemFresh /\ FirstMark /\ NoBlindRepeat

Uninterrupted == crashes = 0 \/ ~Parks

LEMMA OneOwner ==
  ASSUME Typed, NEW r \in Runs, job[r].pc \in Owning
  PROVE  /\ lease = r
         /\ \A s \in Runs : job[s].pc \in Owning => s = r
  BY DEF Typed, Places, RunPlaced

LEMMA OneReviewer ==
  ASSUME Typed, NEW v \in Reviewers, job[v].pc # "idle"
  PROVE  /\ itemLease = v
         /\ \A w \in Reviewers : job[w].pc # "idle" => w = v
  BY DEF Typed, Places, ReviewPlaced

\* An actor comes to the mark and to the push by a step of its own.
LEMMA MarkOrigin ==
  ASSUME Typed, [Next]_vars, NEW a \in Actors, job'[a].pc \in {"mark", "push"}
  PROVE  \/ job'[a] = job[a]
         \/ a \in Runs /\ (Freeze(a) \/ Mark(a))
         \/ a \in Reviewers /\ (Open(a) \/ Intend(a) \/ Submit(a))
         \/ job'[a].pc = "push" /\ job'[a].absent
  <1> USE DEF Typed
  <1> DEFINE Same == job'[a] = job[a]
  <1>1. job \in [Actors -> Job]
    BY DEF Places
  <1>2. ASSUME NEW b \in Actors, NEW pc, pc \notin {"mark", "push"}, Goto(b, pc) PROVE Same
    BY <1>1, <1>2 DEF Goto, Job
  <1>3. ASSUME NEW b \in Actors, Rest(b) PROVE Same
    BY <1>1, <1>3 DEF Rest, Idle
  <1>4. ASSUME NEW b \in Actors, NEW kind, NEW ver, Wants(b, "lease", kind, ver) PROVE Same
    BY <1>1, <1>4, IdleJob DEF Wants, Job
  <1>5. ASSUME NEW b \in Actors, b # a, job' = job \/ \E j : job' = [job EXCEPT ![b] = j]
        PROVE  Same
    BY <1>1, <1>5
  <1>6. ASSUME NEW s \in Runs, Freeze(s) \/ Mark(s)
        PROVE  Same \/ (a \in Runs /\ (Freeze(a) \/ Mark(a)))
    <2>1. CASE s = a
      BY <1>6, <2>1
    <2>2. CASE s # a
      BY <1>1, <1>6, <2>2 DEF Freeze, Mark, Goto, Actors
    <2> QED
      BY <2>1, <2>2
  <1>7. ASSUME NEW s \in Runs,
               \/ Look(s) \/ Decide(s) \/ Rotate(s) \/ Verdict(s) \/ Newer(s) \/ Pull(s)
               \/ Acquire(s) \/ Park(s) \/ Save(s) \/ Learn(s) \/ Close(s) \/ After(s)
        PROVE  Same
    <2>1. s \in Actors
      BY DEF Actors
    <2>2. CASE Look(s)
      BY <1>1, <2>1, <2>2 DEF Look, Job
    <2>3. CASE Rotate(s)
      BY <1>1, <2>1, <2>3 DEF Rotate, Job
    <2>4. CASE Decide(s)
      <3>1. CASE job' = [job EXCEPT ![s] = [Idle EXCEPT !.pc = "pull"]]
        BY <1>1, <2>1, <3>1, IdleJob DEF Job
      <3> QED
        BY <1>3, <1>4, <2>1, <2>4, <3>1 DEF Decide, Forget
    <2>5. CASE Verdict(s)
      <3>1. CASE job' = [job EXCEPT ![s] = [Idle EXCEPT !.pc = "newer"]]
        BY <1>1, <2>1, <3>1, IdleJob DEF Job
      <3> QED
        BY <1>3, <1>4, <2>1, <2>5, <3>1 DEF Verdict, Forget
    <2> QED
      BY <1>2, <1>3, <1>4, <1>7, <2>1, <2>2, <2>3, <2>4, <2>5
         DEF Newer, Pull, Acquire, Park, Save, Learn, Close, After
  <1>8. ASSUME NEW v \in Reviewers, Open(v) \/ Intend(v) \/ Submit(v)
        PROVE  Same \/ (a \in Reviewers /\ (Open(a) \/ Intend(a) \/ Submit(a)))
    <2>1. CASE v = a
      BY <1>8, <2>1
    <2>2. CASE v # a
      BY <1>1, <1>8, <2>2 DEF Open, Intend, Submit, Rewrite, Rest, Actors
    <2> QED
      BY <2>1, <2>2
  <1>9. ASSUME NEW v \in Reviewers,
               \/ Edit(v) \/ RejectKnown(v) \/ RejectItem(v) \/ SaveReceipt(v) \/ Approve(v)
               \/ Finish(v)
        PROVE  Same
    <2>1. v \in Actors
      BY DEF Actors
    <2>2. CASE SaveReceipt(v)
      BY <1>1, <1>3, <2>1, <2>2 DEF SaveReceipt, Rewrite, Job
    <2> QED
      BY <1>2, <1>3, <1>9, <2>1, <2>2 DEF Edit, RejectKnown, RejectItem, Approve, Finish
  <1>10. ASSUME NEW b \in Actors, Deliver(b) \/ Fail(b) \/ Crash(b)
         PROVE  Same \/ (job'[a].pc = "push" /\ job'[a].absent)
    <2>1. CASE job' = [job EXCEPT ![b].pc = "answer", ![b].absent = FALSE]
      BY <1>1, <2>1 DEF Job
    <2>2. CASE job' = [job EXCEPT ![b].pc = "push", ![b].absent = TRUE]
      BY <1>1, <2>2 DEF Job
    <2> QED
      BY <1>2, <1>3, <1>10, <2>1, <2>2 DEF Deliver, Push, Answer, Query, Fail, Crash, Releases
  <1>11. job' = job => Same
    OBVIOUS
  <1> QED
    BY <1>6, <1>7, <1>8, <1>9, <1>10, <1>11
       DEF Next, RunStep, ReviewStep, Write, Delete, Apply, Lose, vars

\* A run behind its park closes the row, unless it is interrupted.
LEMMA CloseStays ==
  ASSUME Typed, [Next]_vars, NEW r \in Runs, job[r].pc = "close"
  PROVE  \/ job'[r].pc = "close"
         \/ Close(r)
         \/ \E a \in Actors : Crash(a)
  <1> USE DEF Typed
  <1>1. job \in [Actors -> Job] /\ r \in Actors
    BY DEF Places, Actors
  <1>2. ASSUME NEW s \in Runs, RunStep(s) PROVE job'[r].pc = "close" \/ Close(r)
    <2>1. CASE s = r
      BY <1>2, <2>1
         DEF RunStep, Look, Decide, Rotate, Verdict, Newer, Pull, Acquire, Freeze, Park, Mark,
             Save, Learn, After
    <2>2. CASE s # r
      <3>1. job' = [job EXCEPT ![s] = job'[s]]
        BY <1>1, <1>2, <2>2
           DEF RunStep, Look, Decide, Rotate, Verdict, Newer, Pull, Acquire, Freeze, Park, Mark,
               Save, Learn, After, Close, Goto, Rest, Wants, Forget, Actors
      <3> QED
        BY <1>1, <2>2, <3>1
    <2> QED
      BY <2>1, <2>2
  <1>3. ASSUME NEW v \in Reviewers, ReviewStep(v) PROVE job'[r].pc = "close"
    <2>1. r # v
      BY ActorsAssumption
    <2> QED
      BY <1>1, <1>3, <2>1
         DEF ReviewStep, Edit, RejectKnown, RejectItem, Open, Rewrite, Intend, Submit,
             SaveReceipt, Approve, Finish, Goto, Rest
  <1>4. ASSUME NEW a \in Actors, Deliver(a) \/ Fail(a) PROVE job'[r].pc = "close"
    <2>1. r # a
      BY <1>4 DEF Deliver, Push, Answer, Query, Fail
    <2> QED
      BY <1>1, <1>4, <2>1 DEF Deliver, Push, Answer, Query, Fail, Releases, Goto, Rest
  <1> QED
    BY <1>2, <1>3, <1>4 DEF Next, Write, Delete, Apply, Lose, vars

\* A row that keeps its packet keeps the mark on it.
LEMMA PhaseStays ==
  ASSUME Typed, [Next]_vars, row # None, row' # None, row.packet # None,
         row'.packet = row.packet
  PROVE  /\ row'.phase = row.phase \/ row'.phase = "submitted"
         /\ row'.scope = row.scope
  <1> USE DEF Typed
  <1>1. row \in Row
    BY DEF Stores
  <1>2. ASSUME NEW r \in Runs, Acquire(r) PROVE row' = row
    <2>1. row' = row \/ row'.packet = None
      BY <1>2 DEF Acquire, NewRow, unit
    <2> QED
      BY <2>1
  <1>3. ASSUME NEW r \in Runs, Freeze(r) PROVE row' = row
    BY <1>3 DEF Freeze
  <1>4. ASSUME NEW r \in Runs, Mark(r) \/ Save(r)
        PROVE  (row'.phase = row.phase \/ row'.phase = "submitted") /\ row'.scope = row.scope
    BY <1>1, <1>4 DEF Mark, Save, Row
  <1>5. ASSUME NEW r \in Runs, Close(r) PROVE FALSE
    BY <1>5 DEF Close
  <1> QED
    BY <1>2, <1>3, <1>4, <1>5
       DEF Next, RunStep, ReviewStep, Deliver, Look, Rotate, Decide, Verdict, Newer, Pull, Park,
           Learn, After, Edit, RejectKnown, RejectItem, Open, Rewrite, Intend, Submit,
           SaveReceipt, Approve, Finish, Push, Answer, Query, Fail, Crash, Write, Delete,
           Apply, Lose, vars, unit

\* The row of a run is written by that run, which goes on.
LEMMA RowOwner ==
  ASSUME Typed, [Next]_vars, NEW r \in Runs, job[r].pc \in Owning, job'[r].pc = job[r].pc
  PROVE  row' = row
  <1> USE DEF Typed
  <1>1. job \in [Actors -> Job] /\ r \in Actors
    BY DEF Places, Actors
  <1>2. ASSUME NEW s \in Runs, Acquire(s) PROVE row' = row
    BY <1>1, <1>2, OneOwner, ActorsAssumption DEF Acquire, UnitFree, unit
  <1>3. ASSUME NEW s \in Runs, Freeze(s) \/ Mark(s) \/ Save(s) \/ Close(s) PROVE FALSE
    <2>1. s = r
      BY <1>3, OneOwner DEF Freeze, Mark, Save, Close, Owning
    <2>2. \A pc : Goto(r, pc) => job'[r].pc = pc
      BY <1>1 DEF Goto, Job
    <2>3. Rest(r) => job'[r].pc = "idle"
      BY <1>1 DEF Rest, Idle
    <2>4. Continue(row') # "leased"
      BY DEF Continue
    <2> QED
      BY <1>3, <2>1, <2>2, <2>3, <2>4 DEF Freeze, Mark, Save, Close
  <1> QED
    BY <1>2, <1>3
       DEF Next, RunStep, ReviewStep, Deliver, Look, Rotate, Decide, Verdict, Newer, Pull, Park,
           Learn, After, Edit, RejectKnown, RejectItem, Open, Rewrite, Intend, Submit,
           SaveReceipt, Approve, Finish, Push, Answer, Query, Fail, Crash, Write, Delete,
           Apply, Lose, vars, unit

\* A run that pushes sends the packet of its row, which is not behind its park.
LEMMA RunPushes ==
  ASSUME Typed, Evidence, NEW r \in Runs, job[r].pc = "push"
  PROVE  /\ row # None /\ row.packet # None /\ row.packet \in Packet
         /\ row.phase = "submitted" /\ ~Parked /\ PacketOf(r) = row.packet
  <1>1. row # None /\ row.packet # None /\ row.packet \in Packet /\ row.phase = "submitted"
    BY DEF Typed, Stores, Places, RunPlaced, Owning, Row, Evidence, Deliveries, RunDelivers
  <1>2. ~Parked
    BY OneOwner DEF Owning, Parked, Evidence, Deliveries, RunDelivers
  <1> QED
    BY <1>1, <1>2 DEF PacketOf

LEMMA ReviewPushes ==
  ASSUME Typed, Evidence, NEW v \in Reviewers, job[v].pc = "push"
  PROVE  /\ item # None /\ item = job[v].copy /\ item.packet \in Packet
         /\ item.delivery = "submitted" /\ PacketOf(v) = item.packet
  <1>1. item = job[v].copy /\ item.delivery = "submitted" /\ job[v].copy \in Item
    BY DEF Typed, Places, ReviewPlaced, Evidence, Deliveries, ReviewDelivers, Approving,
           Delivering
  <1> QED
    BY <1>1, NoneAssumption, ActorsAssumption DEF PacketOf, Item

LEMMA RowFreshStep ==
  ASSUME Typed, Evidence, Named, Fresh, [Next]_vars, Typed',
         Parks => \A a \in Actors : ~Crash(a)
  PROVE  RowFresh'
  <1> SUFFICES ASSUME row' # None, row'.packet # None, ~Parked'
               PROVE  /\ row'.phase # "submitted" => ~(\E p \in sent' : p.id = row'.packet.id)
                      /\ item' # None => item'.packet.id # row'.packet.id
    BY DEF RowFresh, SentBefore
  <1>1. CASE row'.packet.id = made + 1 /\ UNCHANGED <<item, sent>>
    <2>1. made \in Nat /\ \A p \in sent : p.id <= made /\ p.id \in Nat
      BY BoundsAssumption DEF Typed, Stores, Named, Exists, Packet
    <2>2. item # None => item.packet.id <= made /\ item.packet.id \in Nat
      BY ItemTyped, BoundsAssumption DEF Named, Exists, Packet
    <2> QED
      BY <1>1, <2>1, <2>2
  <1>2. CASE row # None /\ row.packet = row'.packet
    <2>1. /\ row'.phase = row.phase \/ row'.phase = "submitted"
          /\ row'.scope = row.scope
      BY <1>2, PhaseStays
    <2>2. ~Parked
      <3>1. SUFFICES ASSUME Parked PROVE FALSE
        OBVIOUS
      <3>2. PICK r \in Runs : job[r].pc = "close"
        BY <3>1 DEF Parked
      <3>3. job'[r].pc = "close" \/ Close(r)
        BY <3>1, <3>2, CloseStays DEF Parked
      <3>4. ~Close(r)
        BY DEF Close
      <3> QED
        BY <2>1, <3>1, <3>3, <3>4 DEF Parked
    <2>3. /\ row.phase # "submitted" => ~SentBefore(row.packet)
          /\ item # None => item.packet.id # row.packet.id
      BY <1>2, <2>2 DEF Fresh, RowFresh
    <2>4. ASSUME row'.phase # "submitted", NEW p \in sent', p.id = row'.packet.id PROVE FALSE
      <3>1. p \notin sent
        BY <1>2, <2>1, <2>3, <2>4 DEF SentBefore
      <3>2. PICK a \in Actors : Push(a) /\ p = PacketOf(a)
        BY <3>1, SentGrows
      <3>3. CASE a \in Runs
        BY <2>1, <2>4, <3>2, <3>3, RunPushes DEF Push, unit
      <3>4. CASE a \in Reviewers
        BY <1>2, <2>3, <2>4, <3>2, <3>4, ReviewPushes DEF Push
      <3> QED
        BY <3>3, <3>4 DEF Actors
    <2>5. ASSUME item' # None PROVE item'.packet.id # row'.packet.id
      <3>1. ASSUME NEW r \in Runs, Park(r) PROVE FALSE
        <4>1. Parks /\ row.scope.kind = "upsert" /\ job'[r].pc = "close" /\ row' = row
          BY <3>1 DEF Park, Typed, Places, RunPlaced, Goto, unit, Actors
        <4> QED
          BY <4>1 DEF Parked
      <3>2. item # None /\ item.packet.id = item'.packet.id
        BY <2>5, <3>1, ItemOrigin
      <3> QED
        BY <1>2, <2>3, <3>2
    <2> QED
      BY <2>4, <2>5
  <1> QED
    BY <1>1, <1>2, RowOrigin

LEMMA ItemFreshStep ==
  ASSUME Typed, Evidence, Fresh, [Next]_vars
  PROVE  ItemFresh'
  <1> USE DEF Typed
  <1> SUFFICES ASSUME item' # None
               PROVE  /\ Parks
                      /\ item'.delivery # "submitted" =>
                           \A p \in sent' : p.id # item'.packet.id
    BY DEF ItemFresh, SentBefore
  <1> DEFINE Old(i) == \A p \in sent : p.id # i
  <1>1. item # None => Parks /\ (item.delivery # "submitted" => Old(item.packet.id))
    BY DEF Fresh, ItemFresh, SentBefore
  <1>2. CASE item' = item
    <2>1. ASSUME item.delivery # "submitted", NEW p \in sent', p.id = item.packet.id
          PROVE  FALSE
      <3>1. p \notin sent
        BY <1>1, <1>2, <2>1
      <3>2. PICK a \in Actors : Push(a) /\ p = PacketOf(a)
        BY <3>1, SentGrows
      <3>3. CASE a \in Runs
        BY <1>2, <2>1, <3>2, <3>3, RunPushes DEF Push, Fresh, RowFresh
      <3>4. CASE a \in Reviewers
        BY <2>1, <3>2, <3>4, ReviewPushes DEF Push
      <3> QED
        BY <3>3, <3>4 DEF Actors
    <2> QED
      BY <1>1, <1>2, <2>1
  <1>3. ASSUME NEW r \in Runs, Park(r), item' # item
        PROVE  Parks /\ sent' = sent /\ Old(item'.packet.id)
    <2>1. /\ Parks /\ row.scope.kind = "upsert" /\ row # None /\ row.packet # None
          /\ row.phase # "submitted"
      BY <1>3 DEF Park, Places, RunPlaced, Owning, Evidence, Records
    <2>2. ~Parked
      BY <1>3, OneOwner DEF Park, Parked, Owning
    <2>3. item'.packet = row.packet /\ sent' = sent
      BY <1>3 DEF Park, network
    <2> QED
      BY <2>1, <2>2, <2>3 DEF Fresh, RowFresh, SentBefore
  <1>4. ASSUME NEW v \in Reviewers, Edit(v)
        PROVE  Parks /\ sent' = sent /\ Old(item'.packet.id)
    <2>1. /\ item # None /\ item \in Item /\ item.packet \in Packet
          /\ item.delivery # "submitted" /\ sent' = sent
      BY <1>4, ItemTyped DEF Edit, Undelivered, network
    <2>2. item' = [item EXCEPT !.packet = [item.packet EXCEPT !.body = item.packet.body + 1]]
      BY <1>4, <2>1 DEF Edit, Item, Packet
    <2>3. item'.packet = [item.packet EXCEPT !.body = item.packet.body + 1]
      BY <2>1, <2>2 DEF Item
    <2>4. item'.packet.id = item.packet.id
      BY <2>1, <2>3 DEF Packet
    <2> QED
      BY <1>1, <2>1, <2>4
  <1>5. ASSUME NEW v \in Reviewers, NEW new \in Item, new.packet = job[v].copy.packet,
               job[v].pc \in Approving, NEW pc, Rewrite(v, new, pc),
               new.delivery # "submitted" => job[v].copy.delivery # "submitted"
        PROVE  /\ Parks
               /\ item'.delivery # "submitted" => \A p \in sent' : p.id # item'.packet.id
    BY <1>1, <1>5, NoneAssumption DEF Rewrite, Unaltered, Places, ReviewPlaced, network
  <1>6. ASSUME NEW v \in Reviewers, Intend(v) \/ Submit(v) \/ SaveReceipt(v)
        PROVE  /\ Parks
               /\ item'.delivery # "submitted" => \A p \in sent' : p.id # item'.packet.id
    <2>1. job[v].pc \in Approving /\ job[v].copy \in Item
      BY <1>6 DEF Intend, Submit, SaveReceipt, Places, ReviewPlaced, Approving
    <2>2. CASE Intend(v)
      <3>1. job[v].copy.delivery = "none"
        BY <2>2 DEF Intend, Evidence, Deliveries, ReviewDelivers
      <3> QED
        BY <1>5, <2>1, <2>2, <3>1 DEF Intend, Item
    <2>3. CASE Submit(v)
      BY <1>5, <2>1, <2>3 DEF Submit, Item
    <2>4. CASE SaveReceipt(v)
      BY <1>5, <2>1, <2>4 DEF SaveReceipt, Item
    <2> QED
      BY <1>6, <2>2, <2>3, <2>4
  <1>7. ASSUME NEW v \in Reviewers, RejectItem(v) \/ Finish(v) PROVE item' = item
    BY <1>7 DEF RejectItem, Finish
  <1> QED
    BY <1>2, <1>3, <1>4, <1>6, <1>7
       DEF Next, RunStep, ReviewStep, Deliver, Look, Rotate, Decide, Verdict, Newer, Pull,
           Acquire, Freeze, Mark, Save, Learn, Close, After, RejectKnown, Open, Approve, Push,
           Answer, Query, Fail, Crash, Write, Delete, Apply, Lose, Releases, Forget, vars, inbox

LEMMA FirstMarkStep ==
  ASSUME Typed, Evidence, Fresh, [Next]_vars, Evidence'
  PROVE  FirstMark'
  <1> USE DEF Typed
  <1>1. job \in [Actors -> Job]
    BY DEF Places
  <1>2. ASSUME NEW r \in Runs, job'[r].pc = "mark" PROVE row'.phase # "submitted"
    <2>1. r \in Actors /\ r \notin Reviewers
      BY ActorsAssumption DEF Actors
    <2>2. CASE job'[r] = job[r]
      <3>1. row' = row
        BY <1>2, <2>2, RowOwner DEF Owning
      <3> QED
        BY <1>2, <2>2, <3>1 DEF Fresh, FirstMark
    <2>3. CASE Freeze(r)
      <3>1. job'[r].pc = Continue(row')
        BY <1>1, <2>1, <2>3 DEF Freeze, Goto, Job
      <3> QED
        BY <1>2, <3>1 DEF Continue
    <2>4. ASSUME Mark(r) PROVE FALSE
      BY <1>1, <1>2, <2>1, <2>4 DEF Mark, Goto, Job
    <2> QED
      BY <1>2, <2>1, <2>2, <2>3, <2>4, MarkOrigin
  <1>3. ASSUME NEW v \in Reviewers, job'[v].pc = "mark" PROVE item'.delivery # "submitted"
    <2>1. v \in Actors /\ v \notin Runs
      BY ActorsAssumption DEF Actors
    <2>2. item' = job'[v].copy
      BY <1>3 DEF Evidence, Deliveries, ReviewDelivers, Delivering, Approving
    <2>3. CASE job'[v] = job[v]
      <3>1. item = job[v].copy
        BY <1>3, <2>3 DEF Evidence, Deliveries, ReviewDelivers, Delivering, Approving
      <3> QED
        BY <1>3, <2>2, <2>3, <3>1 DEF Fresh, FirstMark
    <2>4. CASE Open(v)
      <3>1. /\ job'[v].copy = item
            /\ job'[v].pc = IF item.receipt THEN "received" ELSE Resume(item.delivery)
        BY <1>1, <2>1, <2>4 DEF Open, Job
      <3> QED
        BY <1>3, <2>2, <3>1 DEF Resume
    <2>5. CASE Intend(v)
      <3>1. job[v].copy \in Item
        BY <2>5 DEF Intend, Places, ReviewPlaced, Approving
      <3>2. ~Rest(v)
        BY <1>1, <1>3, <2>1 DEF Rest, Idle
      <3>3. item' = [job[v].copy EXCEPT !.delivery = "saved"]
        BY <2>5, <3>2 DEF Intend, Rewrite
      <3> QED
        BY <3>1, <3>3 DEF Item
    <2>6. ASSUME Submit(v) PROVE FALSE
      BY <1>1, <1>3, <2>1, <2>6 DEF Submit, Rewrite, Rest, Idle, Job
    <2> QED
      BY <1>3, <2>1, <2>3, <2>4, <2>5, <2>6, MarkOrigin
  <1> QED
    BY <1>2, <1>3 DEF FirstMark

LEMMA BlindStep ==
  ASSUME Typed, Evidence, Fresh, [Next]_vars, Typed', Evidence'
  PROVE  NoBlindRepeat'
  <1> SUFFICES ASSUME NEW a \in Actors, job'[a].pc = "push", ~job'[a].absent,
                      NEW p \in sent', p.id = PacketOf(a)'.id
               PROVE  FALSE
    BY DEF NoBlindRepeat
  <1>1. job \in [Actors -> Job]
    BY DEF Typed, Places
  <1>2. CASE job'[a] = job[a]
    <2>1. PacketOf(a)' = PacketOf(a)
      <3>1. CASE a \in Runs
        BY <1>2, <3>1, RowOwner DEF PacketOf, Owning
      <3>2. CASE a \notin Runs
        BY <1>2, <3>2 DEF PacketOf
      <3> QED
        BY <3>1, <3>2
    <2>2. p \notin sent
      BY <1>2, <2>1 DEF Fresh, NoBlindRepeat
    <2>3. PICK b \in Actors : Push(b) /\ p = PacketOf(b)
      BY <2>2, SentGrows
    <2>4. b # a /\ job[a].pc = "push" /\ job[b].pc = "push"
      BY <1>1, <1>2, <2>3 DEF Push, Job
    <2>5. ~(a \in Runs /\ b \in Runs) /\ ~(a \in Reviewers /\ b \in Reviewers)
      BY <2>4, OneOwner, OneReviewer DEF Owning
    <2>6. CASE a \in Runs /\ b \in Reviewers
      BY <2>1, <2>3, <2>4, <2>6, RunPushes, ReviewPushes DEF Fresh, RowFresh
    <2>7. CASE a \in Reviewers /\ b \in Runs
      BY <2>1, <2>3, <2>4, <2>7, RunPushes, ReviewPushes DEF Fresh, RowFresh
    <2> QED
      BY <2>5, <2>6, <2>7 DEF Actors
  <1>3. CASE a \in Runs /\ Mark(a)
    <2>1. /\ row \in Row /\ row # None /\ row.packet # None /\ row.phase # "submitted"
          /\ ~Parked
      BY <1>3, OneOwner
         DEF Mark, Typed, Stores, Places, RunPlaced, Owning, Fresh, FirstMark, Parked,
             Evidence, Deliveries, RunDelivers
    <2>2. PacketOf(a)' = row.packet /\ sent' = sent
      BY <1>3, <2>1 DEF Mark, PacketOf, Row, network
    <2> QED
      BY <2>1, <2>2 DEF Fresh, RowFresh, SentBefore
  <1>4. CASE a \in Reviewers /\ Submit(a)
    <2>1. item = job[a].copy /\ item \in Item /\ item # None /\ item.delivery # "submitted"
      BY <1>4, NoneAssumption
         DEF Submit, Typed, Places, ReviewPlaced, Fresh, FirstMark, Evidence, Deliveries,
             ReviewDelivers, Delivering, Approving
    <2>2. ~Rest(a)
      BY <1>1 DEF Rest, Idle
    <2>3. job'[a].copy = [item EXCEPT !.delivery = "submitted"] /\ sent' = sent
      BY <1>1, <1>4, <2>1, <2>2 DEF Submit, Rewrite, Job, network
    <2>4. PacketOf(a)' = item.packet
      BY <1>4, <2>1, <2>3, ActorsAssumption DEF PacketOf, Item
    <2> QED
      BY <2>1, <2>3, <2>4 DEF Fresh, ItemFresh, SentBefore
  <1>5. ASSUME a \in Runs, Freeze(a) PROVE FALSE
    <2>1. job'[a].pc = Continue(row')
      BY <1>1, <1>5 DEF Freeze, Goto, Job
    <2> QED
      BY <2>1 DEF Continue
  <1>6. ASSUME a \in Reviewers, Open(a) PROVE FALSE
    <2>1. job'[a].pc = IF item.receipt THEN "received" ELSE Resume(item.delivery)
      BY <1>1, <1>6 DEF Open, Job
    <2>2. item.delivery \in {"none", "saved", "submitted"}
      BY <1>6, ItemTyped DEF Open, Item
    <2> QED
      BY <2>1, <2>2 DEF Resume
  <1>7. ASSUME a \in Reviewers, Intend(a) PROVE FALSE
    BY <1>1, <1>7 DEF Intend, Rewrite, Rest, Idle, Job
  <1> QED
    BY <1>2, <1>3, <1>4, <1>5, <1>6, <1>7, MarkOrigin

LEMMA FreshInit == Init => Fresh
  BY DEF Init, Fresh, RowFresh, ItemFresh, FirstMark, NoBlindRepeat, Idle, Actors

LEMMA FreshStep ==
  Typed /\ Evidence /\ Truth /\ (Uninterrupted => Fresh) /\ [Next]_vars
    => (Uninterrupted' => Fresh')
  <1> SUFFICES ASSUME Typed, Evidence, Truth, Uninterrupted => Fresh, [Next]_vars, Uninterrupted'
               PROVE  Fresh'
    OBVIOUS
  <1>1. Typed' /\ Evidence' /\ Named
    BY TypedStep, EvidenceStep DEF Truth
  <1>2. crashes \in Nat
    BY BoundsAssumption DEF Typed, Stores
  <1>3. Parks => \A a \in Actors : ~Crash(a)
    BY <1>2 DEF Uninterrupted, Crash
  <1>4. Uninterrupted
    <2>1. crashes' = crashes \/ \E a \in Actors : Crash(a)
      BY DEF Next, RunStep, ReviewStep, Deliver, Look, Rotate, Decide, Verdict, Newer, Pull,
             Park, Acquire, Freeze, Mark, Save, Close, Learn, After, Edit, RejectKnown,
             RejectItem, Open, Rewrite, Intend, Submit, SaveReceipt, Approve, Finish, Push,
             Answer, Query, Fail, Write, Delete, Apply, Lose, vars
    <2> QED
      BY <1>3, <2>1 DEF Uninterrupted
  <1> QED
    BY <1>1, <1>3, <1>4, RowFreshStep, ItemFreshStep, FirstMarkStep, BlindStep DEF Fresh

LEMMA FreshAlways == Spec => [](Uninterrupted => Fresh)
  <1>1. Spec => []Truth
    BY EvidenceAlways, TruthInit, TruthStep, PTL DEF Spec
  <1> QED
    BY <1>1, EvidenceAlways, FreshInit, FreshStep, PTL DEF Spec

(* In a pair that reviews nothing is sent twice without the target's word, *)
(* for as long as no run and no request of the inbox is interrupted.       *)
THEOREM AskedFirst == Spec => []ApprovalsAskFirst
  <1>1. (Uninterrupted => Fresh) => ApprovalsAskFirst
    BY DEF Uninterrupted, Fresh, ApprovalsAskFirst
  <1> QED
    BY <1>1, FreshAlways, PTL

(* A pair that does not review sends nothing twice without the target's    *)
(* word, however often its runs are interrupted and resumed.               *)
THEOREM AskedFirstUnparked == ~Parks => (Spec => []NoBlindRepeat)
  <1> SUFFICES ASSUME ~Parks PROVE Spec => []NoBlindRepeat
    OBVIOUS
  <1>1. (Uninterrupted => Fresh) => NoBlindRepeat
    BY DEF Uninterrupted, Fresh
  <1> QED
    BY <1>1, FreshAlways, PTL

-----------------------------------------------------------------------------
(* What is held by the target.                                              *)

OneRun == \A r, s \in Runs : r = s

\* What a run without a rival knows of the state file and of the target.
Follows(r) ==
  /\ job[r].pc \in {"seen", "asked"} => job[r].entry = known
  /\ job[r].pc = "asked" => known # None
  /\ job[r].pc \in {"lease", "after"} \cup Owning /\ job[r].want.kind # "upsert" =>
       known # None
  /\ job[r].pc = "close" => known # None
  /\ job[r].pc = "after" => row = None /\ (job[r].want.kind = "delete" => target = None)

Unreviewed == item = None /\ \A v \in Reviewers : job[v].pc = "idle"

Deleted ==
  row # None /\ row.packet # None /\ row.scope.kind = "delete" /\ Accepted(row.packet) =>
    target = None

Tracked ==
  /\ Unreviewed /\ Deleted /\ HeldCopyIsTracked
  /\ known # None => ~known.rejected
  /\ \A r \in Runs : Follows(r)

\* In a pair that does not review nothing reaches the inbox.
LEMMA Alone ==
  ASSUME Typed, Unreviewed, ~Parks, [Next]_vars
  PROVE  /\ Unreviewed'
         /\ \/ \E r \in Runs : (RunStep(r) /\ ~Park(r)) \/ Deliver(r) \/ Fail(r) \/ Crash(r)
            \/ Apply
            \/ UNCHANGED <<known, row, job, committed, target>>
  <1> USE DEF Typed
  <1>1. job \in [Actors -> Job] /\ \A r \in Runs, v \in Reviewers : r # v
    BY ActorsAssumption DEF Places
  <1>2. ASSUME NEW v \in Reviewers PROVE ~ReviewStep(v) /\ ~Deliver(v) /\ ~Fail(v) /\ ~Crash(v)
    BY DEF Unreviewed, ReviewStep, Edit, RejectKnown, RejectItem, Open, Intend, Submit,
           SaveReceipt, Approve, Finish, Undelivered, Deliver, Push, Answer, Query, Fail, Crash
  <1>3. ASSUME NEW r \in Runs PROVE ~Park(r)
    BY DEF Park, Places, RunPlaced
  <1>4. ASSUME NEW r \in Runs, (RunStep(r) /\ ~Park(r)) \/ Deliver(r) \/ Fail(r) \/ Crash(r)
        PROVE  Unreviewed'
    <2>1. item' = item
      BY <1>4
         DEF RunStep, Deliver, Look, Rotate, Decide, Verdict, Newer, Pull, Acquire, Freeze, Mark,
             Save, Learn, Close, After, Push, Answer, Query, Fail, Crash, inbox
    <2>2. \A v \in Reviewers : job'[v] = job[v]
      BY <1>1, <1>4
         DEF RunStep, Deliver, Look, Rotate, Decide, Verdict, Newer, Pull, Acquire, Freeze, Mark,
             Save, Learn, Close, After, Push, Answer, Query, Fail, Crash, Goto, Rest, Wants,
             Forget, Releases, Actors
    <2> QED
      BY <2>1, <2>2 DEF Unreviewed
  <1>5. CASE Write \/ Delete \/ Lose \/ UNCHANGED vars
    <2>1. UNCHANGED <<known, row, job, committed, target, item>>
      BY <1>5 DEF Write, Delete, Lose, vars, inbox, unit, world
    <2> QED
      BY <2>1 DEF Unreviewed
  <1>6. CASE Apply
    BY <1>6 DEF Apply, inbox, Unreviewed
  <1> QED
    BY <1>2, <1>3, <1>4, <1>5, <1>6 DEF Next, Actors

\* A packet that may still take effect is the one of the row.
LEMMA EffectIsRowed ==
  ASSUME Typed, Evidence, Unreviewed, NEW p \in wire, Verdicts(p) = {}
  PROVE  row # None /\ row.packet = p /\ p # None
  BY NoneAssumption DEF Typed, Stores, Evidence, NothingForgotten, Retained, Accepted, Verdicts,
     Unreviewed

LEMMA ApplyTracked ==
  ASSUME Typed, Evidence, Tracked, Apply
  PROVE  /\ Deleted' /\ HeldCopyIsTracked'
         /\ \A r \in Runs : Follows(r)'
  <1>1. PICK p \in wire :
          /\ IF Verdicts(p) # {} THEN UNCHANGED <<committed, target>>
             ELSE \E ok \in BOOLEAN :
                    /\ committed' = committed \cup {[packet |-> p, ok |-> ok]}
                    /\ target' = IF ok THEN Effect(p.scope) ELSE target
          /\ UNCHANGED <<source, known, unit, inbox, job, made, sent, crashes>>
    BY DEF Apply
  <1>2. CASE UNCHANGED <<committed, target>>
    BY <1>1, <1>2 DEF Tracked, Deleted, Accepted, HeldCopyIsTracked, Follows, unit, inbox
  <1>3. CASE Verdicts(p) = {}
    <2>1. row # None /\ row.packet = p /\ row.packet # None
      BY <1>3, EffectIsRowed DEF Tracked
    <2>2. p.scope = row.scope
      BY <2>1 DEF Typed, Stores
    <2>3. PICK ok \in BOOLEAN :
            /\ committed' = committed \cup {[packet |-> p, ok |-> ok]}
            /\ target' = IF ok THEN Effect(p.scope) ELSE target
      BY <1>1, <1>3
    <2>4. Deleted'
      <3>1. CASE ok
        BY <1>1, <2>1, <2>2, <2>3, <3>1 DEF Deleted, Effect, unit
      <3>2. CASE ~ok
        BY <1>1, <1>3, <2>1, <2>3, <3>2 DEF Deleted, Accepted, Verdicts, unit
      <3> QED
        BY <3>1, <3>2
    <2>5. HeldCopyIsTracked'
      BY <1>1, <2>1 DEF HeldCopyIsTracked, unit
    <2>6. ASSUME NEW r \in Runs PROVE Follows(r)'
      BY <1>1, <2>1 DEF Tracked, Follows, unit
    <2> QED
      BY <2>4, <2>5, <2>6
  <1> QED
    BY <1>1, <1>2, <1>3

LEMMA RunTracked ==
  ASSUME Typed, Evidence, Named, Tracked, ~Parks, NEW r \in Runs,
         (RunStep(r) /\ ~Park(r)) \/ Deliver(r) \/ Fail(r) \/ Crash(r)
  PROVE  /\ Deleted' /\ HeldCopyIsTracked' /\ Follows(r)'
         /\ known' # None => ~known'.rejected
  <1> USE DEF Typed
  <1> DEFINE Goal == /\ Deleted' /\ HeldCopyIsTracked' /\ Follows(r)'
                     /\ known' # None => ~known'.rejected
  <1>1. job \in [Actors -> Job] /\ r \in Actors
    BY DEF Places, Actors
  <1>2. /\ Follows(r) /\ Deleted /\ HeldCopyIsTracked /\ item = None
        /\ known # None => ~known.rejected
    BY DEF Tracked, Unreviewed
  <1>3. ASSUME NEW pc, Goto(r, pc) PROVE  job'[r].pc = pc /\ job'[r].want = job[r].want
    BY <1>1, <1>3 DEF Goto, Job
  <1>4. ASSUME Rest(r) PROVE job'[r] = Idle
    BY <1>1, <1>4 DEF Rest
  <1>5. ASSUME UNCHANGED <<known, row, committed, target, item>>, Follows(r)' PROVE Goal
    BY <1>2, <1>5 DEF Deleted, Accepted, HeldCopyIsTracked
  <1>6. ASSUME Rest(r) PROVE Follows(r)'
    BY <1>4, <1>6 DEF Follows, Idle, Owning
  <1>7. CASE Look(r) \/ Rotate(r)
    <2>1. Follows(r)'
      BY <1>1, <1>7 DEF Look, Rotate, Follows, Job, Owning
    <2> QED
      BY <1>5, <1>7, <2>1 DEF Look, Rotate, world, unit, inbox
  <1>8. CASE Decide(r)
    <2>1. ~(Buries(job[r].entry, job[r].src) /\ NeverShipped(job[r].entry))
      BY <1>2, <1>8 DEF Decide, Follows, Buries, NeverShipped
    <2>2. UNCHANGED <<known, row, committed, target, item>>
      BY <1>8, <2>1 DEF Decide, world, unit, inbox
    <2>3. CASE Wants(r, "lease", "trash", job[r].src.ver) /\ Buries(job[r].entry, job[r].src)
      <3>1. job'[r] = [Idle EXCEPT !.pc = "lease",
                         !.want = [kind |-> "trash", ver |-> job[r].src.ver]]
        BY <1>1, <2>3 DEF Wants
      <3> QED
        BY <1>2, <1>5, <1>8, <2>2, <2>3, <3>1 DEF Decide, Follows, Buries, Idle, Owning
    <2>4. CASE job' = [job EXCEPT ![r] = [Idle EXCEPT !.pc = "pull"]]
      <3>1. job'[r].pc = "pull"
        BY <1>1, <2>4 DEF Idle
      <3> QED
        BY <1>5, <2>2, <3>1 DEF Follows, Owning
    <2> QED
      BY <1>5, <1>6, <1>8, <2>1, <2>2, <2>3, <2>4 DEF Decide
  <1>9. CASE Verdict(r)
    <2>1. job[r].entry # None /\ ~NeverShipped(job[r].entry)
      BY <1>2, <1>9 DEF Verdict, Follows, NeverShipped
    <2>2. UNCHANGED <<known, row, committed, target, item>>
      BY <1>9, <2>1 DEF Verdict, world, unit, inbox
    <2>3. CASE Wants(r, "lease", "delete", job[r].entry.ver)
      <3>1. job'[r] = [Idle EXCEPT !.pc = "lease",
                         !.want = [kind |-> "delete", ver |-> job[r].entry.ver]]
        BY <1>1, <2>3 DEF Wants
      <3> QED
        BY <1>2, <1>5, <1>9, <2>1, <2>2, <3>1 DEF Verdict, Follows, Idle, Owning
    <2>4. CASE job' = [job EXCEPT ![r] = [Idle EXCEPT !.pc = "newer"]]
      <3>1. job'[r].pc = "newer"
        BY <1>1, <2>4 DEF Idle
      <3> QED
        BY <1>5, <2>2, <3>1 DEF Follows, Owning
    <2> QED
      BY <1>5, <1>6, <1>9, <2>1, <2>2, <2>3, <2>4 DEF Verdict
  <1>10. CASE Newer(r)
    <2>1. Follows(r)'
      <3>1. CASE Goto(r, "pull")
        <4>1. job'[r].pc = "pull"
          BY <1>3, <3>1
        <4> QED
          BY <4>1 DEF Follows, Owning
      <3> QED
        BY <1>6, <1>10, <3>1 DEF Newer
    <2> QED
      BY <1>5, <1>10, <2>1 DEF Newer, world, unit, inbox
  <1>11. CASE Pull(r)
    <2>1. CASE Wants(r, "lease", "upsert", source.ver)
      <3>1. job'[r] = [Idle EXCEPT !.pc = "lease",
                         !.want = [kind |-> "upsert", ver |-> source.ver]]
        BY <1>1, <2>1 DEF Wants
      <3> QED
        BY <1>5, <1>11, <3>1 DEF Pull, Follows, Idle, Owning, world, unit, inbox
    <2> QED
      BY <1>5, <1>6, <1>11, <2>1 DEF Pull, world, unit, inbox
  <1>12. CASE Acquire(r)
    <2>1. Follows(r)'
      <3>1. CASE Goto(r, "leased")
        <4>1. job'[r].pc = "leased" /\ job'[r].want = job[r].want
          BY <1>3, <3>1
        <4> QED
          BY <1>2, <1>12, <4>1 DEF Acquire, Follows, Owning
      <3> QED
        BY <1>6, <1>12, <3>1 DEF Acquire
    <2>2. row' = row \/ (row' # None /\ row'.packet = None)
      <3>1. job[r].want \in Want
        BY <1>12 DEF Acquire, Places, RunPlaced
      <3> QED
        BY <1>12, <3>1, NewRowTyped DEF Acquire, NewRow, unit
    <2> QED
      BY <1>2, <1>12, <2>1, <2>2
         DEF Acquire, Deleted, Accepted, HeldCopyIsTracked, world, inbox
  <1>13. CASE Freeze(r)
    <2>1. Follows(r)'
      <3>1. Continue(row') \in Owning \ {"close"}
        BY DEF Continue, Owning
      <3>2. job'[r].pc \in Owning \ {"close"} /\ job'[r].want = job[r].want
        BY <1>3, <1>13, <3>1 DEF Freeze
      <3>3. job[r].pc = "leased" /\ known' = known
        BY <1>13 DEF Freeze
      <3> QED
        BY <1>2, <3>2, <3>3 DEF Follows, Owning
    <2>2. row # None
      BY <1>13 DEF Freeze, Places, RunPlaced, Owning
    <2>3. CASE UNCHANGED <<row, made>>
      BY <1>5, <1>13, <2>1, <2>3 DEF Freeze, world, inbox
    <2>4. CASE /\ made < MaxPackets /\ made' = made + 1
               /\ row' = [row EXCEPT !.phase = "prepared",
                            !.packet = [id |-> made + 1, scope |-> row.scope, body |-> 0]]
      <3>1. row' # None /\ row'.packet.id = made + 1
        BY <2>2, <2>4, FrozenTyped
      <3>2. \A c \in committed : c.packet.id <= made /\ c.packet.id \in Nat /\ made \in Nat
        BY BoundsAssumption DEF Stores, Named, Exists, Packet
      <3>3. \A c \in committed' : c.packet.id # row'.packet.id
        BY <1>13, <3>1, <3>2 DEF Freeze, world
      <3> QED
        BY <1>2, <1>13, <2>1, <3>1, <3>3
           DEF Freeze, Deleted, Accepted, HeldCopyIsTracked, world, inbox
    <2> QED
      BY <1>13, <2>3, <2>4 DEF Freeze
  <1>14. CASE Mark(r) \/ Save(r)
    <2>1. row # None /\ row \in Row
      BY <1>14 DEF Mark, Save, Stores, Places, RunPlaced, Owning
    <2>2. row' # None /\ row'.packet = row.packet /\ row'.scope = row.scope
      BY <1>14, <2>1, NoneAssumption DEF Mark, Save, Row
    <2>3. job'[r].pc \in {"push", "received"} /\ job'[r].want = job[r].want
      BY <1>3, <1>14 DEF Mark, Save
    <2>4. Follows(r)'
      BY <1>2, <1>14, <2>3 DEF Mark, Save, Follows, Owning, world
    <2> QED
      <3>1. UNCHANGED <<known, committed, target>>
        BY <1>14 DEF Mark, Save, world
      <3> QED
        BY <1>2, <2>1, <2>2, <2>4, <3>1 DEF Deleted, Accepted, HeldCopyIsTracked
  <1>15. CASE Learn(r)
    <2>1. /\ job[r].want \in Want /\ row.scope = ScopeOf(job[r].want)
      BY <1>15 DEF Learn, Places, RunPlaced, Owning
    <2>2. known' # None /\ ~known'.rejected
      <3>1. CASE row.scope.kind = "upsert"
        <4>1. Shipped(job[r].want.ver) \in Known
          BY <2>1 DEF Want, Shipped, Known
        <4> QED
          BY <1>15, <3>1, <4>1, NoneAssumption DEF Learn, Shipped
      <3>2. CASE row.scope.kind # "upsert"
        <4>1. job[r].want.kind # "upsert"
          BY <2>1, <3>2, WantScope
        <4> QED
          BY <1>2, <1>15, <3>2, <4>1 DEF Learn, Follows, Owning
      <3> QED
        BY <3>1, <3>2
    <2>3. job'[r].pc = "close"
      BY <1>3, <1>15 DEF Learn
    <2> QED
      BY <1>2, <1>15, <2>2, <2>3
         DEF Learn, Follows, Deleted, Accepted, HeldCopyIsTracked, world, unit, inbox
  <1>16. CASE Close(r)
    <2>1. /\ job[r].want \in Want /\ row.scope = ScopeOf(job[r].want) /\ row # None
          /\ row.packet # None /\ Accepted(row.packet)
      BY <1>16 DEF Close, Places, RunPlaced, Owning, Evidence, Deliveries, RunDelivers
    <2>2. known # None /\ row' = None /\ UNCHANGED <<known, target>>
      BY <1>2, <1>16 DEF Close, Follows, world
    <2>3. Follows(r)'
      <3>1. CASE Goto(r, "after")
        <4>1. job'[r].pc = "after" /\ job'[r].want = job[r].want
          BY <1>1, <1>3, <3>1 DEF Job
        <4>2. job[r].want.kind = "delete" => target = None
          BY <1>2, <2>1, WantScope DEF Deleted
        <4> QED
          BY <2>2, <4>1, <4>2 DEF Follows, Owning
      <3> QED
        BY <1>6, <1>16, <3>1 DEF Close
    <2> QED
      BY <1>2, <2>2, <2>3 DEF Deleted, HeldCopyIsTracked
  <1>17. CASE After(r)
    <2>1. /\ job[r].want \in Want /\ job[r].want.kind # "upsert" /\ known # None /\ known \in Known
          /\ row = None /\ (job[r].want.kind = "delete" => target = None)
      BY <1>2, <1>17 DEF After, Places, RunPlaced, Follows, Stores
    <2>2. CASE job[r].want.kind = "delete"
      BY <1>6, <1>17, <2>1, <2>2 DEF After, Deleted, HeldCopyIsTracked, world, unit, inbox
    <2>3. CASE job[r].want.kind # "delete"
      <3>1. known' = [known EXCEPT !.st = "trash", !.ver = job[r].want.ver]
        BY <1>17, <2>1, <2>3 DEF After
      <3>2. known' \in Known /\ known'.rejected = known.rejected
        BY <2>1, <3>1 DEF Known, Want
      <3> QED
        BY <1>2, <1>6, <1>17, <2>1, <3>2, NoneAssumption
           DEF After, Deleted, HeldCopyIsTracked, world, unit, inbox
    <2> QED
      BY <2>2, <2>3
  <1>18. CASE Deliver(r) \/ Fail(r) \/ Crash(r)
    <2>1. UNCHANGED <<known, row, committed, target, item>>
      BY <1>18 DEF Deliver, Push, Answer, Query, Fail, Crash, world, unit, inbox
    <2>2. Follows(r)'
      <3>1. CASE Rest(r)
        BY <1>6, <3>1
      <3>2. CASE Push(r) \/ Query(r) \/ Answer(r)
        <4>1. Rest(r) \/ (job'[r].pc \in Owning \ {"close"} /\ job'[r].want = job[r].want)
          <5>1. CASE Push(r)
            BY <1>1, <5>1 DEF Push, Job, Owning
          <5>2. CASE Query(r)
            BY <1>1, <1>3, <5>2 DEF Query, Releases, Job, Owning
          <5>3. CASE Answer(r)
            BY <1>3, <5>3 DEF Answer, Releases, Owning
          <5> QED
            BY <3>2, <5>1, <5>2, <5>3
        <4> QED
          BY <1>2, <1>6, <2>1, <3>2, <4>1 DEF Follows, Push, Query, Answer, Owning
      <3> QED
        BY <1>18, <3>1, <3>2 DEF Deliver, Fail, Crash, Releases
    <2> QED
      BY <1>5, <2>1, <2>2
  <1> QED
    BY <1>7, <1>8, <1>9, <1>10, <1>11, <1>12, <1>13, <1>14, <1>15, <1>16, <1>17, <1>18
       DEF RunStep

LEMMA TrackedStep ==
  ASSUME ~Parks, OneRun
  PROVE  Typed /\ Evidence /\ Truth /\ Tracked /\ [Next]_vars => Tracked'
  <1> SUFFICES ASSUME Typed, Evidence, Truth, Tracked, [Next]_vars PROVE Tracked'
    OBVIOUS
  <1>1. Unreviewed'
    BY Alone DEF Tracked
  <1>2. ASSUME NEW r \in Runs, (RunStep(r) /\ ~Park(r)) \/ Deliver(r) \/ Fail(r) \/ Crash(r)
        PROVE  Tracked'
    BY <1>1, <1>2, RunTracked DEF Tracked, Truth, OneRun
  <1>3. CASE Apply
    BY <1>1, <1>3, ApplyTracked DEF Tracked, Apply
  <1>4. CASE UNCHANGED <<known, row, job, committed, target>>
    BY <1>1, <1>4 DEF Tracked, Unreviewed, Deleted, Accepted, HeldCopyIsTracked, Follows
  <1> QED
    BY <1>2, <1>3, <1>4, Alone DEF Tracked

(* In a pair that does not review and is run by one run at a time, a post  *)
(* that the target holds can still be taken off it, whatever interrupts    *)
(* the run: the state file knows it, or its row is unfinished.             *)
THEOREM CopyTracked == ~Parks /\ OneRun => (Spec => []HeldCopyIsTracked)
  <1> SUFFICES ASSUME ~Parks, OneRun PROVE Spec => []HeldCopyIsTracked
    OBVIOUS
  <1>1. Init => Tracked
    BY DEF Init, Tracked, Unreviewed, Deleted, HeldCopyIsTracked, Follows, Idle, Actors, Owning
  <1>2. Spec => []Truth
    BY EvidenceAlways, TruthInit, TruthStep, PTL DEF Spec
  <1>3. Tracked => HeldCopyIsTracked
    BY DEF Tracked
  <1> QED
    BY <1>1, <1>2, <1>3, EvidenceAlways, TrackedStep, PTL DEF Spec

=============================================================================
