------------------------- MODULE ContentUnit_proofs -------------------------
(***************************************************************************)
(* Proofs about ContentUnit for any number of source versions, paid        *)
(* bodies, failed deliveries and crashes, every set of job lanes and every *)
(* policy.  The inductive invariant UnitInv says what the holder of the    *)
(* lease knows where it stands (Stages), that what the site accepted is    *)
(* known (Known), that a paid body is in one file only (Filed), and which  *)
(* results a row can name (Named).  The last section is about the run that *)
(* hands out the objects (DiscoveryRun).                                   *)
(***************************************************************************)
EXTENDS ContentUnit, DiscoveryRun, TLAPS

TypeOK ==
  /\ source \in Versions /\ files \in [Digest -> Payload \cup {None}]
  /\ pending \in Payload \cup {None} /\ receipt \in Receipt \cup {None}
  /\ record \in BOOLEAN
  /\ row \in Row \cup {None} /\ manual \in Manual \cup {None}
  /\ exec \in Exec \cup {None}
  /\ accepted \subseteq Payload
  /\ made \in 0..MaxBodies /\ crashes \in 0..MaxCrashes

Translating == {"translate", "save", "decide", "parking"}
Delivering == {"send", "acked", "failed"}

IsAutomatic(p) == p \in Payload /\ p.key[1] = "version"

\* What the holder of the lease knows.
Stages ==
  exec # None =>
    /\ exec.lane \in Lanes => exec.snap \in Digest
    /\ exec.pc = "look" => exec.lane \in Lanes
    /\ exec.pc \in Translating => exec.lane \in Lanes \/ exec.lane = "manual"
    /\ exec.pc \in Translating /\ exec.lane \in Lanes => pending = None
    /\ exec.pc \in {"save", "decide", "parking"} => exec.lane \in Lanes /\ IsAutomatic(exec.payload)
    /\ exec.pc \in Delivering => pending = exec.payload /\ exec.payload \in Payload
                                 /\ exec.lane \in Lanes \cup Requests
    /\ exec.pc = "acked" => exec.payload \in accepted
    /\ exec.pc = "decide" \/ exec.fresh => files[exec.snap] = exec.payload
    /\ exec.fresh => /\ exec.lane \in Lanes /\ IsAutomatic(exec.payload)
                     /\ exec.pc \in Delivering \cup {"close"}
    /\ exec.pc = "close" => exec.lane = "job" /\ pending = None /\ exec.payload \in Payload
    /\ exec.lane = "manual" => exec.pc \in {"translate", "project"} /\ manual # None
    /\ exec.pc = "project" => exec.lane = "manual" /\ manual.state = "candidate"
    /\ exec.lane = "manual" /\ exec.pc = "translate" => manual.state = "open"
    /\ exec.lane \in Requests => row # None

\* What the site accepted is pending or on record, and the other way round.
Known ==
  /\ AcceptedIsKnown /\ ConfirmedWasAccepted
  /\ receipt # None => record

\* A body is paid for once and saved in one file.
Filed ==
  /\ \A d \in Digest : files[d] # None => IsAutomatic(files[d]) /\ files[d].body <= made
  /\ \A d, e \in Digest : files[d] # None /\ files[d] = files[e] => d = e
  /\ exec # None /\ exec.pc = "save" =>
       /\ exec.payload.body <= made
       /\ \A d \in Digest : files[d] # None => files[d].body < exec.payload.body

\* A row names the file of a digest or a result of its own.
Named ==
  /\ row # None => row.path \in Digest \/ (\E n \in Bodies : row.path = Own(n))
  /\ manual # None => row # None

UnitInv == TypeOK /\ Stages /\ Known /\ Filed /\ Named

-----------------------------------------------------------------------------
(* Data                                                                     *)

LEMMA Numbers ==
  /\ MaxVersion \in Nat /\ MaxVersion # 0 /\ MaxBodies \in Nat /\ MaxTries \in Nat
  /\ MaxCrashes \in Nat
  BY BoundsAssumption

LEMMA NoneApart ==
  /\ None \notin Digest /\ None \notin Payload /\ None \notin Row /\ None \notin Manual
  /\ None \notin Exec /\ None \notin Key /\ None \notin Receipt
  BY NoneAssumption

LEMMA Keys ==
  /\ \A n \in Bodies : Own(n) \in Payload /\ Own(n).key \in Key /\ Own(n).key[1] = "own"
  /\ \A v \in Versions, n \in Bodies :
       Automatic(v, n) \in Payload /\ IsAutomatic(Automatic(v, n)) /\ Automatic(v, n).body = n
  /\ \A p \in Payload : p.key \in Key /\ p.body \in Bodies
  /\ \A n \in Bodies : ~IsAutomatic(Own(n))
  <1>1. ASSUME NEW n \in Bodies
        PROVE  Own(n) \in Payload /\ Own(n).key \in Key /\ Own(n).key[1] = "own"
               /\ ~IsAutomatic(Own(n))
    BY DEF Payload, Own, IsAutomatic, Key
  <1>2. ASSUME NEW v \in Versions, NEW n \in Bodies
        PROVE  /\ Automatic(v, n) \in Payload /\ IsAutomatic(Automatic(v, n))
               /\ Automatic(v, n).body = n /\ Automatic(v, n).key \in Key
    BY DEF Payload, Automatic, IsAutomatic, Key
  <1>3. ASSUME NEW p \in Payload PROVE p.key \in Key /\ p.body \in Bodies
    <2>1. CASE \E n \in Bodies : p = Own(n)
      BY <1>1, <2>1 DEF Own
    <2>2. CASE \E v \in Versions, n \in Bodies : p = Automatic(v, n)
      BY <1>2, <2>2
    <2> QED
      BY <2>1, <2>2 DEF Payload
  <1> QED
    BY <1>1, <1>2, <1>3

LEMMA UnitInit == Init => UnitInv
  <1> SUFFICES ASSUME Init PROVE UnitInv
    OBVIOUS
  <1>1. TypeOK
    <2>1. 1 \in Versions /\ 0 \in 0..MaxBodies /\ 0 \in 0..MaxCrashes
      BY Numbers DEF Versions
    <2> QED
      BY <2>1 DEF Init, TypeOK
  <1>2. Stages /\ Known /\ Named
    BY DEF Init, Stages, Known, AcceptedIsKnown, ConfirmedWasAccepted, Named
  <1>3. Filed
    BY DEF Init, Filed
  <1> QED
    BY <1>1, <1>2, <1>3 DEF UnitInv

-----------------------------------------------------------------------------
(* What a step shows                                                        *)

\* The row of an unresolved delivery stays with its result.
Steady ==
  row # None /\ pending # None /\ FileAt(row.path) = pending /\ row'.path # row.path
    => Unfinished /\ row'.path = Own(manual.body)

PCs == {"look", "translate", "save", "decide", "parking", "send", "acked", "failed", "close",
        "project"}

LEMMA Moves ==
  ASSUME exec \in Exec, NEW pc \in PCs, NEW e, e = [exec EXCEPT !.pc = pc]
  PROVE  /\ e \in Exec /\ e # None /\ e.pc = pc
         /\ e.lane = exec.lane /\ e.snap = exec.snap /\ e.payload = exec.payload
         /\ e.fresh = exec.fresh /\ e.resync = exec.resync
  BY NoneApart DEF Exec, PCs

LEMMA Fields ==
  ASSUME exec \in Exec
  PROVE  /\ exec # None /\ exec.lane \in Lanes \cup Requests \cup {"manual"} /\ exec.pc \in PCs
         /\ exec.snap \in Digest \cup {None} /\ exec.payload \in Payload \cup {None}
         /\ exec.fresh \in BOOLEAN
  BY NoneApart DEF Exec, PCs

LEMMA RowFields ==
  ASSUME row \in Row
  PROVE  /\ row # None /\ row.status \in Statuses /\ row.path \in Digest \cup Payload
         /\ row.task \in Key \cup {None} /\ row.tries \in Nat
         /\ \A status \in Statuses : /\ [row EXCEPT !.status = status] \in Row
                                     /\ [row EXCEPT !.status = status].path = row.path
  BY NoneApart DEF Row

\* A recorded outcome names the source the lane translated.
LEMMA RecordedRow ==
  ASSUME TypeOK, exec \in Exec, exec.snap \in Digest, NEW status \in Statuses,
         NEW p \in Payload \cup {None}
  PROVE  /\ Recorded(status, p) \in Row /\ Recorded(status, p) # None
         /\ Recorded(status, p).path = exec.snap
  <1>1. CASE row = None
    <2>1. (IF p = None THEN None ELSE p.key) \in Key \cup {None}
      BY Keys
    <2>2. Recorded(status, p) = [status |-> status, path |-> exec.snap, tries |-> 0,
                                 task |-> IF p = None THEN None ELSE p.key]
      BY <1>1 DEF Recorded
    <2> QED
      BY <2>1, <2>2, NoneApart DEF Row
  <1>2. CASE row # None
    <2>1. row \in Row
      BY <1>2 DEF TypeOK
    <2>2. Recorded(status, p) = [row EXCEPT !.status = status, !.path = exec.snap]
      BY <1>2 DEF Recorded
    <2>3. Recorded(status, p) \in Row /\ Recorded(status, p).path = exec.snap
      BY <2>1, <2>2 DEF Row
    <2> QED
      BY <2>3, NoneApart
  <1> QED
    BY <1>1, <1>2

LEMMA KnownStays ==
  ASSUME Known, UNCHANGED <<accepted, delivery>> PROVE Known'
  BY DEF Known, AcceptedIsKnown, ConfirmedWasAccepted, delivery

LEMMA FiledStays ==
  ASSUME TypeOK, Filed, UNCHANGED files, made' \in {made, made + 1},
         exec' # None => exec'.pc # "save"
  PROVE  Filed'
  <1>1. \A d \in Digest : files[d] # None => files[d].body \in Nat /\ files[d].body <= made
    BY Keys, Numbers DEF Filed, IsAutomatic, Bodies
  <1>2. \A d \in Digest : files[d] # None => files[d].body <= made'
    BY <1>1, Numbers DEF TypeOK
  <1> QED
    BY <1>2 DEF Filed, IsAutomatic

\* A step that records nothing anew.
LEMMA RowStays ==
  ASSUME Named, row' = row \/ (row \in Row /\ row' \in Row /\ row'.path = row.path),
         UNCHANGED manual \/ row \in Row
  PROVE  Named' /\ Steady
  <1>1. row \in Row => row # None
    BY NoneApart
  <1>2. row' \in Row => row' # None
    BY NoneApart
  <1> QED
    BY <1>1, <1>2 DEF Named, Steady

-----------------------------------------------------------------------------
(* The lanes that translate                                                 *)

LEMMA EnterKeeps ==
  ASSUME UnitInv, NEW lane \in Lanes, NEW own \in BOOLEAN, NEW resync \in BOOLEAN,
         Enter(lane, own, resync)
  PROVE  UnitInv' /\ Steady
  <1> USE DEF world, delivery
  <1>0. TypeOK /\ Stages /\ Known /\ Filed /\ Named
    BY DEF UnitInv
  <1>1. /\ exec' = [lane |-> lane, pc |-> "look", snap |-> [ver |-> source, outbox |-> own],
                    resync |-> resync, payload |-> None, fresh |-> FALSE]
        /\ UNCHANGED <<source, crashes, files, pending, receipt, record, row, manual, accepted,
                       made>>
    BY DEF Enter
  <1>2. [ver |-> source, outbox |-> own] \in Digest
    BY <1>0 DEF Digest, TypeOK
  <1>3. exec' \in Exec
    BY <1>1, <1>2 DEF Exec
  <1>4. TypeOK'
    BY <1>0, <1>1, <1>3 DEF TypeOK
  <1>5. Stages'
    BY <1>1, <1>2 DEF Stages, Lanes, Requests, Translating, Delivering
  <1>6. Known' /\ Filed' /\ Named' /\ Steady
    BY <1>0, <1>1, KnownStays, FiledStays, RowStays
  <1> QED
    BY <1>4, <1>5, <1>6 DEF UnitInv

LEMMA LookKeeps ==
  ASSUME UnitInv, Refuse \/ Skip \/ Redeliver \/ Restore \/ Start
  PROVE  UnitInv' /\ Steady
  <1> USE DEF world, delivery, At, Goto, Leave
  <1>0. TypeOK /\ Stages /\ Known /\ Filed /\ Named
    BY DEF UnitInv
  <1>1. exec # None /\ exec.pc = "look" /\ UNCHANGED <<files, made, manual, accepted, source, crashes>>
    BY DEF Refuse, Skip, Redeliver, Restore, Start
  <1>2. exec \in Exec /\ exec.lane \in Lanes /\ exec.snap \in Digest /\ ~exec.fresh
    BY <1>0, <1>1, Fields DEF TypeOK, Stages, Delivering
  <1>3. CASE Refuse \/ Skip
    <2>1. exec' = None /\ UNCHANGED <<row, pending, receipt, record>>
      BY <1>3 DEF Refuse, Skip
    <2>2. TypeOK' /\ Stages'
      BY <1>0, <1>1, <2>1 DEF TypeOK, Stages
    <2> QED
      BY <1>0, <1>1, <2>1, <2>2, KnownStays, FiledStays, RowStays DEF UnitInv
  <1>4. CASE Redeliver \/ Restore
    <2>1. /\ pending' \in Payload /\ exec' = [exec EXCEPT !.pc = "send", !.payload = pending']
          /\ UNCHANGED <<row, receipt, record>>
          /\ pending' # pending => pending = None /\ receipt # None
      <3>1. CASE Redeliver
        BY <1>0, <3>1 DEF Redeliver, Redelivers, TypeOK
      <3>2. CASE Restore
        <4>1. receipt \in Receipt
          BY <1>0, <3>2 DEF Restore, Receipted, TypeOK
        <4> QED
          BY <3>2, <4>1 DEF Restore, Receipted, Receipt
      <3> QED
        BY <1>4, <3>1, <3>2
    <2>2. /\ exec' \in Exec /\ exec'.pc = "send" /\ exec'.payload = pending'
          /\ exec'.lane = exec.lane /\ exec'.snap = exec.snap /\ exec'.fresh = exec.fresh
      BY <1>2, <2>1 DEF Exec
    <2>3. TypeOK'
      BY <1>0, <1>1, <2>1, <2>2 DEF TypeOK
    <2>4. Stages'
      BY <1>2, <2>1, <2>2 DEF Stages, Translating, Delivering, Lanes, Requests
    <2>5. Known'
      BY <1>0, <1>1, <2>1 DEF Known, AcceptedIsKnown, ConfirmedWasAccepted
    <2>6. Filed' /\ Named' /\ Steady
      BY <1>0, <1>1, <2>1, <2>2, FiledStays, RowStays
    <2> QED
      BY <2>3, <2>4, <2>5, <2>6 DEF UnitInv
  <1>5. CASE Start
    <2>1. pending = None /\ UNCHANGED <<pending, receipt, record>>
      BY <1>5 DEF Start, Redelivers
    <2>2. CASE Parked
      <3>1. row' \in {row, Recorded("failed", None)} /\ exec' = None
        BY <1>5, <2>2 DEF Start, Err
      <3>2. /\ Recorded("failed", None) \in Row /\ Recorded("failed", None) # None
            /\ Recorded("failed", None).path = exec.snap
        BY <1>0, <1>2, RecordedRow DEF Statuses
      <3>3. TypeOK' /\ Stages' /\ Named' /\ Steady
        BY <1>0, <1>1, <1>2, <2>1, <3>1, <3>2 DEF TypeOK, Stages, Named, Steady
      <3> QED
        BY <1>0, <1>1, <2>1, <3>1, <3>3, KnownStays, FiledStays DEF UnitInv
    <2>3. CASE ~Parked
      <3>1. UNCHANGED row /\ exec' = [exec EXCEPT !.pc = "translate"]
        BY <1>5, <2>3 DEF Start
      <3>2. /\ exec' \in Exec /\ exec'.pc = "translate" /\ exec'.lane = exec.lane
            /\ exec'.snap = exec.snap /\ exec'.fresh = exec.fresh
        BY <1>2, <3>1, Moves DEF PCs
      <3>3. TypeOK'
        BY <1>0, <1>1, <2>1, <3>1, <3>2 DEF TypeOK
      <3>4. Stages'
        BY <1>2, <2>1, <3>2 DEF Stages, Translating, Delivering, Lanes, Requests
      <3> QED
        BY <1>0, <1>1, <2>1, <3>1, <3>2, <3>3, <3>4, KnownStays, FiledStays, RowStays DEF UnitInv
    <2> QED
      BY <2>2, <2>3
  <1> QED
    BY <1>3, <1>4, <1>5

\* A lane that records an outcome while nothing is pending, and gives up.
LEMMA RecordKeeps ==
  ASSUME UnitInv, exec # None, exec.snap \in Digest, pending = None,
         NEW status \in Statuses, NEW p \in Payload \cup {None},
         row' \in {row, Recorded(status, p)}, exec' = None,
         UNCHANGED <<world, files, delivery, manual, accepted, made>>
  PROVE  UnitInv' /\ Steady
  <1> USE DEF world, delivery
  <1>0. TypeOK /\ Stages /\ Known /\ Filed /\ Named
    BY DEF UnitInv
  <1>1. /\ Recorded(status, p) \in Row /\ Recorded(status, p) # None
        /\ Recorded(status, p).path = exec.snap
    BY <1>0, RecordedRow DEF TypeOK
  <1>2. TypeOK' /\ Stages' /\ Named' /\ Steady
    BY <1>0, <1>1 DEF TypeOK, Stages, Named, Steady
  <1> QED
    BY <1>0, <1>2, KnownStays, FiledStays DEF UnitInv

LEMMA TranslateKeeps ==
  ASSUME UnitInv, exec # None, exec.lane \in Lanes, Translate
  PROVE  UnitInv' /\ Steady
  <1> USE DEF world, delivery, At, Goto, Leave
  <1>0. TypeOK /\ Stages /\ Known /\ Filed /\ Named
    BY DEF UnitInv
  <1>1. /\ exec.pc = "translate"
        /\ UNCHANGED <<world, files, delivery, manual, accepted>>
    BY DEF Translate
  <1>2. exec \in Exec /\ exec.snap \in Digest /\ ~exec.fresh /\ pending = None
    BY <1>0, <1>1, Fields DEF TypeOK, Stages, Delivering, Translating
  <1>3. CASE Err /\ UNCHANGED made
    <2>1. row' \in {row, Recorded("failed", None)} /\ exec' = None
      BY <1>3 DEF Err
    <2> QED
      BY <1>1, <1>2, <1>3, <2>1, RecordKeeps DEF Statuses
  <1>4. CASE row' = Recorded("done", None) /\ exec' = None /\ UNCHANGED made
    BY <1>1, <1>2, <1>4, RecordKeeps DEF Statuses
  <1>5. CASE /\ made < MaxBodies /\ made' = made + 1 /\ UNCHANGED row
             /\ exec' = [exec EXCEPT !.pc = "save",
                                     !.payload = Automatic(exec.snap.ver, made + 1)]
    <2>1. /\ made < MaxBodies /\ made' = made + 1 /\ UNCHANGED row
          /\ exec' = [exec EXCEPT !.pc = "save",
                                  !.payload = Automatic(exec.snap.ver, made + 1)]
      BY <1>5
    <2>2. made + 1 \in Bodies /\ made + 1 \in 0..MaxBodies /\ exec.snap.ver \in Versions
          /\ made \in Nat
      BY <1>0, <1>2, <2>1, Numbers DEF TypeOK, Bodies, Digest
    <2>3. /\ IsAutomatic(Automatic(exec.snap.ver, made + 1))
          /\ Automatic(exec.snap.ver, made + 1) \in Payload
          /\ Automatic(exec.snap.ver, made + 1).body = made + 1
      BY <2>2, Keys
    <2>4. /\ exec' \in Exec /\ exec'.pc = "save" /\ exec'.lane = exec.lane
          /\ exec'.snap = exec.snap /\ exec'.fresh = exec.fresh
          /\ exec'.payload = Automatic(exec.snap.ver, made + 1)
      BY <1>2, <2>1, <2>3 DEF Exec
    <2>5. TypeOK'
      BY <1>0, <1>1, <2>1, <2>2, <2>4 DEF TypeOK
    <2>6. Stages'
      BY <1>1, <1>2, <2>3, <2>4 DEF Stages, Translating, Delivering, Lanes, Requests
    <2>7. Filed'
      <3>1. \A d \in Digest : files[d] # None => files[d].body \in Nat /\ files[d].body <= made
        BY <1>0, Keys, Numbers DEF Filed, IsAutomatic, Bodies
      <3>2. \A d \in Digest : files[d] # None => files[d].body <= made + 1
                                                 /\ files[d].body < made + 1
        BY <2>2, <3>1
      <3> QED
        BY <1>0, <1>1, <2>1, <2>2, <2>3, <2>4, <3>2 DEF Filed, IsAutomatic
    <2> QED
      BY <1>0, <1>1, <2>1, <2>5, <2>6, <2>7, KnownStays, RowStays DEF UnitInv
  <1> QED
    BY <1>3, <1>4, <1>5 DEF Translate

LEMMA SaveKeeps ==
  ASSUME UnitInv, Save
  PROVE  UnitInv' /\ Steady
  <1> USE DEF world, delivery, At, Goto, Leave
  <1>0. TypeOK /\ Stages /\ Known /\ Filed /\ Named
    BY DEF UnitInv
  <1>1. /\ exec # None /\ exec.pc = "save"
        /\ UNCHANGED <<world, delivery, manual, accepted, made>>
    BY DEF Save
  <1>2. /\ exec \in Exec /\ exec.lane \in Lanes /\ exec.snap \in Digest /\ ~exec.fresh
        /\ pending = None /\ IsAutomatic(exec.payload)
    BY <1>0, <1>1, Fields DEF TypeOK, Stages, Delivering, Translating
  <1>3. CASE files[exec.snap] # None
    <2>1. row' \in {row, Recorded("failed", None)} /\ exec' = None /\ UNCHANGED files
      BY <1>1, <1>3 DEF Save, Err
    <2> QED
      BY <1>1, <1>2, <2>1, RecordKeeps DEF Statuses
  <1>4. CASE files[exec.snap] = None
    <2>1. /\ files' = [files EXCEPT ![exec.snap] = exec.payload] /\ UNCHANGED row
          /\ exec' = [exec EXCEPT !.pc = "decide"]
      BY <1>1, <1>4 DEF Save
    <2>2. /\ exec' \in Exec /\ exec'.pc = "decide" /\ exec'.lane = exec.lane
          /\ exec'.snap = exec.snap /\ exec'.fresh = exec.fresh /\ exec'.payload = exec.payload
      BY <1>2, <2>1, Moves DEF PCs
    <2>3. /\ exec.payload \in Payload /\ files \in [Digest -> Payload \cup {None}]
          /\ files' \in [Digest -> Payload \cup {None}] /\ files'[exec.snap] = exec.payload
          /\ \A d \in Digest : d # exec.snap => files'[d] = files[d]
      BY <1>0, <1>2, <2>1 DEF IsAutomatic, TypeOK
    <2>4. TypeOK'
      BY <1>0, <1>1, <2>1, <2>2, <2>3 DEF TypeOK
    <2>5. Stages'
      BY <1>1, <1>2, <2>2, <2>3 DEF Stages, Translating, Delivering, Lanes, Requests
    <2>6. Filed'
      <3>1. /\ exec.payload.body <= made
            /\ \A d \in Digest : files[d] # None => files[d] # exec.payload
        <4>1. exec.payload.body \in Nat
          BY <1>2, Keys, Numbers DEF IsAutomatic, Bodies
        <4> QED
          BY <1>0, <1>1, <4>1 DEF Filed
      <3>2. \A d \in Digest : files'[d] # None => IsAutomatic(files'[d]) /\ files'[d].body <= made
        BY <1>0, <1>2, <2>3, <3>1 DEF Filed
      <3>3. exec.payload # None
        BY <2>3, NoneApart
      <3>4. \A d, e \in Digest : files'[d] # None /\ files'[d] = files'[e] => d = e
        BY <1>0, <2>3, <3>1, <3>3 DEF Filed
      <3> QED
        BY <1>1, <2>2, <3>2, <3>4 DEF Filed, IsAutomatic
    <2> QED
      BY <1>0, <1>1, <2>1, <2>4, <2>5, <2>6, KnownStays, RowStays DEF UnitInv
  <1> QED
    BY <1>3, <1>4

LEMMA DecideKeeps ==
  ASSUME UnitInv, Park \/ ParkRow \/ Queue
  PROVE  UnitInv' /\ Steady
  <1> USE DEF world, delivery, At, Goto, Leave
  <1>0. TypeOK /\ Stages /\ Known /\ Filed /\ Named
    BY DEF UnitInv
  <1>1. /\ exec # None /\ exec.pc \in {"decide", "parking"}
        /\ UNCHANGED <<world, files, receipt, record, manual, accepted, made>>
    BY DEF Park, ParkRow, Queue
  <1>2. /\ exec \in Exec /\ exec.lane \in Lanes /\ exec.snap \in Digest /\ ~exec.fresh
        /\ pending = None /\ IsAutomatic(exec.payload) /\ exec.payload \in Payload
    BY <1>0, <1>1, Fields DEF TypeOK, Stages, Delivering, Translating, IsAutomatic
  <1>3. CASE ParkRow
    <2>1. row' = Recorded("pending_review", exec.payload) /\ exec' = None /\ UNCHANGED pending
      BY <1>3 DEF ParkRow
    <2> QED
      BY <1>1, <1>2, <2>1, RecordKeeps DEF Statuses
  <1>4. CASE Park
    <2>1. /\ row' = IF row = None THEN None ELSE [row EXCEPT !.status = "pending_review"]
          /\ exec' = [exec EXCEPT !.pc = "parking"] /\ UNCHANGED pending
      BY <1>4 DEF Park
    <2>2. /\ exec' \in Exec /\ exec'.pc = "parking" /\ exec'.lane = exec.lane
          /\ exec'.snap = exec.snap /\ exec'.fresh = exec.fresh /\ exec'.payload = exec.payload
      BY <1>2, <2>1, Moves DEF PCs
    <2>3. row' = row \/ (row \in Row /\ row' \in Row /\ row'.path = row.path)
      BY <1>0, <2>1, RowFields DEF Statuses, TypeOK
    <2>4. TypeOK'
      BY <1>0, <1>1, <2>1, <2>2, <2>3 DEF TypeOK
    <2>5. Stages'
      BY <1>1, <1>2, <2>1, <2>2 DEF Stages, Translating, Delivering, Lanes, Requests
    <2> QED
      BY <1>0, <1>1, <2>1, <2>2, <2>3, <2>4, <2>5, KnownStays, FiledStays, RowStays DEF UnitInv
  <1>5. CASE Queue
    <2>1. /\ pending' = exec.payload /\ exec' = [exec EXCEPT !.pc = "send", !.fresh = TRUE]
          /\ UNCHANGED row /\ exec.pc = "decide"
      BY <1>5 DEF Queue
    <2>2. /\ exec' \in Exec /\ exec'.pc = "send" /\ exec'.lane = exec.lane
          /\ exec'.snap = exec.snap /\ exec'.fresh /\ exec'.payload = exec.payload
      BY <1>2, <2>1 DEF Exec
    <2>3. TypeOK'
      BY <1>0, <1>1, <1>2, <2>1, <2>2 DEF TypeOK
    <2>4. files[exec.snap] = exec.payload
      BY <1>0, <1>1, <2>1 DEF Stages
    <2>5. Stages'
      BY <1>1, <1>2, <2>1, <2>2, <2>4 DEF Stages, Translating, Delivering, Lanes, Requests
    <2>6. Known'
      BY <1>0, <1>1, <1>2, <2>1, NoneApart DEF Known, AcceptedIsKnown, ConfirmedWasAccepted, TypeOK
    <2> QED
      BY <1>0, <1>1, <2>1, <2>2, <2>3, <2>5, <2>6, FiledStays, RowStays DEF UnitInv
  <1> QED
    BY <1>3, <1>4, <1>5

-----------------------------------------------------------------------------
(* Delivery                                                                 *)

LEMMA AnswerKeeps ==
  ASSUME UnitInv, Acknowledge \/ Unanswered
  PROVE  UnitInv' /\ Steady
  <1> USE DEF world, delivery, At, Goto, Leave
  <1>0. TypeOK /\ Stages /\ Known /\ Filed /\ Named
    BY DEF UnitInv
  <1>1. /\ exec # None /\ exec.pc = "send"
        /\ UNCHANGED <<source, crashes, files, pending, receipt, record, row, manual, made>>
    BY DEF Acknowledge, Unanswered
  <1>2. /\ exec \in Exec /\ pending = exec.payload /\ exec.payload \in Payload
        /\ exec.lane \in Lanes \cup Requests
    BY <1>0, <1>1 DEF TypeOK, Stages, Delivering
  <1>3. \/ accepted' = accepted /\ exec' = [exec EXCEPT !.pc = "failed"]
        \/ accepted' = accepted \cup {exec.payload} /\ exec' = [exec EXCEPT !.pc = "failed"]
        \/ accepted' = accepted \cup {exec.payload} /\ exec' = [exec EXCEPT !.pc = "acked"]
    BY DEF Acknowledge, Unanswered
  <1>4. /\ accepted \subseteq accepted' /\ accepted' \subseteq accepted \cup {exec.payload}
        /\ accepted' \subseteq Payload
        /\ exec' = [exec EXCEPT !.pc = "acked"] => exec.payload \in accepted'
    BY <1>0, <1>2, <1>3, Moves DEF TypeOK, PCs
  <1>5. /\ exec' \in Exec /\ exec'.pc \in {"acked", "failed"} /\ exec'.lane = exec.lane
        /\ exec'.snap = exec.snap /\ exec'.payload = exec.payload /\ exec'.fresh = exec.fresh
        /\ exec'.pc = "acked" => exec.payload \in accepted'
    BY <1>2, <1>3, <1>4, Moves DEF PCs
  <1>6. TypeOK'
    BY <1>0, <1>1, <1>4, <1>5 DEF TypeOK
  <1>7. Stages'
    BY <1>0, <1>1, <1>2, <1>5 DEF Stages, Translating, Delivering, Lanes, Requests
  <1>8. Known'
    BY <1>0, <1>1, <1>2, <1>4 DEF Known, AcceptedIsKnown, ConfirmedWasAccepted
  <1> QED
    BY <1>0, <1>1, <1>5, <1>6, <1>7, <1>8, FiledStays, RowStays DEF UnitInv

\* The fresh result of a lane is the one result its unresolved row can name.
LEMMA FreshIsRow ==
  ASSUME UnitInv, exec # None, exec.fresh, row # None, pending # None,
         pending = exec.payload, FileAt(row.path) = pending
  PROVE  row.path = exec.snap
  <1>1. /\ exec.snap \in Digest /\ files[exec.snap] = exec.payload /\ IsAutomatic(exec.payload)
    BY DEF UnitInv, Stages
  <1>2. CASE row.path \in Digest
    BY <1>1, <1>2 DEF UnitInv, Filed, FileAt
  <1>3. CASE row.path \notin Digest
    <2>1. PICK n \in Bodies : row.path = Own(n)
      BY <1>3 DEF UnitInv, Named
    <2> QED
      BY <1>1, <1>3, <2>1, Keys DEF FileAt
  <1> QED
    BY <1>2, <1>3

LEMMA ConfirmKeeps ==
  ASSUME UnitInv, Confirm
  PROVE  UnitInv' /\ Steady
  <1> USE DEF world, delivery, At, Goto, Leave, Answered
  <1>0. TypeOK /\ Stages /\ Known /\ Filed /\ Named
    BY DEF UnitInv
  <1>1. /\ exec # None /\ exec.pc = "acked" /\ exec.lane \in Lanes
        /\ UNCHANGED <<source, crashes, files, manual, accepted, made>>
    BY DEF Confirm
  <1>2. /\ exec \in Exec /\ exec.snap \in Digest /\ pending = exec.payload
        /\ exec.payload \in Payload /\ exec.payload \in accepted
    BY <1>0, <1>1 DEF TypeOK, Stages, Delivering
  <1>3. CASE ~Binds
    <2>1. exec' = None /\ UNCHANGED <<row, pending, receipt, record>>
      BY <1>3 DEF Confirm
    <2> QED
      BY <1>0, <1>1, <2>1, KnownStays, FiledStays, RowStays DEF UnitInv, TypeOK, Stages
  <1>4. CASE Binds
    <2>1. /\ receipt' = [digest |-> exec.snap, payload |-> exec.payload]
          /\ pending' = None /\ record' = TRUE
          /\ row' = IF exec.fresh /\ exec.lane = "scan" THEN Recorded("done", exec.payload)
                    ELSE IF Closes(exec.payload) THEN [row EXCEPT !.status = "done"] ELSE row
          /\ exec' = IF exec.fresh /\ exec.lane = "job" THEN [exec EXCEPT !.pc = "close"] ELSE None
      BY <1>4 DEF Confirm
    <2>2. receipt' \in Receipt /\ receipt'.payload = exec.payload
      BY <1>2, <2>1 DEF Receipt
    <2>3. Known'
      BY <1>1, <1>2, <2>1, <2>2 DEF Known, AcceptedIsKnown, ConfirmedWasAccepted
    <2>4. \/ exec' = None
          \/ /\ exec.fresh /\ exec.lane = "job" /\ exec' \in Exec /\ exec'.pc = "close"
             /\ exec'.lane = "job" /\ exec'.snap = exec.snap /\ exec'.payload = exec.payload
             /\ exec'.fresh = exec.fresh
      BY <1>2, <2>1, Moves DEF PCs
    <2>5. Stages'
      BY <1>0, <1>1, <1>2, <2>1, <2>4 DEF Stages, Translating, Delivering, Lanes, Requests
    <2>6. Filed'
      BY <1>0, <1>1, <2>4, FiledStays
    <2>7. /\ row' \in Row \cup {None} /\ Named' /\ Steady
      <3>1. CASE exec.fresh /\ exec.lane = "scan"
        <4>1. /\ Recorded("done", exec.payload) \in Row /\ Recorded("done", exec.payload) # None
              /\ Recorded("done", exec.payload).path = exec.snap
          BY <1>0, <1>2, RecordedRow DEF Statuses
        <4>2. row' \in Row /\ row' # None /\ row'.path = exec.snap
          BY <2>1, <3>1, <4>1
        <4> QED
          BY <1>0, <1>1, <1>2, <3>1, <4>2, FreshIsRow DEF Named, Steady
      <3>2. CASE ~(exec.fresh /\ exec.lane = "scan")
        <4>1. row' = row \/ (row \in Row /\ row' \in Row /\ row'.path = row.path)
          BY <1>0, <2>1, <3>2, RowFields DEF Closes, TypeOK, Statuses
        <4> QED
          BY <1>0, <1>1, <4>1, RowStays DEF TypeOK
      <3> QED
        BY <3>1, <3>2
    <2>8. TypeOK'
      BY <1>0, <1>1, <2>1, <2>2, <2>4, <2>7 DEF TypeOK
    <2> QED
      BY <2>3, <2>5, <2>6, <2>7, <2>8 DEF UnitInv
  <1> QED
    BY <1>3, <1>4

LEMMA CloseJobKeeps ==
  ASSUME UnitInv, CloseJob
  PROVE  UnitInv' /\ Steady
  <1>1. /\ exec # None /\ exec.pc = "close" /\ row' = Recorded("done", exec.payload) /\ exec' = None
        /\ UNCHANGED <<world, files, delivery, manual, accepted, made>>
    BY DEF CloseJob, At, Leave
  <1>2. exec.snap \in Digest /\ pending = None /\ exec.payload \in Payload
    BY <1>1 DEF UnitInv, Stages, Lanes
  <1> QED
    BY <1>1, <1>2, RecordKeeps DEF Statuses

LEMMA KeepPendingKeeps ==
  ASSUME UnitInv, KeepPending
  PROVE  UnitInv' /\ Steady
  <1> USE DEF world, delivery, At, Goto, Leave
  <1>0. TypeOK /\ Stages /\ Known /\ Filed /\ Named
    BY DEF UnitInv
  <1>1. /\ exec # None /\ exec.pc = "failed" /\ exec.lane \in Lanes /\ exec' = None
        /\ row' = IF exec.fresh THEN Recorded("translated", exec.payload) ELSE row
        /\ UNCHANGED <<source, crashes, files, pending, receipt, record, manual, accepted, made>>
    BY DEF KeepPending
  <1>2. /\ exec \in Exec /\ exec.snap \in Digest /\ pending = exec.payload
        /\ exec.payload \in Payload
    BY <1>0, <1>1 DEF TypeOK, Stages, Delivering
  <1>3. Known' /\ Filed' /\ Stages'
    BY <1>0, <1>1, KnownStays, FiledStays DEF Stages
  <1>4. row' \in Row \cup {None} /\ Named' /\ Steady
    <2>1. CASE exec.fresh
      <3>1. /\ Recorded("translated", exec.payload) \in Row
            /\ Recorded("translated", exec.payload) # None
            /\ Recorded("translated", exec.payload).path = exec.snap
        BY <1>0, <1>2, RecordedRow DEF Statuses
      <3>2. row' \in Row /\ row' # None /\ row'.path = exec.snap
        BY <1>1, <2>1, <3>1
      <3> QED
        BY <1>0, <1>1, <1>2, <2>1, <3>2, FreshIsRow DEF Named, Steady
    <2>2. CASE ~exec.fresh
      BY <1>0, <1>1, <2>2, RowStays DEF TypeOK
    <2> QED
      BY <2>1, <2>2
  <1>5. TypeOK'
    BY <1>0, <1>1, <1>4 DEF TypeOK
  <1> QED
    BY <1>3, <1>4, <1>5 DEF UnitInv

-----------------------------------------------------------------------------
(* Requests of a resuming run and of a reviewer                             *)

LEMMA FallbackIsStatus ==
  ASSUME NEW lane, NEW status \in Statuses PROVE Fallback(lane, status) \in Statuses
  BY DEF Fallback, Statuses

\* What a step that leaves the lease free keeps without more ado.
LEMMA Released ==
  ASSUME UnitInv, exec' = None, UNCHANGED <<files, accepted, delivery>>, made' \in {made, made + 1}
  PROVE  Stages' /\ Known' /\ Filed'
  BY KnownStays, FiledStays DEF UnitInv, Stages

LEMMA TakeKeeps ==
  ASSUME UnitInv, NEW lane \in Requests, row # None, Take(lane)
  PROVE  UnitInv' /\ Steady
  <1> USE DEF world, delivery
  <1> DEFINE p == FileAt(row.path)
  <1>0. TypeOK /\ Stages /\ Known /\ Filed /\ Named
    BY DEF UnitInv
  <1>1. /\ row \in Row /\ exec = None /\ p # None
        /\ UNCHANGED <<source, crashes, files, receipt, record, manual, accepted, made>>
    BY <1>0 DEF Take, TypeOK
  <1>2. p \in Payload
    BY <1>0, <1>1, RowFields DEF FileAt, TypeOK
  <1>3. row' \in Row /\ row' # None /\ row'.path = row.path
    <2>1. \/ row' = row
          \/ row' = [row EXCEPT !.status = "translated"]
          \/ row' = [row EXCEPT !.status = Fallback(lane, row.status)]
      BY DEF Take
    <2>2. Fallback(lane, row.status) \in Statuses /\ "translated" \in Statuses
      BY <1>1, RowFields, FallbackIsStatus DEF Statuses
    <2> QED
      BY <1>1, <2>1, <2>2, RowFields, NoneApart
  <1>4. CASE Adds(p)
    <2>1. /\ pending' = p /\ pending \in {None, p}
          /\ exec' = [lane |-> lane, pc |-> "send", snap |-> None, resync |-> FALSE,
                      payload |-> p, fresh |-> FALSE]
      BY <1>4 DEF Take, Adds
    <2>2. exec' \in Exec
      BY <1>2, <2>1 DEF Exec
    <2>3. TypeOK'
      BY <1>0, <1>1, <1>2, <1>3, <2>1, <2>2 DEF TypeOK
    <2>4. Stages'
      BY <1>2, <1>3, <2>1 DEF Stages, Translating, Delivering, Lanes, Requests
    <2>5. Known'
      BY <1>0, <1>1, <2>1, NoneApart DEF Known, AcceptedIsKnown, ConfirmedWasAccepted, TypeOK
    <2>6. Filed' /\ Named' /\ Steady
      BY <1>0, <1>1, <1>3, <2>1, FiledStays, RowStays DEF TypeOK
    <2> QED
      BY <2>3, <2>4, <2>5, <2>6 DEF UnitInv
  <1>5. CASE ~Adds(p)
    <2>1. UNCHANGED <<pending, exec>>
      BY <1>5 DEF Take
    <2>2. TypeOK' /\ Stages' /\ Known' /\ Filed'
      BY <1>0, <1>1, <1>3, <2>1, Released DEF TypeOK
    <2>3. Named' /\ Steady
      BY <1>0, <1>1, <1>3, RowStays
    <2> QED
      BY <2>2, <2>3 DEF UnitInv
  <1> QED
    BY <1>4, <1>5

LEMMA CompleteKeeps ==
  ASSUME UnitInv, Complete
  PROVE  UnitInv' /\ Steady
  <1> USE DEF world, delivery, At, Leave, Answered
  <1>0. TypeOK /\ Stages /\ Known /\ Filed /\ Named
    BY DEF UnitInv
  <1>1. /\ exec # None /\ exec.lane \in Requests /\ exec' = None /\ exec.pc = "acked"
        /\ UNCHANGED <<source, crashes, files, receipt, manual, accepted, made>>
    BY DEF Complete
  <1>2. row \in Row /\ exec.payload \in accepted
    BY <1>0, <1>1 DEF TypeOK, Stages
  <1>3. CASE Closes(exec.payload)
    <2>1. row' = [row EXCEPT !.status = "done"] /\ record' = TRUE /\ pending' = None
      BY <1>3 DEF Complete
    <2>2. row' \in Row /\ row'.path = row.path
      BY <1>2, <2>1, RowFields DEF Statuses
    <2>3. TypeOK' /\ Stages'
      BY <1>0, <1>1, <2>1, <2>2 DEF TypeOK, Stages
    <2>4. Known'
      BY <1>0, <1>1, <1>2, <2>1 DEF Known, AcceptedIsKnown, ConfirmedWasAccepted
    <2> QED
      BY <1>0, <1>1, <1>2, <2>2, <2>3, <2>4, FiledStays, RowStays DEF UnitInv
  <1>4. CASE ~Closes(exec.payload)
    <2>1. /\ row' = [row EXCEPT !.status = Fallback(exec.lane, row.status)]
          /\ UNCHANGED <<record, pending>>
      BY <1>4 DEF Complete
    <2>2. row' \in Row /\ row'.path = row.path
      BY <1>2, <2>1, RowFields, FallbackIsStatus
    <2> QED
      BY <1>0, <1>1, <1>2, <2>1, <2>2, Released, RowStays DEF UnitInv, TypeOK
  <1> QED
    BY <1>3, <1>4

LEMMA PostponeKeeps ==
  ASSUME UnitInv, Postpone
  PROVE  UnitInv' /\ Steady
  <1> USE DEF world, delivery, At, Leave
  <1>0. TypeOK /\ Stages /\ Known /\ Filed /\ Named
    BY DEF UnitInv
  <1>1. /\ exec # None /\ exec.lane \in Requests /\ exec' = None
        /\ row' = [row EXCEPT !.tries = IF row.tries < MaxTries THEN row.tries + 1 ELSE row.tries,
                     !.status = Fallback(exec.lane, AfterFailure(row.tries + 1))]
        /\ UNCHANGED <<source, crashes, files, pending, receipt, record, manual, accepted, made>>
    BY DEF Postpone
  <1>2. row \in Row /\ row.tries \in Nat
    BY <1>0, <1>1, RowFields DEF TypeOK, Stages
  <1>3. row' \in Row /\ row'.path = row.path
    <2>1. Fallback(exec.lane, AfterFailure(row.tries + 1)) \in Statuses
      BY FallbackIsStatus DEF AfterFailure, Statuses
    <2>2. (IF row.tries < MaxTries THEN row.tries + 1 ELSE row.tries) \in Nat
      BY <1>2
    <2> QED
      BY <1>1, <1>2, <2>1, <2>2 DEF Row
  <1> QED
    BY <1>0, <1>1, <1>2, <1>3, Released, RowStays DEF UnitInv, TypeOK

LEMMA EditKeeps ==
  ASSUME UnitInv, Edit \/ Reject
  PROVE  UnitInv' /\ Steady
  <1> USE DEF world, delivery
  <1>0. TypeOK /\ Stages /\ Known /\ Filed /\ Named
    BY DEF UnitInv
  <1>1. /\ row \in Row /\ exec = None /\ pending = None
        /\ UNCHANGED <<source, crashes, files, pending, receipt, record, manual, exec, accepted>>
    BY <1>0 DEF Edit, Reject, Parked, Rejectable, Mutable, Editable, TypeOK
  <1>2. CASE Edit
    <2>1. /\ made < MaxBodies /\ made' = made + 1
          /\ row' = [row EXCEPT !.path = Own(made + 1), !.task = Own(made + 1).key]
      BY <1>2 DEF Edit, Edited
    <2>2. made + 1 \in Bodies /\ made' \in 0..MaxBodies
      BY <1>0, <2>1, Numbers DEF TypeOK, Bodies
    <2>3. row' \in Row /\ row'.path = Own(made + 1) /\ row' # None
      BY <1>1, <2>1, <2>2, Keys, NoneApart DEF Row
    <2>4. TypeOK'
      BY <1>0, <1>1, <2>2, <2>3 DEF TypeOK
    <2> QED
      BY <1>0, <1>1, <2>1, <2>2, <2>3, <2>4, Released DEF UnitInv, Named, Steady
  <1>3. CASE Reject
    <2>1. row' = [row EXCEPT !.status = "rejected"] /\ made' = made
      BY <1>3 DEF Reject
    <2>2. row' \in Row /\ row'.path = row.path
      BY <1>1, <2>1, RowFields DEF Statuses
    <2> QED
      BY <1>0, <1>1, <2>1, <2>2, Released, RowStays DEF UnitInv, TypeOK
  <1> QED
    BY <1>2, <1>3

-----------------------------------------------------------------------------
(* Manual requests                                                          *)

LEMMA RetranslateKeeps ==
  ASSUME UnitInv, Retranslate
  PROVE  UnitInv' /\ Steady
  <1> USE DEF world, delivery
  <1>0. TypeOK /\ Stages /\ Known /\ Filed /\ Named
    BY DEF UnitInv
  <1>1. /\ row # None
        /\ exec' = [lane |-> "manual", pc |-> "translate", snap |-> None, resync |-> FALSE,
                    payload |-> None, fresh |-> FALSE]
        /\ UNCHANGED <<source, crashes, files, pending, receipt, record, row, accepted>>
    BY DEF Retranslate
  <1>2. /\ manual' \in Manual /\ manual' # None /\ manual'.state = "open"
        /\ made' \in {made, made + 1} /\ made' \in 0..MaxBodies
    <2>1. CASE NewRequest
      <3>1. made + 1 \in Bodies /\ made + 1 \in 0..MaxBodies /\ made' = made + 1
        BY <1>0, <2>1, Numbers DEF NewRequest, TypeOK, Bodies
      <3> QED
        BY <2>1, <3>1, NoneApart DEF NewRequest, Manual
    <2>2. CASE Unfinished /\ manual.state = "open" /\ UNCHANGED <<made, manual>>
      BY <1>0, <2>2 DEF Unfinished, TypeOK
    <2> QED
      BY <2>1, <2>2 DEF Retranslate
  <1>3. exec' \in Exec
    BY <1>1 DEF Exec
  <1>4. TypeOK'
    BY <1>0, <1>1, <1>2, <1>3 DEF TypeOK
  <1>5. Stages'
    BY <1>1, <1>2 DEF Stages, Translating, Delivering, Lanes, Requests
  <1>6. Known' /\ Filed'
    BY <1>0, <1>1, <1>2, KnownStays, FiledStays
  <1>7. Named' /\ Steady
    BY <1>0, <1>1 DEF Named, Steady
  <1> QED
    BY <1>4, <1>5, <1>6, <1>7 DEF UnitInv

LEMMA PrepareKeeps ==
  ASSUME UnitInv, PrepareResult
  PROVE  UnitInv' /\ Steady
  <1> USE DEF world, delivery, At, Goto, Leave
  <1>0. TypeOK /\ Stages /\ Known /\ Filed /\ Named
    BY DEF UnitInv
  <1>1. /\ exec # None /\ exec.pc = "translate" /\ exec.lane = "manual"
        /\ UNCHANGED <<source, crashes, files, pending, receipt, record, row, accepted, made>>
    BY DEF PrepareResult
  <1>2. exec \in Exec /\ manual \in Manual /\ row # None
    BY <1>0, <1>1 DEF TypeOK, Stages, Named
  <1>3. CASE exec' = None /\ UNCHANGED manual
    BY <1>0, <1>1, <1>3, Released, RowStays DEF UnitInv, TypeOK
  <1>4. CASE /\ manual' = [manual EXCEPT !.state = "candidate"]
             /\ exec' = [exec EXCEPT !.pc = "project"]
    <2>1. manual' \in Manual /\ manual'.state = "candidate" /\ manual' # None
      BY <1>2, <1>4, NoneApart DEF Manual
    <2>2. /\ exec' \in Exec /\ exec'.pc = "project" /\ exec'.lane = "manual"
          /\ exec'.fresh = exec.fresh
      BY <1>1, <1>2, <1>4, Moves DEF PCs
    <2>3. ~exec.fresh
      BY <1>0, <1>1 DEF Stages, Lanes
    <2>4. TypeOK'
      BY <1>0, <1>1, <2>1, <2>2 DEF TypeOK
    <2>5. Stages'
      BY <2>1, <2>2, <2>3 DEF Stages, Translating, Delivering, Lanes, Requests
    <2>6. Known' /\ Filed'
      BY <1>0, <1>1, <2>2, KnownStays, FiledStays
    <2>7. Named' /\ Steady
      BY <1>0, <1>1, <1>2 DEF Named, Steady
    <2> QED
      BY <2>4, <2>5, <2>6, <2>7 DEF UnitInv
  <1> QED
    BY <1>3, <1>4 DEF PrepareResult

LEMMA ProjectKeeps ==
  ASSUME UnitInv, FinishManual \/ RecoverManual
  PROVE  UnitInv' /\ Steady
  <1> USE DEF world, delivery, At, Leave
  <1>0. TypeOK /\ Stages /\ Known /\ Filed /\ Named
    BY DEF UnitInv
  <1>1. /\ manual # None /\ manual.state = "candidate" /\ ProjectManual /\ exec' = None
        /\ UNCHANGED <<source, crashes, files, pending, receipt, record, accepted, made>>
    BY <1>0 DEF FinishManual, RecoverManual, Stages
  <1>2. manual \in Manual /\ row \in Row
    BY <1>0, <1>1 DEF TypeOK, Named
  <1>3. manual.body \in Bodies /\ Own(manual.body) \in Payload /\ Own(manual.body).key \in Key
    BY <1>2, Keys DEF Manual
  <1>4. row' = [row EXCEPT !.status = "pending_review", !.path = Own(manual.body),
                  !.task = Own(manual.body).key]
        /\ manual' = [manual EXCEPT !.state = "finished"]
    BY <1>1 DEF ProjectManual
  <1>5. /\ row' \in Row /\ row'.path = Own(manual.body) /\ row' # None /\ manual' \in Manual
    BY <1>2, <1>3, <1>4, NoneApart DEF Row, Manual, Statuses
  <1>6. TypeOK'
    BY <1>0, <1>1, <1>5 DEF TypeOK
  <1>7. Named' /\ Steady
    BY <1>1, <1>3, <1>5 DEF Named, Steady, Unfinished
  <1> QED
    BY <1>1, <1>6, <1>7, Released DEF UnitInv

-----------------------------------------------------------------------------
(* The world, and every step                                                *)

LEMMA WorldKeeps ==
  ASSUME UnitInv, Crash \/ Write \/ UNCHANGED vars
  PROVE  UnitInv' /\ Steady
  <1> USE DEF world, delivery, Leave
  <1>0. TypeOK /\ Stages /\ Known /\ Filed /\ Named
    BY DEF UnitInv
  <1>1. /\ UNCHANGED <<files, pending, receipt, record, row, manual, accepted, made>>
        /\ exec' = None \/ exec' = exec
    BY DEF Crash, Write, vars
  <1>2. source' \in Versions /\ crashes' \in 0..MaxCrashes
    BY <1>0, Numbers DEF Crash, Write, vars, TypeOK, Versions
  <1>3. TypeOK'
    BY <1>0, <1>1, <1>2 DEF TypeOK
  <1>4. Stages' /\ Filed'
    BY <1>0, <1>1 DEF Stages, Filed, IsAutomatic
  <1> QED
    BY <1>0, <1>1, <1>3, <1>4, KnownStays, RowStays DEF UnitInv

LEMMA StepKeeps ==
  ASSUME UnitInv, [Next]_vars PROVE UnitInv' /\ Steady
  <1>1. CASE \E resync \in BOOLEAN : Scan(resync)
    BY <1>1, EnterKeeps DEF Scan, Lanes
  <1>2. CASE Job
    <2>1. PICK own \in Jobs, resync \in BOOLEAN : Enter("job", own, resync)
      BY <1>2 DEF Job
    <2>2. own \in BOOLEAN
      BY LanesAssumption
    <2> QED
      BY <2>1, <2>2, EnterKeeps DEF Lanes
  <1>3. CASE Lane
    BY <1>3, LookKeeps, TranslateKeeps, SaveKeeps, DecideKeeps DEF Lane
  <1>4. CASE Delivery
    BY <1>4, AnswerKeeps, ConfirmKeeps, CloseJobKeeps, KeepPendingKeeps, CompleteKeeps,
       PostponeKeeps DEF Delivery
  <1>5. CASE Resume \/ Resubmit \/ Approve \/ BulkApprove
    BY <1>5, TakeKeeps DEF Resume, Resubmit, Approve, BulkApprove, Parked, Requests
  <1>6. CASE Edit \/ Reject
    BY <1>6, EditKeeps
  <1>7. CASE Manually
    BY <1>7, RetranslateKeeps, PrepareKeeps, ProjectKeeps DEF Manually
  <1>8. CASE Crash \/ Write \/ UNCHANGED vars
    BY <1>8, WorldKeeps
  <1> QED
    BY <1>1, <1>2, <1>3, <1>4, <1>5, <1>6, <1>7, <1>8 DEF Next, Review

-----------------------------------------------------------------------------
(* Theorems                                                                 *)

\* What a lane, a reviewer and the site know of one another, at every moment.
THEOREM UnitInvariance == Spec => []UnitInv
  <1>1. Init => UnitInv
    BY UnitInit
  <1>2. UnitInv /\ [Next]_vars => UnitInv'
    BY StepKeeps
  <1> QED
    BY <1>1, <1>2, PTL DEF Spec

\* The client never forgets what the site has accepted: a scan does not pay
\* for it a second time (pipeline.rs, execute.rs).
THEOREM AcceptedStaysKnown == Spec => []AcceptedIsKnown
  <1>1. UnitInv => AcceptedIsKnown
    BY DEF UnitInv, Known
  <1> QED
    BY <1>1, UnitInvariance, PTL

\* No receipt and no delivery record without a callback that was accepted.
THEOREM ReceiptsAreTrue == Spec => []ConfirmedWasAccepted
  <1>1. UnitInv => ConfirmedWasAccepted
    BY DEF UnitInv, Known
  <1> QED
    BY <1>1, UnitInvariance, PTL

\* A row keeps the result whose delivery is unresolved, whichever lane, edit,
\* rejection or manual request comes next.
THEOREM UnresolvedStays == Spec => DeliveredStays
  <1>1. UnitInv /\ [Next]_vars
        => [row # None /\ pending # None /\ FileAt(row.path) = pending /\ row'.path # row.path
              => Unfinished /\ row'.path = Own(manual.body)]_vars
    BY StepKeeps DEF Steady
  <1> QED
    BY <1>1, UnitInvariance, PTL DEF Spec, DeliveredStays

-----------------------------------------------------------------------------
(* DiscoveryRun: one translator for an object.                              *)

Member(t) == t = [pipe |-> t.pipe, item |-> t.item, result |-> t.result]

Translators == OneTranslator /\ \A t \in team : Member(t)

LEMMA ClaimTranslators ==
  ASSUME Translators, NEW p, Claim(p)
  PROVE  Translators'
  <1>1. CASE Taken(Current(p))
    BY <1>1 DEF Translators, OneTranslator, Claim
  <1>2. CASE ~Taken(Current(p))
    <2> DEFINE t == Busy(p, Current(p))
    <2>1. team' = team \cup {t} /\ claims' = claims \cup {Current(p)}
      BY <1>2 DEF Claim
    <2>2. Member(t) /\ t.item = Current(p) /\ Current(p) \notin claims
      BY <1>2 DEF Busy, Taken, Member
    <2> QED
      BY <2>1, <2>2 DEF Translators, OneTranslator
  <1> QED
    BY <1>1, <1>2

\* The translation that comes to its result is the only one of its object.
LEMMA ResultTranslators ==
  ASSUME Translators, NEW t \in team, NEW result, result # "running", Translated(t, result)
  PROVE  Translators'
  <1> DEFINE done == [t EXCEPT !.result = result]
  <1>1. Member(done) /\ done.result # "running"
    BY DEF Translators, Member
  <1>2. team' = (team \ {t}) \cup {done} /\ claims' = claims \ {t.item} /\ t.result = "running"
    BY DEF Translated
  <1> QED
    BY <1>1, <1>2 DEF Translators, OneTranslator

LEMMA TranslatorsStep == Translators /\ [DiscoveryNext]_discoveryVars => Translators'
  <1> SUFFICES ASSUME Translators, [DiscoveryNext]_discoveryVars PROVE Translators'
    OBVIOUS
  <1>1. CASE UNCHANGED <<team, claims>>
    BY <1>1 DEF Translators, OneTranslator
  <1>2. ASSUME NEW p \in Pipelines, PipeStep(p) \/ PipeFails(p) PROVE Translators'
    <2>1. CASE Claim(p)
      BY <2>1, ClaimTranslators
    <2>2. CASE ClaimFails(p)
      BY <2>2 DEF ClaimFails, Abort, Translators, OneTranslator
    <2> QED
      BY <1>1, <1>2, <2>1, <2>2
         DEF PipeStep, PipeFails, TurnPage, Fetch, TurnOver, Lease, Reserve,
             CheckMarker, Join, FetchFails, LeaseFails
  <1>3. ASSUME NEW t \in team, TranslateItem(t) PROVE Translators'
    BY <1>3, ResultTranslators DEF TranslateItem
  <1>4. ASSUME NEW t \in team, Note(t) PROVE Translators'
    BY <1>4 DEF Note, Translators, OneTranslator
  <1>5. CASE Stop
    BY <1>5 DEF Stop, Abort, Translators, OneTranslator
  <1>6. CASE Restart
    BY <1>6 DEF Restart, Translators, OneTranslator
  <1>7. CASE RunStep \/ RelationFails
    BY <1>1, <1>7
       DEF RunStep, RelationFails, StartRun, OutboxPass, OutboxDefer,
           OutboxTranslate, OutboxDone, RetrySkip, RetryTranslate, RetryDone, EndRun
  <1>8. CASE \/ Closed \/ Configure
             \/ \E i \in Items : \/ Cooled(i) \/ Rested(i) \/ Lapses(i) \/ Rival(i)
                                   \/ PostEdited(i) \/ Reviewed(i)
    BY <1>1, <1>8
       DEF Closed, Configure, Cooled, Rested, Lapses, Rival, PostEdited, Reviewed
  <1>9. CASE UNCHANGED discoveryVars
    BY <1>1, <1>9 DEF discoveryVars
  <1> QED
    BY <1>2, <1>3, <1>4, <1>5, <1>6, <1>7, <1>8, <1>9 DEF DiscoveryNext, TeamStep

\* An object is translated by one pipeline at a time, and its row of
\* translation_in_progress stands while it is, however pages overlap.
THEOREM TranslatedOnce == DiscoverySpec => []OneTranslator
  <1>1. DiscoveryInit => Translators
    BY DEF DiscoveryInit, Translators, OneTranslator
  <1>2. Translators => OneTranslator
    BY DEF Translators
  <1> QED
    BY <1>1, <1>2, TranslatorsStep, PTL DEF DiscoverySpec
=============================================================================
