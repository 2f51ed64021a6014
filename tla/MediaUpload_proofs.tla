------------------------- MODULE MediaUpload_proofs -------------------------
(***************************************************************************)
(* Proofs about the data root and the upload that lives on it, for every   *)
(* size of bookings and assets, every limit and any number of faults.      *)
(* RootInv says that bytes and promises stay under the limit and why an    *)
(* asset under way is paid; UploadInv says what the one operation id of an *)
(* upload, its checkpoint and the place of the delivery have to do with    *)
(* each other.                                                             *)
(***************************************************************************)
EXTENDS MediaUpload, TLAPS

Numbers ==
  /\ limit \in Int /\ peak \in Int /\ limit <= peak
  /\ data \in Int /\ log \in Int /\ torn \in Nat /\ faults \in Nat
  /\ base \in Nat /\ book \in Nat \cup {None}

\* An asset under way has the lock of the root and a booking that covers it.
Covered ==
  /\ at \in {"writing", "written"} => lease = "asset" /\ book # None /\ book >= Asset
  /\ at = "written" => torn > 0

RootInv == Numbers /\ Covered /\ Conserved /\ NothingUnbooked

-----------------------------------------------------------------------------
(* The root                                                                 *)

\* Bytes on disk and bytes promised.
Total == Physical + Promised

LEMMA Sizes ==
  /\ Booked \in Nat /\ Asset \in Nat /\ Base \in Nat
  /\ Limits \subseteq Int /\ None \notin Int /\ None # "asset" /\ "other" # None
  BY SizesAreNaturals

LEMMA Credit ==
  ASSUME NEW n \in Nat
  PROVE  /\ Asset * n \in Nat /\ Asset * (n + 1) = Asset * n + Asset
         /\ Asset * (n - 1) = Asset * n - Asset
  BY Sizes

LEMMA RootInit1 == RootInit => RootInv
  <1> SUFFICES ASSUME RootInit PROVE RootInv
    OBVIOUS
  <1>1. Numbers
    BY Sizes DEF RootInit, Numbers
  <1>2. Asset * torn = 0
    BY Sizes DEF RootInit
  <1>3. Conserved
    BY <1>2, Sizes DEF RootInit, Conserved, Physical, Promised, Papers, Held, Paper
  <1>4. Covered /\ NothingUnbooked
    BY DEF RootInit, Covered, NothingUnbooked
  <1> QED
    BY <1>1, <1>3, <1>4 DEF RootInv

\* The total in terms of the variables.
LEMMA TotalIs ==
  ASSUME Numbers
  PROVE  /\ Total = data + log + base
                    + (IF book = None THEN Paper ELSE book + Paper + Paper)
         /\ Total \in Int
  BY Sizes DEF Numbers, Total, Physical, Promised, Papers, Held, Paper

LEMMA UnitKeeps == ASSUME RootInv, UnitStep PROVE RootInv'
  <1> USE Sizes DEF Row, Paper
  <1>0. Numbers /\ Covered /\ Conserved /\ NothingUnbooked
    BY DEF RootInv
  <1>1. Total <= peak + Asset * torn
    BY <1>0 DEF Conserved, Total
  <1>2. Asset * torn \in Nat
    BY <1>0, Credit DEF Numbers
  <1>3. Total = data + log + base + (IF book = None THEN 1 ELSE book + 2)
    BY <1>0, TotalIs DEF Numbers
  <1> DEFINE Slack == torn <= faults + (IF at = "written" THEN 1 ELSE 0)
  <1>4. SUFFICES Numbers' /\ Covered' /\ NothingUnbooked' /\ Slack'
                 /\ Total' <= peak' + Asset * torn'
    BY DEF RootInv, Conserved, Total
  <1>5. Slack
    BY <1>0 DEF Conserved
  <1>6. Numbers' => Total' = data' + log' + base' + (IF book' = None THEN 1 ELSE book' + 2)
    <2>1. ASSUME Numbers' PROVE /\ Physical' = data' + log' + Papers'
                                /\ Papers' = 1 + (IF book' = None THEN 0 ELSE 1)
                                /\ Promised' = Held(book') + Held(base')
      BY DEF Physical, Papers, Promised
    <2> QED
      BY <2>1 DEF Total, Held, Numbers
  <1>a. CASE Reserve
    <2>1. Total + Booked + 1 <= limit /\ book = None
      BY <1>a, <1>0 DEF Reserve, CanWrite, Fits, Total, Numbers, Physical, Promised, Papers, Held
    <2>2. Numbers' /\ Covered' /\ NothingUnbooked' /\ Slack'
      BY <1>a, <1>0, <1>5 DEF Reserve, Numbers, Covered, NothingUnbooked
    <2> QED
      BY <1>a, <1>0, <1>2, <1>3, <1>6, <2>1, <2>2 DEF Reserve, Numbers
  <1>b. CASE Commit
    <2>1. Total + 1 <= limit
      BY <1>b, <1>0 DEF Commit, CanWrite, Fits, Total
    <2>2. Numbers' /\ Covered' /\ NothingUnbooked' /\ Slack'
      BY <1>b, <1>0, <1>5 DEF Commit, Numbers, Covered, NothingUnbooked
    <2> QED
      BY <1>b, <1>0, <1>2, <1>3, <1>6, <2>1, <2>2 DEF Commit, Numbers
  <1>c. CASE Abandon \/ SaveFails \/ RetainBooking
    <2>1. Numbers' /\ Covered' /\ NothingUnbooked' /\ Slack'
      BY <1>c, <1>0, <1>5 DEF Abandon, SaveFails, RetainBooking, Numbers, Covered, NothingUnbooked
    <2> QED
      BY <1>c, <1>0, <1>1, <1>2, <1>3, <1>6, <2>1
      DEF Abandon, SaveFails, RetainBooking, Numbers
  <1>d. CASE SaveJob \/ SaveResult
    <2>1. book # None /\ book >= 2 /\ book' = book - 1 /\ Grows
      BY <1>d DEF SaveJob, SaveResult, Affords
    <2>2. Numbers' /\ Covered' /\ NothingUnbooked' /\ Slack'
      BY <1>d, <1>0, <1>5, <2>1 DEF SaveJob, SaveResult, Numbers, Covered, NothingUnbooked, Grows
    <2>3. /\ book \in Int /\ book' = book - 1 /\ book # None /\ book' # None
          /\ data \in Int /\ log \in Int /\ base \in Int /\ peak \in Int
          /\ base' = base /\ log' = log /\ peak' = peak /\ torn' = torn
      BY <1>d, <1>0, <2>1 DEF SaveJob, SaveResult, Numbers
    <2>4. Total' = data' + log' + base' + (book' + 2) /\ Total = data + log + base + (book + 2)
      BY <1>3, <1>6, <2>2, <2>3, Zenon
    <2>5. CASE data' = data
      <3>1. Total' = data + log + base + book + 1
        BY <2>3, <2>4, <2>5
      <3> QED
        BY <1>1, <1>2, <2>2, <2>3, <2>4, <3>1
    <2>6. CASE data' = data + 1
      <3>1. Total' = data + log + base + book + 2
        BY <2>3, <2>4, <2>6
      <3> QED
        BY <1>1, <1>2, <2>2, <2>3, <2>4, <3>1
    <2> QED
      BY <2>1, <2>5, <2>6 DEF Grows
  <1>e. CASE OpenAsset
    <2>1. Numbers' /\ Covered' /\ NothingUnbooked' /\ Slack'
      BY <1>e, <1>0, <1>5 DEF OpenAsset, CreditHolds, Numbers, Covered, NothingUnbooked
    <2> QED
      BY <1>e, <1>0, <1>1, <1>2, <1>3, <1>6, <2>1 DEF OpenAsset, Numbers
  <1>f. CASE WriteAsset
    <2>1. Numbers' /\ Covered' /\ NothingUnbooked' /\ Slack'
      BY <1>f, <1>0, <1>5 DEF WriteAsset, Numbers, Covered, NothingUnbooked
    <2>2. Asset * torn' = Asset * torn + Asset
      BY <1>f, <1>0, Credit DEF WriteAsset, Numbers
    <2> QED
      BY <1>f, <1>0, <1>1, <1>2, <1>3, <1>6, <2>1, <2>2 DEF WriteAsset, Numbers
  <1>g. CASE FinishAsset
    <2>1. Numbers' /\ Covered' /\ NothingUnbooked' /\ Slack'
      BY <1>g, <1>0, <1>5 DEF FinishAsset, Numbers, Covered, NothingUnbooked
    <2>2. Asset * torn' = Asset * torn - Asset
      BY <1>g, <1>0, Credit DEF FinishAsset, Numbers
    <2> QED
      BY <1>g, <1>0, <1>1, <1>2, <1>3, <1>6, <2>1, <2>2 DEF FinishAsset, Numbers, Covered
  <1>h. CASE FailAsset
    <2>1. Numbers' /\ Covered' /\ NothingUnbooked' /\ Slack'
      BY <1>h, <1>0, <1>5 DEF FailAsset, Fault, Numbers, Covered, NothingUnbooked
    <2> QED
      BY <1>h, <1>0, <1>1, <1>2, <1>3, <1>6, <2>1 DEF FailAsset, Numbers
  <1>i. CASE Release
    <2>1. Numbers' /\ Covered' /\ NothingUnbooked' /\ Slack'
      BY <1>i, <1>0, <1>5 DEF Release, Numbers, Covered, NothingUnbooked
    <2> QED
      BY <1>i, <1>0, <1>1, <1>2, <1>3, <1>6, <2>1 DEF Release, Numbers
  <1> QED
    BY <1>a, <1>b, <1>c, <1>d, <1>e, <1>f, <1>g, <1>h, <1>i DEF UnitStep

\* What every step of the root has to show.
LEMMA Settles ==
  ASSUME RootInv, Numbers', Covered', NothingUnbooked',
         torn' = torn, torn <= faults' + (IF at' = "written" THEN 1 ELSE 0),
         \/ Total' <= peak' /\ Total' \in Int
         \/ Total' <= Total /\ Total' \in Int /\ peak' >= peak
  PROVE  RootInv'
  <1>1. Total <= peak + Asset * torn /\ Asset * torn \in Nat /\ Total \in Int
    BY Credit, TotalIs DEF RootInv, Conserved, Total, Numbers
  <1>2. PICK t \in Int : t = Total'
    OBVIOUS
  <1>3. peak \in Int /\ peak' \in Int
    BY DEF RootInv, Numbers
  <1>4. PICK q \in Int : q = peak'
    BY <1>3
  <1>5. t <= q + Asset * torn
    BY <1>1, <1>2, <1>3, <1>4
  <1> QED
    BY <1>2, <1>4, <1>5 DEF RootInv, Conserved, Total

\* A write that asked for its room, and a file that is removed.
Writes(n) ==
  /\ CanWrite(n) /\ data' = data + n
  /\ UNCHANGED <<limit, peak, log, book, base, lease, op, at, torn, faults>>
Removes(n) ==
  /\ data' = data - n
  /\ UNCHANGED <<limit, peak, log, book, base, lease, op, at, torn, faults>>
Faults ==
  /\ Fault
  /\ UNCHANGED <<limit, peak, data, log, book, base, lease, op, at, torn>>

LEMMA WriteKeeps ==
  ASSUME RootInv, NEW n \in Nat, Writes(n) \/ Removes(n) \/ Faults
  PROVE  RootInv'
  <1>0. Numbers /\ Covered /\ Conserved /\ NothingUnbooked
    BY DEF RootInv
  <1>1. Numbers' /\ Covered' /\ NothingUnbooked'
    BY <1>0 DEF Writes, Removes, Faults, Fault, Numbers, Covered, NothingUnbooked
  <1>2. torn' = torn /\ torn <= faults' + (IF at' = "written" THEN 1 ELSE 0) /\ peak' = peak
    BY <1>0 DEF Writes, Removes, Faults, Fault, Conserved, Numbers
  <1>3. Papers' = Papers /\ Promised' = Promised /\ Total \in Int
    BY <1>0, TotalIs DEF Writes, Removes, Faults, Papers, Promised, Held
  <1>4. Papers \in Int /\ Promised \in Int
    BY <1>0, Sizes DEF Papers, Promised, Held, Numbers, Paper
  <1>5. CASE Writes(n)
    <2>1. Total' = Total + n
      BY <1>0, <1>3, <1>4, <1>5 DEF Writes, Total, Physical, Numbers
    <2>2. Total + n <= limit
      BY <1>5 DEF Writes, CanWrite, Fits, Total
    <2>3. Total' <= peak'
      BY <1>0, <1>2, <1>3, <2>1, <2>2 DEF Numbers
    <2> QED
      BY <1>1, <1>2, <1>3, <2>1, <2>3, Settles
  <1>6. CASE Removes(n)
    <2>1. Total' = Total - n
      BY <1>0, <1>3, <1>4, <1>6 DEF Removes, Total, Physical, Numbers
    <2>2. peak \in Int /\ peak' \in Int /\ peak' >= peak
      BY <1>0, <1>2 DEF Numbers
    <2>3. Total' <= Total /\ Total' \in Int
      BY <1>3, <2>1
    <2> QED
      BY <1>1, <1>2, <2>2, <2>3, Settles
  <1>7. CASE Faults
    <2>1. Total' = Total
      BY <1>3, <1>7 DEF Faults, Total, Physical
    <2>2. peak \in Int /\ peak' \in Int /\ peak' >= peak
      BY <1>0, <1>2 DEF Numbers
    <2>3. Total' <= Total /\ Total' \in Int
      BY <1>3, <2>1
    <2> QED
      BY <1>1, <1>2, <2>2, <2>3, Settles
  <1> QED
    BY <1>5, <1>6, <1>7

LEMMA OtherKeeps == ASSUME RootInv, OtherStep \/ RootCrash PROVE RootInv'
  <1> USE Sizes
  <1>0. Numbers /\ Covered /\ Conserved /\ NothingUnbooked
    BY DEF RootInv
  <1>1. Numbers' /\ Covered' /\ NothingUnbooked'
    <2>1. CASE GrowBase
      BY <1>0, <2>1
      DEF GrowBase, Affords, Grows, Row, Paper, Numbers, Covered, NothingUnbooked
    <2>2. CASE Replenish \/ LogWrite \/ ClearLog
      BY <1>0, <2>2
      DEF Replenish, LogWrite, ClearLog, Burst, Numbers, Covered, NothingUnbooked
    <2>3. ASSUME NEW l \in Limits, SavePolicy(l) PROVE Numbers' /\ Covered' /\ NothingUnbooked'
      BY <1>0, <2>3 DEF SavePolicy, Numbers, Covered, NothingUnbooked
    <2>4. CASE Hold \/ Drop
      BY <1>0, <2>4 DEF Hold, Drop, Free, Fault, Numbers, Covered, NothingUnbooked
    <2>5. CASE RootCrash
      BY <1>0, <2>5 DEF RootCrash, Fault, Numbers, Covered, NothingUnbooked
    <2> QED
      BY <2>1, <2>2, <2>3, <2>4, <2>5 DEF OtherStep
  <1>2. torn' = torn /\ torn <= faults' + (IF at' = "written" THEN 1 ELSE 0)
    <2>1. CASE UNCHANGED <<at, torn, faults>>
      BY <1>0, <2>1 DEF Conserved
    <2>2. CASE Hold \/ RootCrash
      BY <1>0, <2>2 DEF Hold, RootCrash, Fault, Conserved, Numbers
    <2> QED
      BY <2>1, <2>2 DEF OtherStep, GrowBase, Replenish, LogWrite, ClearLog, SavePolicy, Drop
  <1>3. /\ Papers' = Papers /\ Held(book)' = Held(book) /\ Held(base) = base
        /\ Papers \in Int /\ Held(book) \in Int
        /\ data \in Int /\ log \in Int /\ base \in Nat /\ peak \in Int
        /\ limit <= peak /\ limit \in Int
    <2>1. book' = book
      BY DEF OtherStep, GrowBase, Replenish, LogWrite, ClearLog, SavePolicy, Hold, Drop,
             RootCrash
    <2>2. Papers' = Papers /\ Held(book)' = Held(book)
      BY <2>1 DEF Papers, Held
    <2>3. base \in Nat /\ Held(base) = base
      BY <1>0 DEF Held, Numbers
    <2>4. Papers \in Int /\ Held(book) \in Int
      BY <1>0 DEF Papers, Held, Numbers, Paper
    <2> QED
      BY <1>0, <2>2, <2>3, <2>4 DEF Numbers
  <1>4. Held(base)' = base'
    BY <1>1 DEF Held, Numbers
  <1>5. /\ Total = data + log + Papers + (Held(book) + base)
        /\ Total' = data' + log' + Papers + (Held(book) + base')
    BY <1>3, <1>4 DEF Total, Physical, Promised
  <1>6. CASE GrowBase
    <2>1. base' = base - 1 /\ log' = log /\ peak' = peak
      BY <1>6 DEF GrowBase, Row
    <2>2. CASE data' = data
      <3>1. Total' = Total - 1 /\ Total \in Int
        BY <1>3, <1>5, <2>1, <2>2
      <3> QED
        BY <1>1, <1>2, <1>3, <2>1, <3>1, Settles
    <2>3. CASE data' = data + 1
      <3>1. Total' = Total /\ Total \in Int
        BY <1>3, <1>5, <2>1, <2>3
      <3> QED
        BY <1>1, <1>2, <1>3, <2>1, <3>1, Settles
    <2> QED
      BY <1>6, <2>2, <2>3 DEF GrowBase, Grows, Row
  <1>7. CASE Replenish
    <2>1. base' = Base /\ log' = log /\ peak' = peak /\ data' = data
      BY <1>7 DEF Replenish
    <2>2. Total + (Base - base + 1) <= limit
      BY <1>7 DEF Replenish, CanWrite, Fits, Paper, Total
    <2>3. Total' = Total + (Base - base) /\ Total \in Int
      BY <1>3, <1>5, <2>1
    <2>4. Total' <= peak' /\ Total' \in Int
      BY <1>3, <2>1, <2>2, <2>3
    <2> QED
      BY <1>1, <1>2, <2>4, Settles
  <1>8. CASE LogWrite
    <2>1. base' = base /\ log' = log + 4 /\ peak' = peak /\ data' = data
      BY <1>8 DEF LogWrite, Burst
    <2>2. Total + 4 <= limit
      BY <1>8 DEF LogWrite, CanWrite, Fits, Burst, Total
    <2>3. Total' = Total + 4 /\ Total \in Int
      BY <1>3, <1>5, <2>1
    <2>4. Total' <= peak' /\ Total' \in Int
      BY <1>3, <2>1, <2>2, <2>3
    <2> QED
      BY <1>1, <1>2, <2>4, Settles
  <1>9. CASE ClearLog
    <2>1. base' = base /\ log > 0 /\ log' = 0 /\ peak' = peak /\ data' = data
      BY <1>9 DEF ClearLog
    <2>2. Total' = Total - log /\ Total \in Int
      BY <1>3, <1>5, <2>1
    <2>3. Total' <= Total /\ Total' \in Int
      BY <1>3, <2>1, <2>2
    <2> QED
      BY <1>1, <1>2, <1>3, <2>1, <2>3, Settles
  <1>10. CASE Hold \/ Drop \/ RootCrash \/ \E l \in Limits : SavePolicy(l)
    <2>1. base' = base /\ log' = log /\ peak' >= peak /\ data' = data
      BY <1>3, <1>10 DEF Hold, Drop, RootCrash, SavePolicy
    <2>2. Total' = Total /\ Total \in Int
      BY <1>3, <1>5, <2>1
    <2> QED
      BY <1>1, <1>2, <2>1, <2>2, Settles
  <1> QED
    BY <1>6, <1>7, <1>8, <1>9, <1>10 DEF OtherStep

-----------------------------------------------------------------------------
(* The upload                                                               *)

Early == {"absent", "open", "full", "importing"}

\* One operation id, and one attachment for it.
OneOperation ==
  /\ imports \in Nat /\ imports <= 1 /\ DOMAIN remote = Ops
  /\ remote[1] \in Early => imports = 0
  /\ \A i \in Ops : i # 1 => remote[i] = "absent"
  /\ \A r \in net : r.id = 1
  /\ check \in Checkpoint \cup {None} /\ (check # None => check.id = 1)

\* The checkpoint is made once, by the first delivery.
Places ==
  /\ receipt = "none" \/ w \in {"fresh", "staged", "copied"} => check = None
  /\ receipt = "none" => w = "idle"
  /\ w \notin {"idle", "fresh", "staged", "copied"} \/ oper # "idle" => check # None

\* What is taken for a result is one of the site.
Results ==
  /\ check # None /\ check.st = "result_ready" => remote[1] = "ready"
  /\ receipt = "done" \/ w = "adopt" => check # None /\ check.st = "result_ready"
  /\ w \in {"told", "seen"} /\ seen = "ready" => remote[1] = "ready"
  /\ oper = "ready" => remote[1] = "ready"

UploadInv == OneOperation /\ Places /\ Results

LEMMA Checks ==
  ASSUME NEW c \in Checkpoint
  PROVE  c # None /\ c.id \in Ops /\ c.st \in States /\ c.up \in BOOLEAN
  BY NoneIsNoCheckpoint DEF Checkpoint

LEMMA SavesKeep ==
  ASSUME check \in Checkpoint, NEW st \in States, NEW up \in BOOLEAN, Saves(st, up)
  PROVE  /\ check' \in Checkpoint /\ check' # None
         /\ check'.id = check.id /\ check'.st = st
         /\ check.st = "result_ready" => st = "result_ready"
  <1>1. check' = [check EXCEPT !.st = st, !.up = up] /\ Keeps([check EXCEPT !.st = st, !.up = up])
    BY DEF Saves
  <1>2. check' \in Checkpoint /\ check'.id = check.id /\ check'.st = st
    BY <1>1 DEF Checkpoint
  <1>3. check.st = "result_ready" => st = "result_ready"
    BY <1>1 DEF Keeps, Checkpoint
  <1> QED
    BY <1>2, <1>3, Checks

\* A step after which the checkpoint is still the one of before, or says more.
Further(st) ==
  \/ UNCHANGED check /\ st = check.st
  \/ /\ check' \in Checkpoint /\ check' # None /\ check'.id = check.id /\ check'.st = st
     /\ check.st = "result_ready" => st = "result_ready"

\* A step of the delivery with its checkpoint in hand.
LEMMA InHand ==
  ASSUME UploadInv, check # None, UNCHANGED <<receipt, remote, imports, oper>>,
         NEW st, Further(st), st = "result_ready" => remote[1] = "ready",
         \A r \in net' : r.id = 1,
         w' \notin {"fresh", "staged", "copied"},
         w' = "adopt" => st = "result_ready",
         w' \in {"told", "seen"} /\ seen' = "ready" => remote[1] = "ready"
  PROVE  UploadInv'
  <1>1. check' # None /\ check' \in Checkpoint /\ check'.id = 1 /\ check'.st = st
    BY DEF UploadInv, OneOperation, Further
  <1>2. OneOperation'
    BY <1>1 DEF UploadInv, OneOperation
  <1>3. Places'
    BY <1>1 DEF UploadInv, Places
  <1>4. check.st = "result_ready" => st = "result_ready"
    BY DEF Further
  <1>5. Results'
    BY <1>1, <1>4 DEF UploadInv, Results
  <1> QED
    BY <1>2, <1>3, <1>5 DEF UploadInv

LEMMA SiteKeeps == ASSUME UploadInv, Site PROVE UploadInv'
  <1>0. OneOperation /\ Places /\ Results /\ 1 \in Ops
    BY DEF UploadInv, Ops
  <1>1. ASSUME NEW r \in net, Arrive(r) PROVE UploadInv'
    <2>1. /\ net' = net \ {r} /\ r.id = 1
          /\ remote' = [remote EXCEPT ![1] = Takes(1, r.kind)]
          /\ UNCHANGED <<receipt, check, imports, w, seen, oper>>
      BY <1>0, <1>1 DEF Arrive, OneOperation
    <2>2. /\ remote[1] \notin Early => Takes(1, r.kind) = remote[1]
          /\ remote[1] \in Early => Takes(1, r.kind) \in Early
      BY DEF Takes, Early
    <2>3. /\ remote[1] = "ready" => remote'[1] = "ready"
          /\ remote'[1] \in Early => remote[1] \in Early
          /\ DOMAIN remote' = Ops /\ \A i \in Ops : i # 1 => remote'[i] = remote[i]
      BY <1>0, <2>1, <2>2 DEF OneOperation, Early
    <2> QED
      BY <1>0, <2>1, <2>3 DEF UploadInv, OneOperation, Places, Results
  <1>2. ASSUME NEW i \in Ops, Import(i) PROVE UploadInv'
    <2>1. i = 1 /\ remote[1] = "importing" /\ imports = 0
      BY <1>0, <1>2 DEF Import, OneOperation, Early
    <2>2. /\ imports' \in {0, 1} /\ DOMAIN remote' = Ops
          /\ remote'[1] \in {"ready", "unknown"}
          /\ \A k \in Ops : k # 1 => remote'[k] = remote[k]
          /\ UNCHANGED <<receipt, check, net, w, seen, oper>>
      BY <1>0, <1>2, <2>1 DEF Import, OneOperation
    <2> QED
      BY <1>0, <2>1, <2>2 DEF UploadInv, OneOperation, Places, Results, Early
  <1> QED
    BY <1>1, <1>2 DEF Site

\* The steps of a first delivery, up to its checkpoint.
LEMMA FirstKeeps ==
  ASSUME UploadInv, Deliver \/ Stage \/ Copy \/ Publish
  PROVE  UploadInv'
  <1> USE DEF Others, Step
  <1>0. OneOperation /\ Places /\ Results
    BY DEF UploadInv
  <1>1. CASE Deliver
    <2>1. /\ UNCHANGED <<check, net, seen, remote, imports, oper>>
          /\ w = "idle" /\ receipt \in {"none", "intent"} /\ receipt' = "intent"
          /\ \/ receipt = "none" /\ w' = "fresh"
             \/ w' = "adopt" /\ check # None /\ check.st = "result_ready"
             \/ w' = "go" /\ check # None
      BY <1>1 DEF Deliver
    <2> QED
      BY <1>0, <2>1 DEF UploadInv, OneOperation, Places, Results
  <1>2. CASE Stage \/ Copy
    <2>1. /\ UNCHANGED <<check, net, seen, remote, imports, oper, receipt>>
          /\ w \in {"fresh", "staged"} /\ w' \in {"staged", "copied"}
      BY <1>2 DEF Stage, Copy
    <2> QED
      BY <1>0, <2>1 DEF UploadInv, OneOperation, Places, Results
  <1>3. CASE Publish
    <2>1. /\ check' = [id |-> 1, st |-> Pre, up |-> FALSE]
          /\ UNCHANGED <<net, seen, remote, imports, oper, receipt>>
          /\ w = "copied" /\ w' = "go"
      BY <1>3 DEF Publish
    <2>2. check' \in Checkpoint /\ check'.id = 1 /\ check'.st = "prepared"
      BY <2>1 DEF Checkpoint, States, Pre, Ops
    <2>3. check' # None
      BY <2>2, Checks
    <2>4. check = None /\ receipt \notin {"none", "done"}
      <3>1. receipt # "none"
        BY <1>0, <2>1 DEF Places
      <3> QED
        BY <1>0, <2>1, <3>1 DEF Places, Results
    <2> QED
      BY <1>0, <2>1, <2>2, <2>3, <2>4 DEF UploadInv, OneOperation, Places, Results
  <1> QED
    BY <1>1, <1>2, <1>3

\* A delivery that talks to the site about its checkpoint.
LEMMA TalkKeeps ==
  ASSUME UploadInv, Begin \/ Send \/ Receive \/ Ask \/ Follow
  PROVE  UploadInv'
  <1> USE DEF Others, Step
  <1>0. OneOperation /\ Places /\ Results
    BY DEF UploadInv
  <1>1. /\ check # None /\ check \in Checkpoint /\ check.id = 1
        /\ check.st \in States /\ check.up \in BOOLEAN
        /\ UNCHANGED <<receipt, remote, imports, oper>>
    <2>1. w \notin {"idle", "fresh", "staged", "copied"}
      <3>1. DOMAIN Awaits = {"single", "init", "chunk", "complete"}
        BY DEF Awaits
      <3>2. CASE Send
        BY <3>1, <3>2 DEF Send
      <3>3. CASE Receive
        <4>1. /\ Awaits["single"] = "sent_single" /\ Awaits["complete"] = "sent_complete"
          BY DEF Awaits
        <4>2. w \in {"sent_single", "sent_complete", "sent_init", "sent_chunk"}
          BY <3>3, <4>1 DEF Receive, Answered
        <4> QED
          BY <4>2
      <3>4. CASE Begin \/ Ask \/ Follow
        BY <3>4 DEF Begin, Ask, Follow
      <3> QED
        BY <3>2, <3>3, <3>4
    <2>2. UNCHANGED <<receipt, remote, imports, oper>>
      BY DEF Begin, Announce, Send, Receive, Ask, Follow
    <2>3. check # None /\ check \in Checkpoint /\ check.id = 1
      BY <1>0, <2>1 DEF Places, OneOperation
    <2> QED
      BY <2>2, <2>3, Checks
  <1>2. ASSUME NEW st \in States, NEW up \in BOOLEAN, Saves(st, up) PROVE Further(st)
    BY <1>1, <1>2, SavesKeep DEF Further
  <1>3. UNCHANGED check => Further(check.st)
    BY DEF Further
  <1>4. check.st = "result_ready" => remote[1] = "ready"
    BY <1>0, <1>1 DEF Results
  <1>5. \A r \in net : r.id = 1
    BY <1>0 DEF OneOperation
  <1>6. CASE Begin
    <2>1. PICK st \in {"complete_unknown", "init_unknown"} :
            /\ Saves(st, check.up) /\ w' \in {"single", "init"}
            /\ UNCHANGED <<net, seen>>
      BY <1>6 DEF Begin, Announce
    <2>2. Further(st)
      BY <1>1, <1>2, <2>1 DEF States
    <2> QED
      BY <1>1, <1>5, <2>1, <2>2, InHand
  <1>7. CASE Send
    <2>1. /\ net' = net \cup {[id |-> check.id, kind |-> w]}
          /\ w' \in {"sent_single", "sent_init", "sent_chunk", "sent_complete"}
          /\ UNCHANGED <<check, seen>>
      BY <1>7 DEF Send, Request, Awaits
    <2>2. \A r \in net' : r.id = 1
      BY <1>1, <1>5, <2>1
    <2> QED
      BY <1>1, <1>3, <1>4, <2>1, <2>2, InHand
  <1>8. CASE Receive
    <2>0. UNCHANGED <<net, seen>>
      BY <1>8 DEF Receive
    <2>1. \/ /\ w' = "adopt" /\ remote[check.id] = "ready"
             /\ Saves("result_ready", check.up)
          \/ w' = "ask" /\ Saves("uploading", TRUE)
          \/ w' = "ask" /\ UNCHANGED check
      BY <1>8 DEF Receive, Answered, Settled
    <2>2. CASE w' = "adopt" /\ remote[check.id] = "ready" /\ Saves("result_ready", check.up)
      BY <1>1, <1>2, <1>5, <2>0, <2>2, InHand DEF States
    <2>3. CASE w' = "ask" /\ Saves("uploading", TRUE)
      BY <1>1, <1>2, <1>5, <2>0, <2>3, InHand DEF States
    <2>4. CASE w' = "ask" /\ UNCHANGED check
      BY <1>1, <1>3, <1>4, <1>5, <2>0, <2>4, InHand
    <2> QED
      BY <2>1, <2>2, <2>3, <2>4
  <1>9. CASE Ask
    <2>1. w' \in {"seen", "told"} /\ seen' = remote[1] /\ UNCHANGED <<check, net>>
      BY <1>1, <1>9 DEF Ask
    <2> QED
      BY <1>1, <1>3, <1>4, <1>5, <2>1, InHand
  <1>10. CASE Follow
    <2>0. UNCHANGED <<net, seen>>
      BY <1>10 DEF Follow
    <2>1. \/ /\ w \in {"told", "seen"} /\ seen = "ready" /\ w' = "adopt"
             /\ Saves("result_ready", check.up)
          \/ \E st \in {"prepared", "uploading", "complete_unknown"}, up \in BOOLEAN :
               Saves(st, up) /\ w' \in {"go", "ask", "complete"}
          \/ UNCHANGED check /\ w' \in {"ask", "chunk"}
      BY <1>1, <1>10 DEF Follow, Confirmed, NotStarted, Pre
    <2>2. CASE /\ w \in {"told", "seen"} /\ seen = "ready" /\ w' = "adopt"
               /\ Saves("result_ready", check.up)
      <3>1. remote[1] = "ready"
        BY <1>0, <2>2 DEF Results
      <3> QED
        BY <1>1, <1>2, <1>5, <2>0, <2>2, <3>1, InHand DEF States
    <2>3. CASE \E st \in {"prepared", "uploading", "complete_unknown"}, up \in BOOLEAN :
                 Saves(st, up) /\ w' \in {"go", "ask", "complete"}
      <3>1. PICK st \in {"prepared", "uploading", "complete_unknown"} :
              Further(st) /\ w' \in {"go", "ask", "complete"}
        BY <1>2, <2>3 DEF States, Pre
      <3> QED
        BY <1>1, <1>5, <2>0, <3>1, InHand
    <2>4. CASE UNCHANGED check /\ w' \in {"ask", "chunk"}
      BY <1>1, <1>3, <1>4, <1>5, <2>0, <2>4, InHand
    <2> QED
      BY <2>1, <2>2, <2>3, <2>4
  <1> QED
    BY <1>6, <1>7, <1>8, <1>9, <1>10

\* The end of a delivery, and what the operator does about its checkpoint.
LEMMA EndKeeps ==
  ASSUME UploadInv, Adopt \/ Stop \/ Lose \/ Crash \/ Inspect \/ Verify \/ Conclude
  PROVE  UploadInv'
  <1> USE DEF Others, Step, Ends
  <1>0. OneOperation /\ Places /\ Results
    BY DEF UploadInv
  <1>1. CASE Adopt \/ Stop \/ Lose \/ Crash
    <2>1. /\ UNCHANGED <<check, net, remote, imports>> /\ w' = "idle" /\ oper' \in {oper, "idle"}
          /\ UNCHANGED receipt \/ (w = "adopt" /\ receipt' = "done")
      BY <1>1 DEF Adopt, Stop, Lose, Crash
    <2> QED
      BY <1>0, <2>1 DEF UploadInv, OneOperation, Places, Results
  <1>2. CASE Inspect
    <2>1. /\ check # None /\ oper' = remote[check.id]
          /\ UNCHANGED <<receipt, check, remote, imports, net, w, seen>>
      BY <1>2 DEF Inspect
    <2> QED
      BY <1>0, <2>1 DEF UploadInv, OneOperation, Places, Results
  <1>3. CASE Verify
    <2>1. /\ check # None /\ check.id = 1 /\ oper' = "ready"
          /\ remote' = [remote EXCEPT ![1] = "ready"]
          /\ UNCHANGED <<receipt, check, imports, net, w, seen>>
      BY <1>0, <1>3 DEF Verify, Places, OneOperation
    <2>2. /\ remote'[1] = "ready" /\ DOMAIN remote' = Ops
          /\ \A i \in Ops : i # 1 => remote'[i] = remote[i]
      BY <1>0, <2>1 DEF OneOperation, Ops
    <2> QED
      BY <1>0, <2>1, <2>2 DEF UploadInv, OneOperation, Places, Results, Early
  <1>4. CASE Conclude
    <2>1. /\ check # None /\ check \in Checkpoint /\ check.id = 1 /\ oper' = "idle"
          /\ UNCHANGED <<receipt, remote, imports, net, w, seen>>
      BY <1>0, <1>4 DEF Conclude, Places, OneOperation
    <2>2. CASE UNCHANGED check
      BY <1>0, <2>1, <2>2 DEF UploadInv, OneOperation, Places, Results
    <2>3. CASE ~UNCHANGED check
      <3>1. oper = "ready" /\ Saves("result_ready", check.up)
        BY <1>4, <2>3 DEF Conclude, Confirmed
      <3>2. check' \in Checkpoint /\ check' # None /\ check'.id = 1 /\ check'.st = "result_ready"
        BY <2>1, <3>1, SavesKeep, Checks DEF States
      <3> QED
        BY <1>0, <2>1, <3>1, <3>2 DEF UploadInv, OneOperation, Places, Results
    <2> QED
      BY <2>2, <2>3
  <1> QED
    BY <1>1, <1>2, <1>3, <1>4

-----------------------------------------------------------------------------
(* Both together                                                            *)

\* All the delivery does to the root is to ask for room and to remove its copy.
LEMMA UploadWrites ==
  ASSUME DeliveryStep \/ Site \/ Operator \/ Lose
  PROVE  UNCHANGED rootVars \/ (\E n \in Nat : Writes(n) \/ Removes(n) \/ Faults)
  <1> USE Sizes DEF Root, rootVars
  <1>1. CASE Deliver \/ Publish
    <2>1. UNCHANGED rootVars \/ Writes(1)
      BY <1>1 DEF Deliver, Publish, Writes, Row
    <2> QED
      BY <2>1
  <1>2. CASE Stage \/ Copy
    <2>1. Writes(Asset)
      BY <1>2 DEF Stage, Copy, Writes
    <2> QED
      BY <2>1
  <1>3. CASE Receive \/ Follow
    <2>1. UNCHANGED rootVars \/ Removes(Asset)
      BY <1>3 DEF Receive, Follow, Discards, Removes
    <2> QED
      BY <2>1
  <1>4. CASE Send \/ Ask \/ Begin \/ Adopt \/ Stop \/ Operator
    BY <1>4 DEF Send, Ask, Begin, Announce, Adopt, Stop, Operator, Inspect, Verify, Conclude
  <1>5. CASE Lose \/ Site
    <2>1. UNCHANGED rootVars \/ Faults
      BY <1>5 DEF Lose, Site, Arrive, Import, Faults
    <2> QED
      BY <2>1
  <1> QED
    BY <1>1, <1>2, <1>3, <1>4, <1>5 DEF DeliveryStep

LEMMA RootStays == ASSUME RootInv, UNCHANGED rootVars PROVE RootInv'
  BY DEF rootVars, RootInv, Numbers, Covered, Conserved, NothingUnbooked, Physical, Promised,
         Papers, Held

LEMMA BothInit == Init => RootInv /\ UploadInv
  <1> SUFFICES ASSUME Init PROVE RootInv /\ UploadInv
    OBVIOUS
  <1>1. RootInv
    BY RootInit1 DEF Init
  <1>2. UploadInv
    BY DEF Init, MediaInit, UploadInv, OneOperation, Places, Results, Ops
  <1> QED
    BY <1>1, <1>2

LEMMA BothStep == RootInv /\ UploadInv /\ [Next]_vars => RootInv' /\ UploadInv'
  <1> SUFFICES ASSUME RootInv, UploadInv, [Next]_vars PROVE RootInv' /\ UploadInv'
    OBVIOUS
  <1>0. UNCHANGED mediaVars => UploadInv'
    BY DEF mediaVars, UploadInv, OneOperation, Places, Results
  <1>1. CASE RootStep
    BY <1>0, <1>1, UnitKeeps, OtherKeeps DEF RootStep
  <1>2. CASE DeliveryStep \/ Site \/ Operator \/ Lose
    <2>1. RootInv'
      BY <1>2, UploadWrites, WriteKeeps, RootStays
    <2>2. UploadInv'
      BY <1>2, FirstKeeps, TalkKeeps, EndKeeps, SiteKeeps DEF DeliveryStep, Operator
    <2> QED
      BY <2>1, <2>2
  <1>3. CASE Crash
    BY <1>3, OtherKeeps, EndKeeps DEF Crash
  <1>4. CASE UNCHANGED vars
    BY <1>0, <1>4, RootStays DEF vars
  <1> QED
    BY <1>1, <1>2, <1>3, <1>4 DEF Next

(* The inductive invariant of the root and of the upload.                   *)
THEOREM Invariance == Spec => [](RootInv /\ UploadInv)
  BY BothInit, BothStep, PTL DEF Spec

(* What is on disk and what is promised stay under the largest limit set,   *)
(* but for one asset for each interruption between its bytes and its debit. *)
THEOREM BytesConserved == Spec => []Conserved
  <1>1. RootInv => Conserved
    BY DEF RootInv
  <1> QED
    BY <1>1, Invariance, PTL

(* What may have been paid for has a booking until its result is saved.     *)
THEOREM AlwaysBooked == Spec => []NothingUnbooked
  <1>1. RootInv => NothingUnbooked
    BY DEF RootInv
  <1> QED
    BY <1>1, Invariance, PTL

(* However requests are repeated, late or lost, the site makes at most one  *)
(* attachment for one result.                                               *)
THEOREM OneAttachment == Spec => []ImportedOnce
  <1>1. UploadInv => ImportedOnce
    BY DEF UploadInv, OneOperation, ImportedOnce
  <1> QED
    BY <1>1, Invariance, PTL

(* A saved attachment is one the site has confirmed.                        *)
THEOREM AdoptedHolds == Spec => []AdoptedIsImported
  <1>1. UploadInv => AdoptedIsImported
    BY DEF UploadInv, OneOperation, Results, AdoptedIsImported
  <1> QED
    BY <1>1, Invariance, PTL
=============================================================================
