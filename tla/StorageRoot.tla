---------------------------- MODULE StorageRoot ----------------------------
(***************************************************************************)
(* The bytes of the data root and who has been promised them.  Everything  *)
(* the client keeps lies under one directory with one limit, and every     *)
(* writer asks for room under one advisory lock (storage_capacity.rs).     *)
(* Before a paid operation is sent, its worst case is booked in a file of  *)
(* the root; the result then spends that booking and needs no room of its  *)
(* own.  The database has a booking too, so that recovery can write to a   *)
(* full root.  SQLite grows its files through the same door                *)
(* (db/capacity_vfs.rs), paying a booking before the bytes appear; a       *)
(* downloaded asset pays after them (retained_assets.rs).                  *)
(*                                                                         *)
(* One paid media unit, the database, the log and another process of the   *)
(* same root.  Bytes are counted in units of one control document or one   *)
(* page of growth.                                                         *)
(***************************************************************************)
EXTENDS Integers

CONSTANTS Booked,     \* what a new paid unit books
          Asset,      \* the size of one downloaded result
          Base,       \* the recovery booking of the database
          Limits,     \* the limits an operator may set
          MaxFaults,  \* crashes, failed writes and long holds of the lock
          None

Row == 1     \* growth of the database, or a record, in one write
Paper == 1   \* a booking document
Burst == 4   \* a full buffer of log lines

ASSUME SizesAreNaturals ==
    /\ Booked \in Nat /\ Asset \in Nat /\ Base \in Nat /\ MaxFaults \in Nat
    /\ Limits \subseteq Nat /\ Limits # {}
    /\ None \notin Int \cup {"asset", "other"}

VARIABLES limit,   \* the policy of the root
          peak,    \* history: the largest limit so far
          data,    \* bytes of the database, its siblings and all kept files
          log,     \* bytes of the log
          book,    \* what is left of the unit's booking, or None
          base,    \* what is left of the database's recovery booking
          lease,   \* who holds the lock of the root across steps
          op,      \* the ledger's state of the unit
          at,      \* how far the process is with the unit
          torn,    \* history: assets on disk whose bytes are still booked
          faults

rootVars == <<limit, peak, data, log, book, base, lease, op, at, torn, faults>>

Held(b) == IF b = None THEN 0 ELSE b
Papers == Paper + (IF book = None THEN 0 ELSE Paper)

\* inventory_at: all files of the root, and the sum of all bookings.
Physical == data + log + Papers
Promised == Held(book) + Held(base)
FitsAlone(n) == Physical + n <= limit   \* a slip: promises are not counted
Fits(n) == Physical + Promised + n <= limit

\* A lease is taken and dropped within one step unless a step says otherwise.
Free == lease = None
CanWrite(n) == Free /\ Fits(n)

Fault == faults < MaxFaults /\ faults' = faults + 1

RootInit ==
    /\ limit \in Limits /\ peak = limit
    /\ data = 0 /\ log = 0
    /\ book = None /\ base = Base
    /\ limit >= Base + Paper
    /\ lease = None /\ op = "none" /\ at = "idle"
    /\ torn = 0 /\ faults = 0

---------------------------------------------------------------------------
(* A new unit: the booking file first, the SQLite commit after it.         *)

Reserve ==
    /\ op = "none" /\ at = "idle"
    /\ book = None               \* an original booking is never taken over
    /\ CanWrite(Booked + Paper)
    /\ book' = Booked /\ at' = "booked"
    /\ UNCHANGED <<limit, peak, data, log, base, lease, op, torn, faults>>

\* The record of the operation, by growth the unit's booking does not pay.
Commit ==
    /\ at = "booked" /\ CanWrite(Row)
    /\ data' = data + Row
    /\ op' = "submit_unknown" /\ at' = "sent"
    /\ UNCHANGED <<limit, peak, log, book, base, lease, torn, faults>>

\* The transaction rolls back; the booking stays where it is.
Abandon ==
    /\ at = "booked" /\ ~CanWrite(Row)
    /\ at' = "idle"
    /\ UNCHANGED <<limit, peak, data, log, book, base, lease, op, torn, faults>>

---------------------------------------------------------------------------
(* Growth of the database on a booking: debited before the bytes appear,   *)
(* and what is left must still hold its own document.                      *)

Affords(b) == Free /\ b # None /\ b >= Row + Paper
Grows == data' \in {data, data + Row}

SaveJob ==
    /\ at = "sent" /\ op = "submit_unknown" /\ Affords(book)
    /\ book' = book - Row /\ Grows
    /\ op' = "polling" /\ at' = "idle"
    /\ UNCHANGED <<limit, peak, log, base, lease, torn, faults>>

SaveResult ==
    /\ at = "stored" /\ op = "polling" /\ Affords(book)
    /\ book' = book - Row /\ Grows
    /\ op' = "result_ready" /\ at' = "saved"
    /\ UNCHANGED <<limit, peak, log, base, lease, torn, faults>>

\* The commit is refused: the lock is busy for two seconds, or too little
\* of the booking is left.  A downloaded file stays behind.
SaveFails ==
    /\ at \in {"sent", "stored"} /\ ~Affords(book)
    /\ at' = "idle"
    /\ UNCHANGED <<limit, peak, data, log, book, base, lease, op, torn, faults>>

GrowBase ==
    /\ Affords(base)
    /\ base' = base - Row /\ Grows
    /\ UNCHANGED <<limit, peak, log, book, lease, op, at, torn, faults>>

\* Opening the database fills its booking up again, if there is room.
Replenish ==
    /\ base < Base /\ CanWrite(Base - base + Paper)
    /\ base' = Base
    /\ UNCHANGED <<limit, peak, data, log, book, lease, op, at, torn, faults>>

---------------------------------------------------------------------------
(* The asset: written under the lock, on the booking, debited at the end.  *)

CreditHasRoom(n) == book # None /\ book >= n /\ Fits(0)   \* a slip
CreditHolds(n) == book # None /\ book >= n

OpenAsset ==
    /\ op = "polling" /\ at = "idle" /\ Free
    /\ CreditHolds(Asset)
    /\ lease' = "asset" /\ at' = "writing"
    /\ UNCHANGED <<limit, peak, data, log, book, base, op, torn, faults>>

WriteAsset ==
    /\ at = "writing"
    /\ data' = data + Asset /\ torn' = torn + 1
    /\ at' = "written"
    /\ UNCHANGED <<limit, peak, log, book, base, lease, op, faults>>

FinishAsset ==
    /\ at = "written"
    /\ book' = book - Asset /\ torn' = torn - 1
    /\ lease' = None /\ at' = "stored"
    /\ UNCHANGED <<limit, peak, data, log, base, op, faults>>

\* A failed write or a failed debit; what was written stays.
FailAsset ==
    /\ at \in {"writing", "written"} /\ Fault
    /\ lease' = None /\ at' = "idle"
    /\ UNCHANGED <<limit, peak, data, log, book, base, op, torn>>

Release ==
    /\ op = "result_ready" /\ at \in {"saved", "idle"} /\ book # None /\ Free
    /\ book' = None /\ at' = "idle"
    /\ UNCHANGED <<limit, peak, data, log, base, lease, op, torn, faults>>

RetainBooking ==
    /\ at = "saved" /\ ~Free
    /\ at' = "idle"
    /\ UNCHANGED <<limit, peak, data, log, book, base, lease, op, torn, faults>>

---------------------------------------------------------------------------
(* Everybody else.                                                         *)

LogWrite ==
    /\ CanWrite(Burst)
    /\ log' = log + Burst
    /\ UNCHANGED <<limit, peak, data, book, base, lease, op, at, torn, faults>>

\* The operator clears the log, without asking for the lock.
ClearLog ==
    /\ log > 0 /\ log' = 0
    /\ UNCHANGED <<limit, peak, data, book, base, lease, op, at, torn, faults>>

SavePolicy(l) ==
    /\ Free /\ l # limit
    /\ limit' = l
    /\ peak' = IF l > peak THEN l ELSE peak
    /\ UNCHANGED <<data, log, book, base, lease, op, at, torn, faults>>

\* Another process keeps the lock for longer than a writer waits.
Hold ==
    /\ Free /\ Fault
    /\ lease' = "other"
    /\ UNCHANGED <<limit, peak, data, log, book, base, op, at, torn>>

Drop ==
    /\ lease = "other" /\ lease' = None
    /\ UNCHANGED <<limit, peak, data, log, book, base, op, at, torn, faults>>

\* The process dies; the system frees its lock.
RootCrash ==
    /\ Fault
    /\ lease' = IF lease = "asset" THEN None ELSE lease
    /\ at' = "idle"
    /\ UNCHANGED <<limit, peak, data, log, book, base, op, torn>>

---------------------------------------------------------------------------
UnitStep == \/ Reserve \/ Commit \/ Abandon \/ SaveJob \/ SaveResult \/ SaveFails
            \/ OpenAsset \/ WriteAsset \/ FinishAsset \/ FailAsset
            \/ Release \/ RetainBooking

OtherStep == \/ GrowBase \/ Replenish \/ LogWrite \/ ClearLog
             \/ \E l \in Limits : SavePolicy(l)
             \/ Hold \/ Drop

---------------------------------------------------------------------------
(* Properties *)

(***************************************************************************)
(* What is on disk and what has been promised stay together under the      *)
(* largest limit there has been, except for one asset for each time a      *)
(* process died or failed between an asset's bytes and their debit: a new  *)
(* admission counts every promise, a booking is spent for the bytes it     *)
(* pays, and none is spent twice (check_room, prepay_database_growth,      *)
(* finish).                                                                *)
(***************************************************************************)
Conserved ==
    /\ Physical + Promised <= peak + Asset * torn
    /\ torn <= faults + (IF at = "written" THEN 1 ELSE 0)

(***************************************************************************)
(* An operation that may have been paid for and whose result is not saved  *)
(* has a booking: no failure, restart or replay gives it up                *)
(* (storage_capacity.rs: neither age nor an absent row proves that an      *)
(* external effect never happened).                                        *)
(***************************************************************************)
NothingUnbooked ==
    op \in {"submit_unknown", "polling"} \/ at \in {"booked", "sent"} => book # None

(***************************************************************************)
(* A job that is being polled gets its result saved, though the log and    *)
(* the database compete for the root, its limit is lowered under what it   *)
(* holds, another process keeps the lock, and downloads have to be done    *)
(* again, as long as the booking covers the repetitions.                   *)
(***************************************************************************)
PaidResultIsSaved == (op = "polling") ~> (op = "result_ready")
============================================================================
