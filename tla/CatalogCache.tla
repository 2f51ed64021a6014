------------------------------ MODULE CatalogCache ------------------------------
(***************************************************************************)
(* The provider catalog kept on disk: the installed version, the last      *)
(* version that was known good, and what the last check said.  Installing  *)
(* a version changes all three files.  A journal that carries the three    *)
(* new contents is written first; whoever holds the lease next carries out *)
(* what an interrupted request left.  The lease is not waited for: a       *)
(* request that finds it taken fails and changes nothing.                  *)
(***************************************************************************)
EXTENDS Integers

CONSTANTS
  Handlers,  \* requests that can be under way at one time
  Versions,  \* catalog versions the source offers
  Flaw,      \* what is wrong with each, if anything
  None,
  MaxAsked,  \* requests
  MaxFaults  \* refused writes, lost answers, crashes, damage to a file

Flaws == {"signature", "template", "secret", "address"}
ASSUME FlawAssumption == Flaw \in [Versions -> Flaws \cup {None}]
ASSUME CacheSizes == {MaxAsked, MaxFaults} \subseteq Nat

Seed == "seed"     \* the catalog built into the program
Damaged == "bad"   \* a file that does not validate

ASSUME NamesAssumption == None \notin Versions \cup {Seed, Damaged} /\ {Seed, Damaged} \cap Versions = {}

VARIABLES
  file,     \* current, fallback and checked: what the three files hold
  journal,  \* a publication that has begun
  lease,    \* the request that holds it
  settled,  \* what the files hold once the last publication begun is over
  req,      \* the requests under way
  asked, faults

cacheVars == <<file, journal, lease, settled>>
budget == <<asked, faults>>

Files == <<"fallback", "current", "checked">>  \* the order they are replaced in
Content == Versions \cup {None, Seed, Damaged}
Idle == [at |-> "idle", job |-> None, got |-> None]

CacheInit ==
  /\ file = [f \in {"current", "fallback", "checked"} |-> None]
  /\ settled = file /\ journal = None /\ lease = None
  /\ req = [h \in Handlers |-> Idle]
  /\ asked = 0 /\ faults = 0

Fault == faults < MaxFaults /\ faults' = faults + 1
Ask == asked < MaxAsked /\ asked' = asked + 1
To(h, at) == req' = [req EXCEPT ![h].at = at]
Ends(h) == req' = [req EXCEPT ![h] = Idle]
Release(h) == lease' = None
Holds(h, at) == lease = h /\ req[h].at = at

-----------------------------------------------------------------------------
(* Requests *)

\* The page lists the catalog; a check asks the source as well; an
\* installation names a version; taking a template reads the catalog.
Jobs == [list |-> "load", take |-> "load", check |-> "download", install |-> "download"]

AskCatalog(h) ==
  /\ req[h] = Idle /\ Ask
  /\ \E j \in DOMAIN Jobs : req' = [req EXCEPT ![h] = [@ EXCEPT !.at = Jobs[j], !.job = j]]
  /\ UNCHANGED <<cacheVars, faults>>

\* The signature covers the entries and, online, the metadata; every template
\* has to be complete, and may carry no credentials.
Signed(v) == Flaw[v] # "signature"
Sound(v) == Flaw[v] # "template"
Secretless(v) == Flaw[v] # "secret"
Valid(v) == Signed(v) /\ Sound(v) /\ Secretless(v)

\* Where a template may send requests is asked when it is taken.
Addressed(v) == IF v = Seed THEN TRUE ELSE Flaw[v] # "address"

\* The version asked for.  Anything else, or no answer, ends the request.
Download(h) ==
  /\ req[h].at = "download" /\ req[h].job = "install"
  /\ \/ \E v \in {w \in Versions : Valid(w)} :
          req' = [req EXCEPT ![h].at = "install", ![h].got = v]
     \/ Ends(h)
  /\ UNCHANGED <<cacheVars, budget>>

\* A check goes on to read what is installed, whatever the source answered.
Checked(h) ==
  /\ req[h].at = "download" /\ req[h].job = "check"
  /\ To(h, "load")
  /\ UNCHANGED <<cacheVars, budget>>

Acquire(h) ==
  /\ req[h].at \in {"load", "note", "install"} /\ lease = None
  /\ lease' = h
  /\ UNCHANGED <<file, journal, settled, req, budget>>

\* A check whose catalog was refused notes that even if nothing can be read.
GivesUp(h) ==
  \/ Ends(h)
  \/ req[h].at = "load" /\ req[h].job = "check" /\ To(h, "note")

Busy(h) ==
  /\ req[h].at \in {"load", "note", "install"} /\ lease \notin {None, h}
  /\ GivesUp(h)
  /\ UNCHANGED <<cacheVars, budget>>

-----------------------------------------------------------------------------
(* Under the lease *)

Target(f) == journal # None /\ journal.next[f] # None
Pending == {f \in DOMAIN file : Target(f) /\ file[f] # journal.next[f]}
\* Every target still holds what the journal saw, or already the new content.
Untouched == \A f \in Pending : file[f] = journal.prior[f]

First(S) == CHOOSE f \in S : \A g \in S :
              (CHOOSE i \in 1..3 : Files[i] = f) <= (CHOOSE i \in 1..3 : Files[i] = g)

Replace(h) ==
  /\ lease = h /\ Pending # {} /\ Untouched
  /\ LET f == First(Pending) IN file' = [file EXCEPT ![f] = journal.next[f]]
  /\ UNCHANGED <<journal, lease, settled, req, budget>>

Complete(h) ==
  /\ lease = h /\ journal # None /\ Pending = {}
  /\ journal' = None
  /\ UNCHANGED <<file, lease, settled, req, budget>>

\* Another writer touched a target: the journal stays and nothing is done.
Foreign(h) ==
  /\ lease = h /\ Pending # {} /\ ~Untouched
  /\ Release(h) /\ GivesUp(h)
  /\ UNCHANGED <<file, journal, settled, budget>>

\* No room, or a write that fails; a journal already written stays.
Refused(h) ==
  /\ lease = h /\ Fault
  /\ Release(h) /\ GivesUp(h)
  /\ UNCHANGED <<file, journal, settled, asked>>

Cleared(h, at) == Holds(h, at) /\ journal = None

Readable ==
  IF file.current \notin {None, Damaged} THEN file.current
  ELSE IF file.fallback \notin {None, Damaged} THEN file.fallback
  ELSE Seed

Load(h) ==
  /\ Cleared(h, "load")
  /\ Release(h)
  /\ CASE req[h].job = "list" -> Ends(h)
       [] req[h].job = "check" -> req' = [req EXCEPT ![h].at = "note", ![h].got = Readable]
       [] req[h].job = "take" -> req' = [req EXCEPT ![h].at = "edit", ![h].got = Readable]
  /\ UNCHANGED <<file, journal, settled, budget>>

\* What the check found, under a lease of its own.
Note(h) ==
  /\ Cleared(h, "note")
  /\ file' = [file EXCEPT !.checked = req[h].got]
  /\ settled' = [settled EXCEPT !.checked = req[h].got]
  /\ Release(h) /\ Ends(h)
  /\ UNCHANGED <<journal, budget>>

\* slip: the version that was current becomes the fallback unread
KeptUnread == IF file.current # None THEN file.current ELSE None

\* The version that was current becomes the fallback if it still validates.
Kept == IF file.current \notin {None, Damaged} THEN file.current ELSE None

Publish(h) ==
  /\ Cleared(h, "install")
  /\ LET next == [fallback |-> Kept, current |-> req[h].got, checked |-> req[h].got] IN
       /\ journal' = [prior |-> file, next |-> next]
       /\ settled' = [f \in DOMAIN file |-> IF next[f] = None THEN file[f] ELSE next[f]]
  /\ To(h, "publish")
  /\ UNCHANGED <<file, lease, budget>>

\* Relations set aside for want of a component are tried again.
Installed(h) ==
  /\ Cleared(h, "publish")
  /\ Release(h) /\ Ends(h)
  /\ UNCHANGED <<file, journal, settled, budget>>

-----------------------------------------------------------------------------
(* Faults *)

Damage ==
  /\ Fault /\ file.current \notin {None, Damaged}
  /\ file' = [file EXCEPT !.current = Damaged]
  /\ UNCHANGED <<journal, lease, settled, req, asked>>

CacheStep(h) ==
  \/ AskCatalog(h) \/ Download(h) \/ Checked(h) \/ Acquire(h) \/ Busy(h)
  \/ Replace(h) \/ Complete(h) \/ Foreign(h) \/ Refused(h)
  \/ Load(h) \/ Note(h) \/ Publish(h) \/ Installed(h)

-----------------------------------------------------------------------------
(* Properties *)

\* The fallback is only ever replaced by a version that validated: damage to
\* the installed catalog does not reach it.
FallbackStaysGood == file.fallback # Damaged
=============================================================================
