------------------------ MODULE ComponentRegistry_proofs ------------------------
(***************************************************************************)
(* Proofs about the catalog kept on disk (CatalogCache) and the components *)
(* of the installation (ComponentRegistry), for every set of requests,     *)
(* rounds, components and catalog versions.  CacheInv says that a fallback *)
(* about to be put in place is good as well.  RegistryInv says of every    *)
(* copy of the document, stored, in a request or in a round, that what it  *)
(* switches on of the catalog has been switched on by the operator.        *)
(***************************************************************************)
EXTENDS ComponentRegistry, TLAPS

-----------------------------------------------------------------------------
(* The three files *)

Names == {"current", "fallback", "checked"}

Shaped(q) == DOMAIN q = {"at", "job", "got"}

\* A request that reads the catalog does so for one of three reasons.
Wellformed(q) ==
  /\ Shaped(q) /\ q.got \in Content
  /\ q.at = "load" => q.job \in {"list", "check", "take"}

\* The contents of the three files; a fallback has validated.
Good(f) == f.current \in Content /\ f.checked \in Content /\ f.fallback \in Content \ {Damaged}

Requests == DOMAIN req = Handlers /\ \A h \in Handlers : Wellformed(req[h])

CacheInv ==
  /\ DOMAIN file = Names /\ Good(file)
  /\ journal # None => Good(journal.next)
  /\ Requests

\* One request goes on.
Requested(h) ==
  /\ DOMAIN req' = Handlers /\ Wellformed(req'[h])
  /\ \A g \in Handlers \ {h} : req'[g] = req[g]

LEMMA Reshaped ==
  ASSUME NEW q, Wellformed(q), NEW at, NEW got \in Content,
         at = "load" => q.job \in {"list", "check", "take"}
  PROVE  /\ Wellformed([q EXCEPT !.at = at])
         /\ Wellformed([q EXCEPT !.at = at, !.got = got])
  BY DEF Wellformed, Shaped

LEMMA RequestKeeps ==
  ASSUME Requests, NEW h \in Handlers, Requested(h)
  PROVE  Requests'
  BY DEF Requests, Requested

LEMMA RequestMoves ==
  ASSUME Requests, NEW h \in Handlers, NEW at, NEW got \in Content, at # "load",
         req' = [req EXCEPT ![h].at = at, ![h].got = got]
  PROVE  Requested(h)
  <1>1. req' = [req EXCEPT ![h] = [req[h] EXCEPT !.at = at, !.got = got]]
    BY DEF Requests
  <1>2. Wellformed([req[h] EXCEPT !.at = at, !.got = got])
    BY Reshaped DEF Requests
  <1> HIDE DEF Wellformed
  <1> QED
    BY <1>1, <1>2, Zenon DEF Requests, Requested

LEMMA RequestGoes ==
  ASSUME Requests, NEW h \in Handlers
  PROVE  /\ Ends(h) => Requested(h) /\ req'[h] = Idle
         /\ UNCHANGED req => Requested(h)
         /\ \A at : at # "load" /\ To(h, at)
              => Requested(h) /\ req'[h].at = at /\ req'[h].job = req[h].job /\ req'[h].got = req[h].got
  <1>1. Wellformed(Idle)
    BY DEF Idle, Wellformed, Shaped, Content
  <1>2. ASSUME NEW at, at # "load", To(h, at)
        PROVE  Requested(h) /\ req'[h].at = at /\ req'[h].job = req[h].job /\ req'[h].got = req[h].got
    <2>1. Wellformed(req[h]) /\ DOMAIN req = Handlers
      BY DEF Requests
    <2>2. req' = [req EXCEPT ![h] = [req[h] EXCEPT !.at = at]]
      BY <1>2 DEF To
    <2>3. Wellformed([req[h] EXCEPT !.at = at])
      BY <1>2, <2>1 DEF Wellformed, Shaped
    <2>4. Requested(h)
      BY <2>1, <2>2, <2>3 DEF Requested
    <2>5. req'[h] = [req[h] EXCEPT !.at = at]
      BY <2>1, <2>2
    <2> QED
      BY <2>1, <2>4, <2>5 DEF Wellformed, Shaped
  <1> QED
    BY <1>1, <1>2 DEF Requests, Requested, Ends

\* Where a request of the catalog is after a step; one that takes a template
\* goes on to edit.
Whereto(h) ==
  \/ req'[h] = req[h]
  \/ req'[h].at \in {"idle", "load", "download", "note", "install", "publish"}
  \/ req'[h].at = "edit" /\ req'[h].job = "take"

LEMMA CatalogMoves ==
  ASSUME CacheInv, NEW h \in Handlers, CacheStep(h)
  PROVE  Requested(h) /\ Whereto(h)
  <1>0. Requests /\ Wellformed(req[h]) /\ DOMAIN req = Handlers
    BY DEF CacheInv, Requests
  <1>1. /\ Ends(h) => Requested(h) /\ Whereto(h)
        /\ UNCHANGED req => Requested(h) /\ Whereto(h)
        /\ \A at \in {"note", "publish"} : To(h, at) => Requested(h) /\ Whereto(h)
    BY <1>0, RequestGoes DEF Whereto, Idle
  <1>2. GivesUp(h) => Requested(h) /\ Whereto(h)
    BY <1>1 DEF GivesUp
  <1>3. CASE AskCatalog(h)
    <2>1. PICK j \in DOMAIN Jobs : req' = [req EXCEPT ![h] = [@ EXCEPT !.at = Jobs[j], !.job = j]]
      BY <1>3 DEF AskCatalog
    <2>2. /\ Jobs[j] = "load" => j \in {"list", "check", "take"}
          /\ Jobs[j] \in {"load", "download"}
      BY DEF Jobs
    <2>3. Wellformed([req[h] EXCEPT !.at = Jobs[j], !.job = j])
      BY <1>0, <2>2 DEF Wellformed, Shaped
    <2>4. req'[h] = [req[h] EXCEPT !.at = Jobs[j], !.job = j]
      BY <1>0, <2>1
    <2>5. req'[h].at = Jobs[j]
      BY <1>0, <2>4 DEF Wellformed, Shaped
    <2>6. Requested(h)
      BY <1>0, <2>1, <2>3, <2>4 DEF Requested
    <2> QED
      BY <2>2, <2>5, <2>6 DEF Whereto
  <1>4. ASSUME NEW at \in {"install", "note", "edit"}, NEW got \in Content,
               req' = [req EXCEPT ![h].at = at, ![h].got = got], at = "edit" => req[h].job = "take"
        PROVE  Requested(h) /\ Whereto(h)
    <2>1. Requested(h)
      BY <1>0, <1>4, RequestMoves
    <2>2. req'[h].at = at /\ req'[h].job = req[h].job
      BY <1>0, <1>4 DEF Wellformed, Shaped
    <2> QED
      BY <1>4, <2>1, <2>2 DEF Whereto
  <1>5. CASE Download(h)
    BY <1>1, <1>4, <1>5 DEF Download, Content
  <1>6. CASE Checked(h)
    <2>1. req' = [req EXCEPT ![h] = [req[h] EXCEPT !.at = "load"]] /\ req[h].job = "check"
      BY <1>6 DEF Checked, To
    <2>2. Wellformed([req[h] EXCEPT !.at = "load"])
      BY <1>0, <2>1 DEF Wellformed, Shaped
    <2>3. req'[h] = [req[h] EXCEPT !.at = "load"] /\ Requested(h)
      BY <1>0, <2>1, <2>2 DEF Requested
    <2>4. req'[h].at = "load"
      BY <1>0, <2>3 DEF Wellformed, Shaped
    <2> QED
      BY <2>3, <2>4 DEF Whereto
  <1>7. CASE Load(h)
    <2>1. Readable \in Content
      BY DEF CacheInv, Readable, Good, Content
    <2>2. \/ Ends(h)
          \/ req' = [req EXCEPT ![h].at = "note", ![h].got = Readable]
          \/ req' = [req EXCEPT ![h].at = "edit", ![h].got = Readable] /\ req[h].job = "take"
      BY <1>0, <1>7 DEF Load, Cleared, Holds, Wellformed
    <2> QED
      BY <1>1, <1>4, <2>1, <2>2
  <1>8. CASE Publish(h)
    BY <1>1, <1>8 DEF Publish
  <1>9. CASE Note(h) \/ Installed(h)
    BY <1>1, <1>9 DEF Note, Installed
  <1>10. CASE Acquire(h) \/ Busy(h) \/ Foreign(h) \/ Refused(h) \/ Replace(h) \/ Complete(h)
    BY <1>1, <1>2, <1>10 DEF Acquire, Busy, Foreign, Refused, Replace, Complete
  <1> QED
    BY <1>3, <1>5, <1>6, <1>7, <1>8, <1>9, <1>10 DEF CacheStep

LEMMA CacheStepKeeps ==
  ASSUME CacheInv, NEW h \in Handlers, CacheStep(h)
  PROVE  CacheInv'
  <1>0. Requests' /\ Wellformed(req[h])
    BY CatalogMoves, RequestKeeps DEF CacheInv, Requests
  <1>1. CASE UNCHANGED <<file, journal>>
    BY <1>0, <1>1 DEF CacheInv
  <1>2. CASE Replace(h)
    <2> DEFINE f == First(Pending)
    <2>1. journal # None /\ file' = [file EXCEPT ![f] = journal.next[f]] /\ UNCHANGED journal
      BY <1>2 DEF Replace, Pending, Target
    <2> HIDE DEF f
    <2>2. DOMAIN file' = Names /\ Good(file')
      BY <2>1 DEF CacheInv, Names, Good
    <2> QED
      BY <1>0, <2>1, <2>2 DEF CacheInv
  <1>3. CASE Complete(h)
    BY <1>0, <1>3 DEF Complete, CacheInv
  <1>4. CASE Note(h)
    <2>1. file' = [file EXCEPT !.checked = req[h].got] /\ UNCHANGED journal
      BY <1>4 DEF Note
    <2>2. DOMAIN file' = Names /\ Good(file')
      BY <1>0, <2>1 DEF CacheInv, Names, Good, Wellformed
    <2> QED
      BY <1>0, <2>1, <2>2 DEF CacheInv
  <1>5. CASE Publish(h)
    <2> DEFINE next == [fallback |-> Kept, current |-> req[h].got, checked |-> req[h].got]
    <2>1. journal' = [prior |-> file, next |-> next] /\ UNCHANGED file
      BY <1>5 DEF Publish
    <2>2. Kept \in Content \ {Damaged}
      BY NamesAssumption DEF CacheInv, Good, Kept, Content
    <2>3. Good(next)
      BY <1>0, <2>2 DEF Good, Wellformed
    <2> HIDE DEF next
    <2>4. journal'.next = next
      BY <2>1
    <2> QED
      BY <1>0, <2>1, <2>3, <2>4 DEF CacheInv
  <1>6. CASE \/ AskCatalog(h) \/ Download(h) \/ Checked(h) \/ Acquire(h) \/ Busy(h) \/ Foreign(h)
             \/ Refused(h) \/ Load(h) \/ Installed(h)
    BY <1>1, <1>6
       DEF AskCatalog, Download, Checked, Acquire, Busy, Foreign, Refused, Load, Installed, cacheVars
  <1> QED
    BY <1>2, <1>3, <1>4, <1>5, <1>6 DEF CacheStep

-----------------------------------------------------------------------------
(* The document and its copies *)

Document == [Components -> Entry \cup {None}]

\* What may be put in the place of component c.
Vetted(A, c, e) ==
  /\ e \in Entry \cup {None}
  /\ e # None /\ e.on /\ e.tpl \in FromCatalog => <<c, e.tpl>> \in A

VettedDoc(A, d) == d \in Document /\ \A c \in Components : Vetted(A, c, d[c])

\* The requests that change one entry, and the steps at which a request has
\* a copy of the document.
EntryJobs == {"create", "take", "import", "adopt", "pack", "delete", "sync", "on", "off", "own",
              "snapshot", "ensure", "addKeys", "rekey", "dropKeys"}
Copying == {"fetch", "save", "bindDisk", "bindDoc", "bindMem", "packAuth", "packTask", "packRule",
            "packAll", "packMem"}
HasCopy(q) == q.at \in Copying \/ (q.at = "consult" /\ q.job = "off")

\* The request changes the entry that is there.
Edits(q) ==
  \/ q.at = "fetch"
  \/ q.at \in {"consult", "save"} /\ q.job \notin Replaces \cup {"create"}

InHand(A, q, x) ==
  /\ DOMAIN x = {"comp", "doc", "auth", "use"} /\ x.comp \in Components \cup {None}
  /\ q.at \in {"edit", "consult", "fetch", "save"} => q.job \in EntryJobs
  /\ q.at = "consult" => q.job \in {"off", "delete"}
  /\ q.at \in {"consult", "bind"} => x.comp \in Components
  /\ HasCopy(q) => x.comp \in Components /\ VettedDoc(A, x.doc)
  /\ HasCopy(q) /\ Edits(q) => x.doc[x.comp] \in Entry

InRound(A, R) ==
  /\ DOMAIN R = {"at", "ids", "doc", "auth", "items", "serves"}
  /\ R.at \in {"hear", "load"} => VettedDoc(A, R.doc)
  /\ R.at \in {"share", "serve"} =>
       \A c \in DOMAIN R.serves : R.serves[c] \in FromCatalog => <<c, R.serves[c]>> \in A

RegistryInv ==
  /\ CacheInv /\ VettedDoc(approved, doc)
  /\ DOMAIN edit = Handlers /\ \A h \in Handlers : InHand(approved, req[h], edit[h])
  /\ DOMAIN run = Runs /\ \A r \in Runs : InRound(approved, run[r])

LEMMA VettedStays ==
  ASSUME NEW A, NEW B, A \subseteq B, NEW d, VettedDoc(A, d)
  PROVE  VettedDoc(B, d)
  BY DEF VettedDoc, Vetted

LEMMA VettedEntry ==
  ASSUME NEW A, NEW d, VettedDoc(A, d), NEW c \in Components, NEW e, Vetted(A, c, e)
  PROVE  VettedDoc(A, [d EXCEPT ![c] = e])
  BY DEF VettedDoc, Vetted, Document

\* A step of one request.
LEMMA HandStep ==
  ASSUME RegistryInv, NEW h \in Handlers, Requested(h), UNCHANGED <<file, journal, run>>,
         DOMAIN edit' = Handlers, \A g \in Handlers \ {h} : edit'[g] = edit[g],
         approved \subseteq approved', VettedDoc(approved', doc'),
         InHand(approved', req'[h], edit'[h])
  PROVE  RegistryInv'
  <1>1. CacheInv'
    BY RequestKeeps DEF RegistryInv, CacheInv
  <1>2. ASSUME NEW g \in Handlers PROVE InHand(approved', req'[g], edit'[g])
    <2>1. CASE g = h
      BY <2>1
    <2>2. CASE g # h
      <3>1. InHand(approved, req[g], edit[g]) /\ req'[g] = req[g] /\ edit'[g] = edit[g]
        BY <2>2 DEF RegistryInv, Requested
      <3> QED
        BY <3>1, VettedStays DEF InHand
    <2> QED
      BY <2>1, <2>2
  <1>3. ASSUME NEW r \in Runs PROVE InRound(approved', run'[r])
    BY VettedStays DEF InRound, RegistryInv
  <1> QED
    BY <1>1, <1>2, <1>3 DEF RegistryInv

\* A step of one round.
LEMMA RoundStep ==
  ASSUME RegistryInv, NEW r \in Runs, UNCHANGED <<file, journal, req, edit, approved>>,
         VettedDoc(approved, doc'), DOMAIN run' = Runs,
         \A s \in Runs \ {r} : run'[s] = run[s], InRound(approved, run'[r])
  PROVE  RegistryInv'
  <1>1. CacheInv'
    BY DEF RegistryInv, CacheInv, Requests
  <1> QED
    BY <1>1 DEF RegistryInv

LEMMA DoneStep ==
  ASSUME RegistryInv, NEW h \in Handlers, Done(h), UNCHANGED <<file, journal, run>>,
         approved \subseteq approved', VettedDoc(approved', doc')
  PROVE  RegistryInv'
  <1>1. Requested(h) /\ req'[h] = Idle
    BY RequestGoes DEF RegistryInv, CacheInv, Done
  <1>2. DOMAIN edit' = Handlers /\ edit'[h] = NoEdit /\ \A g \in Handlers \ {h} : edit'[g] = edit[g]
    BY DEF Done, RegistryInv
  <1>3. InHand(approved', Idle, NoEdit)
    BY DEF InHand, Idle, NoEdit, HasCopy, Edits, Copying
  <1> QED
    BY <1>1, <1>2, <1>3, HandStep

LEMMA ToStep ==
  ASSUME RegistryInv, NEW h \in Handlers, NEW at, at # "load", To(h, at),
         UNCHANGED <<file, journal, run>>, approved \subseteq approved', VettedDoc(approved', doc'),
         NEW x, edit' = [edit EXCEPT ![h] = x],
         InHand(approved', [at |-> at, job |-> req[h].job], x)
  PROVE  RegistryInv'
  <1>1. Requested(h) /\ req'[h].at = at /\ req'[h].job = req[h].job
    BY RequestGoes DEF RegistryInv, CacheInv
  <1>2. DOMAIN edit' = Handlers /\ edit'[h] = x /\ \A g \in Handlers \ {h} : edit'[g] = edit[g]
    BY DEF RegistryInv
  <1>3. InHand(approved', req'[h], x)
    BY <1>1 DEF InHand, HasCopy, Edits
  <1> QED
    BY <1>1, <1>2, <1>3, HandStep

\* Nothing of the request's copies changes.
LEMMA StayStep ==
  ASSUME RegistryInv, NEW h \in Handlers, NEW at, at # "load", To(h, at), UNCHANGED edit,
         UNCHANGED <<file, journal, run>>, approved \subseteq approved', VettedDoc(approved', doc'),
         InHand(approved', [at |-> at, job |-> req[h].job], edit[h])
  PROVE  RegistryInv'
  <1>1. Requested(h) /\ req'[h].at = at /\ req'[h].job = req[h].job
    BY RequestGoes DEF RegistryInv, CacheInv
  <1>2. InHand(approved', req'[h], edit'[h])
    BY <1>1 DEF InHand, HasCopy, Edits
  <1> QED
    BY <1>1, <1>2, HandStep DEF RegistryInv

LEMMA CatalogStep ==
  ASSUME RegistryInv, NEW h \in Handlers, Catalog(h)
  PROVE  RegistryInv'
  <1>1. CacheInv' /\ Requested(h) /\ Whereto(h)
    BY CatalogMoves, CacheStepKeeps DEF RegistryInv, Catalog
  <1>2. UNCHANGED <<doc, edit, run, approved>>
    BY DEF Catalog, registryVars, setup
  <1>3. InHand(approved, req'[h], edit[h])
    BY <1>1 DEF RegistryInv, Whereto, InHand, HasCopy, Edits, Copying, EntryJobs
  <1>4. \A g \in Handlers : InHand(approved, req'[g], edit[g])
    BY <1>1, <1>3 DEF RegistryInv, Requested
  <1> QED
    BY <1>1, <1>2, <1>4 DEF RegistryInv

LEMMA AskEditStep ==
  ASSUME RegistryInv, NEW h \in Handlers, AskEdit(h)
  PROVE  RegistryInv'
  <1>1. PICK j \in DOMAIN EditJobs, c \in Components :
          /\ req' = [req EXCEPT ![h] = [at |-> EditJobs[j], job |-> j, got |-> None]]
          /\ edit' = [edit EXCEPT ![h].comp = c]
    BY DEF AskEdit
  <1> DEFINE q == [at |-> EditJobs[j], job |-> j, got |-> None]
             x == [edit[h] EXCEPT !.comp = c]
  <1>2. /\ EditJobs[j] \in {"edit", "consult", "bind", "assign", "copy"}
        /\ EditJobs[j] = "edit" => j \in EntryJobs
        /\ EditJobs[j] = "consult" => j = "delete"
    BY DEF EditJobs, EntryJobs
  <1>3. Wellformed(q)
    BY <1>2 DEF Wellformed, Shaped, Content
  <1>4. Requested(h) /\ req'[h] = q
    BY <1>1, <1>3 DEF Requested, RegistryInv, CacheInv, Requests
  <1>5. DOMAIN edit' = Handlers /\ edit'[h] = x /\ \A g \in Handlers \ {h} : edit'[g] = edit[g]
    BY <1>1 DEF RegistryInv
  <1>6. DOMAIN x = {"comp", "doc", "auth", "use"} /\ x.comp = c
    BY DEF RegistryInv, InHand
  <1>7. InHand(approved, q, x)
    BY <1>2, <1>6 DEF InHand, HasCopy, Edits, Copying, EntryJobs
  <1>8. UNCHANGED <<file, journal, run, approved, doc>> /\ VettedDoc(approved, doc)
    BY DEF AskEdit, quiet, cacheVars, setup, RegistryInv
  <1> QED
    BY <1>4, <1>5, <1>7, <1>8, HandStep

LEMMA TakenStep ==
  ASSUME RegistryInv, NEW h \in Handlers, Taken(h)
  PROVE  RegistryInv'
  <1>1. UNCHANGED <<file, journal, run, approved, doc>> /\ VettedDoc(approved, doc)
    BY DEF Taken, quiet, cacheVars, setup, RegistryInv
  <1>2. CASE Done(h)
    BY <1>1, <1>2, DoneStep
  <1>3. ASSUME NEW c \in Components, edit' = [edit EXCEPT ![h].comp = c], UNCHANGED req
        PROVE  RegistryInv'
    <2> DEFINE x == [edit[h] EXCEPT !.comp = c]
    <2>1. DOMAIN edit' = Handlers /\ edit'[h] = x /\ \A g \in Handlers \ {h} : edit'[g] = edit[g]
      BY <1>3 DEF RegistryInv
    <2>2. DOMAIN x = {"comp", "doc", "auth", "use"} /\ x.comp = c
      BY DEF RegistryInv, InHand
    <2>3. req[h].at = "edit" /\ InHand(approved, req[h], edit[h])
      BY DEF Taken, RegistryInv
    <2>4. InHand(approved, req[h], x)
      BY <2>2, <2>3 DEF InHand, HasCopy, Edits, Copying
    <2>5. Requested(h)
      BY <1>3, RequestGoes DEF RegistryInv, CacheInv
    <2> QED
      BY <1>1, <1>3, <2>1, <2>4, <2>5, HandStep
  <1> QED
    BY <1>2, <1>3 DEF Taken

LEMMA OpenStep ==
  ASSUME RegistryInv, NEW h \in Handlers, Open(h)
  PROVE  RegistryInv'
  <1>1. UNCHANGED <<file, journal, run, approved, doc>> /\ VettedDoc(approved, doc)
    BY DEF Open, quiet, cacheVars, setup, RegistryInv
  <1> DEFINE e == doc[Named(h)]
             x == [edit[h] EXCEPT !.doc = doc]
             at == IF req[h].job = "off" /\ e.on THEN "consult"
                   ELSE IF Asks(req[h].job, e) THEN "fetch" ELSE "save"
  <1>2. /\ req[h].at = "edit" /\ InHand(approved, req[h], edit[h]) /\ Named(h) # None
        /\ Named(h) = edit[h].comp
    BY DEF Open, RegistryInv, Named
  <1>3. req[h].job \in EntryJobs /\ Named(h) \in Components
    BY <1>2 DEF InHand
  <1>4. e \in Entry \cup {None}
    BY <1>1, <1>3 DEF VettedDoc, Document
  <1>5. CASE Done(h)
    BY <1>1, <1>5, DoneStep
  <1>6. CASE Fits(req[h].job, e) /\ edit' = [edit EXCEPT ![h].doc = doc] /\ To(h, at)
    <2>1. edit' = [edit EXCEPT ![h] = x]
      BY <1>6
    <2>2. DOMAIN x = {"comp", "doc", "auth", "use"} /\ x.comp = edit[h].comp /\ x.doc = doc
      BY <1>2 DEF InHand
    <2>3. at = "fetch" \/ req[h].job \notin Replaces \cup {"create"} => e # None
      BY <1>3, <1>6 DEF Fits, Asks, Replaces, EntryJobs
    <2>4. at \in {"consult", "fetch", "save"} /\ (at = "consult" => req[h].job = "off")
      OBVIOUS
    <2> HIDE DEF x, at
    <2>5. InHand(approved, [at |-> at, job |-> req[h].job], x)
      BY <1>1, <1>2, <1>3, <1>4, <2>2, <2>3, <2>4 DEF InHand, HasCopy, Edits, Copying
    <2> QED
      BY <1>1, <1>6, <2>1, <2>4, <2>5, ToStep
  <1> QED
    BY <1>5, <1>6 DEF Open

LEMMA ConsultStep ==
  ASSUME RegistryInv, NEW h \in Handlers, Consult(h)
  PROVE  RegistryInv'
  <1>1. UNCHANGED <<file, journal, run, approved, doc>> /\ VettedDoc(approved, doc)
    BY DEF Consult, quiet, cacheVars, setup, RegistryInv
  <1>2. req[h].at = "consult" /\ InHand(approved, req[h], edit[h])
    BY DEF Consult, RegistryInv
  <1>3. CASE Done(h)
    BY <1>1, <1>3, DoneStep
  <1>4. CASE req[h].job = "delete" /\ To(h, "edit") /\ UNCHANGED edit
    <2>1. InHand(approved, [at |-> "edit", job |-> req[h].job], edit[h])
      BY <1>2, <1>4 DEF InHand, HasCopy, Edits, Copying
    <2> QED
      BY <1>1, <1>4, <2>1, StayStep
  <1>5. ASSUME req[h].job # "delete", NEW at \in {"fetch", "save"}, To(h, at), UNCHANGED edit
        PROVE  RegistryInv'
    <2>1. InHand(approved, [at |-> at, job |-> req[h].job], edit[h])
      BY <1>2, <1>5 DEF InHand, HasCopy, Edits, Copying, Replaces
    <2> QED
      BY <1>1, <1>5, <2>1, StayStep
  <1> QED
    BY <1>3, <1>4, <1>5 DEF Consult

LEMMA FetchStep ==
  ASSUME RegistryInv, NEW h \in Handlers, Fetch(h) \/ FetchFails(h)
  PROVE  RegistryInv'
  <1>1. UNCHANGED <<file, journal, run, approved, doc>> /\ VettedDoc(approved, doc)
    BY DEF Fetch, FetchFails, quiet, cacheVars, setup, RegistryInv
  <1>2. CASE FetchFails(h)
    BY <1>1, <1>2, DoneStep DEF FetchFails
  <1>3. CASE Fetch(h)
    <2> DEFINE c == edit[h].comp
               e == [edit[h].doc[c] EXCEPT !.tpl = "server"]
               d == [edit[h].doc EXCEPT ![c] = e]
               x == [edit[h] EXCEPT !.doc = d]
    <2>1. req[h].at = "fetch" /\ InHand(approved, req[h], edit[h])
      BY <1>3 DEF Fetch, RegistryInv
    <2>2. c \in Components /\ VettedDoc(approved, edit[h].doc) /\ edit[h].doc[c] \in Entry
      BY <2>1 DEF InHand, HasCopy, Edits, Copying
    <2>3. e \in Entry /\ e.tpl = "server"
      BY <2>2 DEF Entry
    <2>4. Vetted(approved, c, e)
      BY <2>3, TemplatesAssumption DEF Vetted, FromCatalog, Seed
    <2>5. VettedDoc(approved, d)
      BY <2>2, <2>4, VettedEntry
    <2>6. d[c] \in Entry
      BY <2>2, <2>3 DEF VettedDoc, Document
    <2>7. edit' = [edit EXCEPT ![h] = x] /\ To(h, "save")
      BY <1>3 DEF Fetch, Named
    <2> HIDE DEF d
    <2>8. DOMAIN x = {"comp", "doc", "auth", "use"} /\ x.comp = c /\ x.doc = d
      BY <2>1 DEF InHand
    <2>9. InHand(approved, [at |-> "save", job |-> req[h].job], x)
      BY <2>1, <2>2, <2>5, <2>6, <2>8 DEF InHand, HasCopy, Edits, Copying
    <2> QED
      BY <1>1, <2>7, <2>9, ToStep
  <1> QED
    BY <1>2, <1>3

\* What a request makes of an entry may be written: it is switched off, or it
\* has no template of the catalog, or it is switched on by the operator now,
\* or it was in the copy already.
LEMMA ResultVetted ==
  ASSUME RegistryInv, NEW h \in Handlers, req[h].at = "save", NEW e \in Results(h), Written(h, e)
  PROVE  Vetted(approved', Named(h), e) /\ approved \subseteq approved'
  <1> DEFINE c == edit[h].comp
             old == edit[h].doc[c]
             job == req[h].job
  <1>1. InHand(approved, req[h], edit[h]) /\ HasCopy(req[h]) /\ req[h].got \in Content
    BY DEF RegistryInv, HasCopy, Copying, CacheInv, Requests, Wellformed
  <1>2. /\ c \in Components /\ VettedDoc(approved, edit[h].doc) /\ job \in EntryJobs
        /\ job \notin Replaces \cup {"create"} => old \in Entry
    BY <1>1 DEF InHand, Edits
  <1>3. Vetted(approved, c, old)
    BY <1>2 DEF VettedDoc
  <1>4. /\ approved \subseteq approved'
        /\ job = "on" => <<c, e.tpl>> \in approved'
        /\ Held(h) = old /\ Named(h) = c
    BY DEF Written, Held, Named
  <1>5. /\ "own" \notin FromCatalog /\ "server" \notin FromCatalog /\ "pack" \notin FromCatalog
        /\ None \notin FromCatalog /\ None \in Content
    BY TemplatesAssumption, NamesAssumption DEF FromCatalog, Seed, Content
  <1>6. e \in Entry \cup {None} /\ (e # None /\ e.on /\ e.tpl \in FromCatalog => <<c, e.tpl>> \in approved')
    <2>1. CASE job = "create"
      <3>1. e \in Created
        BY <2>1 DEF Results
      <3>2. e \in Entry /\ e.tpl \in {"own", "server"}
        BY <3>1 DEF Created, Templates, Entry
      <3> QED
        BY <1>5, <3>2
    <2>2. CASE job = "take"
      <3>1. e = TakenNew(Held(h), req[h].got)
        BY <2>2 DEF Results
      <3>2. e \in Entry /\ e.on = FALSE
        BY <1>1, <3>1 DEF TakenNew, Entry
      <3> QED
        BY <3>2
    <2>3. CASE job \in {"import", "pack"}
      <3>1. e \in Imported
        BY <2>3 DEF Results
      <3>2. PICK b \in BOOLEAN : e = [on |-> b, tpl |-> "pack", ref |-> None, keys |-> FALSE]
        BY <3>1 DEF Imported
      <3>3. e \in Entry /\ e.tpl = "pack"
        BY <3>2 DEF Entry
      <3> QED
        BY <1>5, <3>3
    <2>4. CASE job = "adopt"
      <3>1. e \in Adopted
        BY <2>4 DEF Results
      <3>2. PICK r \in {"same", "other"} : e = [on |-> TRUE, tpl |-> None, ref |-> r, keys |-> FALSE]
        BY <3>1 DEF Adopted
      <3>3. e \in Entry /\ e.tpl = None
        BY <1>5, <3>2 DEF Entry
      <3> QED
        BY <1>5, <3>3
    <2>5. CASE job = "on"
      <3>1. e = [old EXCEPT !.on = TRUE] /\ old \in Entry
        BY <1>2, <1>4, <2>5 DEF Results, Replaces
      <3>2. e \in Entry
        BY <3>1 DEF Entry
      <3> QED
        BY <1>4, <2>5, <3>2
    <2>6. CASE job = "off"
      <3>1. e = [old EXCEPT !.on = FALSE] /\ old \in Entry
        BY <1>2, <1>4, <2>6 DEF Results, Replaces
      <3>2. e \in Entry /\ e.on = FALSE
        BY <3>1 DEF Entry
      <3> QED
        BY <3>2
    <2>7. CASE job = "own"
      <3>1. e = [old EXCEPT !.tpl = "own", !.ref = None] /\ old \in Entry
        BY <1>2, <1>4, <2>7 DEF Results, Replaces
      <3>2. e \in Entry /\ e.tpl = "own"
        BY <3>1 DEF Entry
      <3> QED
        BY <1>5, <3>2
    <2>8. CASE job \in {"snapshot", "ensure", "sync"}
      <3>1. e = old
        BY <1>4, <2>8 DEF Results
      <3> QED
        BY <1>3, <1>4, <3>1 DEF Vetted
    <2>9. CASE job \in {"addKeys", "rekey", "dropKeys"}
      <3>1. old \in Entry /\ \E b \in BOOLEAN : e = [old EXCEPT !.keys = b]
        BY <1>2, <1>4, <2>9 DEF Results, Rekeyed, Replaces
      <3>2. e \in Entry /\ e.on = old.on /\ e.tpl = old.tpl
        BY <3>1 DEF Entry
      <3>3. old # None /\ old.on /\ old.tpl \in FromCatalog => <<c, old.tpl>> \in approved'
        BY <1>3, <1>4 DEF Vetted
      <3>4. old # None
        BY <3>1, EntryAssumption
      <3> QED
        BY <3>2, <3>3, <3>4
    <2>10. CASE job = "delete"
      BY <2>10 DEF Results
    <2> QED
      BY <1>2, <2>1, <2>2, <2>3, <2>4, <2>5, <2>6, <2>7, <2>8, <2>9, <2>10 DEF EntryJobs
  <1> QED
    BY <1>4, <1>6 DEF Vetted

LEMMA SaveStep ==
  ASSUME RegistryInv, NEW h \in Handlers, Save(h)
  PROVE  RegistryInv'
  <1>1. Done(h) /\ UNCHANGED <<file, journal, run>> /\ req[h].at = "save"
    BY DEF Save, quiet, cacheVars
  <1>2. PICK e \in Results(h) : Written(h, e)
    BY DEF Save
  <1>3. InHand(approved, req[h], edit[h]) /\ HasCopy(req[h])
    BY <1>1 DEF RegistryInv, HasCopy, Copying
  <1>4. /\ Vetted(approved', Named(h), e) /\ approved \subseteq approved'
        /\ Named(h) \in Components /\ VettedDoc(approved, edit[h].doc)
    BY <1>1, <1>2, <1>3, ResultVetted DEF InHand, Named
  <1>5. VettedDoc(approved', doc')
    BY <1>2, <1>4, VettedStays, VettedEntry DEF Written
  <1> QED
    BY <1>1, <1>4, <1>5, DoneStep

\* Credentials and assignments are written while the request keeps its copy
\* of the document.
LEMMA BindStep ==
  ASSUME RegistryInv, NEW h \in Handlers,
         Bind(h) \/ BindDisk(h) \/ BindDoc(h) \/ BindMem(h)
  PROVE  RegistryInv'
  <1>1. UNCHANGED <<file, journal, run, approved>> /\ VettedDoc(approved, doc)
    BY DEF Bind, BindDisk, BindDoc, BindMem, quiet, cacheVars, RegistryInv
  <1>2. InHand(approved, req[h], edit[h])
    BY DEF RegistryInv
  <1>3. CASE Bind(h)
    <2>1. UNCHANGED doc /\ req[h].at = "bind"
      BY <1>3 DEF Bind, setup
    <2>2. CASE Done(h)
      BY <1>1, <2>1, <2>2, DoneStep
    <2>3. CASE edit' = [edit EXCEPT ![h].auth = Put(auth.mem, h), ![h].doc = doc] /\ To(h, "bindDisk")
      <3> DEFINE x == [edit[h] EXCEPT !.auth = Put(auth.mem, h), !.doc = doc]
      <3>1. edit' = [edit EXCEPT ![h] = x]
        BY <2>3 DEF RegistryInv
      <3>2. DOMAIN x = {"comp", "doc", "auth", "use"} /\ x.comp = edit[h].comp /\ x.doc = doc
        BY <1>2 DEF InHand
      <3> HIDE DEF x
      <3>3. InHand(approved, [at |-> "bindDisk", job |-> req[h].job], x)
        BY <1>1, <1>2, <2>1, <3>2 DEF InHand, HasCopy, Edits, Copying
      <3> QED
        BY <1>1, <2>1, <2>3, <3>1, <3>3, ToStep
    <2> QED
      BY <1>3, <2>2, <2>3 DEF Bind
  <1>4. CASE BindDisk(h)
    <2>1. UNCHANGED <<doc, edit>> /\ req[h].at = "bindDisk" /\ (To(h, "bindDoc") \/ To(h, "bindMem"))
      BY <1>4 DEF BindDisk
    <2>2. \A at \in {"bindDoc", "bindMem"} : InHand(approved, [at |-> at, job |-> req[h].job], edit[h])
      BY <1>2, <2>1 DEF InHand, HasCopy, Edits, Copying
    <2> QED
      BY <1>1, <2>1, <2>2, StayStep
  <1>5. CASE BindDoc(h)
    <2>1. UNCHANGED edit /\ req[h].at = "bindDoc" /\ To(h, "bindMem") /\ doc' = edit[h].doc
      BY <1>5 DEF BindDoc
    <2>2. VettedDoc(approved, doc') /\ InHand(approved, [at |-> "bindMem", job |-> req[h].job], edit[h])
      BY <1>2, <2>1 DEF InHand, HasCopy, Edits, Copying
    <2> QED
      BY <1>1, <2>1, <2>2, StayStep
  <1>6. CASE BindMem(h)
    BY <1>1, <1>6, DoneStep DEF BindMem
  <1> QED
    BY <1>3, <1>4, <1>5, <1>6

LEMMA UseStep ==
  ASSUME RegistryInv, NEW h \in Handlers,
         Assign(h) \/ Copy(h) \/ UseDisk(h) \/ UseMem(h) \/ SaveFails(h)
  PROVE  RegistryInv'
  <1>1. UNCHANGED <<file, journal, run, approved, doc>> /\ VettedDoc(approved, doc)
    BY DEF Assign, Copy, UseDisk, UseMem, SaveFails, quiet, cacheVars, setup, RegistryInv
  <1>2. InHand(approved, req[h], edit[h])
    BY DEF RegistryInv
  <1>3. CASE Done(h)
    BY <1>1, <1>3, DoneStep
  <1>4. ASSUME NEW at \in {"copy", "useDisk", "useMem"}, To(h, at),
               NEW x, DOMAIN x = {"comp", "doc", "auth", "use"}, x.comp = edit[h].comp,
               edit' = [edit EXCEPT ![h] = x]
        PROVE  RegistryInv'
    <2>1. InHand(approved, [at |-> at, job |-> req[h].job], x)
      BY <1>2, <1>4 DEF InHand, HasCopy, Edits, Copying
    <2> QED
      BY <1>1, <1>4, <2>1, ToStep
  <1>5. CASE Copy(h)
    <2> DEFINE x == [edit[h] EXCEPT !.use = [use EXCEPT ![Kind(h)].mem = Put(@, h)]]
    <2>1. edit' = [edit EXCEPT ![h] = x] /\ To(h, "useDisk")
      BY <1>5 DEF Copy
    <2>2. DOMAIN x = {"comp", "doc", "auth", "use"} /\ x.comp = edit[h].comp
      BY <1>2 DEF InHand
    <2> HIDE DEF x
    <2> QED
      BY <1>4, <2>1, <2>2
  <1>6. CASE UNCHANGED edit /\ \E at \in {"copy", "useMem"} : To(h, at)
    <2>1. PICK at \in {"copy", "useMem"} : To(h, at)
      BY <1>6
    <2>2. InHand(approved, [at |-> at, job |-> req[h].job], edit[h])
      BY <1>2 DEF InHand, HasCopy, Edits, Copying
    <2> QED
      BY <1>1, <1>6, <2>1, <2>2, StayStep
  <1> QED
    BY <1>3, <1>5, <1>6 DEF Assign, UseDisk, UseMem, SaveFails

LEMMA PackStep ==
  ASSUME RegistryInv, NEW h \in Handlers, Pack(h)
  PROVE  RegistryInv'
  <1>1. UNCHANGED <<file, journal, run>> /\ req[h].at = "save" /\ To(h, "packAuth")
    BY DEF Pack, quiet, cacheVars
  <1>2. PICK e \in Results(h) :
          /\ Written(h, e)
          /\ edit' = [edit EXCEPT ![h].doc[Named(h)] = e,
                        ![h].auth = IF e.on THEN Put(auth.mem, h) ELSE auth.mem,
                        ![h].use = [u \in DOMAIN use |-> Both(Put(use[u].mem, h))]]
    BY DEF Pack
  <1>3. InHand(approved, req[h], edit[h]) /\ HasCopy(req[h])
    BY <1>1 DEF RegistryInv, HasCopy, Copying
  <1> DEFINE d == [edit[h].doc EXCEPT ![Named(h)] = e]
             au == IF e.on THEN Put(auth.mem, h) ELSE auth.mem
             us == [u \in DOMAIN use |-> Both(Put(use[u].mem, h))]
             x == [edit[h] EXCEPT !.doc = d, !.auth = au, !.use = us]
  <1>4. /\ Vetted(approved', Named(h), e) /\ approved \subseteq approved'
        /\ Named(h) \in Components /\ VettedDoc(approved, edit[h].doc)
    BY <1>1, <1>2, <1>3, ResultVetted DEF InHand, Named
  <1>5. doc' = d /\ VettedDoc(approved', d)
    <2>1. doc' = d
      BY <1>2 DEF Written
    <2>2. VettedDoc(approved', edit[h].doc)
      BY <1>4, VettedStays
    <2>3. VettedDoc(approved', d)
      BY <1>4, <2>2, VettedEntry
    <2> QED
      BY <2>1, <2>3
  <1>6. edit' = [edit EXCEPT ![h].doc = d, ![h].auth = au, ![h].use = us]
    BY <1>2
  <1> HIDE DEF d, au, us
  <1>7. edit' = [edit EXCEPT ![h] = x]
    BY <1>6 DEF RegistryInv
  <1>8. DOMAIN x = {"comp", "doc", "auth", "use"} /\ x.comp = edit[h].comp /\ x.doc = d
    BY <1>3 DEF InHand
  <1> HIDE DEF x
  <1>9. InHand(approved', [at |-> "packAuth", job |-> req[h].job], x)
    BY <1>3, <1>4, <1>5, <1>8 DEF InHand, HasCopy, Edits, Copying, Named
  <1> QED
    BY <1>1, <1>4, <1>5, <1>7, <1>9, ToStep

LEMMA PackedStep ==
  ASSUME RegistryInv, NEW h \in Handlers,
         PackAuth(h) \/ PackTask(h) \/ PackRule(h) \/ PackAll(h) \/ PackMem(h)
  PROVE  RegistryInv'
  <1>1. UNCHANGED <<file, journal, run, approved>>
    BY DEF PackAuth, PackTask, PackRule, PackAll, PackMem, quiet, cacheVars
  <1>2. InHand(approved, req[h], edit[h]) /\ HasCopy(req[h]) /\ VettedDoc(approved, doc)
    BY DEF PackAuth, PackTask, PackRule, PackAll, PackMem, RegistryInv, HasCopy, Copying
  <1>3. VettedDoc(approved, doc')
    BY <1>2 DEF PackAuth, PackTask, PackRule, PackAll, PackMem, InHand
  <1>4. CASE PackMem(h)
    BY <1>1, <1>3, <1>4, DoneStep DEF PackMem
  <1>5. CASE UNCHANGED edit /\ \E at \in {"packTask", "packRule", "packAll", "packMem"} : To(h, at)
    <2>1. \A at \in {"packTask", "packRule", "packAll", "packMem"} :
            InHand(approved, [at |-> at, job |-> req[h].job], edit[h])
      BY <1>2 DEF InHand, HasCopy, Edits, Copying
    <2> QED
      BY <1>1, <1>3, <1>5, <2>1, StayStep
  <1> QED
    BY <1>4, <1>5 DEF PackAuth, PackTask, PackRule, PackAll

-----------------------------------------------------------------------------
(* Rounds *)

LEMMA RoundTo ==
  ASSUME RegistryInv, NEW r \in Runs, UNCHANGED <<file, journal, req, edit, approved>>,
         VettedDoc(approved, doc'), NEW R, run' = [run EXCEPT ![r] = R], InRound(approved, R)
  PROVE  RegistryInv'
  <1>1. DOMAIN run' = Runs /\ run'[r] = R /\ \A s \in Runs \ {r} : run'[s] = run[s]
    BY DEF RegistryInv
  <1> QED
    BY <1>1, RoundStep

LEMMA IdleStep ==
  ASSUME RegistryInv, NEW r \in Runs, UNCHANGED <<file, journal, req, edit, approved, doc>>, Idles(r)
  PROVE  RegistryInv'
  <1>1. InRound(approved, Rest)
    BY DEF InRound, Rest
  <1> QED
    BY <1>1, RoundTo DEF Idles, RegistryInv

\* What was revoked, and what was filled in, is vetted if the document was.
LEMMA WithdrawnVetted ==
  ASSUME NEW A, NEW d, VettedDoc(A, d)
  PROVE  VettedDoc(A, Withdrawn(d))
  <1> DEFINE w(c) == IF c \in hub.revoked /\ d[c] # None THEN [d[c] EXCEPT !.on = FALSE, !.tpl = None] ELSE d[c]
  <1>1. ASSUME NEW c \in Components PROVE Vetted(A, c, w(c))
    <2>1. Vetted(A, c, d[c])
      BY DEF VettedDoc
    <2>2. CASE d[c] # None
      <3>1. d[c] \in Entry
        BY <2>1, <2>2 DEF Vetted
      <3> DEFINE e == [d[c] EXCEPT !.on = FALSE, !.tpl = None]
      <3>2. e \in Entry /\ e.on = FALSE
        BY <3>1 DEF Entry, Content
      <3>3. Vetted(A, c, e)
        BY <3>2 DEF Vetted
      <3> QED
        BY <2>1, <3>3
    <2>3. CASE d[c] = None
      BY <2>1, <2>3
    <2> QED
      BY <2>2, <2>3
  <1>2. Withdrawn(d) = [c \in Components |-> w(c)]
    BY DEF Withdrawn
  <1> HIDE DEF w
  <1> QED
    BY <1>1, <1>2 DEF VettedDoc, Document, Vetted

LEMMA FilledVetted ==
  ASSUME NEW A, NEW R, VettedDoc(A, R.doc), NEW based
  PROVE  VettedDoc(A, Filled(R, based))
  <1> DEFINE filled(c) == based /\ c \in R.items \ Direct(R) /\ R.doc[c] # None /\ R.doc[c].on
                            /\ R.doc[c].ref = "other"
             f(c) == IF filled(c) THEN [R.doc[c] EXCEPT !.tpl = "server"] ELSE R.doc[c]
  <1>1. ASSUME NEW c \in Components PROVE Vetted(A, c, f(c))
    <2>1. Vetted(A, c, R.doc[c])
      BY DEF VettedDoc
    <2>2. CASE filled(c)
      <3>1. R.doc[c] \in Entry
        BY <2>1, <2>2 DEF Vetted
      <3> DEFINE e == [R.doc[c] EXCEPT !.tpl = "server"]
      <3>2. e \in Entry /\ e.tpl = "server"
        BY <3>1 DEF Entry
      <3>3. Vetted(A, c, e)
        BY <3>2, TemplatesAssumption DEF Vetted, FromCatalog, Seed
      <3> QED
        BY <2>2, <3>3
    <2>3. CASE ~filled(c)
      BY <2>1, <2>3
    <2> QED
      BY <2>2, <2>3
  <1>2. Filled(R, based) = [c \in Components |-> f(c)]
    BY DEF Filled
  <1> HIDE DEF f
  <1> QED
    BY <1>1, <1>2 DEF VettedDoc, Document, Vetted

\* What is served is of the control plane, or is the template of a vetted
\* entry that is on.
LEMMA ServedVetted ==
  ASSUME NEW A, NEW R, NEW d, VettedDoc(A, d)
  PROVE  \A c \in DOMAIN Served(R, d) : Served(R, d)[c] \in FromCatalog => <<c, Served(R, d)[c]>> \in A
  <1> SUFFICES ASSUME NEW c \in DOMAIN Served(R, d), Served(R, d)[c] \in FromCatalog
               PROVE  <<c, Served(R, d)[c]>> \in A
    OBVIOUS
  <1>1. c \in Direct(R) \cup Local(R, d) /\ Served(R, d)[c] = IF c \in Direct(R) THEN "server" ELSE d[c].tpl
    BY DEF Served
  <1>2. "server" \notin FromCatalog
    BY TemplatesAssumption DEF FromCatalog, Seed
  <1>3. c \in Local(R, d) /\ Served(R, d)[c] = d[c].tpl
    BY <1>1, <1>2
  <1>4. c \in Components /\ d[c] # None /\ d[c].on
    BY <1>3 DEF Local, Present
  <1> QED
    BY <1>3, <1>4 DEF VettedDoc, Vetted

LEMMA RoundKeeps ==
  ASSUME RegistryInv, NEW r \in Runs, Round(r) \/ HearFails(r) \/ DownloadLost(r)
  PROVE  RegistryInv'
  <1>1. UNCHANGED <<file, journal, req, edit, approved>> /\ VettedDoc(approved, doc)
    BY DEF Round, Start, Read, Hear, HearFails, DownloadLost, Assemble, Share, Serve, running, cacheVars,
           RegistryInv
  <1>2. InRound(approved, run[r])
    BY DEF RegistryInv
  <1>3. CASE Idles(r) /\ UNCHANGED doc
    BY <1>1, <1>3, IdleStep
  <1>4. CASE Start(r)
    <2> DEFINE R == [Rest EXCEPT !.at = "read", !.auth = auth.mem,
                                 !.ids = Present(doc) \cup auth.mem \cup InUse]
    <2>1. run' = [run EXCEPT ![r] = R] /\ UNCHANGED doc
      BY <1>4 DEF Start, setup
    <2>2. InRound(approved, R)
      BY DEF InRound, Rest
    <2> HIDE DEF R
    <2> QED
      BY <1>1, <2>1, <2>2, RoundTo
  <1>5. CASE Read(r) /\ ~Idles(r)
    <2> DEFINE at == IF Needs(doc, run[r].ids) = {} THEN "load" ELSE "hear"
               R == [run[r] EXCEPT !.doc = doc, !.at = at]
    <2>1. run' = [run EXCEPT ![r].doc = doc, ![r].at = at] /\ UNCHANGED doc
      BY <1>5 DEF Read, setup
    <2>2. at \in {"load", "hear"}
      OBVIOUS
    <2> HIDE DEF at
    <2>3. run' = [run EXCEPT ![r] = R]
      BY <2>1 DEF RegistryInv
    <2>4. DOMAIN R = {"at", "ids", "doc", "auth", "items", "serves"} /\ R.at = at /\ R.doc = doc
      BY <1>2 DEF InRound
    <2> HIDE DEF R
    <2>5. InRound(approved, R)
      BY <1>1, <2>2, <2>4 DEF InRound
    <2> QED
      BY <1>1, <2>1, <2>3, <2>5, RoundTo
  <1>6. CASE Hear(r)
    <2> DEFINE d == Withdrawn(run[r].doc)
               items == {c \in hub.listed \ hub.revoked : c \in Needs(run[r].doc, run[r].ids)
                           /\ (IF run[r].doc[c] = None THEN TRUE ELSE run[r].doc[c].ref # None)}
               R == [run[r] EXCEPT !.doc = d, !.at = "load", !.items = items]
    <2>1. /\ run' = [run EXCEPT ![r].doc = d, ![r].at = "load", ![r].items = items]
          /\ doc' = d \/ doc' = doc
      BY <1>6 DEF Hear
    <2>2. VettedDoc(approved, d)
      BY <1>2, <1>6, WithdrawnVetted DEF Hear, InRound
    <2> HIDE DEF d, items
    <2>3. run' = [run EXCEPT ![r] = R]
      BY <2>1 DEF RegistryInv
    <2>4. DOMAIN R = {"at", "ids", "doc", "auth", "items", "serves"} /\ R.at = "load" /\ R.doc = d
      BY <1>2 DEF InRound
    <2> HIDE DEF R
    <2>5. InRound(approved, R)
      BY <2>2, <2>4 DEF InRound
    <2> QED
      BY <1>1, <2>1, <2>2, <2>3, <2>5, RoundTo
  <1>7. CASE DownloadLost(r)
    <2>1. PICK c \in run[r].items : run' = [run EXCEPT ![r].items = @ \ {c}]
      BY <1>7 DEF DownloadLost
    <2> DEFINE R == [run[r] EXCEPT !.items = run[r].items \ {c}]
    <2>2. run' = [run EXCEPT ![r] = R] /\ UNCHANGED doc
      BY <1>7, <2>1 DEF DownloadLost, setup
    <2>3. /\ DOMAIN R = {"at", "ids", "doc", "auth", "items", "serves"}
          /\ R.at = run[r].at /\ R.doc = run[r].doc /\ R.serves = run[r].serves
      BY <1>2 DEF InRound
    <2> HIDE DEF R
    <2>4. InRound(approved, R)
      BY <1>2, <2>3 DEF InRound
    <2> QED
      BY <1>1, <2>2, <2>4, RoundTo
  <1>8. CASE Assemble(r)
    <2>1. PICK based \in BOOLEAN :
            LET R == run[r]  d == Filled(R, based)  s == Served(R, d) IN
              /\ doc' = IF d # R.doc THEN d ELSE doc
              /\ run' = [run EXCEPT ![r] = IF s = <<>> THEN Rest
                                           ELSE [@ EXCEPT !.at = "share", !.doc = <<>>, !.serves = s]]
      BY <1>8 DEF Assemble
    <2> DEFINE d == Filled(run[r], based)
               s == Served(run[r], d)
               R == [run[r] EXCEPT !.at = "share", !.doc = <<>>, !.serves = s]
    <2>2. VettedDoc(approved, run[r].doc)
      BY <1>2, <1>8 DEF Assemble, InRound
    <2>3. VettedDoc(approved, d)
      BY <2>2, FilledVetted
    <2>4. \A c \in DOMAIN s : s[c] \in FromCatalog => <<c, s[c]>> \in approved
      BY <2>3, ServedVetted
    <2>5. (doc' = d \/ doc' = doc) /\ (Idles(r) \/ run' = [run EXCEPT ![r] = R])
      BY <2>1 DEF Idles
    <2> HIDE DEF s, d
    <2>6. DOMAIN R = {"at", "ids", "doc", "auth", "items", "serves"} /\ R.at = "share" /\ R.serves = s
      BY <1>2 DEF InRound
    <2> HIDE DEF R
    <2>7. InRound(approved, R)
      BY <2>4, <2>6 DEF InRound
    <2>8. InRound(approved, Rest)
      BY DEF InRound, Rest
    <2>9. VettedDoc(approved, doc')
      BY <1>1, <2>3, <2>5
    <2> QED
      BY <1>1, <2>5, <2>7, <2>8, <2>9, RoundTo DEF Idles
  <1>9. CASE Share(r)
    <2> DEFINE R == [run[r] EXCEPT !.at = "serve"]
    <2>1. run' = [run EXCEPT ![r] = R] /\ UNCHANGED doc /\ run[r].at = "share"
      BY <1>9 DEF Share
    <2>2. DOMAIN R = {"at", "ids", "doc", "auth", "items", "serves"} /\ R.at = "serve" /\ R.serves = run[r].serves
      BY <1>2 DEF InRound
    <2> HIDE DEF R
    <2>3. InRound(approved, R)
      BY <1>2, <2>1, <2>2 DEF InRound
    <2> QED
      BY <1>1, <2>1, <2>3, RoundTo
  <1>10. Read(r) \/ HearFails(r) \/ Serve(r) => UNCHANGED doc
    BY DEF Read, HearFails, Serve, setup
  <1> QED
    BY <1>3, <1>4, <1>5, <1>6, <1>7, <1>8, <1>9, <1>10 DEF Round, HearFails, Serve

-----------------------------------------------------------------------------
(* The whole installation *)

LEMMA FaultStep ==
  ASSUME RegistryInv, (\E c \in Components : Revoke(c)) \/ (Damage /\ UNCHANGED registryVars) \/ Crash
  PROVE  RegistryInv'
  <1>1. CASE \E c \in Components : Revoke(c)
    <2>1. UNCHANGED <<file, journal, req, edit, run, doc, approved>>
      BY <1>1 DEF Revoke, cacheVars, setup
    <2> QED
      BY <2>1 DEF RegistryInv, CacheInv, Requests
  <1>2. CASE Damage /\ UNCHANGED registryVars
    <2>1. UNCHANGED <<journal, req, edit, run, doc, approved>> /\ file' = [file EXCEPT !.current = Damaged]
      BY <1>2 DEF Damage, registryVars, setup
    <2>2. DOMAIN file' = Names /\ Good(file')
      BY <2>1 DEF RegistryInv, CacheInv, Names, Good, Content
    <2>3. CacheInv'
      BY <2>1, <2>2 DEF RegistryInv, CacheInv, Requests
    <2> QED
      BY <2>1, <2>3 DEF RegistryInv
  <1>3. CASE Crash
    <2>1. /\ UNCHANGED <<file, journal, doc, approved>> /\ req' = [h \in Handlers |-> Idle]
          /\ edit' = [h \in Handlers |-> NoEdit] /\ run' = [r \in Runs |-> Rest]
      BY <1>3 DEF Crash
    <2>2. Wellformed(Idle)
      BY DEF Idle, Wellformed, Shaped, Content
    <2>3. InHand(approved, Idle, NoEdit)
      BY DEF InHand, Idle, NoEdit, HasCopy, Edits, Copying
    <2>4. InRound(approved, Rest)
      BY DEF InRound, Rest
    <2>5. CacheInv'
      BY <2>1, <2>2 DEF RegistryInv, CacheInv, Requests
    <2> QED
      BY <2>1, <2>3, <2>4, <2>5 DEF RegistryInv
  <1> QED
    BY <1>1, <1>2, <1>3

LEMMA RegistryInit == Init => RegistryInv
  <1> SUFFICES ASSUME Init PROVE RegistryInv
    OBVIOUS
  <1>1. Wellformed(Idle)
    BY DEF Idle, Wellformed, Shaped, Content
  <1>2. CacheInv
    BY <1>1, NamesAssumption DEF Init, CacheInit, CacheInv, Requests, Names, Good, Content, Damaged
  <1>3. Own \in Entry /\ Own.tpl = "own" /\ "own" \notin FromCatalog
    BY TemplatesAssumption DEF Own, Entry, FromCatalog, Seed
  <1>4. VettedDoc(approved, doc)
    BY <1>3 DEF Init, VettedDoc, Document, Vetted
  <1>5. InHand(approved, Idle, NoEdit)
    BY DEF InHand, Idle, NoEdit, HasCopy, Edits, Copying
  <1>6. InRound(approved, Rest)
    BY DEF InRound, Rest
  <1> QED
    BY <1>2, <1>4, <1>5, <1>6 DEF Init, CacheInit, RegistryInv

LEMMA RegistryNext == RegistryInv /\ [Next]_vars => RegistryInv'
  <1> SUFFICES ASSUME RegistryInv, [Next]_vars PROVE RegistryInv'
    OBVIOUS
  <1>1. ASSUME NEW h \in Handlers, Request(h) PROVE RegistryInv'
    BY <1>1, CatalogStep, AskEditStep, TakenStep, OpenStep, ConsultStep, FetchStep, SaveStep, BindStep,
       UseStep, PackStep, PackedStep DEF Request
  <1>2. ASSUME NEW r \in Runs, Round(r) \/ HearFails(r) \/ DownloadLost(r) PROVE RegistryInv'
    BY <1>2, RoundKeeps
  <1>3. CASE UNCHANGED vars
    BY <1>3 DEF vars, cacheVars, registryVars, setup, RegistryInv, CacheInv, Requests
  <1> QED
    BY <1>1, <1>2, <1>3, FaultStep DEF Next

\* Every copy of the document, stored, in a request or in a round, has been
\* vetted: what it switches on of the catalog the operator has switched on.
\* And a fallback, in place or about to be, is one that validated.
THEOREM RegistryInvariance == Spec => []RegistryInv
  <1> QED
    BY RegistryInit, RegistryNext, PTL DEF Spec

\* Damage to the installed catalog never reaches the fallback, whatever is
\* interrupted: install_catalog_candidate keeps only what still validates.
THEOREM FallbackKept == Spec => []FallbackStaysGood
  <1>1. RegistryInv => FallbackStaysGood
    BY DEF RegistryInv, CacheInv, Good, FallbackStaysGood
  <1> QED
    BY <1>1, RegistryInvariance, PTL

\* No round serves a template of the catalog that the operator has not
\* switched on, whichever requests of local_registry.rs write back an older
\* document than the one load_component_runtimes read.
THEOREM ServedOnlyApproved == Spec => []OnlyWhatWasSwitchedOn
  <1>1. RegistryInv => OnlyWhatWasSwitchedOn
    BY DEF RegistryInv, InRound, OnlyWhatWasSwitchedOn
  <1> QED
    BY <1>1, RegistryInvariance, PTL
=============================================================================
