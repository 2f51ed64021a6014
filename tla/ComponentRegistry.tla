--------------------------- MODULE ComponentRegistry ---------------------------
(***************************************************************************)
(* The components of this installation: one document with an entry for     *)
(* each, the credentials bound to them, and the task types and rules that  *)
(* name them.  Every request reads whole documents and writes them back    *)
(* changed; nothing orders two requests.  Credentials and assignments are  *)
(* kept in memory and in the database.  A round copies the credentials,    *)
(* reads the document, asks the control plane only if something it needs   *)
(* has no template of its own, and serves what it could put together.      *)
(* Templates come from the operator, from the catalog, from a pack or from *)
(* the control plane.                                                      *)
(***************************************************************************)
EXTENDS CatalogCache

CONSTANTS
  Components,
  Initial,      \* the component there from the start
  Runs        \* rounds that can be under way at one time

ASSUME StartAssumption == Initial \in Components
ASSUME TemplatesAssumption == {"own", "pack", "server"} \cap (Versions \cup {None}) = {}

VARIABLES
  mode,      \* with a control plane, or local
  doc,       \* the entry of each component
  auth,      \* the components with credentials, in memory and on disk
  use,       \* those named by task types and by rules, in memory and on disk
  hub,       \* what the control plane offers and what it has revoked
  edit,      \* the copies the requests work on
  run,       \* the rounds under way
  approved   \* templates the operator has switched on, by component

setup == <<doc, auth, use>>
registryVars == <<mode, setup, hub, edit, run, approved>>
vars == <<cacheVars, req, budget, registryVars>>

\* A component that refers to a template of the control plane: of its own
\* name, or of another.
Entry == [on : BOOLEAN, tpl : Content \cup {"own", "pack", "server"},
          ref : {None, "same", "other"}, keys : BOOLEAN]
ASSUME EntryAssumption == None \notin Entry
Own == [on |-> TRUE, tpl |-> "own", ref |-> None, keys |-> FALSE]
Rest == [at |-> "rest", ids |-> {}, doc |-> <<>>, auth |-> {}, items |-> {}, serves |-> <<>>]
NoEdit == [comp |-> None, doc |-> <<>>, auth |-> {}, use |-> <<>>]

FromCatalog == Versions \cup {Seed}
Present(d) == {c \in Components : d[c] # None}
Both(S) == [mem |-> S, disk |-> S]
InUse == use.task.mem \cup use.rule.mem

Init ==
  /\ CacheInit
  /\ mode \in {"server", "local"}
  /\ doc = [c \in Components |-> IF c = Initial THEN Own ELSE None]
  /\ auth = Both({Initial}) /\ use = [u \in {"task", "rule"} |-> Both({})]
  /\ hub = [listed |-> Components, revoked |-> {}]
  /\ edit = [h \in Handlers |-> NoEdit] /\ run = [r \in Runs |-> Rest]
  /\ approved = {}

server == mode = "server"
quiet == <<cacheVars, mode, hub>>
Done(h) == Ends(h) /\ edit' = [edit EXCEPT ![h] = NoEdit]

-----------------------------------------------------------------------------
(* Requests that change one entry *)

\* Switching off and deleting ask whether a task type or a rule still names
\* the component; deleting asks before it reads the document.
EditJobs ==
  LET entry == {"create", "on", "off", "own", "import", "adopt", "snapshot", "ensure", "sync",
                "addKeys", "rekey", "dropKeys", "pack"}
      other == [delete |-> "consult", bind |-> "bind", unbind |-> "bind", assign |-> "assign",
                attach |-> "assign", unassign |-> "copy", detach |-> "copy"] IN
  [j \in entry \cup DOMAIN other |-> IF j \in entry THEN "edit" ELSE other[j]]

AskEdit(h) ==
  /\ req[h] = Idle /\ Ask
  /\ \E j \in DOMAIN EditJobs, c \in Components :
       /\ j \in {"adopt", "snapshot", "ensure", "sync"} => server
       /\ req' = [req EXCEPT ![h] = [at |-> EditJobs[j], job |-> j, got |-> None]]
       /\ edit' = [edit EXCEPT ![h].comp = c]
  /\ UNCHANGED <<quiet, setup, run, approved, faults>>

\* The template becomes the entry of a component that may exist, unless it
\* would send requests where none may go.
Taken(h) ==
  /\ req[h].at = "edit" /\ req[h].job = "take" /\ edit[h].comp = None
  /\ IF Addressed(req[h].got)
     THEN (\E c \in Components : edit' = [edit EXCEPT ![h].comp = c]) /\ UNCHANGED req
     ELSE Done(h)
  /\ UNCHANGED <<quiet, setup, run, approved, budget>>

Named(h) == edit[h].comp
Held(h) == edit[h].doc[Named(h)]

Lacks(e) == e.tpl = None /\ e.ref # None
Replaces == {"take", "import", "adopt", "pack", "delete", "sync"}  \* entry or none
Fits(job, e) ==
  CASE job \in Replaces -> TRUE
    [] job = "create" -> e = None
    [] job \in {"on", "off"} -> e # None /\ (e.tpl # None \/ e.ref # None)
    [] job = "snapshot" -> e # None /\ e.ref # None
    [] job = "ensure" -> e # None /\ e.on /\ Lacks(e)
    [] OTHER -> e # None

Asks(job, e) ==
  job \in {"snapshot", "ensure"} \/ (server /\ job \in {"on", "off"} /\ Lacks(e))

Open(h) ==
  /\ req[h].at = "edit" /\ Named(h) # None
  /\ LET e == doc[Named(h)]  j == req[h].job IN
       IF ~Fits(j, e) THEN Done(h)
       ELSE /\ edit' = [edit EXCEPT ![h].doc = doc]
            /\ To(h, IF j = "off" /\ e.on THEN "consult" ELSE IF Asks(j, e) THEN "fetch" ELSE "save")
  /\ UNCHANGED <<quiet, setup, run, approved, budget>>

\* The assignments in memory decide.
Consult(h) ==
  /\ req[h].at = "consult"
  /\ IF Named(h) \in InUse THEN Done(h)
     ELSE /\ To(h, IF req[h].job = "delete" THEN "edit" ELSE IF Asks("off", Held(h)) THEN "fetch" ELSE "save")
          /\ UNCHANGED edit
  /\ UNCHANGED <<quiet, setup, run, approved, budget>>

Fetch(h) ==
  /\ req[h].at = "fetch" /\ Named(h) \in hub.listed \ hub.revoked
  /\ edit' = [edit EXCEPT ![h].doc[Named(h)].tpl = "server"]
  /\ To(h, "save")
  /\ UNCHANGED <<quiet, setup, run, approved, budget>>

FetchFails(h) ==
  /\ req[h].at = "fetch"
  /\ IF Named(h) \in hub.listed \ hub.revoked THEN Fault ELSE UNCHANGED faults
  /\ Done(h)
  /\ UNCHANGED <<quiet, setup, run, approved, asked>>

\* slip: a template taken over an entry leaves it switched on
TakenOver(e, v) == [on |-> e # None /\ e.on, tpl |-> v, ref |-> "same", keys |-> FALSE]

\* A template from the catalog carries no credentials: it is switched off.
TakenNew(e, v) == [on |-> FALSE, tpl |-> v, ref |-> "same", keys |-> FALSE]

\* With a template given, or in the control plane's words.
Templates == IF server THEN {"own", "server"} ELSE {"own"}
Created == [on : BOOLEAN, tpl : Templates, ref : {None}, keys : {FALSE}]

\* A redacted file is imported switched off; any other as it says.
Imported == {[on |-> b, tpl |-> "pack", ref |-> None, keys |-> FALSE] : b \in BOOLEAN}
Adopted == {[on |-> TRUE, tpl |-> None, ref |-> r, keys |-> FALSE] : r \in {"same", "other"}}

\* The credentials of the selected version of a component.
Rekeyed(job, e) ==
  CASE job = "addKeys" -> {[e EXCEPT !.keys = TRUE]}
    [] job = "rekey" -> {[e EXCEPT !.keys = b] : b \in BOOLEAN}
    [] job = "dropKeys" -> {[e EXCEPT !.keys = FALSE]}

\* What the request makes of the entry it holds.
Results(h) ==
  LET e == Held(h)  job == req[h].job IN
  CASE job = "create" -> Created
    [] job = "take" -> {TakenNew(e, req[h].got)}
    [] job \in {"import", "pack"} -> Imported
    [] job = "adopt" -> Adopted
    [] job = "on" -> {[e EXCEPT !.on = TRUE]}
    [] job = "off" -> {[e EXCEPT !.on = FALSE]}
    [] job = "own" -> {[e EXCEPT !.tpl = "own", !.ref = None]}
    [] job \in {"snapshot", "ensure", "sync"} -> {e}
    [] job \in {"addKeys", "rekey", "dropKeys"} -> Rekeyed(job, e)
    [] job = "delete" -> {None}

Written(h, e) ==
  /\ doc' = [edit[h].doc EXCEPT ![Named(h)] = e]
  /\ approved' = IF req[h].job = "on" THEN approved \cup {<<Named(h), e.tpl>>} ELSE approved

\* The whole document is written, as it was read but for the one entry.
Save(h) ==
  /\ req[h].at = "save" /\ req[h].job # "pack"
  /\ \E e \in Results(h) : Written(h, e)
  /\ Done(h)
  /\ UNCHANGED <<quiet, auth, use, run, budget>>

-----------------------------------------------------------------------------
(* Credentials and assignments *)

Put(S, h) == IF req[h].job \in {"bind", "assign", "attach", "pack"} THEN S \cup {Named(h)} ELSE S \ {Named(h)}

\* Without a control plane only a component that has an entry can be bound.
Bind(h) ==
  /\ req[h].at = "bind"
  /\ IF req[h].job = "bind" /\ ~server /\ doc[Named(h)] = None THEN Done(h)
     ELSE /\ edit' = [edit EXCEPT ![h].auth = Put(auth.mem, h), ![h].doc = doc]
          /\ To(h, "bindDisk")
  /\ UNCHANGED <<quiet, setup, run, approved, budget>>

BindDisk(h) ==
  /\ req[h].at = "bindDisk"
  /\ auth' = [auth EXCEPT !.disk = edit[h].auth]
  /\ To(h, IF Held(h) # None THEN "bindDoc" ELSE "bindMem")
  /\ UNCHANGED <<quiet, doc, use, edit, run, approved, budget>>

\* The overrides are copied into the entry: the whole document again.
BindDoc(h) ==
  /\ req[h].at = "bindDoc"
  /\ doc' = edit[h].doc
  /\ To(h, "bindMem")
  /\ UNCHANGED <<quiet, auth, use, edit, run, approved, budget>>

BindMem(h) ==
  /\ req[h].at = "bindMem"
  /\ auth' = [auth EXCEPT !.mem = edit[h].auth]
  /\ Done(h)
  /\ UNCHANGED <<quiet, doc, use, run, approved, budget>>

Credentialed(c, e, S) == c \in S \/ e.keys

\* A task type takes a component that could be put together; a rule any that
\* has an entry.
Assignable(c) ==
  IF doc[c] = None THEN server /\ c \in hub.listed \ hub.revoked
  ELSE doc[c].on /\ doc[c].tpl # None /\ Credentialed(c, doc[c], auth.mem)
Attachable(c) == doc[c] # None

Assign(h) ==
  /\ req[h].at = "assign"
  /\ IF IF req[h].job = "assign" THEN Assignable(Named(h)) ELSE Attachable(Named(h))
     THEN To(h, "copy") /\ UNCHANGED edit ELSE Done(h)
  /\ UNCHANGED <<quiet, setup, run, approved, budget>>

Kind(h) == IF req[h].job \in {"assign", "unassign"} THEN "task" ELSE "rule"

Copy(h) ==
  /\ req[h].at = "copy"
  /\ edit' = [edit EXCEPT ![h].use = [use EXCEPT ![Kind(h)].mem = Put(@, h)]]
  /\ To(h, "useDisk")
  /\ UNCHANGED <<quiet, setup, run, approved, budget>>

UseDisk(h) ==
  /\ req[h].at = "useDisk"
  /\ use' = [use EXCEPT ![Kind(h)].disk = edit[h].use[Kind(h)].mem]
  /\ To(h, "useMem")
  /\ UNCHANGED <<quiet, doc, auth, edit, run, approved, budget>>

UseMem(h) ==
  /\ req[h].at = "useMem"
  /\ use' = [use EXCEPT ![Kind(h)].mem = edit[h].use[Kind(h)].mem]
  /\ Done(h)
  /\ UNCHANGED <<quiet, doc, auth, run, approved, budget>>

\* A write that fails leaves the rest of the request undone.
SaveFails(h) ==
  /\ req[h].at \in {"save", "bindDisk", "bindDoc", "useDisk", "packAuth", "packTask", "packRule", "packAll"} /\ Fault
  /\ Done(h)
  /\ UNCHANGED <<quiet, setup, run, approved, asked>>

-----------------------------------------------------------------------------
(* A pack: components, credentials and assignments in one request *)

Pack(h) ==
  /\ req[h].at = "save" /\ req[h].job = "pack"
  /\ \E e \in Results(h) :
       /\ Written(h, e)
       /\ edit' = [edit EXCEPT ![h].doc[Named(h)] = e,
                     ![h].auth = IF e.on THEN Put(auth.mem, h) ELSE auth.mem,
                     ![h].use = [u \in DOMAIN use |-> Both(Put(use[u].mem, h))]]
  /\ To(h, "packAuth")
  /\ UNCHANGED <<quiet, auth, use, run, budget>>

PackAuth(h) ==
  /\ req[h].at = "packAuth"
  /\ auth' = [auth EXCEPT !.disk = edit[h].auth]
  /\ To(h, "packTask")
  /\ UNCHANGED <<quiet, doc, use, edit, run, approved, budget>>

PackTask(h) ==
  /\ req[h].at = "packTask"
  /\ use' = [use EXCEPT !.task.disk = edit[h].use.task.disk]
  /\ To(h, "packRule")
  /\ UNCHANGED <<quiet, doc, auth, edit, run, approved, budget>>

PackRule(h) ==
  /\ req[h].at = "packRule"
  /\ use' = [use EXCEPT !.rule.disk = edit[h].use.rule.disk]
  /\ To(h, "packAll")
  /\ UNCHANGED <<quiet, doc, auth, edit, run, approved, budget>>

\* Everything once more, the document as it was when the request read it.
PackAll(h) ==
  /\ req[h].at = "packAll"
  /\ doc' = edit[h].doc
  /\ auth' = [auth EXCEPT !.disk = edit[h].auth]
  /\ use' = [u \in DOMAIN use |-> [use[u] EXCEPT !.disk = edit[h].use[u].disk]]
  /\ To(h, "packMem")
  /\ UNCHANGED <<quiet, edit, run, approved, budget>>

PackMem(h) ==
  /\ req[h].at = "packMem"
  /\ auth' = [auth EXCEPT !.mem = edit[h].auth] /\ use' = [u \in DOMAIN use |-> [use[u] EXCEPT !.mem = edit[h].use[u].mem]]
  /\ Done(h)
  /\ UNCHANGED <<quiet, doc, run, approved, budget>>

-----------------------------------------------------------------------------
(* A round *)

Idles(r) == run' = [run EXCEPT ![r] = Rest]
running == <<cacheVars, mode, req, edit, approved>>

\* Whatever has an entry, credentials or an assignment is to be loaded.
Start(r) ==
  /\ run[r] = Rest
  /\ run' = [run EXCEPT ![r] = [Rest EXCEPT !.at = "read", !.auth = auth.mem,
                                  !.ids = Present(doc) \cup auth.mem \cup InUse]]
  /\ UNCHANGED <<running, hub, setup, budget>>

\* slip: the control plane is asked whenever something is to be loaded
NeedsAny(d, ids) == ids

\* What has no template of its own.
Needs(d, ids) == {c \in ids : IF d[c] = None THEN TRUE ELSE d[c].tpl = None}

\* Without a session nothing can be asked, and then nothing is loaded at all.
Read(r) ==
  /\ run[r].at = "read"
  /\ IF Needs(doc, run[r].ids) # {} /\ ~server THEN Idles(r)
     ELSE run' = [run EXCEPT ![r].doc = doc,
                             ![r].at = IF Needs(doc, run[r].ids) = {} THEN "load" ELSE "hear"]
  /\ UNCHANGED <<running, hub, setup, budget>>

Withdrawn(d) == [c \in Components |->
  IF c \in hub.revoked /\ d[c] # None THEN [d[c] EXCEPT !.on = FALSE, !.tpl = None] ELSE d[c]]

\* What was revoked is switched off, and the document of the round is saved.
Hear(r) ==
  /\ run[r].at = "hear" /\ hub.listed \cup hub.revoked # {}
  /\ LET d == run[r].doc IN
       /\ run' = [run EXCEPT ![r].doc = Withdrawn(d), ![r].at = "load",
                    ![r].items = {c \in hub.listed \ hub.revoked : c \in Needs(d, run[r].ids)
                                    /\ (IF d[c] = None THEN TRUE ELSE d[c].ref # None)}]
       /\ doc' = IF Withdrawn(d) # d THEN Withdrawn(d) ELSE doc
  /\ UNCHANGED <<running, hub, auth, use, budget>>

HearFails(r) ==
  /\ run[r].at = "hear"
  /\ IF hub.listed \cup hub.revoked # {} THEN Fault ELSE UNCHANGED faults
  /\ Idles(r)
  /\ UNCHANGED <<running, hub, setup, asked>>

DownloadLost(r) ==
  /\ run[r].at = "load" /\ Fault
  /\ \E c \in run[r].items : run' = [run EXCEPT ![r].items = @ \ {c}]
  /\ UNCHANGED <<running, hub, setup, asked>>

\* A template of the control plane is served under its own name, whatever the
\* entry of that name says; one under another name is copied into the entry.
Direct(R) == {c \in R.items : c \in R.auth /\ (IF R.doc[c] = None THEN TRUE ELSE R.doc[c].ref = "same")}
Filled(R, based) == [c \in Components |->
  IF based /\ c \in R.items \ Direct(R) /\ R.doc[c] # None /\ R.doc[c].on /\ R.doc[c].ref = "other"
  THEN [R.doc[c] EXCEPT !.tpl = "server"] ELSE R.doc[c]]
Local(R, d) == {c \in Present(d) \ Direct(R) : d[c].on /\ d[c].tpl # None /\ Credentialed(c, d[c], R.auth)}
Served(R, d) == [c \in Direct(R) \cup Local(R, d) |-> IF c \in Direct(R) THEN "server" ELSE d[c].tpl]

\* based: the credentials the copied template itself asks for are there.
Assemble(r) ==
  /\ run[r].at = "load"
  /\ \E based \in BOOLEAN :
       LET R == run[r]  d == Filled(R, based)  s == Served(R, d) IN
         /\ doc' = IF d # R.doc THEN d ELSE doc
         /\ run' = [run EXCEPT ![r] = IF s = <<>> THEN Rest
                                      ELSE [@ EXCEPT !.at = "share", !.doc = <<>>, !.serves = s]]
  /\ UNCHANGED <<running, hub, auth, use, budget>>

\* The round's copy of the credentials becomes what is in memory.
Share(r) ==
  /\ run[r].at = "share"
  /\ auth' = [auth EXCEPT !.mem = run[r].auth]
  /\ run' = [run EXCEPT ![r].at = "serve"]
  /\ UNCHANGED <<running, hub, doc, use, budget>>

Serve(r) ==
  /\ run[r].at = "serve"
  /\ Idles(r)
  /\ UNCHANGED <<running, hub, setup, budget>>

-----------------------------------------------------------------------------
(* The control plane, and crashes *)

Revoke(c) ==
  /\ server /\ Fault /\ c \notin hub.revoked
  /\ hub' = [listed |-> hub.listed \ {c}, revoked |-> hub.revoked \cup {c}]
  /\ UNCHANGED <<cacheVars, mode, req, setup, edit, run, approved, asked>>

Crash ==
  /\ Fault
  /\ lease' = None /\ req' = [h \in Handlers |-> Idle]
  /\ edit' = [h \in Handlers |-> NoEdit] /\ run' = [r \in Runs |-> Rest]
  /\ auth' = Both(auth.disk) /\ use' = [u \in DOMAIN use |-> Both(use[u].disk)]
  /\ UNCHANGED <<file, journal, settled, mode, hub, doc, approved, asked>>

Catalog(h) == CacheStep(h) /\ UNCHANGED registryVars

Request(h) ==
  \/ Catalog(h) \/ AskEdit(h) \/ Taken(h) \/ Open(h) \/ Consult(h) \/ Fetch(h) \/ FetchFails(h)
  \/ Save(h) \/ SaveFails(h)
  \/ Bind(h) \/ BindDisk(h) \/ BindDoc(h) \/ BindMem(h)
  \/ Assign(h) \/ Copy(h) \/ UseDisk(h) \/ UseMem(h)
  \/ Pack(h) \/ PackAuth(h) \/ PackTask(h) \/ PackRule(h) \/ PackAll(h) \/ PackMem(h)

Round(r) == Start(r) \/ Read(r) \/ Hear(r) \/ Assemble(r) \/ Share(r) \/ Serve(r)

Next ==
  \/ \E h \in Handlers : Request(h)
  \/ \E r \in Runs : Round(r) \/ HearFails(r) \/ DownloadLost(r)
  \/ \E c \in Components : Revoke(c)
  \/ Damage /\ UNCHANGED registryVars
  \/ Crash

\* Rounds follow each other for as long as the loop runs.
Spec == Init /\ [][Next]_vars /\ \A r \in Runs : WF_vars(Round(r))

-----------------------------------------------------------------------------
(* Properties *)

\* A template from the catalog is used for paid work only after the operator
\* switched it on: not because it replaced an entry that was on, nor because
\* another request wrote an older document back.
OnlyWhatWasSwitchedOn ==
  \A r \in Runs : run[r].at = "serve" =>
    \A c \in DOMAIN run[r].serves :
      run[r].serves[c] \in FromCatalog => <<c, run[r].serves[c]>> \in approved

\* On, with a template and credentials; and everything else that is to be
\* loaded has its own template, or can be asked for.
InOrder(c) ==
  /\ doc[c] # None
  /\ doc[c].on /\ doc[c].tpl # None /\ Credentialed(c, doc[c], auth.mem)
  /\ LET ids == Present(doc) \cup auth.mem \cup InUse IN
       \/ \A d \in ids : IF doc[d] = None THEN FALSE ELSE doc[d].tpl # None
       \/ server /\ hub.listed \cup hub.revoked # {}

\* A component in good order is served again and again; in particular one
\* that needs nothing from the control plane does not wait for it.
ServesWhenInOrder ==
  \A c \in Components :
    <>[]InOrder(c) => []<>(\E r \in Runs : run[r].at = "serve" /\ c \in DOMAIN run[r].serves)
=============================================================================
