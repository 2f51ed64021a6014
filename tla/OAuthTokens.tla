---------------------------- MODULE OAuthTokens ----------------------------
(***************************************************************************)
(* The life of one vendor OAuth profile: token managers that refresh its   *)
(* access token, the browser authorization flow that exchanges a code for  *)
(* a new one, and the operator who edits or deletes the profile.  All      *)
(* three write the same document, of which there are two copies, one in    *)
(* the database and one in a file, and no transaction spans both.          *)
(*                                                                         *)
(* The code holds them together with four durable records (the two copies, *)
(* the journal of an operator's save, the checkpoint of a token request    *)
(* and the head authorization flow) and four locks (the in-process claim   *)
(* of a token identity, the native profile lock shared by refresh and      *)
(* authorization, the document lease of the file, the database's own).     *)
(* A step taken under the database's lock, or inside one document lease,   *)
(* is one action.  A refusal changes nothing durable and drops the locks   *)
(* of its task: Abandon stands for each of them, for every storage error   *)
(* and for a task that is cancelled.                                       *)
(*                                                                         *)
(* Time is left out: whether a token is still valid, or a pending          *)
(* authorization expired, is a free choice, but one call judges one token  *)
(* once.  Issue n of the provider carries access token n and, when it      *)
(* rotates, refresh token n; 0 is "no token".                              *)
(***************************************************************************)
EXTENDS Naturals, Sequences

CONSTANTS
  Settings,     \* operator-editable contents of a profile, tokens apart
  Credentials,  \* credential fingerprints
  Cred,         \* the fingerprint of each of the settings
  Interactive,  \* credentials whose grant is authorization_code
  Managers,     \* token managers, each with its own copy of the profile
  Frozen,       \* managers made from a saved snapshot, which project nothing
  Callers,      \* tasks that need a token
  Handlers,     \* authorization callbacks
  Editors,      \* operator requests that change the profile
  MaxIssues,    \* bound: issues of the token endpoint
  None          \* the absent value

ASSUME CredAssumption ==
  /\ Cred \in [Settings -> Credentials]
  /\ Interactive \subseteq Credentials
  /\ Frozen \subseteq Managers
  /\ MaxIssues \in Nat \ {0}
ASSUME TasksAssumption ==
  /\ Callers \cap Handlers = {}
  /\ Callers \cap Editors = {}
  /\ Handlers \cap Editors = {}
  /\ None \notin Settings \cup Credentials \cup Managers
                 \cup Callers \cup Handlers \cup Editors

VARIABLES
  db,       \* the profile in system_config
  file,     \* the profile in the configuration file
  journal,  \* receipt of an operator's save the file does not show yet
  ckpt,     \* token checkpoint of each credential
  flow,     \* the head authorization flow
  claim,    \* holder of each in-process claim on a token identity
  profile,  \* holder of the native profile lock
  lease,    \* holder of the document lease across steps
  mem,      \* what each manager has cached
  pc,       \* where each task stands
  loc,      \* what each caller carries
  edit,     \* what each editor carries
  seen,     \* the flow each callback has read or written
  issues,   \* history: issues answered so far, each with its credential
  open,     \* history: token requests of a credential with no saved outcome
  burnt,    \* history: refresh tokens sent and not known to be still good
  codes,    \* history: times the code of the head flow was sent
  newest    \* history: newest refresh token saved for each credential

vars == <<db, file, journal, ckpt, flow, claim, profile, lease, mem, pc, loc,
          edit, seen, issues, open, burnt, codes, newest>>
records == <<db, file, journal, ckpt, flow>>
history == <<issues, open, burnt, codes, newest>>

Tasks == Callers \cup Handlers \cup Editors
Token == 0 .. MaxIssues

-----------------------------------------------------------------------------
(* Data.                                                                    *)

Profile == [set : Settings \cup {None}, token : Token, refresh : Token]

\* A document without this profile.
Gone == [set |-> None, token |-> 0, refresh |-> 0]

Checkpoint ==
  [state   : {"none", "intent", "ready"},
   inputs  : SUBSET Token,   \* refresh tokens this checkpoint may restore
   token   : Token,
   refresh : Token]

NoCheckpoint == [state |-> "none", inputs |-> {}, token |-> 0, refresh |-> 0]

Flow == [phase   : {"none", "pending", "intent", "ready", "applied"},
         cfg     : Profile,
         token   : Token,
         refresh : Token]

NoFlow == [phase |-> "none", cfg |-> Gone, token |-> 0, refresh |-> 0]

Journal == [before : Profile, after : Profile]
ASSUME NoneAssumption == None \notin Journal

NoLoc == [mgr |-> None, orig |-> Gone, conf |-> Gone,
          ck |-> NoCheckpoint, fresh |-> FALSE]

Loc == [mgr   : Managers \cup {None},
        orig  : Profile,     \* the manager's copy when the call began
        conf  : Profile,     \* the same with what the checkpoint restored
        ck    : Checkpoint,  \* the checkpoint this execution owns
        fresh : BOOLEAN]     \* was the cached token judged valid

NoEdit == [before |-> Gone, after |-> Gone, saving |-> FALSE]
Edit == [before : Profile, after : Profile, saving : BOOLEAN]

PC == {"idle",
       "cached", "claim", "settle", "lock", "restored", "ask", "wait",
       "project_db", "project_file", "cache",          \* callers
       "verify", "apply",                              \* callbacks, also
                                  \* ask, wait, project_db and project_file
       "recover", "clean", "read", "loaded"}           \* editors

CredOf(p) == Cred[p.set]
SameCred(p, q) == p.set # None /\ q.set # None /\ CredOf(p) = CredOf(q)
NeedsRefresh(p) == CredOf(p) \in Interactive

\* A refresh is refused while an authorization is being exchanged or projected.
Settled == flow.phase \in {"none", "pending", "applied"}

\* `verify_profile`: may a call that began with orig, and by now holds conf,
\* still speak for this copy of the profile?
Fits(doc, orig, conf) ==
  SameCred(doc, orig) /\ doc.refresh \in {orig.refresh, conf.refresh}

\* `projection_plan`, of both copies and with no operator's save pending; the
\* call's first look compares the credentials only.
PlanFirst(orig) ==
  journal = None /\ SameCred(db, orig) /\ SameCred(file, orig)
Plan(orig, conf) ==
  journal = None /\ Fits(db, orig, conf) /\ Fits(file, orig, conf)

Projected(doc, saved) == doc.token = saved.token /\ doc.refresh = saved.refresh

\* `merge_token`: a copy that already shows the token is left as it is; one
\* whose refresh token the call did not begin with is never overwritten.
Mergeable(doc, orig, saved) ==
  /\ SameCred(doc, orig)
  /\ Projected(doc, saved) \/ doc.refresh = orig.refresh

Merge(doc, saved) == [doc EXCEPT !.token = saved.token, !.refresh = saved.refresh]

-----------------------------------------------------------------------------
(* The profile is absent, or was authorized once: issue 1 went to it.       *)
Init ==
  /\ \/ db = Gone /\ issues = <<>> /\ flow = NoFlow
     \/ \E s \in Settings :
          /\ db = [set |-> s, token |-> 1,
                   refresh |-> IF Cred[s] \in Interactive THEN 1 ELSE 0]
          /\ issues = <<Cred[s]>>
          /\ flow = IF Cred[s] \in Interactive
                    THEN [phase |-> "applied", cfg |-> [Gone EXCEPT !.set = s],
                          token |-> 1, refresh |-> 1]
                    ELSE NoFlow
  /\ file = db
  /\ journal = None
  \* A client_credentials token always comes with its checkpoint.
  /\ ckpt = [k \in Credentials |->
               IF db.set # None /\ k = CredOf(db) /\ k \notin Interactive
               THEN [state |-> "ready", inputs |-> {0}, token |-> 1, refresh |-> 0]
               ELSE NoCheckpoint]
  /\ claim = [k \in Credentials |-> None]
  /\ profile = None
  /\ lease = None
  /\ mem = [m \in Managers |-> Gone]
  /\ pc = [t \in Tasks |-> "idle"]
  /\ loc = [c \in Callers |-> NoLoc]
  /\ edit = [e \in Editors |-> NoEdit]
  /\ seen = [h \in Handlers |-> NoFlow]
  /\ open = [k \in Credentials |-> 0]
  /\ burnt = {}
  /\ codes = 0
  /\ newest = [k \in Credentials |->
                 IF db.set # None /\ k = CredOf(db) THEN db.refresh ELSE 0]

-----------------------------------------------------------------------------
Goto(t, next) == pc' = [pc EXCEPT ![t] = next]
SetLoc(c, l) == loc' = [loc EXCEPT ![c] = l]

FreeLocksKeepsClaim(t) ==  \* slip: the in-process claim leaks
  /\ UNCHANGED claim
  /\ profile' = IF profile = t THEN None ELSE profile
  /\ lease' = IF lease = t THEN None ELSE lease

FreeLocks(t) ==
  /\ claim' = [k \in Credentials |-> IF claim[k] = t THEN None ELSE claim[k]]
  /\ profile' = IF profile = t THEN None ELSE profile
  /\ lease' = IF lease = t THEN None ELSE lease

\* The end of a call, however it ends: its guards go out of scope.
Forget(t) ==
  /\ loc' = IF t \in Callers THEN [loc EXCEPT ![t] = NoLoc] ELSE loc
  /\ edit' = IF t \in Editors THEN [edit EXCEPT ![t] = NoEdit] ELSE edit
  /\ seen' = IF t \in Handlers THEN [seen EXCEPT ![t] = NoFlow] ELSE seen

Leave(t) == Goto(t, "idle") /\ FreeLocks(t) /\ Forget(t)

Abandon(t) ==
  /\ pc[t] # "idle"
  /\ Leave(t)
  /\ UNCHANGED <<records, mem, history>>

-----------------------------------------------------------------------------
(* get_token.                                                               *)

\* A worker or a request builds its manager from the file.  A frozen one is
\* built again from its saved snapshot for every use, across restarts too.
LoadManager(m) ==
  /\ \A c \in Callers : loc[c].mgr # m
  /\ file.set # None
  /\ mem[m] # file
  /\ lease = None
  /\ mem' = [mem EXCEPT ![m] = file]
  /\ UNCHANGED <<records, claim, profile, lease, pc, loc, edit, seen, history>>

Stay == UNCHANGED <<records, claim, profile, lease, mem, edit, seen, history>>

GetToken(c, m) ==
  /\ pc[c] = "idle"
  /\ mem[m].set # None
  /\ m \in Frozen \/ PlanFirst(mem[m])
  /\ \E fresh \in BOOLEAN :
       /\ fresh => mem[m].token # 0
       /\ SetLoc(c, [NoLoc EXCEPT !.mgr = m, !.orig = mem[m],
                                  !.conf = mem[m], !.fresh = fresh])
       /\ \/ fresh /\ Goto(c, "cached")
          \/ /\ ~fresh
             /\ NeedsRefresh(mem[m]) => mem[m].refresh # 0
             /\ Goto(c, "claim")
  /\ Stay

\* A valid cached token is used only while no checkpoint could hold a newer one.
UseCached(c) ==
  LET l == loc[c] IN
  /\ pc[c] = "cached"
  /\ Settled
  /\ \/ /\ ckpt[CredOf(l.conf)].state = "none"
        /\ l.mgr \in Frozen \/ Plan(l.orig, l.conf)
        /\ Leave(c)
        /\ UNCHANGED <<records, mem, history>>
     \/ /\ ckpt[CredOf(l.conf)].state # "none"
        /\ NeedsRefresh(l.conf) => l.conf.refresh # 0
        /\ Goto(c, "claim")
        /\ UNCHANGED loc
        /\ Stay

\* The in-process claim waits; the native lock after it never does.
Claim(c) ==
  LET k == CredOf(loc[c].conf) IN
  /\ pc[c] = "claim"
  /\ claim[k] = None
  /\ claim' = [claim EXCEPT ![k] = c]
  /\ Goto(c, "settle")
  /\ UNCHANGED <<records, profile, lease, mem, loc, edit, seen, history>>

CheckSettled(c) ==
  /\ pc[c] = "settle"
  /\ Settled
  /\ Goto(c, "lock")
  /\ UNCHANGED loc
  /\ Stay

\* Take the profile lock and read the checkpoint it protects: an intent without
\* an answer, or a refresh token the checkpoint never knew, is refused.
Restorable(k, conf) ==
  ckpt[k].state # "none" => conf.refresh \in ckpt[k].inputs /\ ckpt[k].state = "ready"

RestoreNothing(conf, ck) == conf  \* slip: the call goes on with its own copy
Restore(conf, ck) == IF ck.state = "none" THEN conf ELSE Merge(conf, ck)

Lock(c) ==
  LET k == CredOf(loc[c].conf) IN
  /\ pc[c] = "lock"
  /\ profile = None
  /\ Restorable(k, loc[c].conf)
  /\ profile' = c
  /\ SetLoc(c, [loc[c] EXCEPT !.ck = ckpt[k], !.conf = Restore(@, ckpt[k])])
  /\ Goto(c, "restored")
  /\ UNCHANGED <<records, claim, lease, mem, edit, seen, history>>

MayGoOn(c) ==
  /\ pc[c] = "restored"
  /\ loc[c].mgr \in Frozen \/ Plan(loc[c].orig, loc[c].conf)

\* The restored token is still valid: project it again, send nothing.
Reuse(c) ==
  LET l == loc[c] IN
  /\ MayGoOn(c)
  /\ l.ck.state = "ready"
  /\ l.conf.token = l.orig.token => l.fresh
  /\ Goto(c, IF l.mgr \in Frozen THEN "cache" ELSE "project_db")
  /\ UNCHANGED loc
  /\ Stay

\* The durable intent of a new request.
Intent(l) ==
  [state |-> "intent", token |-> l.ck.token, refresh |-> l.conf.refresh,
   inputs |-> l.ck.inputs \cup {l.conf.refresh}]

Intend(c) ==
  LET l == loc[c]  k == CredOf(l.conf) IN
  /\ MayGoOn(c)
  /\ ~(l.fresh /\ l.conf.token = l.orig.token)
  /\ ckpt[k] = l.ck
  /\ ckpt' = [ckpt EXCEPT ![k] = Intent(l)]
  /\ SetLoc(c, [l EXCEPT !.ck = Intent(l)])
  /\ Goto(c, "ask")
  /\ UNCHANGED <<db, file, journal, flow, claim, profile, lease, mem, edit,
                 seen, history>>

Ask(c) ==
  LET conf == loc[c].conf IN
  /\ pc[c] = "ask"
  /\ open' = [open EXCEPT ![CredOf(conf)] = @ + 1]
  /\ burnt' = burnt \cup ({conf.refresh} \ {0})
  /\ Goto(c, "wait")
  /\ UNCHANGED <<records, claim, profile, lease, mem, loc, edit, seen, issues,
                 codes, newest>>

\* The provider's answer, with refresh token r, and its checkpoint.  Nobody else
\* may have written the intent meanwhile.
Ready(l, n, r) ==
  [state |-> "ready", token |-> n, refresh |-> r, inputs |-> l.ck.inputs \cup {r}]

Answer(c, r) ==
  LET l == loc[c]
      k == CredOf(l.conf)
      n == Len(issues) + 1
      ready == Ready(l, n, r)
  IN /\ pc[c] = "wait"
     /\ n <= MaxIssues
     /\ ckpt[k] = l.ck
     /\ ckpt' = [ckpt EXCEPT ![k] = ready]
     /\ SetLoc(c, [l EXCEPT !.ck = ready, !.conf = Restore(@, ready)])
     /\ issues' = Append(issues, k)
     /\ open' = [open EXCEPT ![k] = @ - 1]
     /\ burnt' = IF r = n THEN burnt ELSE burnt \ {r}
     /\ newest' = IF r = n THEN [newest EXCEPT ![k] = n] ELSE newest
     /\ Goto(c, IF l.mgr \in Frozen THEN "cache" ELSE "project_db")
     /\ UNCHANGED <<db, file, journal, flow, claim, profile, lease, mem, edit,
                    seen, codes>>

\* The answer may rotate the refresh token; one that is lost or refused leaves
\* the intent for good.
Finish(c) ==
  \/ Answer(c, loc[c].ck.refresh)
  \/ Answer(c, Len(issues) + 1) /\ CredOf(loc[c].conf) \in Interactive

\* `project_token_db`, under the checkpoint it owns.
ProjectDb(c) ==
  LET l == loc[c] IN
  /\ pc[c] = "project_db"
  /\ journal = None
  /\ ckpt[CredOf(l.conf)] = l.ck
  /\ Mergeable(db, l.orig, l.conf)
  /\ db' = Merge(db, l.conf)
  /\ Goto(c, "project_file")
  /\ UNCHANGED <<file, journal, ckpt, flow, claim, profile, lease, mem, loc,
                 edit, seen, history>>

ProjectFile(c) ==
  LET l == loc[c] IN
  /\ pc[c] = "project_file"
  /\ lease = None
  /\ Mergeable(file, l.orig, l.conf)
  /\ file' = Merge(file, l.conf)
  /\ Goto(c, "cache")
  /\ UNCHANGED <<db, journal, ckpt, flow, claim, profile, lease, mem, loc,
                 edit, seen, history>>

CacheToken(c) ==
  /\ pc[c] = "cache"
  /\ mem' = IF loc[c].mgr \in Frozen THEN mem
            ELSE [mem EXCEPT ![loc[c].mgr] = Merge(@, loc[c].conf)]
  /\ Leave(c)
  /\ UNCHANGED <<records, history>>

-----------------------------------------------------------------------------
(* The authorization flow.                                                  *)

\* A new head replaces a flow that was applied or that expired unanswered.
StartAuthorization ==
  /\ Handlers # {}
  /\ profile = None /\ lease = None /\ journal = None
  /\ file.set # None /\ NeedsRefresh(file)
  /\ flow.phase \in {"none", "pending", "applied"}
  /\ flow' = [NoFlow EXCEPT !.phase = "pending", !.cfg = file]
  /\ codes' = 0
  /\ UNCHANGED <<db, file, journal, ckpt, claim, profile, lease, mem, pc, loc,
                 edit, seen, issues, open, burnt, newest>>

CallbackAgain(h) ==  \* slip: an exchange without an answer is tried again
  /\ pc[h] = "idle"
  /\ flow.phase \in {"pending", "intent", "ready"}
  /\ profile = None /\ journal = None
  /\ profile' = h
  /\ seen' = [seen EXCEPT ![h] = flow]
  /\ Goto(h, IF flow.phase = "ready" THEN "project_db" ELSE "verify")
  /\ UNCHANGED <<records, claim, lease, mem, loc, edit, history>>

\* A callback of an applied flow only compares the copies with it again.
Callback(h) ==
  /\ pc[h] = "idle"
  /\ flow.phase \in {"pending", "ready"}
  /\ profile = None /\ journal = None
  /\ profile' = h
  /\ seen' = [seen EXCEPT ![h] = flow]
  /\ Goto(h, IF flow.phase = "pending" THEN "verify" ELSE "project_db")
  /\ UNCHANGED <<records, claim, lease, mem, loc, edit, history>>

SaveFlow(h, f) == flow = seen[h] /\ flow' = f /\ seen' = [seen EXCEPT ![h] = f]

\* Nothing may have changed since the operator was sent to the provider.
BeginExchange(h) ==
  LET f == seen[h] IN
  /\ pc[h] = "verify"
  /\ lease = None /\ journal = None
  /\ file = f.cfg /\ db = file
  /\ SaveFlow(h, [f EXCEPT !.phase = "intent"])
  /\ Goto(h, "ask")
  /\ UNCHANGED <<db, file, journal, ckpt, claim, profile, lease, mem, loc, edit,
                 history>>

SendCode(h) ==
  /\ pc[h] = "ask"
  /\ codes' = codes + 1
  /\ Goto(h, "wait")
  /\ UNCHANGED <<records, claim, profile, lease, mem, loc, edit, seen, issues,
                 open, burnt, newest>>

\* A rejected or unanswered code leaves the flow in its intent for good, and so
\* does an answer that finds an operator's save pending.
FinishExchange(h) ==
  LET f == seen[h]
      k == CredOf(f.cfg)
      n == Len(issues) + 1
  IN /\ pc[h] = "wait"
     /\ n <= MaxIssues
     /\ journal = None
     /\ \E r \in {0, n} :
          /\ SaveFlow(h, [f EXCEPT !.phase = "ready", !.token = n, !.refresh = r])
          /\ newest' = IF r = n THEN [newest EXCEPT ![k] = n] ELSE newest
     /\ issues' = Append(issues, k)
     /\ Goto(h, "project_db")
     /\ UNCHANGED <<db, file, journal, ckpt, claim, profile, lease, mem, loc,
                    edit, open, burnt, codes>>

\* What a flow projects: the refresh token stays when the answer brought none.
Authorized(f) ==
  [f.cfg EXCEPT !.token = f.token, !.refresh = IF f.refresh = 0 THEN @ ELSE f.refresh]

ProjectAuthorizationDb(h) ==
  LET f == seen[h]  saved == Authorized(f) IN
  /\ pc[h] = "project_db"
  /\ flow = f
  /\ Plan(f.cfg, saved)
  /\ Mergeable(db, f.cfg, saved)
  /\ db' = Merge(db, saved)
  /\ Goto(h, "project_file")
  /\ UNCHANGED <<file, journal, ckpt, flow, claim, profile, lease, mem, loc,
                 edit, seen, history>>

ProjectAuthorizationFile(h) ==
  LET f == seen[h]  saved == Authorized(f) IN
  /\ pc[h] = "project_file"
  /\ lease = None
  /\ Mergeable(file, f.cfg, saved)
  /\ file' = Merge(file, saved)
  /\ Goto(h, "apply")
  /\ UNCHANGED <<db, journal, ckpt, flow, claim, profile, lease, mem, loc,
                 edit, seen, history>>

Apply(h) ==
  /\ pc[h] = "apply"
  /\ journal = None
  /\ flow = seen[h]
  /\ flow' = [flow EXCEPT !.phase = "applied"]
  /\ Leave(h)
  /\ UNCHANGED <<db, file, journal, ckpt, mem, history>>

-----------------------------------------------------------------------------
(* The operator.  Loading and saving both recover the journal first.        *)

OpenDocument(e) ==
  /\ pc[e] = "idle"
  /\ lease = None
  /\ lease' = e
  /\ Goto(e, IF journal = None THEN "read" ELSE "recover")
  /\ UNCHANGED <<records, claim, profile, mem, loc, edit, seen, history>>

Recoverable == db = journal.after /\ file \in {journal.before, journal.after}

\* `recover`: the committed snapshot is replayed onto the file ...
InstallFile(e) ==
  /\ pc[e] = "recover"
  /\ Recoverable
  /\ file' = journal.after
  /\ Goto(e, "clean")
  /\ UNCHANGED <<db, journal, ckpt, flow, claim, profile, lease, mem, loc, edit,
                 seen, history>>

\* ... and then its receipt is removed, if both still agree with it.
RemoveReceipt(e) ==
  /\ pc[e] = "clean"
  /\ db = journal.after /\ file = journal.after
  /\ journal' = None
  /\ IF edit[e].saving THEN Leave(e)
     ELSE Goto(e, "read") /\ UNCHANGED <<claim, profile, lease, loc, edit, seen>>
  /\ UNCHANGED <<db, file, ckpt, flow, mem, history>>

\* What an operator may turn a profile into: new credentials drop its tokens,
\* other settings keep them; the grant of an existing profile never changes.
Edits(p) ==
  IF p.set = None THEN {[Gone EXCEPT !.set = s] : s \in Settings}
  ELSE {Gone} \cup
       {IF Cred[s] = CredOf(p) THEN [p EXCEPT !.set = s] ELSE [Gone EXCEPT !.set = s]
          : s \in {x \in Settings : Cred[x] \in Interactive <=> NeedsRefresh(p)}}

\* `load_config`, and the form the operator submits.
ReadConfig(e) ==
  /\ pc[e] = "read"
  /\ file = db
  /\ \E after \in Edits(file) :
       edit' = [edit EXCEPT ![e] = [before |-> file, after |-> after, saving |-> FALSE]]
  /\ lease' = None
  /\ Goto(e, "loaded")
  /\ UNCHANGED <<records, claim, profile, mem, loc, seen, history>>

SaveableAny(before) == TRUE  \* slip: the copies are not compared
Saveable(before) == file = before /\ db = before

\* The commit of `save_config`; its tail is the recovery of its own journal.
\* A journal another editor left is recovered first, which changes the file and
\* so refuses this save.
SaveConfig(e) ==
  LET before == edit[e].before  after == edit[e].after IN
  /\ pc[e] = "loaded"
  /\ lease = None
  /\ journal = None
  /\ Saveable(before)
  /\ db' = after
  /\ journal' = [before |-> before, after |-> after]
  /\ lease' = e
  /\ edit' = [edit EXCEPT ![e].saving = TRUE]
  /\ newest' = IF before.set # None /\ ~SameCred(before, after)
               THEN [newest EXCEPT ![CredOf(before)] = 0] ELSE newest
  /\ Goto(e, "recover")
  /\ UNCHANGED <<file, ckpt, flow, claim, profile, mem, loc, seen, issues, open,
                 burnt, codes>>

-----------------------------------------------------------------------------
(* The process dies with all its tasks, managers and locks.                 *)
Crash ==
  /\ \E t \in Tasks : pc[t] # "idle"
  /\ pc' = [t \in Tasks |-> "idle"]
  /\ loc' = [c \in Callers |-> NoLoc]
  /\ edit' = [e \in Editors |-> NoEdit]
  /\ seen' = [h \in Handlers |-> NoFlow]
  /\ claim' = [k \in Credentials |-> None]
  /\ profile' = None
  /\ lease' = None
  /\ mem' = [m \in Managers |-> IF m \in Frozen THEN mem[m] ELSE Gone]
  /\ UNCHANGED <<records, history>>

CallerStep(c) ==
  \/ UseCached(c) \/ CheckSettled(c) \/ Lock(c) \/ Reuse(c) \/ Intend(c)
  \/ Ask(c) \/ Finish(c) \/ ProjectDb(c) \/ ProjectFile(c) \/ CacheToken(c)

HandlerStep(h) ==
  \/ Callback(h) \/ BeginExchange(h) \/ SendCode(h) \/ FinishExchange(h)
  \/ ProjectAuthorizationDb(h) \/ ProjectAuthorizationFile(h) \/ Apply(h)

EditorStep(e) ==
  \/ OpenDocument(e) \/ InstallFile(e) \/ RemoveReceipt(e) \/ ReadConfig(e)
  \/ SaveConfig(e)

Next ==
  \/ \E m \in Managers : LoadManager(m) \/ \E c \in Callers : GetToken(c, m)
  \/ \E c \in Callers : Claim(c) \/ CallerStep(c)
  \/ \E h \in Handlers : HandlerStep(h)
  \/ \E e \in Editors : EditorStep(e)
  \/ \E t \in Tasks : Abandon(t)
  \/ StartAuthorization
  \/ Crash

Spec == Init /\ [][Next]_vars

\* A live task goes on or gives up, and the claim serves its waiters in turn.
\* Only the claim makes a call wait: every lock is tried once, and a request
\* ends with its answer or its 15 second timeout.
Fairness ==
  \A c \in Callers :
    /\ WF_vars(CallerStep(c) \/ (pc[c] # "claim" /\ Abandon(c)))
    /\ SF_vars(Claim(c))

FairSpec == Spec /\ Fairness

-----------------------------------------------------------------------------
TypeOK ==
  /\ db \in Profile /\ file \in Profile
  /\ mem \in [Managers -> Profile]
  /\ journal \in Journal \cup {None}
  /\ ckpt \in [Credentials -> Checkpoint]
  /\ flow \in Flow
  /\ claim \in [Credentials -> Callers \cup {None}]
  /\ profile \in Callers \cup Handlers \cup {None}
  /\ lease \in Editors \cup {None}
  /\ pc \in [Tasks -> PC]
  /\ loc \in [Callers -> Loc]
  /\ edit \in [Editors -> Edit]
  /\ seen \in [Handlers -> Flow]
  /\ issues \in Seq(Credentials) /\ Len(issues) <= MaxIssues
  /\ open \in [Credentials -> Nat]
  /\ burnt \subseteq Token
  /\ codes \in Nat
  /\ newest \in [Credentials -> Token]

(* A token request whose outcome is not saved is the only one of its        *)
(* credentials: an unknown issue is never repeated (recovery.rs:1).         *)
OneOpenRequest == \A k \in Credentials : open[k] <= 1

(* No request carries a refresh token that an earlier request may have      *)
(* rotated away: the managers' stale copies go through the checkpoint.      *)
RotatedTokenIsRetired ==
  [][\A c \in Callers :
       pc[c] = "ask" /\ pc'[c] = "wait" => loc[c].conf.refresh \notin burnt]_vars

(* The code of one authorization is exchanged at most once, over retried    *)
(* callbacks, lost answers and restarts.                                    *)
CodeSentOnce == codes <= 1

(* Tokens never end up in a profile with other credentials than those they  *)
(* were issued to, although the operator edits while requests are under way.*)
TokensMatchCredentials ==
  \A p \in {db, file} \cup {mem[m] : m \in Managers} :
    \A n \in {p.token, p.refresh} \ {0} : p.set # None /\ issues[n] = CredOf(p)

(* While the receipt of a save is pending, nobody but its recovery writes    *)
(* the database copy: no token is projected onto a save that may be replayed.*)
JournalGuardsDatabase == journal # None => db = journal.after

(* The newest refresh token saved for the profile's credentials is still in *)
(* the checkpoint, the head flow or the profile, unless the operator        *)
(* dropped it with its credentials.                                         *)
NewestTokenKept ==
  db.set # None /\ newest[CredOf(db)] # 0 =>
    newest[CredOf(db)] \in {ckpt[CredOf(db)].refresh, flow.refresh, db.refresh}

(* A call for a token ends, whoever holds the claim and the locks.          *)
EveryCallEnds == \A c \in Callers : pc[c] # "idle" ~> pc[c] = "idle"

=============================================================================
