------------------------- MODULE OAuthTokens_proofs -------------------------
(***************************************************************************)
(* Proofs about OAuthTokens for every set of settings, managers and tasks. *)
(* Control adds to the stated properties what a task knows while it holds  *)
(* the profile lock; Provenance says of every token in flight to which     *)
(* credentials it was issued; Kept, where the newest refresh token is.     *)
(***************************************************************************)
EXTENDS OAuthTokens, SequenceTheorems, TLAPS

\* A call for a token carries a profile of its manager.
LiveCalls ==
  \A c \in Callers : pc[c] # "idle" =>
    /\ loc[c].mgr \in Managers
    /\ loc[c].orig.set \in Settings
    /\ loc[c].conf.set = loc[c].orig.set

\* The steps a task takes under the profile lock.
Exclusive == {"restored", "verify", "ask", "wait", "project_db", "project_file",
              "apply", "cache"}

OneHolder == \A t \in Tasks : pc[t] \in Exclusive => profile = t

\* An open request stands behind a durable intent, and its caller knows it.
Requests ==
  /\ \A k \in Credentials : open[k] > 0 => open[k] = 1 /\ ckpt[k].state = "intent"
  /\ \A c \in Callers :
       LET k == CredOf(loc[c].conf) IN
       /\ pc[c] = "restored" => loc[c].ck.state # "intent"
       /\ pc[c] = "ask" => ckpt[k].state = "intent" /\ open[k] = 0
       /\ pc[c] = "wait" => ckpt[k].state = "intent" /\ open[k] = 1

\* A flow, and what a callback has read of it, is about some profile.
LiveFlows ==
  /\ flow.phase # "none" => flow.cfg.set \in Settings
  /\ \A h \in Handlers : pc[h] # "idle" => seen[h].cfg.set \in Settings

\* An editor reads and recovers under the document lease.
LeasedEditors ==
  \A e \in Editors :
    /\ pc[e] \in {"recover", "clean", "read"} => lease = e
    /\ pc[e] = "recover" => journal # None

Control ==
  TypeOK /\ LiveCalls /\ LiveFlows /\ LeasedEditors /\ OneHolder /\ Requests

-----------------------------------------------------------------------------
(* What the operators return.                                               *)

LEMMA CredType == \A p \in Profile : p.set \in Settings => CredOf(p) \in Credentials
  BY CredAssumption DEF CredOf, Profile

LEMMA GoneType ==
  /\ Gone \in Profile /\ NoCheckpoint \in Checkpoint /\ NoFlow \in Flow
  /\ NoLoc \in Loc /\ NoEdit \in Edit
  BY CredAssumption DEF Gone, NoCheckpoint, NoFlow, NoLoc, NoEdit, Profile, Checkpoint,
     Flow, Loc, Edit, Token

\* Only the tokens of a copy are ever merged into another.
LEMMA MergeType ==
  ASSUME NEW doc \in Profile, NEW saved, saved.token \in Token, saved.refresh \in Token
  PROVE  /\ Merge(doc, saved) \in Profile
         /\ Merge(doc, saved).set = doc.set
         /\ Merge(doc, saved).token = saved.token
         /\ Merge(doc, saved).refresh = saved.refresh
  BY DEF Merge, Profile

LEMMA RestoreType ==
  ASSUME NEW conf \in Profile, NEW ck \in Checkpoint
  PROVE  Restore(conf, ck) \in Profile /\ Restore(conf, ck).set = conf.set
  BY MergeType DEF Restore, Checkpoint

LEMMA AuthorizedType ==
  ASSUME NEW f \in Flow
  PROVE  Authorized(f) \in Profile /\ Authorized(f).set = f.cfg.set
  BY DEF Authorized, Flow, Profile

LEMMA EditsType == \A p \in Profile : \A after \in Edits(p) : after \in Profile
  BY GoneType DEF Edits, Gone, Profile

LEMMA CallCred ==
  ASSUME TypeOK, LiveCalls, NEW c \in Callers, pc[c] # "idle"
  PROVE  CredOf(loc[c].conf) \in Credentials
  BY CredType DEF TypeOK, LiveCalls, Loc

\* A call that ends leaves well-typed locks and locals behind.
LEMMA LeaveType ==
  ASSUME TypeOK, NEW t \in Tasks, Leave(t)
  PROVE  /\ claim' \in [Credentials -> Callers \cup {None}]
         /\ profile' \in Callers \cup Handlers \cup {None}
         /\ lease' \in Editors \cup {None}
         /\ pc' \in [Tasks -> PC]
         /\ loc' \in [Callers -> Loc]
         /\ edit' \in [Editors -> Edit]
         /\ seen' \in [Handlers -> Flow]
  BY GoneType DEF Leave, Goto, FreeLocks, Forget, TypeOK, PC

-----------------------------------------------------------------------------
(* Type correctness.                                                        *)

LEMMA TypeStep ==
  ASSUME Control, [Next]_vars
  PROVE  TypeOK'
  <1> USE DEF Control
  <1>1. ASSUME NEW m \in Managers, LoadManager(m) PROVE TypeOK'
    <2>1. mem' \in [Managers -> Profile]
      BY <1>1 DEF LoadManager, TypeOK
    <2> QED
      BY <2>1, <1>1 DEF LoadManager, TypeOK, records, history
  <1>2. ASSUME NEW c \in Callers, NEW m \in Managers, GetToken(c, m) PROVE TypeOK'
    <2>1. pc' \in [Tasks -> PC]
      BY <1>2 DEF GetToken, Goto, TypeOK, PC, Tasks
    <2>2. mem[m] \in Profile /\ NoLoc \in Loc
      BY GoneType DEF TypeOK, NoLoc, Loc
    <2>3. \A f \in BOOLEAN : [NoLoc EXCEPT !.mgr = m, !.orig = mem[m], !.conf = mem[m], !.fresh = f] \in Loc
      BY <2>2 DEF Loc
    <2>4. loc' \in [Callers -> Loc]
      BY <1>2, <2>3 DEF GetToken, SetLoc, TypeOK
    <2> QED
      BY <2>1, <2>2, <2>3, <2>4, <1>2 DEF GetToken, TypeOK, records, history, Stay
  <1>3. ASSUME NEW c \in Callers, UseCached(c) PROVE TypeOK'
    <2>1. CASE Leave(c) /\ UNCHANGED <<records, mem, history>>
      BY <2>1, LeaveType DEF TypeOK, records, history, Tasks
    <2>2. CASE Goto(c, "claim") /\ UNCHANGED loc /\ Stay
      BY <2>2 DEF Goto, Stay, TypeOK, records, history, PC, Tasks
    <2> QED
      BY <2>1, <2>2, <1>3 DEF UseCached, TypeOK, records, history
  <1>4. ASSUME NEW c \in Callers, Claim(c) PROVE TypeOK'
    <2>1. pc' \in [Tasks -> PC]
      BY <1>4 DEF Claim, Goto, TypeOK, PC, Tasks
    <2>2. CredOf(loc[c].conf) \in Credentials
      BY <1>4, CallCred DEF Claim
    <2>3. claim' \in [Credentials -> Callers \cup {None}]
      BY <1>4, <2>2 DEF Claim, TypeOK
    <2> QED
      BY <2>1, <2>2, <2>3, <1>4 DEF Claim, TypeOK, records, history
  <1>5. ASSUME NEW c \in Callers, CheckSettled(c) PROVE TypeOK'
    <2>1. pc' \in [Tasks -> PC]
      BY <1>5 DEF CheckSettled, Goto, TypeOK, PC, Tasks
    <2> QED
      BY <2>1, <1>5 DEF CheckSettled, TypeOK, records, history, Stay
  <1>6. ASSUME NEW c \in Callers, Lock(c) PROVE TypeOK'
    <2>1. pc' \in [Tasks -> PC]
      BY <1>6 DEF Lock, Goto, TypeOK, PC, Tasks
    <2>2. CredOf(loc[c].conf) \in Credentials
      BY <1>6, CallCred DEF Lock
    <2>3. loc[c] \in Loc /\ ckpt[CredOf(loc[c].conf)] \in Checkpoint
      BY <2>2 DEF TypeOK
    <2>4. Restore(loc[c].conf, ckpt[CredOf(loc[c].conf)]) \in Profile
      BY <2>3, RestoreType DEF Loc
    <2>5. loc' \in [Callers -> Loc]
      BY <1>6, <2>3, <2>4 DEF Lock, SetLoc, TypeOK, Loc
    <2> QED
      BY <2>1, <2>2, <2>3, <2>4, <2>5, <1>6 DEF Lock, TypeOK, records, history
  <1>7. ASSUME NEW c \in Callers, Reuse(c) PROVE TypeOK'
    <2>1. pc' \in [Tasks -> PC]
      BY <1>7 DEF Reuse, Goto, TypeOK, PC, Tasks
    <2> QED
      BY <2>1, <1>7 DEF Reuse, TypeOK, records, history, Stay
  <1>8. ASSUME NEW c \in Callers, Intend(c) PROVE TypeOK'
    <2>1. pc' \in [Tasks -> PC]
      BY <1>8 DEF Intend, Goto, TypeOK, PC, Tasks
    <2>2. loc[c] \in Loc /\ CredOf(loc[c].conf) \in Credentials
      BY <1>8, CallCred DEF Intend, MayGoOn, TypeOK
    <2>3. Intent(loc[c]) \in Checkpoint
      BY <2>2 DEF Intent, Loc, Profile, Checkpoint
    <2>4. ckpt' = [ckpt EXCEPT ![CredOf(loc[c].conf)] = Intent(loc[c])] /\ loc' = [loc EXCEPT ![c] = [loc[c] EXCEPT !.ck = Intent(loc[c])]]
      BY <1>8 DEF Intend, SetLoc
    <2>5. ckpt' \in [Credentials -> Checkpoint]
      BY <2>2, <2>3, <2>4 DEF TypeOK
    <2>6. loc' \in [Callers -> Loc]
      BY <2>2, <2>3, <2>4 DEF TypeOK, Loc
    <2> QED
      BY <2>1, <2>2, <2>3, <2>4, <2>5, <2>6, <1>8 DEF Intend, TypeOK, records, history
  <1>9. ASSUME NEW c \in Callers, Ask(c) PROVE TypeOK'
    <2>1. pc' \in [Tasks -> PC]
      BY <1>9 DEF Ask, Goto, TypeOK, PC, Tasks
    <2>2. loc[c].conf.refresh \in Token /\ CredOf(loc[c].conf) \in Credentials
      BY <1>9, CallCred DEF Ask, TypeOK, Loc, Profile
    <2>3. open' \in [Credentials -> Nat] /\ burnt' \subseteq Token
      BY <1>9, <2>2 DEF Ask, TypeOK
    <2> QED
      BY <2>1, <2>2, <2>3, <1>9 DEF Ask, TypeOK, records, history
  <1>10. ASSUME NEW c \in Callers, Finish(c) PROVE TypeOK'
    <2>1. pc' \in [Tasks -> PC]
      BY <1>10 DEF Finish, Answer, Goto, TypeOK, PC, Tasks
    <2>2. loc[c] \in Loc /\ CredOf(loc[c].conf) \in Credentials
      BY <1>10, CallCred DEF Finish, Answer, TypeOK
    <2>3. Len(issues) \in Nat /\ Len(issues) + 1 \in Token
      BY <1>10, LenProperties DEF Finish, Answer, TypeOK, Token
    <2>4. PICK r \in Token : Answer(c, r)
      BY <1>10, <2>2, <2>3 DEF Finish, Loc, Checkpoint
    <2>5. Ready(loc[c], Len(issues) + 1, r) \in Checkpoint
      BY <2>2, <2>3, <2>4 DEF Ready, Loc, Checkpoint
    <2>6. Restore(loc[c].conf, Ready(loc[c], Len(issues) + 1, r)) \in Profile
      BY <2>2, <2>5, RestoreType DEF Loc
    <2>7. ckpt' \in [Credentials -> Checkpoint]
      BY <2>2, <2>4, <2>5 DEF Answer, TypeOK
    <2>8. loc' \in [Callers -> Loc]
      BY <2>2, <2>4, <2>5, <2>6 DEF Answer, SetLoc, TypeOK, Loc
    <2>9. burnt' \subseteq Token /\ newest' \in [Credentials -> Token]
      BY <2>2, <2>3, <2>4 DEF Answer, TypeOK
    <2>10. open[CredOf(loc[c].conf)] = 1
      BY <2>2, <2>4 DEF Answer, Requests
    <2>11. open' \in [Credentials -> Nat]
      BY <2>2, <2>4, <2>10 DEF Answer, TypeOK
    <2>12. issues' \in Seq(Credentials) /\ Len(issues') <= MaxIssues
      BY <2>2, <2>3, <2>4, AppendProperties DEF Answer, TypeOK
    <2> QED
      BY <2>1, <2>2, <2>3, <2>4, <2>5, <2>6, <2>7, <2>8, <2>9, <2>10, <2>11, <2>12, <1>10, <2>4 DEF Finish, TypeOK, records, history, Answer
  <1>11. ASSUME NEW c \in Callers, ProjectDb(c) PROVE TypeOK'
    <2>1. pc' \in [Tasks -> PC]
      BY <1>11 DEF ProjectDb, Goto, TypeOK, PC, Tasks
    <2>2. db' \in Profile
      BY <1>11, MergeType DEF ProjectDb, TypeOK, Loc, Profile
    <2> QED
      BY <2>1, <2>2, <1>11 DEF ProjectDb, TypeOK, records, history
  <1>12. ASSUME NEW c \in Callers, ProjectFile(c) PROVE TypeOK'
    <2>1. pc' \in [Tasks -> PC]
      BY <1>12 DEF ProjectFile, Goto, TypeOK, PC, Tasks
    <2>2. file' \in Profile
      BY <1>12, MergeType DEF ProjectFile, TypeOK, Loc, Profile
    <2> QED
      BY <2>1, <2>2, <1>12 DEF ProjectFile, TypeOK, records, history
  <1>13. ASSUME NEW c \in Callers, CacheToken(c) PROVE TypeOK'
    <2>1. \A m \in Managers : Merge(mem[m], loc[c].conf) \in Profile
      BY MergeType DEF TypeOK, Loc, Profile
    <2>2. mem' \in [Managers -> Profile]
      BY <1>13, <2>1 DEF CacheToken, TypeOK
    <2> QED
      BY <2>1, <2>2, <1>13, LeaveType DEF CacheToken, TypeOK, records, history, Tasks
  <1>14. ASSUME NEW h \in Handlers, Callback(h) PROVE TypeOK'
    <2>1. pc' \in [Tasks -> PC]
      BY <1>14 DEF Callback, Goto, TypeOK, PC, Tasks
    <2>2. seen' \in [Handlers -> Flow]
      BY <1>14 DEF Callback, TypeOK
    <2> QED
      BY <2>1, <2>2, <1>14 DEF Callback, TypeOK, records, history
  <1>15. ASSUME NEW h \in Handlers, BeginExchange(h) PROVE TypeOK'
    <2>1. pc' \in [Tasks -> PC]
      BY <1>15 DEF BeginExchange, Goto, TypeOK, PC, Tasks
    <2>2. [seen[h] EXCEPT !.phase = "intent"] \in Flow
      BY DEF TypeOK, Flow
    <2>3. flow' \in Flow /\ seen' \in [Handlers -> Flow]
      BY <1>15, <2>2 DEF BeginExchange, SaveFlow, TypeOK
    <2> QED
      BY <2>1, <2>2, <2>3, <1>15 DEF BeginExchange, TypeOK, records, history
  <1>16. ASSUME NEW h \in Handlers, SendCode(h) PROVE TypeOK'
    <2>1. pc' \in [Tasks -> PC]
      BY <1>16 DEF SendCode, Goto, TypeOK, PC, Tasks
    <2>2. codes' \in Nat
      BY <1>16 DEF SendCode, TypeOK
    <2> QED
      BY <2>1, <2>2, <1>16 DEF SendCode, TypeOK, records, history
  <1>17. ASSUME NEW h \in Handlers, FinishExchange(h) PROVE TypeOK'
    <2>1. pc' \in [Tasks -> PC]
      BY <1>17 DEF FinishExchange, Goto, TypeOK, PC, Tasks
    <2>2. Len(issues) \in Nat /\ Len(issues) + 1 \in Token /\ 0 \in Token
      BY <1>17, LenProperties, CredAssumption DEF FinishExchange, TypeOK, Token
    <2>3. CredOf(seen[h].cfg) \in Credentials
      BY <1>17, CredType DEF FinishExchange, LiveFlows, TypeOK, Flow
    <2>4. \A r \in Token : [seen[h] EXCEPT !.phase = "ready", !.token = Len(issues) + 1, !.refresh = r] \in Flow
      BY <2>2 DEF TypeOK, Flow
    <2>5. PICK r \in Token : SaveFlow(h, [seen[h] EXCEPT !.phase = "ready", !.token = Len(issues) + 1, !.refresh = r])
      BY <1>17, <2>2 DEF FinishExchange
    <2>6. flow' \in Flow /\ seen' \in [Handlers -> Flow]
      BY <2>4, <2>5 DEF SaveFlow, TypeOK
    <2>7. newest' \in [Credentials -> Token]
      BY <1>17, <2>2, <2>3 DEF FinishExchange, TypeOK
    <2>8. issues' \in Seq(Credentials) /\ Len(issues') <= MaxIssues
      BY <1>17, <2>2, <2>3, AppendProperties DEF FinishExchange, TypeOK
    <2> QED
      BY <2>1, <2>2, <2>3, <2>4, <2>5, <2>6, <2>7, <2>8, <1>17 DEF FinishExchange, TypeOK, records, history
  <1>18. ASSUME NEW h \in Handlers, ProjectAuthorizationDb(h) PROVE TypeOK'
    <2>1. pc' \in [Tasks -> PC]
      BY <1>18 DEF ProjectAuthorizationDb, Goto, TypeOK, PC, Tasks
    <2>2. db' \in Profile
      BY <1>18, AuthorizedType, MergeType DEF ProjectAuthorizationDb, TypeOK, Profile
    <2> QED
      BY <2>1, <2>2, <1>18 DEF ProjectAuthorizationDb, TypeOK, records, history
  <1>19. ASSUME NEW h \in Handlers, ProjectAuthorizationFile(h) PROVE TypeOK'
    <2>1. pc' \in [Tasks -> PC]
      BY <1>19 DEF ProjectAuthorizationFile, Goto, TypeOK, PC, Tasks
    <2>2. file' \in Profile
      BY <1>19, AuthorizedType, MergeType DEF ProjectAuthorizationFile, TypeOK, Profile
    <2> QED
      BY <2>1, <2>2, <1>19 DEF ProjectAuthorizationFile, TypeOK, records, history
  <1>20. ASSUME NEW h \in Handlers, Apply(h) PROVE TypeOK'
    <2>1. flow' \in Flow
      BY <1>20 DEF Apply, TypeOK, Flow
    <2> QED
      BY <2>1, <1>20, LeaveType DEF Apply, TypeOK, records, history, Tasks
  <1>21. ASSUME NEW e \in Editors, OpenDocument(e) PROVE TypeOK'
    <2>1. pc' \in [Tasks -> PC]
      BY <1>21 DEF OpenDocument, Goto, TypeOK, PC, Tasks
    <2>2. lease' \in Editors \cup {None}
      BY <1>21 DEF OpenDocument
    <2> QED
      BY <2>1, <2>2, <1>21 DEF OpenDocument, TypeOK, records, history
  <1>22. ASSUME NEW e \in Editors, InstallFile(e) PROVE TypeOK'
    <2>1. pc' \in [Tasks -> PC]
      BY <1>22 DEF InstallFile, Goto, TypeOK, PC, Tasks
    <2>2. file' \in Profile
      BY <1>22 DEF InstallFile, LeasedEditors, TypeOK, Journal
    <2> QED
      BY <2>1, <2>2, <1>22 DEF InstallFile, TypeOK, records, history
  <1>23. ASSUME NEW e \in Editors, RemoveReceipt(e) PROVE TypeOK'
    <2>1. CASE Leave(e)
      BY <2>1, <1>23, LeaveType DEF RemoveReceipt, TypeOK, Tasks, history
    <2>2. CASE Goto(e, "read") /\ UNCHANGED <<claim, profile, lease, loc, edit, seen>>
      BY <2>2, <1>23 DEF RemoveReceipt, Goto, TypeOK, PC, Tasks, history
    <2> QED
      BY <2>1, <2>2, <1>23 DEF RemoveReceipt, TypeOK, records, history
  <1>24. ASSUME NEW e \in Editors, ReadConfig(e) PROVE TypeOK'
    <2>1. pc' \in [Tasks -> PC]
      BY <1>24 DEF ReadConfig, Goto, TypeOK, PC, Tasks
    <2>2. \A after \in Edits(file) : after \in Profile
      BY EditsType DEF TypeOK
    <2>3. edit' \in [Editors -> Edit]
      BY <1>24, <2>2 DEF ReadConfig, TypeOK, Edit
    <2> QED
      BY <2>1, <2>2, <2>3, <1>24 DEF ReadConfig, TypeOK, records, history
  <1>25. ASSUME NEW e \in Editors, SaveConfig(e) PROVE TypeOK'
    <2>1. pc' \in [Tasks -> PC]
      BY <1>25 DEF SaveConfig, Goto, TypeOK, PC, Tasks
    <2>2. edit[e] \in Edit
      BY DEF TypeOK
    <2>3. db' \in Profile /\ journal' \in Journal /\ edit' \in [Editors -> Edit]
      BY <1>25, <2>2 DEF SaveConfig, TypeOK, Edit, Journal
    <2>4. newest' = newest \/ newest' = [newest EXCEPT ![CredOf(edit[e].before)] = 0]
      BY <1>25 DEF SaveConfig
    <2>5. 0 \in Token
      BY CredAssumption DEF Token
    <2>6. newest' \in [Credentials -> Token]
      BY <2>4, <2>5 DEF TypeOK
    <2> QED
      BY <2>1, <2>2, <2>3, <2>4, <2>5, <2>6, <1>25 DEF SaveConfig, TypeOK, records, history
  <1>26. ASSUME NEW t \in Tasks, Abandon(t) PROVE TypeOK'
    <2>1. Leave(t)
      BY <1>26 DEF Abandon
    <2> QED
      BY <2>1, <1>26, LeaveType DEF Abandon, TypeOK, records, history
  <1>27. ASSUME StartAuthorization PROVE TypeOK'
    <2>1. flow' \in Flow
      BY <1>27, GoneType DEF StartAuthorization, TypeOK, Flow, NoFlow, Token
    <2> QED
      BY <2>1, <1>27 DEF StartAuthorization, TypeOK, records, history
  <1>28. ASSUME Crash PROVE TypeOK'
    <2>1. NoLoc \in Loc /\ NoEdit \in Edit /\ NoFlow \in Flow /\ Gone \in Profile
      BY GoneType
    <2> QED
      BY <2>1, <1>28 DEF Crash, TypeOK, records, history, PC
  <1>29. CASE UNCHANGED vars
    BY <1>29 DEF vars, TypeOK
  <1> QED
    BY <1>1, <1>2, <1>3, <1>4, <1>5, <1>6, <1>7, <1>8, <1>9, <1>10, <1>11, <1>12, <1>13, <1>14, <1>15, <1>16, <1>17, <1>18, <1>19, <1>20, <1>21, <1>22, <1>23, <1>24, <1>25, <1>26, <1>27, <1>28, <1>29
    DEF Next, CallerStep, HandlerStep, EditorStep

-----------------------------------------------------------------------------
LEMMA LiveCallsStep ==
  ASSUME Control, TypeOK', [Next]_vars
  PROVE  LiveCalls'
  <1> USE TasksAssumption DEF Control, TypeOK, LiveCalls, Loc, Goto, SetLoc, Tasks, records, history, NoLoc, Merge, Profile
  <1>1. ASSUME NEW m \in Managers, LoadManager(m) PROVE LiveCalls'
    BY <1>1 DEF LoadManager
  <1>2. ASSUME NEW c \in Callers, NEW m \in Managers, GetToken(c, m) PROVE LiveCalls'
    BY <1>2 DEF GetToken, Stay
  <1>3. ASSUME NEW c \in Callers, UseCached(c) PROVE LiveCalls'
    BY <1>3 DEF UseCached, Stay, Leave, Forget, FreeLocks
  <1>4. ASSUME NEW c \in Callers, Claim(c) PROVE LiveCalls'
    BY <1>4 DEF Claim
  <1>5. ASSUME NEW c \in Callers, CheckSettled(c) PROVE LiveCalls'
    BY <1>5 DEF CheckSettled, Stay
  <1>6. ASSUME NEW c \in Callers, Lock(c) PROVE LiveCalls'
    BY <1>6 DEF Lock, Restore, Restorable
  <1>7. ASSUME NEW c \in Callers, Reuse(c) PROVE LiveCalls'
    BY <1>7 DEF Reuse, Stay, MayGoOn
  <1>8. ASSUME NEW c \in Callers, Intend(c) PROVE LiveCalls'
    BY <1>8 DEF Intend, MayGoOn, Intent
  <1>9. ASSUME NEW c \in Callers, Ask(c) PROVE LiveCalls'
    BY <1>9 DEF Ask
  <1>10. ASSUME NEW c \in Callers, Finish(c) PROVE LiveCalls'
    <2>1. PICK r : Answer(c, r)
      BY <1>10 DEF Finish
    <2>2. loc' = [loc EXCEPT ![c] = [loc[c] EXCEPT !.ck = Ready(loc[c], Len(issues) + 1, r),
                              !.conf = Restore(loc[c].conf, Ready(loc[c], Len(issues) + 1, r))]]
      BY <2>1 DEF Answer
    <2>3. Restore(loc[c].conf, Ready(loc[c], Len(issues) + 1, r)).set = loc[c].conf.set
      BY DEF Restore, Ready
    <2> QED
      BY <2>1, <2>2, <2>3 DEF Answer
  <1>11. ASSUME NEW c \in Callers, ProjectDb(c) PROVE LiveCalls'
    BY <1>11 DEF ProjectDb
  <1>12. ASSUME NEW c \in Callers, ProjectFile(c) PROVE LiveCalls'
    BY <1>12 DEF ProjectFile
  <1>13. ASSUME NEW c \in Callers, CacheToken(c) PROVE LiveCalls'
    BY <1>13 DEF CacheToken, Leave, Forget, FreeLocks
  <1>14. ASSUME NEW h \in Handlers, Callback(h) PROVE LiveCalls'
    BY <1>14 DEF Callback
  <1>15. ASSUME NEW h \in Handlers, BeginExchange(h) PROVE LiveCalls'
    BY <1>15 DEF BeginExchange, SaveFlow
  <1>16. ASSUME NEW h \in Handlers, SendCode(h) PROVE LiveCalls'
    BY <1>16 DEF SendCode
  <1>17. ASSUME NEW h \in Handlers, FinishExchange(h) PROVE LiveCalls'
    BY <1>17 DEF FinishExchange, SaveFlow
  <1>18. ASSUME NEW h \in Handlers, ProjectAuthorizationDb(h) PROVE LiveCalls'
    BY <1>18 DEF ProjectAuthorizationDb
  <1>19. ASSUME NEW h \in Handlers, ProjectAuthorizationFile(h) PROVE LiveCalls'
    BY <1>19 DEF ProjectAuthorizationFile
  <1>20. ASSUME NEW h \in Handlers, Apply(h) PROVE LiveCalls'
    BY <1>20 DEF Apply, Leave, Forget, FreeLocks
  <1>21. ASSUME NEW e \in Editors, OpenDocument(e) PROVE LiveCalls'
    BY <1>21 DEF OpenDocument
  <1>22. ASSUME NEW e \in Editors, InstallFile(e) PROVE LiveCalls'
    BY <1>22 DEF InstallFile
  <1>23. ASSUME NEW e \in Editors, RemoveReceipt(e) PROVE LiveCalls'
    BY <1>23 DEF RemoveReceipt, Leave, Forget, FreeLocks
  <1>24. ASSUME NEW e \in Editors, ReadConfig(e) PROVE LiveCalls'
    BY <1>24 DEF ReadConfig
  <1>25. ASSUME NEW e \in Editors, SaveConfig(e) PROVE LiveCalls'
    BY <1>25 DEF SaveConfig
  <1>26. ASSUME NEW t \in Tasks, Abandon(t) PROVE LiveCalls'
    BY <1>26 DEF Abandon, Leave, Forget, FreeLocks
  <1>27. ASSUME StartAuthorization PROVE LiveCalls'
    BY <1>27 DEF StartAuthorization
  <1>28. ASSUME Crash PROVE LiveCalls'
    BY <1>28 DEF Crash
  <1>29. CASE UNCHANGED vars
    BY <1>29 DEF vars
  <1> QED
    BY <1>1, <1>2, <1>3, <1>4, <1>5, <1>6, <1>7, <1>8, <1>9, <1>10, <1>11, <1>12, <1>13, <1>14, <1>15, <1>16, <1>17, <1>18, <1>19, <1>20, <1>21, <1>22, <1>23, <1>24, <1>25, <1>26, <1>27, <1>28, <1>29
    DEF Next, CallerStep, HandlerStep, EditorStep

LEMMA FlowsStep ==
  ASSUME Control, TypeOK', [Next]_vars
  PROVE  LiveFlows' /\ LeasedEditors'
  <1> USE TasksAssumption DEF Control, TypeOK, LiveFlows, LeasedEditors, Flow, Goto, SetLoc, Tasks, records, history, NoFlow, Gone, Merge, Profile, Journal
  <1>1. ASSUME NEW m \in Managers, LoadManager(m) PROVE LiveFlows' /\ LeasedEditors'
    BY <1>1 DEF LoadManager
  <1>2. ASSUME NEW c \in Callers, NEW m \in Managers, GetToken(c, m) PROVE LiveFlows' /\ LeasedEditors'
    BY <1>2 DEF GetToken, Stay
  <1>3. ASSUME NEW c \in Callers, UseCached(c) PROVE LiveFlows' /\ LeasedEditors'
    <2>1. LiveFlows'
      BY <1>3 DEF UseCached, Stay, Leave, Forget, FreeLocks
    <2>2. \A e \in Editors : pc'[e] = pc[e]
      BY <1>3 DEF UseCached, Stay, Leave
    <2>3. journal' = journal /\ \A e \in Editors : lease = e => lease' = e
      BY <1>3 DEF UseCached, Stay, Leave, FreeLocks
    <2> QED
      BY <2>1, <2>2, <2>3
  <1>4. ASSUME NEW c \in Callers, Claim(c) PROVE LiveFlows' /\ LeasedEditors'
    BY <1>4 DEF Claim
  <1>5. ASSUME NEW c \in Callers, CheckSettled(c) PROVE LiveFlows' /\ LeasedEditors'
    BY <1>5 DEF CheckSettled, Stay
  <1>6. ASSUME NEW c \in Callers, Lock(c) PROVE LiveFlows' /\ LeasedEditors'
    BY <1>6 DEF Lock, Restore, Restorable
  <1>7. ASSUME NEW c \in Callers, Reuse(c) PROVE LiveFlows' /\ LeasedEditors'
    BY <1>7 DEF Reuse, Stay, MayGoOn
  <1>8. ASSUME NEW c \in Callers, Intend(c) PROVE LiveFlows' /\ LeasedEditors'
    BY <1>8 DEF Intend, MayGoOn, Intent
  <1>9. ASSUME NEW c \in Callers, Ask(c) PROVE LiveFlows' /\ LeasedEditors'
    BY <1>9 DEF Ask
  <1>10. ASSUME NEW c \in Callers, Finish(c) PROVE LiveFlows' /\ LeasedEditors'
    BY <1>10 DEF Finish, Answer, Ready, Restore
  <1>11. ASSUME NEW c \in Callers, ProjectDb(c) PROVE LiveFlows' /\ LeasedEditors'
    BY <1>11 DEF ProjectDb
  <1>12. ASSUME NEW c \in Callers, ProjectFile(c) PROVE LiveFlows' /\ LeasedEditors'
    BY <1>12 DEF ProjectFile
  <1>13. ASSUME NEW c \in Callers, CacheToken(c) PROVE LiveFlows' /\ LeasedEditors'
    <2>1. LiveFlows'
      BY <1>13 DEF CacheToken, Leave, Forget, FreeLocks
    <2>2. \A e \in Editors : pc'[e] = pc[e]
      BY <1>13 DEF CacheToken, Leave
    <2>3. journal' = journal /\ \A e \in Editors : lease = e => lease' = e
      BY <1>13 DEF CacheToken, Leave, FreeLocks
    <2> QED
      BY <2>1, <2>2, <2>3
  <1>14. ASSUME NEW h \in Handlers, Callback(h) PROVE LiveFlows' /\ LeasedEditors'
    BY <1>14 DEF Callback
  <1>15. ASSUME NEW h \in Handlers, BeginExchange(h) PROVE LiveFlows' /\ LeasedEditors'
    BY <1>15 DEF BeginExchange, SaveFlow
  <1>16. ASSUME NEW h \in Handlers, SendCode(h) PROVE LiveFlows' /\ LeasedEditors'
    BY <1>16 DEF SendCode
  <1>17. ASSUME NEW h \in Handlers, FinishExchange(h) PROVE LiveFlows' /\ LeasedEditors'
    BY <1>17 DEF FinishExchange, SaveFlow
  <1>18. ASSUME NEW h \in Handlers, ProjectAuthorizationDb(h) PROVE LiveFlows' /\ LeasedEditors'
    BY <1>18 DEF ProjectAuthorizationDb
  <1>19. ASSUME NEW h \in Handlers, ProjectAuthorizationFile(h) PROVE LiveFlows' /\ LeasedEditors'
    BY <1>19 DEF ProjectAuthorizationFile
  <1>20. ASSUME NEW h \in Handlers, Apply(h) PROVE LiveFlows' /\ LeasedEditors'
    <2>1. LiveFlows'
      BY <1>20 DEF Apply, Leave, Forget, FreeLocks
    <2>2. \A e \in Editors : pc'[e] = pc[e]
      BY <1>20 DEF Apply, Leave
    <2>3. journal' = journal /\ \A e \in Editors : lease = e => lease' = e
      BY <1>20 DEF Apply, Leave, FreeLocks
    <2> QED
      BY <2>1, <2>2, <2>3
  <1>21. ASSUME NEW e \in Editors, OpenDocument(e) PROVE LiveFlows' /\ LeasedEditors'
    BY <1>21 DEF OpenDocument
  <1>22. ASSUME NEW e \in Editors, InstallFile(e) PROVE LiveFlows' /\ LeasedEditors'
    BY <1>22 DEF InstallFile
  <1>23. ASSUME NEW e \in Editors, RemoveReceipt(e) PROVE LiveFlows' /\ LeasedEditors'
    <2>1. \A u \in Editors : u # e => pc'[u] = pc[u] /\ pc[u] \notin {"recover", "clean", "read"}
      BY <1>23 DEF RemoveReceipt, Leave
    <2>2. pc'[e] \in {"idle", "read"} /\ (pc'[e] = "read" => lease' = e)
      BY <1>23 DEF RemoveReceipt, Leave
    <2>3. LeasedEditors'
      BY <2>1, <2>2
    <2> QED
      BY <2>3, <1>23 DEF RemoveReceipt, Leave, Forget
  <1>24. ASSUME NEW e \in Editors, ReadConfig(e) PROVE LiveFlows' /\ LeasedEditors'
    BY <1>24 DEF ReadConfig
  <1>25. ASSUME NEW e \in Editors, SaveConfig(e) PROVE LiveFlows' /\ LeasedEditors'
    <2>1. edit[e].before \in Profile /\ edit[e].after \in Profile
      BY DEF Edit
    <2>2. journal' # None
      BY <2>1, <1>25, NoneAssumption DEF SaveConfig
    <2>3. LiveFlows'
      BY <1>25 DEF SaveConfig
    <2>4. pc' = [pc EXCEPT ![e] = "recover"] /\ lease' = e /\ lease = None
      BY <1>25 DEF SaveConfig
    <2>5. \A u \in Editors : pc[u] \notin {"recover", "clean", "read"}
      BY <2>4
    <2>6. LeasedEditors'
      BY <2>2, <2>4, <2>5
    <2> QED
      BY <2>3, <2>6
  <1>26. ASSUME NEW t \in Tasks, Abandon(t) PROVE LiveFlows' /\ LeasedEditors'
    BY <1>26 DEF Abandon, Leave, Forget, FreeLocks
  <1>27. ASSUME StartAuthorization PROVE LiveFlows' /\ LeasedEditors'
    BY <1>27 DEF StartAuthorization
  <1>28. ASSUME Crash PROVE LiveFlows' /\ LeasedEditors'
    BY <1>28 DEF Crash
  <1>29. CASE UNCHANGED vars
    BY <1>29 DEF vars
  <1> QED
    BY <1>1, <1>2, <1>3, <1>4, <1>5, <1>6, <1>7, <1>8, <1>9, <1>10, <1>11, <1>12, <1>13, <1>14, <1>15, <1>16, <1>17, <1>18, <1>19, <1>20, <1>21, <1>22, <1>23, <1>24, <1>25, <1>26, <1>27, <1>28, <1>29
    DEF Next, CallerStep, HandlerStep, EditorStep

LEMMA HolderStep ==
  ASSUME Control, TypeOK', [Next]_vars
  PROVE  OneHolder'
  <1> USE TasksAssumption DEF Control, TypeOK, OneHolder, Exclusive, Goto, Tasks, records, history
  <1>1. ASSUME NEW m \in Managers, LoadManager(m) PROVE OneHolder'
    BY <1>1 DEF LoadManager
  <1>2. ASSUME NEW c \in Callers, NEW m \in Managers, GetToken(c, m) PROVE OneHolder'
    BY <1>2 DEF GetToken, Stay
  <1>3. ASSUME NEW c \in Callers, UseCached(c) PROVE OneHolder'
    BY <1>3 DEF UseCached, Stay, Leave, Forget, FreeLocks
  <1>4. ASSUME NEW c \in Callers, Claim(c) PROVE OneHolder'
    BY <1>4 DEF Claim
  <1>5. ASSUME NEW c \in Callers, CheckSettled(c) PROVE OneHolder'
    BY <1>5 DEF CheckSettled, Stay
  <1>6. ASSUME NEW c \in Callers, Lock(c) PROVE OneHolder'
    BY <1>6 DEF Lock, Restore, Restorable
  <1>7. ASSUME NEW c \in Callers, Reuse(c) PROVE OneHolder'
    BY <1>7 DEF Reuse, Stay, MayGoOn
  <1>8. ASSUME NEW c \in Callers, Intend(c) PROVE OneHolder'
    BY <1>8 DEF Intend, MayGoOn, Intent
  <1>9. ASSUME NEW c \in Callers, Ask(c) PROVE OneHolder'
    BY <1>9 DEF Ask
  <1>10. ASSUME NEW c \in Callers, Finish(c) PROVE OneHolder'
    BY <1>10 DEF Finish, Answer, Ready, Restore
  <1>11. ASSUME NEW c \in Callers, ProjectDb(c) PROVE OneHolder'
    BY <1>11 DEF ProjectDb
  <1>12. ASSUME NEW c \in Callers, ProjectFile(c) PROVE OneHolder'
    BY <1>12 DEF ProjectFile
  <1>13. ASSUME NEW c \in Callers, CacheToken(c) PROVE OneHolder'
    BY <1>13 DEF CacheToken, Leave, Forget, FreeLocks
  <1>14. ASSUME NEW h \in Handlers, Callback(h) PROVE OneHolder'
    BY <1>14 DEF Callback
  <1>15. ASSUME NEW h \in Handlers, BeginExchange(h) PROVE OneHolder'
    BY <1>15 DEF BeginExchange, SaveFlow
  <1>16. ASSUME NEW h \in Handlers, SendCode(h) PROVE OneHolder'
    BY <1>16 DEF SendCode
  <1>17. ASSUME NEW h \in Handlers, FinishExchange(h) PROVE OneHolder'
    BY <1>17 DEF FinishExchange, SaveFlow
  <1>18. ASSUME NEW h \in Handlers, ProjectAuthorizationDb(h) PROVE OneHolder'
    BY <1>18 DEF ProjectAuthorizationDb
  <1>19. ASSUME NEW h \in Handlers, ProjectAuthorizationFile(h) PROVE OneHolder'
    BY <1>19 DEF ProjectAuthorizationFile
  <1>20. ASSUME NEW h \in Handlers, Apply(h) PROVE OneHolder'
    BY <1>20 DEF Apply, Leave, Forget, FreeLocks
  <1>21. ASSUME NEW e \in Editors, OpenDocument(e) PROVE OneHolder'
    BY <1>21 DEF OpenDocument
  <1>22. ASSUME NEW e \in Editors, InstallFile(e) PROVE OneHolder'
    BY <1>22 DEF InstallFile
  <1>23. ASSUME NEW e \in Editors, RemoveReceipt(e) PROVE OneHolder'
    BY <1>23 DEF RemoveReceipt, Leave, Forget, FreeLocks
  <1>24. ASSUME NEW e \in Editors, ReadConfig(e) PROVE OneHolder'
    BY <1>24 DEF ReadConfig
  <1>25. ASSUME NEW e \in Editors, SaveConfig(e) PROVE OneHolder'
    BY <1>25 DEF SaveConfig
  <1>26. ASSUME NEW t \in Tasks, Abandon(t) PROVE OneHolder'
    BY <1>26 DEF Abandon, Leave, Forget, FreeLocks
  <1>27. ASSUME StartAuthorization PROVE OneHolder'
    BY <1>27 DEF StartAuthorization
  <1>28. ASSUME Crash PROVE OneHolder'
    BY <1>28 DEF Crash
  <1>29. CASE UNCHANGED vars
    BY <1>29 DEF vars
  <1> QED
    BY <1>1, <1>2, <1>3, <1>4, <1>5, <1>6, <1>7, <1>8, <1>9, <1>10, <1>11, <1>12, <1>13, <1>14, <1>15, <1>16, <1>17, <1>18, <1>19, <1>20, <1>21, <1>22, <1>23, <1>24, <1>25, <1>26, <1>27, <1>28, <1>29
    DEF Next, CallerStep, HandlerStep, EditorStep

LEMMA RequestsStep ==
  ASSUME Control, TypeOK', [Next]_vars
  PROVE  Requests'
  <1> USE TasksAssumption DEF Control, TypeOK, Requests, OneHolder, Exclusive, Loc, Checkpoint, Goto, SetLoc, Tasks, records, history, LiveCalls
  <1>1. ASSUME NEW m \in Managers, LoadManager(m) PROVE Requests'
    BY <1>1, CallCred DEF LoadManager
  <1>2. ASSUME NEW c \in Callers, NEW m \in Managers, GetToken(c, m) PROVE Requests'
    BY <1>2, CallCred DEF GetToken, Stay
  <1>3. ASSUME NEW c \in Callers, UseCached(c) PROVE Requests'
    <2>1. CASE Leave(c) /\ UNCHANGED <<records, mem, history>>
      BY <2>1 DEF Leave, Forget
    <2>2. CASE Goto(c, "claim") /\ UNCHANGED loc /\ Stay
      BY <2>2 DEF Stay
    <2> QED
      BY <2>1, <2>2, <1>3 DEF UseCached
  <1>4. ASSUME NEW c \in Callers, Claim(c) PROVE Requests'
    BY <1>4, CallCred DEF Claim
  <1>5. ASSUME NEW c \in Callers, CheckSettled(c) PROVE Requests'
    BY <1>5, CallCred DEF CheckSettled, Stay
  <1>6. ASSUME NEW c \in Callers, Lock(c) PROVE Requests'
    <2> DEFINE k == CredOf(loc[c].conf)
    <2>1. k \in Credentials /\ ckpt[k] \in Checkpoint
      BY <1>6, CallCred DEF Lock
    <2>2. ckpt[k].state # "intent"
      BY <1>6, <2>1 DEF Lock, Restorable
    <2>3. loc'[c].ck = ckpt[k] /\ pc'[c] = "restored"
      BY <1>6 DEF Lock
    <2>4. \A d \in Callers : d # c => loc'[d] = loc[d] /\ pc'[d] = pc[d] /\ pc[d] \notin Exclusive
      BY <1>6 DEF Lock
    <2>5. UNCHANGED <<open, ckpt>>
      BY <1>6 DEF Lock
    <2> QED
      BY <2>2, <2>3, <2>4, <2>5
  <1>7. ASSUME NEW c \in Callers, Reuse(c) PROVE Requests'
    BY <1>7, CallCred DEF Reuse, Stay, MayGoOn
  <1>8. ASSUME NEW c \in Callers, Intend(c) PROVE Requests'
    BY <1>8, CallCred DEF Intend, MayGoOn, Intent
  <1>9. ASSUME NEW c \in Callers, Ask(c) PROVE Requests'
    BY <1>9, CallCred DEF Ask
  <1>10. ASSUME NEW c \in Callers, Finish(c) PROVE Requests'
    <2> DEFINE k == CredOf(loc[c].conf)
    <2>1. PICK r : Answer(c, r)
      BY <1>10 DEF Finish
    <2>2. k \in Credentials /\ open[k] = 1
      BY <2>1, CallCred DEF Answer
    <2>3. \A j \in Credentials : j # k => open'[j] = open[j] /\ ckpt'[j] = ckpt[j]
      BY <2>1 DEF Answer
    <2>4. open'[k] = 0
      BY <2>1, <2>2 DEF Answer
    <2>5. pc'[c] \in {"cache", "project_db"}
      BY <2>1 DEF Answer
    <2>6. \A d \in Callers : d # c => pc'[d] = pc[d] /\ pc[d] \notin Exclusive
      BY <2>1 DEF Answer
    <2>7. \A j \in Credentials : open'[j] > 0 => open'[j] = 1 /\ ckpt'[j].state = "intent"
      <3>1. \A j \in Credentials : open[j] > 0 => open[j] = 1 /\ ckpt[j].state = "intent"
        OBVIOUS
      <3>2. SUFFICES ASSUME NEW j \in Credentials, open'[j] > 0
                     PROVE  open'[j] = 1 /\ ckpt'[j].state = "intent"
        OBVIOUS
      <3>3. j # k
        BY <2>4, <3>2
      <3> HIDE DEF k, Control, TypeOK, Requests
      <3> QED
        BY <3>1, <3>2, <3>3, <2>3
    <2>8. \A d \in Callers : pc'[d] \notin {"restored", "ask", "wait"}
      BY <2>5, <2>6
    <2> QED
      BY <2>7, <2>8
  <1>11. ASSUME NEW c \in Callers, ProjectDb(c) PROVE Requests'
    BY <1>11, CallCred DEF ProjectDb
  <1>12. ASSUME NEW c \in Callers, ProjectFile(c) PROVE Requests'
    BY <1>12, CallCred DEF ProjectFile
  <1>13. ASSUME NEW c \in Callers, CacheToken(c) PROVE Requests'
    BY <1>13, CallCred DEF CacheToken, Leave, Forget, FreeLocks
  <1>14. ASSUME NEW h \in Handlers, Callback(h) PROVE Requests'
    BY <1>14, CallCred DEF Callback
  <1>15. ASSUME NEW h \in Handlers, BeginExchange(h) PROVE Requests'
    BY <1>15, CallCred DEF BeginExchange, SaveFlow
  <1>16. ASSUME NEW h \in Handlers, SendCode(h) PROVE Requests'
    BY <1>16, CallCred DEF SendCode
  <1>17. ASSUME NEW h \in Handlers, FinishExchange(h) PROVE Requests'
    BY <1>17, CallCred DEF FinishExchange, SaveFlow
  <1>18. ASSUME NEW h \in Handlers, ProjectAuthorizationDb(h) PROVE Requests'
    BY <1>18, CallCred DEF ProjectAuthorizationDb
  <1>19. ASSUME NEW h \in Handlers, ProjectAuthorizationFile(h) PROVE Requests'
    BY <1>19, CallCred DEF ProjectAuthorizationFile
  <1>20. ASSUME NEW h \in Handlers, Apply(h) PROVE Requests'
    BY <1>20, CallCred DEF Apply, Leave, Forget, FreeLocks
  <1>21. ASSUME NEW e \in Editors, OpenDocument(e) PROVE Requests'
    BY <1>21, CallCred DEF OpenDocument
  <1>22. ASSUME NEW e \in Editors, InstallFile(e) PROVE Requests'
    BY <1>22, CallCred DEF InstallFile
  <1>23. ASSUME NEW e \in Editors, RemoveReceipt(e) PROVE Requests'
    BY <1>23, CallCred DEF RemoveReceipt, Leave, Forget, FreeLocks
  <1>24. ASSUME NEW e \in Editors, ReadConfig(e) PROVE Requests'
    BY <1>24, CallCred DEF ReadConfig
  <1>25. ASSUME NEW e \in Editors, SaveConfig(e) PROVE Requests'
    BY <1>25, CallCred DEF SaveConfig
  <1>26. ASSUME NEW t \in Tasks, Abandon(t) PROVE Requests'
    BY <1>26, CallCred DEF Abandon, Leave, Forget, FreeLocks
  <1>27. ASSUME StartAuthorization PROVE Requests'
    BY <1>27, CallCred DEF StartAuthorization
  <1>28. ASSUME Crash PROVE Requests'
    BY <1>28, CallCred DEF Crash
  <1>29. CASE UNCHANGED vars
    BY <1>29, CallCred DEF vars
  <1> QED
    BY <1>1, <1>2, <1>3, <1>4, <1>5, <1>6, <1>7, <1>8, <1>9, <1>10, <1>11, <1>12, <1>13, <1>14, <1>15, <1>16, <1>17, <1>18, <1>19, <1>20, <1>21, <1>22, <1>23, <1>24, <1>25, <1>26, <1>27, <1>28, <1>29
    DEF Next, CallerStep, HandlerStep, EditorStep

LEMMA ControlInit == Init => Control
  <1> SUFFICES ASSUME Init PROVE Control
    OBVIOUS
  <1> USE CredAssumption, GoneType DEF Init, Tasks, NoFlow, Gone, NoCheckpoint
  <1>1. db \in Profile
    BY DEF Profile, Token
  <1>2. ckpt \in [Credentials -> Checkpoint]
    BY DEF Checkpoint, Token
  <1>3. flow \in Flow
    BY DEF Flow, Profile, Token
  <1>4. issues \in Seq(Credentials) /\ Len(issues) <= MaxIssues
    <2>1. CASE issues = <<>>
      <3>1. <<>> \in Seq(Credentials) /\ Len(<<>>) = 0 /\ 0 <= MaxIssues
        OBVIOUS
      <3> QED
        BY ONLY <3>1, <2>1
    <2>2. ASSUME NEW s \in Settings, issues = <<Cred[s]>>
          PROVE  issues \in Seq(Credentials) /\ Len(issues) <= MaxIssues
      <3>1. Cred[s] \in Credentials /\ 1 <= MaxIssues
        OBVIOUS
      <3>2. <<Cred[s]>> \in Seq(Credentials) /\ Len(<<Cred[s]>>) = 1
        BY <3>1
      <3> QED
        BY ONLY <3>1, <3>2, <2>2
    <2> QED
      BY <2>1, <2>2
  <1>5. newest \in [Credentials -> Token]
    BY <1>1 DEF Profile, Token
  <1>6. /\ journal = None /\ claim \in [Credentials -> Callers \cup {None}]
        /\ profile = None /\ lease = None
        /\ pc \in [Tasks -> PC] /\ \A t \in Tasks : pc[t] = "idle"
        /\ loc \in [Callers -> Loc] /\ edit \in [Editors -> Edit]
        /\ seen \in [Handlers -> Flow] /\ mem \in [Managers -> Profile]
        /\ open \in [Credentials -> Nat] /\ burnt \subseteq Token /\ codes \in Nat
        /\ \A k \in Credentials : open[k] = 0
    BY DEF PC
  <1>7. TypeOK
    BY <1>1, <1>2, <1>3, <1>4, <1>5, <1>6 DEF TypeOK
  <1>8. LiveCalls /\ LeasedEditors /\ OneHolder /\ Requests
    BY <1>6 DEF LiveCalls, LeasedEditors, OneHolder, Exclusive, Requests
  <1>9. LiveFlows
    BY <1>6 DEF LiveFlows
  <1> QED
    BY <1>7, <1>8, <1>9 DEF Control

LEMMA ControlStep == Control /\ [Next]_vars => Control'
  BY TypeStep, LiveCallsStep, FlowsStep, HolderStep, RequestsStep DEF Control

LEMMA ControlInvariant == Spec => []Control
  BY ControlInit, ControlStep, PTL DEF Spec

(* Every reachable state is well typed, whatever profiles, managers and     *)
(* tasks there are.                                                         *)
THEOREM TypeCorrect == Spec => []TypeOK
  <1>1. Control => TypeOK
    BY DEF Control
  <1> QED
    BY <1>1, ControlInvariant, PTL

(* An unknown issue is never repeated: a credential has at most one request *)
(* whose outcome is not saved (recovery.rs:1).                              *)
THEOREM OneRequest == Spec => []OneOpenRequest
  <1>1. Control => OneOpenRequest
    <2> SUFFICES ASSUME Control, NEW k \in Credentials PROVE open[k] <= 1
      BY DEF OneOpenRequest
    <2>1. open[k] \in Nat /\ (open[k] > 0 => open[k] = 1)
      BY DEF Control, TypeOK, Requests
    <2> QED
      BY <2>1
  <1> QED
    BY <1>1, ControlInvariant, PTL

-----------------------------------------------------------------------------
(* The journal of a save guards the database copy, over every crash and     *)
(* whatever the other writers do.                                           *)

LEMMA JournalInit == Init => JournalGuardsDatabase
  BY DEF Init, JournalGuardsDatabase

LEMMA JournalStep ==
  ASSUME JournalGuardsDatabase, [Next]_vars
  PROVE  JournalGuardsDatabase'
  <1> USE DEF JournalGuardsDatabase, records
  <1>1. ASSUME NEW m \in Managers, LoadManager(m) PROVE JournalGuardsDatabase'
    BY <1>1 DEF LoadManager
  <1>2. ASSUME NEW c \in Callers, NEW m \in Managers, GetToken(c, m) PROVE JournalGuardsDatabase'
    BY <1>2 DEF GetToken, Stay
  <1>3. ASSUME NEW c \in Callers, UseCached(c) PROVE JournalGuardsDatabase'
    BY <1>3 DEF UseCached, Stay, Leave, Forget, FreeLocks
  <1>4. ASSUME NEW c \in Callers, Claim(c) PROVE JournalGuardsDatabase'
    BY <1>4 DEF Claim
  <1>5. ASSUME NEW c \in Callers, CheckSettled(c) PROVE JournalGuardsDatabase'
    BY <1>5 DEF CheckSettled, Stay
  <1>6. ASSUME NEW c \in Callers, Lock(c) PROVE JournalGuardsDatabase'
    BY <1>6 DEF Lock
  <1>7. ASSUME NEW c \in Callers, Reuse(c) PROVE JournalGuardsDatabase'
    BY <1>7 DEF Reuse, Stay
  <1>8. ASSUME NEW c \in Callers, Intend(c) PROVE JournalGuardsDatabase'
    BY <1>8 DEF Intend
  <1>9. ASSUME NEW c \in Callers, Ask(c) PROVE JournalGuardsDatabase'
    BY <1>9 DEF Ask
  <1>10. ASSUME NEW c \in Callers, Finish(c) PROVE JournalGuardsDatabase'
    BY <1>10 DEF Finish, Answer
  <1>11. ASSUME NEW c \in Callers, ProjectDb(c) PROVE JournalGuardsDatabase'
    BY <1>11 DEF ProjectDb
  <1>12. ASSUME NEW c \in Callers, ProjectFile(c) PROVE JournalGuardsDatabase'
    BY <1>12 DEF ProjectFile
  <1>13. ASSUME NEW c \in Callers, CacheToken(c) PROVE JournalGuardsDatabase'
    BY <1>13 DEF CacheToken, Leave, Forget, FreeLocks
  <1>14. ASSUME NEW h \in Handlers, Callback(h) PROVE JournalGuardsDatabase'
    BY <1>14 DEF Callback
  <1>15. ASSUME NEW h \in Handlers, BeginExchange(h) PROVE JournalGuardsDatabase'
    BY <1>15 DEF BeginExchange, SaveFlow
  <1>16. ASSUME NEW h \in Handlers, SendCode(h) PROVE JournalGuardsDatabase'
    BY <1>16 DEF SendCode
  <1>17. ASSUME NEW h \in Handlers, FinishExchange(h) PROVE JournalGuardsDatabase'
    BY <1>17 DEF FinishExchange, SaveFlow
  <1>18. ASSUME NEW h \in Handlers, ProjectAuthorizationDb(h) PROVE JournalGuardsDatabase'
    BY <1>18 DEF ProjectAuthorizationDb, Plan
  <1>19. ASSUME NEW h \in Handlers, ProjectAuthorizationFile(h) PROVE JournalGuardsDatabase'
    BY <1>19 DEF ProjectAuthorizationFile
  <1>20. ASSUME NEW h \in Handlers, Apply(h) PROVE JournalGuardsDatabase'
    BY <1>20 DEF Apply, Leave, Forget, FreeLocks
  <1>21. ASSUME NEW e \in Editors, OpenDocument(e) PROVE JournalGuardsDatabase'
    BY <1>21 DEF OpenDocument
  <1>22. ASSUME NEW e \in Editors, InstallFile(e) PROVE JournalGuardsDatabase'
    BY <1>22 DEF InstallFile
  <1>23. ASSUME NEW e \in Editors, RemoveReceipt(e) PROVE JournalGuardsDatabase'
    BY <1>23 DEF RemoveReceipt, Leave, Forget, FreeLocks
  <1>24. ASSUME NEW e \in Editors, ReadConfig(e) PROVE JournalGuardsDatabase'
    BY <1>24 DEF ReadConfig
  <1>25. ASSUME NEW e \in Editors, SaveConfig(e) PROVE JournalGuardsDatabase'
    BY <1>25 DEF SaveConfig
  <1>26. ASSUME NEW t \in Tasks, Abandon(t) PROVE JournalGuardsDatabase'
    BY <1>26 DEF Abandon, Leave, Forget, FreeLocks
  <1>27. ASSUME StartAuthorization PROVE JournalGuardsDatabase'
    BY <1>27 DEF StartAuthorization
  <1>28. ASSUME Crash PROVE JournalGuardsDatabase'
    BY <1>28 DEF Crash
  <1>29. CASE UNCHANGED vars
    BY <1>29 DEF vars
  <1> QED
    BY <1>1, <1>2, <1>3, <1>4, <1>5, <1>6, <1>7, <1>8, <1>9, <1>10, <1>11, <1>12, <1>13, <1>14, <1>15, <1>16, <1>17, <1>18, <1>19, <1>20, <1>21, <1>22, <1>23, <1>24, <1>25, <1>26, <1>27, <1>28, <1>29
    DEF Next, CallerStep, HandlerStep, EditorStep

(* While the receipt of an operator's save is pending the database copy is   *)
(* the saved one: no token is projected onto a save that may be replayed.   *)
THEOREM JournalGuards == Spec => []JournalGuardsDatabase
  BY JournalInit, JournalStep, PTL DEF Spec

-----------------------------------------------------------------------------
(* The code of an authorization.                                            *)

\* A code is sent after its flow has left "pending" for good.
CodeState ==
  /\ codes \in {0, 1}
  /\ flow.phase = "pending" => codes = 0
  /\ \A h \in Handlers :
       /\ pc[h] = "verify" => seen[h].phase = "pending"
       /\ pc[h] = "ask" => flow.phase = "intent" /\ codes = 0

LEMMA CodeInit == Init => CodeState
  BY DEF Init, CodeState, Tasks, NoFlow

LEMMA CodeStep ==
  ASSUME Control, CodeState, Control', [Next]_vars
  PROVE  CodeState'
  <1> USE DEF Control, TypeOK, Flow, CodeState, OneHolder, Exclusive, Goto, Tasks, records, history, NoFlow
  <1>1. ASSUME NEW m \in Managers, LoadManager(m) PROVE CodeState'
    BY <1>1, TasksAssumption DEF LoadManager
  <1>2. ASSUME NEW c \in Callers, NEW m \in Managers, GetToken(c, m) PROVE CodeState'
    BY <1>2, TasksAssumption DEF GetToken, Stay
  <1>3. ASSUME NEW c \in Callers, UseCached(c) PROVE CodeState'
    BY <1>3, TasksAssumption DEF UseCached, Stay, Leave, Forget, FreeLocks
  <1>4. ASSUME NEW c \in Callers, Claim(c) PROVE CodeState'
    BY <1>4, TasksAssumption DEF Claim
  <1>5. ASSUME NEW c \in Callers, CheckSettled(c) PROVE CodeState'
    BY <1>5, TasksAssumption DEF CheckSettled, Stay
  <1>6. ASSUME NEW c \in Callers, Lock(c) PROVE CodeState'
    BY <1>6, TasksAssumption DEF Lock
  <1>7. ASSUME NEW c \in Callers, Reuse(c) PROVE CodeState'
    BY <1>7, TasksAssumption DEF Reuse, Stay
  <1>8. ASSUME NEW c \in Callers, Intend(c) PROVE CodeState'
    BY <1>8, TasksAssumption DEF Intend
  <1>9. ASSUME NEW c \in Callers, Ask(c) PROVE CodeState'
    BY <1>9, TasksAssumption DEF Ask
  <1>10. ASSUME NEW c \in Callers, Finish(c) PROVE CodeState'
    BY <1>10, TasksAssumption DEF Finish, Answer
  <1>11. ASSUME NEW c \in Callers, ProjectDb(c) PROVE CodeState'
    BY <1>11, TasksAssumption DEF ProjectDb
  <1>12. ASSUME NEW c \in Callers, ProjectFile(c) PROVE CodeState'
    BY <1>12, TasksAssumption DEF ProjectFile
  <1>13. ASSUME NEW c \in Callers, CacheToken(c) PROVE CodeState'
    BY <1>13, TasksAssumption DEF CacheToken, Leave, Forget, FreeLocks
  <1>14. ASSUME NEW h \in Handlers, Callback(h) PROVE CodeState'
    BY <1>14, TasksAssumption DEF Callback
  <1>15. ASSUME NEW h \in Handlers, BeginExchange(h) PROVE CodeState'
    BY <1>15, TasksAssumption DEF BeginExchange, SaveFlow
  <1>16. ASSUME NEW h \in Handlers, SendCode(h) PROVE CodeState'
    BY <1>16, TasksAssumption DEF SendCode
  <1>17. ASSUME NEW h \in Handlers, FinishExchange(h) PROVE CodeState'
    BY <1>17, TasksAssumption DEF FinishExchange, SaveFlow
  <1>18. ASSUME NEW h \in Handlers, ProjectAuthorizationDb(h) PROVE CodeState'
    BY <1>18, TasksAssumption DEF ProjectAuthorizationDb
  <1>19. ASSUME NEW h \in Handlers, ProjectAuthorizationFile(h) PROVE CodeState'
    BY <1>19, TasksAssumption DEF ProjectAuthorizationFile
  <1>20. ASSUME NEW h \in Handlers, Apply(h) PROVE CodeState'
    BY <1>20, TasksAssumption DEF Apply, Leave, Forget, FreeLocks
  <1>21. ASSUME NEW e \in Editors, OpenDocument(e) PROVE CodeState'
    BY <1>21, TasksAssumption DEF OpenDocument
  <1>22. ASSUME NEW e \in Editors, InstallFile(e) PROVE CodeState'
    BY <1>22, TasksAssumption DEF InstallFile
  <1>23. ASSUME NEW e \in Editors, RemoveReceipt(e) PROVE CodeState'
    BY <1>23, TasksAssumption DEF RemoveReceipt, Leave, Forget, FreeLocks
  <1>24. ASSUME NEW e \in Editors, ReadConfig(e) PROVE CodeState'
    BY <1>24, TasksAssumption DEF ReadConfig
  <1>25. ASSUME NEW e \in Editors, SaveConfig(e) PROVE CodeState'
    BY <1>25, TasksAssumption DEF SaveConfig
  <1>26. ASSUME NEW t \in Tasks, Abandon(t) PROVE CodeState'
    BY <1>26, TasksAssumption DEF Abandon, Leave, Forget, FreeLocks
  <1>27. ASSUME StartAuthorization PROVE CodeState'
    BY <1>27, TasksAssumption DEF StartAuthorization
  <1>28. ASSUME Crash PROVE CodeState'
    BY <1>28, TasksAssumption DEF Crash
  <1>29. CASE UNCHANGED vars
    BY <1>29, TasksAssumption DEF vars
  <1> QED
    BY <1>1, <1>2, <1>3, <1>4, <1>5, <1>6, <1>7, <1>8, <1>9, <1>10, <1>11, <1>12, <1>13, <1>14, <1>15, <1>16, <1>17, <1>18, <1>19, <1>20, <1>21, <1>22, <1>23, <1>24, <1>25, <1>26, <1>27, <1>28, <1>29
    DEF Next, CallerStep, HandlerStep, EditorStep

(* The code of one authorization is exchanged at most once, over retried    *)
(* callbacks, lost answers and restarts.                                    *)
THEOREM CodeOnce == Spec => []CodeSentOnce
  <1>1. Spec => []CodeState
    BY CodeInit, CodeStep, ControlInvariant, PTL DEF Spec
  <1>2. CodeState => CodeSentOnce
    BY DEF CodeState, CodeSentOnce
  <1> QED
    BY <1>1, <1>2, PTL

-----------------------------------------------------------------------------
(* Provenance: to which credentials a token was issued.                     *)

Belongs(q, n, k) == n = 0 \/ (n \in 1 .. Len(q) /\ q[n] = k)

\* The tokens of a profile are those of its credentials.
Own(q, p) ==
  /\ p.set = None => p.token = 0 /\ p.refresh = 0
  /\ p.set \in Settings =>
       Belongs(q, p.token, CredOf(p)) /\ Belongs(q, p.refresh, CredOf(p))

OwnFlow(q, f) ==
  /\ Own(q, f.cfg)
  /\ f.cfg.set \in Settings =>
       Belongs(q, f.token, CredOf(f.cfg)) /\ Belongs(q, f.refresh, CredOf(f.cfg))

OwnCheckpoint(q, ck, k) == Belongs(q, ck.token, k) /\ Belongs(q, ck.refresh, k)

ProvenanceAt(q) ==
  /\ Own(q, db) /\ Own(q, file)
  /\ \A m \in Managers : Own(q, mem[m])
  /\ journal # None => Own(q, journal.before) /\ Own(q, journal.after)
  /\ \A c \in Callers : Own(q, loc[c].orig) /\ Own(q, loc[c].conf)
  /\ \A e \in Editors : Own(q, edit[e].before) /\ Own(q, edit[e].after)
  /\ \A k \in Credentials : OwnCheckpoint(q, ckpt[k], k)
  /\ OwnFlow(q, flow)
  /\ \A h \in Handlers : OwnFlow(q, seen[h])

\* While a call uses a manager, that manager keeps its settings.
SameManager == \A c \in Callers : pc[c] # "idle" => mem[loc[c].mgr].set = loc[c].orig.set

Provenance == ProvenanceAt(issues) /\ SameManager

LEMMA BelongsGrows ==
  ASSUME NEW q \in Seq(Credentials), NEW x \in Credentials
  PROVE  /\ \A n, k : Belongs(q, n, k) => Belongs(Append(q, x), n, k)
         /\ Belongs(Append(q, x), Len(q) + 1, x)
  <1>1. Len(q) \in Nat /\ Len(Append(q, x)) = Len(q) + 1
    BY AppendProperties, LenProperties
  <1>2. Append(q, x)[Len(q) + 1] = x
    BY AppendProperties
  <1>3. \A n \in 1 .. Len(q) : Append(q, x)[n] = q[n]
    BY AppendProperties
  <1>4. \A n \in 1 .. Len(q) : n \in 1 .. (Len(q) + 1)
    BY <1>1
  <1> QED
    BY <1>1, <1>2, <1>3, <1>4 DEF Belongs

\* An issue more takes no token from anybody.
LEMMA ProvenanceGrows ==
  ASSUME NEW q \in Seq(Credentials), NEW x \in Credentials, ProvenanceAt(q)
  PROVE  ProvenanceAt(Append(q, x))
  <1>1. \A n, k : Belongs(q, n, k) => Belongs(Append(q, x), n, k)
    BY BelongsGrows
  <1>2. \A p : Own(q, p) => Own(Append(q, x), p)
    BY <1>1 DEF Own
  <1>3. \A f : OwnFlow(q, f) => OwnFlow(Append(q, x), f)
    BY <1>1, <1>2 DEF OwnFlow
  <1>4. \A ck, k : OwnCheckpoint(q, ck, k) => OwnCheckpoint(Append(q, x), ck, k)
    BY <1>1 DEF OwnCheckpoint
  <1> QED
    BY <1>2, <1>3, <1>4 DEF ProvenanceAt

LEMMA OwnGone == \A q : Own(q, Gone) /\ OwnFlow(q, NoFlow)
  BY DEF Own, OwnFlow, Belongs, Gone, NoFlow

\* What a call that ends leaves behind owns nothing it should not.
LEMMA LeaveOwns ==
  ASSUME TypeOK, ProvenanceAt(issues), NEW t \in Tasks, Leave(t)
  PROVE  /\ \A c \in Callers : Own(issues, loc'[c].orig) /\ Own(issues, loc'[c].conf)
         /\ \A e \in Editors : Own(issues, edit'[e].before) /\ Own(issues, edit'[e].after)
         /\ \A h \in Handlers : OwnFlow(issues, seen'[h])
  <1>1. NoLoc.orig = Gone /\ NoLoc.conf = Gone /\ NoEdit.before = Gone /\ NoEdit.after = Gone
    BY DEF NoLoc, NoEdit
  <1>2. \A c \in Callers : loc'[c] = loc[c] \/ loc'[c] = NoLoc
    BY DEF Leave, Forget, TypeOK
  <1>3. \A e \in Editors : edit'[e] = edit[e] \/ edit'[e] = NoEdit
    BY DEF Leave, Forget, TypeOK
  <1>4. \A h \in Handlers : seen'[h] = seen[h] \/ seen'[h] = NoFlow
    BY DEF Leave, Forget, TypeOK
  <1> QED
    BY <1>1, <1>2, <1>3, <1>4, OwnGone DEF ProvenanceAt

LEMMA OwnMerge ==
  ASSUME NEW q, NEW doc \in Profile, NEW saved, doc.set \in Settings,
         Belongs(q, saved.token, CredOf(doc)), Belongs(q, saved.refresh, CredOf(doc))
  PROVE  Own(q, Merge(doc, saved))
  <1>1. CredOf(Merge(doc, saved)) = CredOf(doc) /\ Merge(doc, saved).set = doc.set
        /\ Merge(doc, saved).token = saved.token /\ Merge(doc, saved).refresh = saved.refresh
    BY DEF Merge, CredOf, Profile
  <1>2. doc.set # None
    BY TasksAssumption
  <1> QED
    BY <1>1, <1>2 DEF Own

LEMMA OwnEdits ==
  ASSUME NEW q, NEW p \in Profile, Own(q, p), NEW after \in Edits(p)
  PROVE  Own(q, after)
  <1>1. \A s \in Settings : Own(q, [Gone EXCEPT !.set = s])
    BY TasksAssumption DEF Own, Gone, Belongs
  <1>2. \A s \in Settings : p.set \in Settings /\ Cred[s] = CredOf(p)
                            => Own(q, [p EXCEPT !.set = s])
    BY TasksAssumption DEF Own, CredOf, Profile
  <1>3. p.set = None \/ p.set \in Settings
    BY DEF Profile
  <1> QED
    BY <1>1, <1>2, <1>3, OwnGone DEF Edits

\* A copy a token may be merged into has the credentials the call speaks for.
LEMMA MergeableCred ==
  ASSUME NEW doc \in Profile, NEW orig \in Profile, NEW saved, Mergeable(doc, orig, saved)
  PROVE  doc.set \in Settings /\ orig.set \in Settings /\ CredOf(doc) = CredOf(orig)
  BY DEF Mergeable, SameCred, Profile

LEMMA ProvenanceInit == Init => Provenance
  <1> SUFFICES ASSUME Init PROVE Provenance
    OBVIOUS
  <1>1. ProvenanceAt(issues)
    <2>1. Own(issues, db) /\ OwnFlow(issues, flow)
      <3>1. CASE db = Gone /\ flow = NoFlow
        BY <3>1, OwnGone
      <3>2. ASSUME NEW s \in Settings, issues = <<Cred[s]>>, db.set = s, db.token = 1,
                   db.refresh \in {0, 1}
            PROVE  Own(issues, db)
        BY <3>2, TasksAssumption DEF Own, Belongs, CredOf
      <3>3. ASSUME NEW s \in Settings, issues = <<Cred[s]>>,
                   flow = [phase |-> "applied", cfg |-> [Gone EXCEPT !.set = s],
                           token |-> 1, refresh |-> 1]
            PROVE  OwnFlow(issues, flow)
        BY <3>3, TasksAssumption DEF Own, OwnFlow, Belongs, CredOf, Gone
      <3> QED
        BY <3>1, <3>2, <3>3, OwnGone DEF Init
    <2>2. \A k \in Credentials : OwnCheckpoint(issues, ckpt[k], k)
      <3> SUFFICES ASSUME NEW k \in Credentials PROVE OwnCheckpoint(issues, ckpt[k], k)
        OBVIOUS
      <3>1. CASE ckpt[k] = NoCheckpoint
        BY <3>1 DEF NoCheckpoint, OwnCheckpoint, Belongs
      <3>2. CASE /\ db.set # None /\ k = CredOf(db)
                 /\ ckpt[k].token = 1 /\ ckpt[k].refresh = 0
        <4>1. db.token = 1 /\ db.set \in Settings
          BY <3>2 DEF Init, Gone
        <4> QED
          BY <3>2, <4>1, <2>1 DEF OwnCheckpoint, Own, Belongs
      <3> QED
        BY <3>1, <3>2 DEF Init
    <2> QED
      BY <2>1, <2>2, OwnGone DEF ProvenanceAt, Init, NoLoc, NoEdit
  <1>2. SameManager
    BY DEF Init, SameManager, Tasks
  <1> QED
    BY <1>1, <1>2 DEF Provenance

LEMMA ManagerStep ==
  ASSUME Control, SameManager, Control', [Next]_vars
  PROVE  SameManager'
  <1> USE DEF Control, SameManager, TypeOK, LiveCalls, Goto, SetLoc, Tasks, records, history, Merge, Profile
  <1>1. ASSUME NEW m \in Managers, LoadManager(m) PROVE SameManager'
    BY <1>1, TasksAssumption DEF LoadManager
  <1>2. ASSUME NEW c \in Callers, NEW m \in Managers, GetToken(c, m) PROVE SameManager'
    BY <1>2, TasksAssumption DEF GetToken, Stay
  <1>3. ASSUME NEW c \in Callers, UseCached(c) PROVE SameManager'
    BY <1>3, TasksAssumption DEF UseCached, Stay, Leave, Forget, FreeLocks
  <1>4. ASSUME NEW c \in Callers, Claim(c) PROVE SameManager'
    BY <1>4, TasksAssumption DEF Claim
  <1>5. ASSUME NEW c \in Callers, CheckSettled(c) PROVE SameManager'
    BY <1>5, TasksAssumption DEF CheckSettled, Stay
  <1>6. ASSUME NEW c \in Callers, Lock(c) PROVE SameManager'
    BY <1>6, TasksAssumption DEF Lock
  <1>7. ASSUME NEW c \in Callers, Reuse(c) PROVE SameManager'
    BY <1>7, TasksAssumption DEF Reuse, Stay, MayGoOn
  <1>8. ASSUME NEW c \in Callers, Intend(c) PROVE SameManager'
    <2>1. loc'[c].orig = loc[c].orig /\ loc'[c].mgr = loc[c].mgr /\ pc[c] # "idle"
      BY <1>8 DEF Intend, MayGoOn, Loc
    <2>2. \A d \in Callers : d # c => loc'[d] = loc[d] /\ pc'[d] = pc[d]
      BY <1>8 DEF Intend
    <2> QED
      BY <1>8, <2>1, <2>2 DEF Intend
  <1>9. ASSUME NEW c \in Callers, Ask(c) PROVE SameManager'
    BY <1>9, TasksAssumption DEF Ask
  <1>10. ASSUME NEW c \in Callers, Finish(c) PROVE SameManager'
    <2>1. PICK r : Answer(c, r)
      BY <1>10 DEF Finish
    <2>2. loc'[c].orig = loc[c].orig /\ loc'[c].mgr = loc[c].mgr /\ pc[c] # "idle"
      BY <2>1 DEF Answer, Loc
    <2>3. \A d \in Callers : d # c => loc'[d] = loc[d] /\ pc'[d] = pc[d]
      BY <2>1 DEF Answer
    <2> QED
      BY <2>1, <2>2, <2>3 DEF Answer
  <1>11. ASSUME NEW c \in Callers, ProjectDb(c) PROVE SameManager'
    BY <1>11, TasksAssumption DEF ProjectDb
  <1>12. ASSUME NEW c \in Callers, ProjectFile(c) PROVE SameManager'
    BY <1>12, TasksAssumption DEF ProjectFile
  <1>13. ASSUME NEW c \in Callers, CacheToken(c) PROVE SameManager'
    BY <1>13, TasksAssumption DEF CacheToken, Leave, Forget, FreeLocks
  <1>14. ASSUME NEW h \in Handlers, Callback(h) PROVE SameManager'
    BY <1>14, TasksAssumption DEF Callback
  <1>15. ASSUME NEW h \in Handlers, BeginExchange(h) PROVE SameManager'
    BY <1>15, TasksAssumption DEF BeginExchange, SaveFlow
  <1>16. ASSUME NEW h \in Handlers, SendCode(h) PROVE SameManager'
    BY <1>16, TasksAssumption DEF SendCode
  <1>17. ASSUME NEW h \in Handlers, FinishExchange(h) PROVE SameManager'
    BY <1>17, TasksAssumption DEF FinishExchange, SaveFlow
  <1>18. ASSUME NEW h \in Handlers, ProjectAuthorizationDb(h) PROVE SameManager'
    BY <1>18, TasksAssumption DEF ProjectAuthorizationDb
  <1>19. ASSUME NEW h \in Handlers, ProjectAuthorizationFile(h) PROVE SameManager'
    BY <1>19, TasksAssumption DEF ProjectAuthorizationFile
  <1>20. ASSUME NEW h \in Handlers, Apply(h) PROVE SameManager'
    BY <1>20, TasksAssumption DEF Apply, Leave, Forget, FreeLocks
  <1>21. ASSUME NEW e \in Editors, OpenDocument(e) PROVE SameManager'
    BY <1>21, TasksAssumption DEF OpenDocument
  <1>22. ASSUME NEW e \in Editors, InstallFile(e) PROVE SameManager'
    BY <1>22, TasksAssumption DEF InstallFile
  <1>23. ASSUME NEW e \in Editors, RemoveReceipt(e) PROVE SameManager'
    BY <1>23, TasksAssumption DEF RemoveReceipt, Leave, Forget, FreeLocks
  <1>24. ASSUME NEW e \in Editors, ReadConfig(e) PROVE SameManager'
    BY <1>24, TasksAssumption DEF ReadConfig
  <1>25. ASSUME NEW e \in Editors, SaveConfig(e) PROVE SameManager'
    BY <1>25, TasksAssumption DEF SaveConfig
  <1>26. ASSUME NEW t \in Tasks, Abandon(t) PROVE SameManager'
    BY <1>26, TasksAssumption DEF Abandon, Leave, Forget, FreeLocks
  <1>27. ASSUME StartAuthorization PROVE SameManager'
    BY <1>27, TasksAssumption DEF StartAuthorization
  <1>28. ASSUME Crash PROVE SameManager'
    BY <1>28, TasksAssumption DEF Crash
  <1>29. CASE UNCHANGED vars
    BY <1>29, TasksAssumption DEF vars
  <1> QED
    BY <1>1, <1>2, <1>3, <1>4, <1>5, <1>6, <1>7, <1>8, <1>9, <1>10, <1>11, <1>12, <1>13, <1>14, <1>15, <1>16, <1>17, <1>18, <1>19, <1>20, <1>21, <1>22, <1>23, <1>24, <1>25, <1>26, <1>27, <1>28, <1>29
    DEF Next, CallerStep, HandlerStep, EditorStep

LEMMA ProvenanceStep ==
  ASSUME Control, Provenance, Control', [Next]_vars
  PROVE  ProvenanceAt(issues)'
  <1> USE DEF Control, Provenance, ProvenanceAt, TypeOK, Goto, SetLoc, records, history
  <1>1. ASSUME NEW m \in Managers, LoadManager(m) PROVE ProvenanceAt(issues)'
    BY <1>1 DEF LoadManager
  <1>2. ASSUME NEW c \in Callers, NEW m \in Managers, GetToken(c, m) PROVE ProvenanceAt(issues)'
    <2>1. \A d \in Callers : loc'[d] = loc[d] \/ (loc'[d].orig = mem[m] /\ loc'[d].conf = mem[m])
      BY <1>2 DEF GetToken, NoLoc
    <2> QED
      BY <1>2, <2>1 DEF GetToken, Stay
  <1>3. ASSUME NEW c \in Callers, UseCached(c) PROVE ProvenanceAt(issues)'
    <2>1. CASE Leave(c) /\ UNCHANGED <<records, mem, history>>
      BY <2>1, LeaveOwns DEF Tasks
    <2>2. CASE UNCHANGED loc /\ Stay
      BY <2>2 DEF Stay
    <2> QED
      BY <1>3, <2>1, <2>2 DEF UseCached
  <1>4. ASSUME NEW c \in Callers, Claim(c) PROVE ProvenanceAt(issues)'
    BY <1>4 DEF Claim
  <1>5. ASSUME NEW c \in Callers, CheckSettled(c) PROVE ProvenanceAt(issues)'
    BY <1>5 DEF CheckSettled, Stay
  <1>6. ASSUME NEW c \in Callers, Lock(c) PROVE ProvenanceAt(issues)'
    <2> DEFINE k == CredOf(loc[c].conf)
    <2>1. k \in Credentials /\ loc[c].conf \in Profile /\ loc[c].conf.set \in Settings
      BY <1>6, CallCred DEF Lock, Loc, LiveCalls
    <2>2. Own(issues, Restore(loc[c].conf, ckpt[k]))
      BY <2>1, OwnMerge DEF Restore, OwnCheckpoint
    <2>3. /\ loc'[c].orig = loc[c].orig /\ loc'[c].conf = Restore(loc[c].conf, ckpt[k])
          /\ \A d \in Callers : d # c => loc'[d] = loc[d]
      BY <1>6 DEF Lock, Loc
    <2> QED
      BY <1>6, <2>2, <2>3 DEF Lock
  <1>7. ASSUME NEW c \in Callers, Reuse(c) PROVE ProvenanceAt(issues)'
    BY <1>7 DEF Reuse, Stay
  <1>8. ASSUME NEW c \in Callers, Intend(c) PROVE ProvenanceAt(issues)'
    <2> DEFINE k == CredOf(loc[c].conf)
    <2>1. k \in Credentials /\ loc[c].conf \in Profile /\ loc[c].conf.set \in Settings
      BY <1>8, CallCred DEF Intend, MayGoOn, Loc, LiveCalls
    <2>2. OwnCheckpoint(issues, Intent(loc[c]), k)
      BY <1>8, <2>1 DEF Intend, Intent, OwnCheckpoint, Own
    <2>3. /\ loc'[c].orig = loc[c].orig /\ loc'[c].conf = loc[c].conf
          /\ \A d \in Callers : d # c => loc'[d] = loc[d]
      BY <1>8 DEF Intend, Loc
    <2>4. \A j \in Credentials : ckpt'[j] = IF j = k THEN Intent(loc[c]) ELSE ckpt[j]
      BY <1>8 DEF Intend
    <2> HIDE DEF k
    <2> QED
      BY <1>8, <2>2, <2>3, <2>4 DEF Intend
  <1>9. ASSUME NEW c \in Callers, Ask(c) PROVE ProvenanceAt(issues)'
    BY <1>9 DEF Ask
  <1>10. ASSUME NEW c \in Callers, Finish(c) PROVE ProvenanceAt(issues)'
    <2> DEFINE k == CredOf(loc[c].conf)
               n == Len(issues) + 1
    <2>1. PICK r \in {loc[c].ck.refresh, n} : Answer(c, r)
      BY <1>10 DEF Finish
    <2>2. k \in Credentials /\ loc[c].conf \in Profile /\ loc[c].conf.set \in Settings
      BY <2>1, CallCred DEF Answer, Loc, LiveCalls
    <2>3. ProvenanceAt(issues') /\ \A x, y : Belongs(issues, x, y) => Belongs(issues', x, y)
      BY <2>1, <2>2, ProvenanceGrows, BelongsGrows DEF Answer
    <2>4. Belongs(issues', n, k)
      BY <2>1, <2>2, BelongsGrows DEF Answer
    <2>5. Belongs(issues', r, k)
      BY <2>1, <2>2, <2>3, <2>4 DEF Answer, OwnCheckpoint
    <2>6. OwnCheckpoint(issues', Ready(loc[c], n, r), k)
      BY <2>4, <2>5 DEF OwnCheckpoint, Ready
    <2>7. Own(issues', Restore(loc[c].conf, Ready(loc[c], n, r)))
      BY <2>2, <2>3, <2>4, <2>5, OwnMerge DEF Restore, Ready
    <2>8. /\ loc'[c].orig = loc[c].orig
          /\ loc'[c].conf = Restore(loc[c].conf, Ready(loc[c], n, r))
          /\ \A d \in Callers : d # c => loc'[d] = loc[d]
      BY <2>1 DEF Answer, Loc
    <2>9. \A j \in Credentials : ckpt'[j] = IF j = k THEN Ready(loc[c], n, r) ELSE ckpt[j]
      BY <2>1 DEF Answer
    <2>10. UNCHANGED <<db, file, mem, journal, edit, flow, seen>>
      BY <2>1 DEF Answer
    <2> HIDE DEF k, n
    <2> QED
      BY <2>3, <2>6, <2>7, <2>8, <2>9, <2>10
  <1>11. ASSUME NEW c \in Callers, ProjectDb(c) PROVE ProvenanceAt(issues)'
    <2>1. loc[c].conf \in Profile /\ loc[c].orig \in Profile /\ db \in Profile
      BY DEF Loc
    <2>2. db.set \in Settings /\ CredOf(db) = CredOf(loc[c].conf) /\ loc[c].conf.set \in Settings
      BY <1>11, <2>1, MergeableCred DEF ProjectDb, LiveCalls, CredOf
    <2>3. Own(issues, Merge(db, loc[c].conf))
      BY <2>1, <2>2, OwnMerge DEF Own
    <2> QED
      BY <1>11, <2>3 DEF ProjectDb
  <1>12. ASSUME NEW c \in Callers, ProjectFile(c) PROVE ProvenanceAt(issues)'
    <2>1. loc[c].conf \in Profile /\ loc[c].orig \in Profile /\ file \in Profile
      BY DEF Loc
    <2>2. file.set \in Settings /\ CredOf(file) = CredOf(loc[c].conf) /\ loc[c].conf.set \in Settings
      BY <1>12, <2>1, MergeableCred DEF ProjectFile, LiveCalls, CredOf
    <2>3. Own(issues, Merge(file, loc[c].conf))
      BY <2>1, <2>2, OwnMerge DEF Own
    <2> QED
      BY <1>12, <2>3 DEF ProjectFile
  <1>13. ASSUME NEW c \in Callers, CacheToken(c) PROVE ProvenanceAt(issues)'
    <2>1. /\ loc[c].mgr \in Managers /\ mem[loc[c].mgr] \in Profile
          /\ mem[loc[c].mgr].set = loc[c].conf.set /\ loc[c].conf.set \in Settings
      BY <1>13 DEF CacheToken, LiveCalls, SameManager
    <2>2. CredOf(mem[loc[c].mgr]) = CredOf(loc[c].conf)
      BY <2>1 DEF CredOf
    <2>3. Own(issues, Merge(mem[loc[c].mgr], loc[c].conf))
      BY <2>1, <2>2, OwnMerge DEF Own
    <2>4. \A m \in Managers : mem'[m] = mem[m] \/ mem'[m] = Merge(mem[loc[c].mgr], loc[c].conf)
      BY <1>13, <2>1 DEF CacheToken
    <2>5. Leave(c) /\ UNCHANGED <<records, issues>>
      BY <1>13 DEF CacheToken
    <2> QED
      BY <2>3, <2>4, <2>5, LeaveOwns DEF Tasks
  <1>14. ASSUME NEW h \in Handlers, Callback(h) PROVE ProvenanceAt(issues)'
    BY <1>14 DEF Callback
  <1>15. ASSUME NEW h \in Handlers, BeginExchange(h) PROVE ProvenanceAt(issues)'
    <2>1. OwnFlow(issues, [seen[h] EXCEPT !.phase = "intent"])
      BY DEF OwnFlow, Flow
    <2> QED
      BY <1>15, <2>1 DEF BeginExchange, SaveFlow
  <1>16. ASSUME NEW h \in Handlers, SendCode(h) PROVE ProvenanceAt(issues)'
    BY <1>16 DEF SendCode
  <1>17. ASSUME NEW h \in Handlers, FinishExchange(h) PROVE ProvenanceAt(issues)'
    <2> DEFINE f == seen[h]
               k == CredOf(f.cfg)
               n == Len(issues) + 1
    <2>1. f \in Flow /\ k \in Credentials /\ f.cfg.set \in Settings
      BY <1>17, CredType DEF FinishExchange, LiveFlows, Flow
    <2>2. ProvenanceAt(issues') /\ Belongs(issues', n, k) /\ Belongs(issues', 0, k)
      BY <1>17, <2>1, ProvenanceGrows, BelongsGrows DEF FinishExchange, Belongs
    <2>3. PICK r \in {0, n} :
            SaveFlow(h, [f EXCEPT !.phase = "ready", !.token = n, !.refresh = r])
      BY <1>17 DEF FinishExchange
    <2>4. OwnFlow(issues', [f EXCEPT !.phase = "ready", !.token = n, !.refresh = r])
      BY <2>1, <2>2, <2>3 DEF OwnFlow, Flow
    <2>5. OwnFlow(issues', flow') /\ \A g \in Handlers : OwnFlow(issues', seen'[g])
      BY <2>2, <2>3, <2>4 DEF SaveFlow
    <2>6. UNCHANGED <<db, file, mem, journal, loc, edit, ckpt>>
      BY <1>17 DEF FinishExchange
    <2> HIDE DEF k, n
    <2> QED
      BY <2>2, <2>5, <2>6
  <1>18. ASSUME NEW h \in Handlers, ProjectAuthorizationDb(h) PROVE ProvenanceAt(issues)'
    <2> DEFINE saved == Authorized(seen[h])
    <2>1. seen[h] \in Flow /\ db \in Profile /\ seen[h].cfg \in Profile
      BY DEF Flow
    <2>2. db.set \in Settings /\ seen[h].cfg.set \in Settings /\ CredOf(db) = CredOf(seen[h].cfg)
      BY <1>18, <2>1, MergeableCred DEF ProjectAuthorizationDb
    <2>3. Belongs(issues, saved.token, CredOf(db)) /\ Belongs(issues, saved.refresh, CredOf(db))
      BY <2>1, <2>2 DEF Authorized, Flow, Profile, OwnFlow, Own
    <2>4. Own(issues, Merge(db, saved))
      BY <2>1, <2>2, <2>3, OwnMerge
    <2> QED
      BY <1>18, <2>4 DEF ProjectAuthorizationDb
  <1>19. ASSUME NEW h \in Handlers, ProjectAuthorizationFile(h) PROVE ProvenanceAt(issues)'
    <2> DEFINE saved == Authorized(seen[h])
    <2>1. seen[h] \in Flow /\ file \in Profile /\ seen[h].cfg \in Profile
      BY DEF Flow
    <2>2. file.set \in Settings /\ seen[h].cfg.set \in Settings /\ CredOf(file) = CredOf(seen[h].cfg)
      BY <1>19, <2>1, MergeableCred DEF ProjectAuthorizationFile
    <2>3. Belongs(issues, saved.token, CredOf(file)) /\ Belongs(issues, saved.refresh, CredOf(file))
      BY <2>1, <2>2 DEF Authorized, Flow, Profile, OwnFlow, Own
    <2>4. Own(issues, Merge(file, saved))
      BY <2>1, <2>2, <2>3, OwnMerge
    <2> QED
      BY <1>19, <2>4 DEF ProjectAuthorizationFile
  <1>20. ASSUME NEW h \in Handlers, Apply(h) PROVE ProvenanceAt(issues)'
    <2>1. OwnFlow(issues, [flow EXCEPT !.phase = "applied"])
      BY DEF OwnFlow, Flow
    <2> QED
      BY <1>20, <2>1, LeaveOwns DEF Apply, Tasks
  <1>21. ASSUME NEW e \in Editors, OpenDocument(e) PROVE ProvenanceAt(issues)'
    BY <1>21 DEF OpenDocument
  <1>22. ASSUME NEW e \in Editors, InstallFile(e) PROVE ProvenanceAt(issues)'
    BY <1>22 DEF InstallFile, LeasedEditors
  <1>23. ASSUME NEW e \in Editors, RemoveReceipt(e) PROVE ProvenanceAt(issues)'
    <2>1. CASE Leave(e)
      BY <1>23, <2>1, LeaveOwns DEF RemoveReceipt, Tasks
    <2>2. CASE UNCHANGED <<loc, edit, seen>>
      BY <1>23, <2>2 DEF RemoveReceipt
    <2> QED
      BY <1>23, <2>1, <2>2 DEF RemoveReceipt
  <1>24. ASSUME NEW e \in Editors, ReadConfig(e) PROVE ProvenanceAt(issues)'
    <2>1. \A after \in Edits(file) : Own(issues, after)
      BY OwnEdits
    <2>2. \A u \in Editors : edit'[u] = edit[u] \/ (edit'[u].before = file /\ edit'[u].after \in Edits(file))
      BY <1>24 DEF ReadConfig
    <2> QED
      BY <1>24, <2>1, <2>2 DEF ReadConfig
  <1>25. ASSUME NEW e \in Editors, SaveConfig(e) PROVE ProvenanceAt(issues)'
    <2>1. journal'.before = edit[e].before /\ journal'.after = edit[e].after /\ db' = edit[e].after
      BY <1>25 DEF SaveConfig
    <2>2. \A u \in Editors : edit'[u].before = edit[u].before /\ edit'[u].after = edit[u].after
      BY <1>25 DEF SaveConfig, Edit
    <2> QED
      BY <1>25, <2>1, <2>2 DEF SaveConfig
  <1>26. ASSUME NEW t \in Tasks, Abandon(t) PROVE ProvenanceAt(issues)'
    BY <1>26, LeaveOwns DEF Abandon, Tasks
  <1>27. ASSUME StartAuthorization PROVE ProvenanceAt(issues)'
    <2>1. OwnFlow(issues, [NoFlow EXCEPT !.phase = "pending", !.cfg = file])
      BY DEF OwnFlow, NoFlow, Belongs
    <2> QED
      BY <1>27, <2>1 DEF StartAuthorization
  <1>28. ASSUME Crash PROVE ProvenanceAt(issues)'
    BY <1>28, OwnGone DEF Crash, NoLoc, NoEdit
  <1>29. CASE UNCHANGED vars
    BY <1>29 DEF vars
  <1> QED
    BY <1>1, <1>2, <1>3, <1>4, <1>5, <1>6, <1>7, <1>8, <1>9, <1>10, <1>11, <1>12, <1>13, <1>14, <1>15, <1>16, <1>17, <1>18, <1>19, <1>20, <1>21, <1>22, <1>23, <1>24, <1>25, <1>26, <1>27, <1>28, <1>29
    DEF Next, CallerStep, HandlerStep, EditorStep

LEMMA ProvenanceInvariant == Spec => []Provenance
  <1>1. Control /\ Provenance /\ Control' /\ [Next]_vars => Provenance'
    BY ProvenanceStep, ManagerStep DEF Provenance
  <1> QED
    BY <1>1, ProvenanceInit, ControlInvariant, PTL DEF Spec

(* Every token in the database, the file or a manager was issued to the     *)
(* credentials of the profile it stands in, whatever the operator edits     *)
(* while requests are under way.                                            *)
THEOREM TokensMatch == Spec => []TokensMatchCredentials
  <1>1. Control /\ Provenance => TokensMatchCredentials
    <2> SUFFICES ASSUME Control, Provenance,
                        NEW p \in {db, file} \cup {mem[m] : m \in Managers},
                        NEW n \in {p.token, p.refresh} \ {0}
                 PROVE  p.set # None /\ issues[n] = CredOf(p)
      BY DEF TokensMatchCredentials
    <2>1. p \in Profile /\ Own(issues, p)
      BY DEF Control, TypeOK, Provenance, ProvenanceAt
    <2> QED
      BY <2>1 DEF Own, Belongs, Profile
  <1> QED
    BY <1>1, ControlInvariant, ProvenanceInvariant, PTL

-----------------------------------------------------------------------------
(* Refresh tokens that a request may have rotated away.                     *)

\* A sent token is retired until an answer says otherwise: no checkpoint
\* restores it, and no caller with the profile lock is about to send it.
Retired ==
  /\ burnt \subseteq 1 .. Len(issues)
  /\ \A k \in Credentials :
       /\ ckpt[k].state = "none" => \A n \in burnt : issues[n] # k
       /\ ckpt[k].state = "ready" => ckpt[k].refresh \notin burnt
  /\ \A c \in Callers : pc[c] \in {"restored", "ask"} => loc[c].conf.refresh \notin burnt

LEMMA RetiredInit == Init => Retired
  BY DEF Init, Retired, Tasks

\* Locks of one caller keep the others away from a request.
LEMMA Alone ==
  ASSUME Control, NEW c \in Callers, pc[c] \in Exclusive
  PROVE  \A d \in Callers : d # c => pc[d] \notin Exclusive
  BY DEF Control, OneHolder, Tasks

LEMMA RetiredStep ==
  ASSUME Control, Provenance, Retired, [Next]_vars
  PROVE  Retired'
  <1> USE DEF Control, Retired, TypeOK, Goto, SetLoc, Tasks, records, history
  <1>1. ASSUME NEW m \in Managers, LoadManager(m) PROVE Retired'
    BY <1>1, TasksAssumption DEF LoadManager
  <1>2. ASSUME NEW c \in Callers, NEW m \in Managers, GetToken(c, m) PROVE Retired'
    BY <1>2, TasksAssumption DEF GetToken, Stay
  <1>3. ASSUME NEW c \in Callers, UseCached(c) PROVE Retired'
    <2>1. UNCHANGED <<burnt, issues, ckpt>>
      BY <1>3 DEF UseCached, Stay
    <2>2. \A d \in Callers : pc'[d] \in {"restored", "ask"} => pc[d] = pc'[d] /\ loc'[d] = loc[d]
      BY <1>3, TasksAssumption DEF UseCached, Leave, Forget, Stay
    <2> QED
      BY <2>1, <2>2
  <1>4. ASSUME NEW c \in Callers, Claim(c) PROVE Retired'
    BY <1>4, TasksAssumption DEF Claim
  <1>5. ASSUME NEW c \in Callers, CheckSettled(c) PROVE Retired'
    BY <1>5, TasksAssumption DEF CheckSettled, Stay
  <1>6. ASSUME NEW c \in Callers, Lock(c) PROVE Retired'
    <2> DEFINE k == CredOf(loc[c].conf)
    <2>1. k \in Credentials /\ loc[c].conf \in Profile /\ loc[c].conf.set \in Settings
      BY <1>6, CallCred DEF Lock, Loc, LiveCalls
    <2>2. Restore(loc[c].conf, ckpt[k]).refresh \notin burnt
      <3>1. CASE ckpt[k].state = "none"
        <4>1. Belongs(issues, loc[c].conf.refresh, k)
          BY <2>1 DEF Provenance, ProvenanceAt, Own
        <4> QED
          BY <2>1, <3>1, <4>1 DEF Restore, Belongs
      <3>2. CASE ckpt[k].state # "none"
        <4>1. ckpt[k].state = "ready"
          BY <1>6, <2>1, <3>2 DEF Lock, Restorable
        <4> QED
          BY <2>1, <3>2, <4>1 DEF Restore, Merge, Profile
      <3> QED
        BY <3>1, <3>2
    <2>3. /\ loc'[c].conf = Restore(loc[c].conf, ckpt[k])
          /\ \A d \in Callers : d # c => loc'[d] = loc[d] /\ pc'[d] = pc[d]
      BY <1>6 DEF Lock, Loc
    <2> QED
      BY <1>6, <2>2, <2>3 DEF Lock
  <1>7. ASSUME NEW c \in Callers, Reuse(c) PROVE Retired'
    BY <1>7 DEF Reuse, Stay, MayGoOn
  <1>8. ASSUME NEW c \in Callers, Intend(c) PROVE Retired'
    <2> DEFINE k == CredOf(loc[c].conf)
    <2>1. \A j \in Credentials : j # k => ckpt'[j] = ckpt[j]
      BY <1>8 DEF Intend
    <2>2. k \in Credentials /\ ckpt'[k].state = "intent"
      BY <1>8, CallCred DEF Intend, MayGoOn, Intent
    <2>3. \A d \in Callers : loc'[d].conf = loc[d].conf
      BY <1>8 DEF Intend, Loc
    <2>4. /\ pc[c] = "restored" /\ UNCHANGED <<burnt, issues>>
          /\ \A d \in Callers : d # c => pc'[d] = pc[d]
      BY <1>8 DEF Intend, MayGoOn
    <2> HIDE DEF k
    <2> QED
      BY <2>1, <2>2, <2>3, <2>4
  <1>9. ASSUME NEW c \in Callers, Ask(c) PROVE Retired'
    <2> DEFINE k == CredOf(loc[c].conf)
               r == loc[c].conf.refresh
    <2>1. k \in Credentials /\ loc[c].conf.set \in Settings /\ ckpt[k].state = "intent"
      BY <1>9, CallCred DEF Ask, LiveCalls, Requests
    <2>2. Belongs(issues, r, k)
      BY <2>1 DEF Provenance, ProvenanceAt, Own
    <2>3. burnt' = burnt \cup ({r} \ {0}) /\ UNCHANGED <<ckpt, issues, loc>>
      BY <1>9 DEF Ask
    <2>4. burnt' \subseteq 1 .. Len(issues)
      BY <2>2, <2>3 DEF Belongs
    <2>5. ASSUME NEW j \in Credentials, ckpt[j].state = "none"
          PROVE  \A n \in burnt' : issues[n] # j
      BY <2>1, <2>2, <2>3, <2>5 DEF Belongs
    <2>6. ASSUME NEW j \in Credentials, ckpt[j].state = "ready"
          PROVE  ckpt[j].refresh \notin burnt'
      <3>1. Belongs(issues, ckpt[j].refresh, j) /\ j # k
        BY <2>1, <2>6 DEF Provenance, ProvenanceAt, OwnCheckpoint
      <3> QED
        BY <2>2, <2>3, <2>6, <3>1 DEF Belongs
    <2>7. \A d \in Callers : pc'[d] \notin {"restored", "ask"}
      BY <1>9, Alone DEF Ask, Exclusive
    <2> HIDE DEF k, r
    <2> QED
      BY <2>3, <2>4, <2>5, <2>6, <2>7
  <1>10. ASSUME NEW c \in Callers, Finish(c) PROVE Retired'
    <2> DEFINE k == CredOf(loc[c].conf)
               n == Len(issues) + 1
    <2>1. PICK r : Answer(c, r)
      BY <1>10 DEF Finish
    <2>2. k \in Credentials /\ issues \in Seq(Credentials) /\ Len(issues) \in Nat
      BY <2>1, CallCred, LenProperties DEF Answer
    <2>3. /\ Len(issues') = n
          /\ \A x \in 1 .. Len(issues) : issues'[x] = issues[x]
      BY <2>1, <2>2, AppendProperties DEF Answer
    <2>4. burnt' \subseteq burnt /\ r \notin burnt'
      BY <2>1, <2>2 DEF Answer
    <2>5. burnt' \subseteq 1 .. Len(issues')
      BY <2>2, <2>3, <2>4
    <2>6. \A j \in Credentials : ckpt'[j] = IF j = k THEN Ready(loc[c], n, r) ELSE ckpt[j]
      BY <2>1 DEF Answer
    <2>7. Ready(loc[c], n, r).state = "ready" /\ Ready(loc[c], n, r).refresh = r
      BY DEF Ready
    <2>8. \A d \in Callers : pc'[d] \notin {"restored", "ask"}
      BY <2>1, Alone DEF Answer, Exclusive
    <2> HIDE DEF k, n
    <2>9. ASSUME NEW j \in Credentials
          PROVE  /\ ckpt'[j].state = "none" => \A x \in burnt' : issues'[x] # j
                 /\ ckpt'[j].state = "ready" => ckpt'[j].refresh \notin burnt'
      <3>1. CASE j = k
        <4>1. ckpt'[j] = Ready(loc[c], n, r)
          BY <2>6, <3>1
        <4> QED
          BY <4>1, <2>4, <2>7
      <3>2. CASE j # k
        <4>1. ckpt'[j] = ckpt[j]
          BY <2>6, <3>2
        <4>2. \A x \in burnt' : x \in burnt /\ issues'[x] = issues[x]
          BY <2>3, <2>4
        <4> QED
          BY <4>1, <4>2
      <3> QED
        BY <3>1, <3>2
    <2> QED
      BY <2>5, <2>8, <2>9
  <1>11. ASSUME NEW c \in Callers, ProjectDb(c) PROVE Retired'
    BY <1>11, TasksAssumption DEF ProjectDb
  <1>12. ASSUME NEW c \in Callers, ProjectFile(c) PROVE Retired'
    BY <1>12, TasksAssumption DEF ProjectFile
  <1>13. ASSUME NEW c \in Callers, CacheToken(c) PROVE Retired'
    <2>1. UNCHANGED <<burnt, issues, ckpt>>
      BY <1>13 DEF CacheToken
    <2>2. \A d \in Callers : pc'[d] \in {"restored", "ask"} => pc[d] = pc'[d] /\ loc'[d] = loc[d]
      BY <1>13, TasksAssumption DEF CacheToken, Leave, Forget
    <2> QED
      BY <2>1, <2>2
  <1>14. ASSUME NEW h \in Handlers, Callback(h) PROVE Retired'
    BY <1>14, TasksAssumption DEF Callback
  <1>15. ASSUME NEW h \in Handlers, BeginExchange(h) PROVE Retired'
    BY <1>15, TasksAssumption DEF BeginExchange, SaveFlow
  <1>16. ASSUME NEW h \in Handlers, SendCode(h) PROVE Retired'
    BY <1>16, TasksAssumption DEF SendCode
  <1>17. ASSUME NEW h \in Handlers, FinishExchange(h) PROVE Retired'
    <2>1. CredOf(seen[h].cfg) \in Credentials
      BY <1>17, CredType DEF FinishExchange, LiveFlows, Flow
    <2>2. /\ Len(issues') = Len(issues) + 1 /\ Len(issues) \in Nat
          /\ \A x \in 1 .. Len(issues) : issues'[x] = issues[x]
      BY <1>17, <2>1, AppendProperties, LenProperties DEF FinishExchange
    <2>3. UNCHANGED <<burnt, ckpt, loc>> /\ pc'[h] = "project_db"
          /\ \A d \in Callers : pc'[d] = pc[d]
      BY <1>17, TasksAssumption DEF FinishExchange
    <2>4. burnt' \subseteq 1 .. Len(issues')
      BY <2>2, <2>3
    <2> QED
      BY <2>2, <2>3, <2>4
  <1>18. ASSUME NEW h \in Handlers, ProjectAuthorizationDb(h) PROVE Retired'
    BY <1>18, TasksAssumption DEF ProjectAuthorizationDb
  <1>19. ASSUME NEW h \in Handlers, ProjectAuthorizationFile(h) PROVE Retired'
    BY <1>19, TasksAssumption DEF ProjectAuthorizationFile
  <1>20. ASSUME NEW h \in Handlers, Apply(h) PROVE Retired'
    <2>1. UNCHANGED <<burnt, issues, ckpt>>
      BY <1>20 DEF Apply
    <2>2. \A d \in Callers : pc'[d] \in {"restored", "ask"} => pc[d] = pc'[d] /\ loc'[d] = loc[d]
      BY <1>20, TasksAssumption DEF Apply, Leave, Forget
    <2> QED
      BY <2>1, <2>2
  <1>21. ASSUME NEW e \in Editors, OpenDocument(e) PROVE Retired'
    BY <1>21, TasksAssumption DEF OpenDocument
  <1>22. ASSUME NEW e \in Editors, InstallFile(e) PROVE Retired'
    BY <1>22, TasksAssumption DEF InstallFile
  <1>23. ASSUME NEW e \in Editors, RemoveReceipt(e) PROVE Retired'
    <2>1. UNCHANGED <<burnt, issues, ckpt>>
      BY <1>23 DEF RemoveReceipt
    <2>2. \A d \in Callers : pc'[d] \in {"restored", "ask"} => pc[d] = pc'[d] /\ loc'[d] = loc[d]
      BY <1>23, TasksAssumption DEF RemoveReceipt, Leave, Forget
    <2> QED
      BY <2>1, <2>2
  <1>24. ASSUME NEW e \in Editors, ReadConfig(e) PROVE Retired'
    BY <1>24, TasksAssumption DEF ReadConfig
  <1>25. ASSUME NEW e \in Editors, SaveConfig(e) PROVE Retired'
    BY <1>25, TasksAssumption DEF SaveConfig
  <1>26. ASSUME NEW t \in Tasks, Abandon(t) PROVE Retired'
    <2>1. UNCHANGED <<burnt, issues, ckpt>>
      BY <1>26 DEF Abandon
    <2>2. \A d \in Callers : pc'[d] \in {"restored", "ask"} => pc[d] = pc'[d] /\ loc'[d] = loc[d]
      BY <1>26, TasksAssumption DEF Abandon, Leave, Forget
    <2> QED
      BY <2>1, <2>2
  <1>27. ASSUME StartAuthorization PROVE Retired'
    BY <1>27, TasksAssumption DEF StartAuthorization
  <1>28. ASSUME Crash PROVE Retired'
    BY <1>28, TasksAssumption DEF Crash
  <1>29. CASE UNCHANGED vars
    BY <1>29, TasksAssumption DEF vars
  <1> QED
    BY <1>1, <1>2, <1>3, <1>4, <1>5, <1>6, <1>7, <1>8, <1>9, <1>10, <1>11, <1>12, <1>13, <1>14, <1>15, <1>16, <1>17, <1>18, <1>19, <1>20, <1>21, <1>22, <1>23, <1>24, <1>25, <1>26, <1>27, <1>28, <1>29
    DEF Next, CallerStep, HandlerStep, EditorStep

(* No request carries a refresh token that an earlier request may have      *)
(* rotated away, although every manager keeps its own copy of the profile   *)
(* and an answer may be lost.                                               *)
THEOREM RotatedIsRetired == Spec => RotatedTokenIsRetired
  <1>1. Spec => []Retired
    <2>1. Control /\ Provenance /\ Retired /\ [Next]_vars => Retired'
      BY RetiredStep
    <2> QED
      BY <2>1, RetiredInit, ControlInvariant, ProvenanceInvariant, PTL DEF Spec
  <1> DEFINE Sends == \A c \in Callers :
        pc[c] = "ask" /\ pc'[c] = "wait" => loc[c].conf.refresh \notin burnt
  <1>2. Retired => Sends
    BY DEF Retired
  <1>3. Retired /\ [Next]_vars => [Sends]_vars
    BY <1>2
  <1> HIDE DEF Sends
  <1>4. Spec => [][Sends]_vars
    BY <1>1, <1>3, PTL DEF Spec
  <1> QED
    BY <1>4 DEF RotatedTokenIsRetired, Sends

-----------------------------------------------------------------------------
(* The newest refresh token.                                                *)

\* A checkpoint that knows the newest refresh token would restore that one.
Checkpoints ==
  \A k \in Credentials :
    /\ ckpt[k].state = "none" => ckpt[k].refresh = 0
    /\ ckpt[k].inputs \subseteq 0 .. Len(issues)
    /\ newest[k] # 0 /\ newest[k] \in ckpt[k].inputs => newest[k] = ckpt[k].refresh

\* A call that has read no checkpoint carries the manager's copy; from then on
\* it replaces only a refresh token its checkpoint knows, by the one that
\* checkpoint restores.
Unread == {"cached", "claim", "settle", "lock"}

Carried ==
  \A c \in Callers :
    LET l == loc[c] IN
    /\ pc[c] \in Unread => l.conf = l.orig
    /\ pc[c] = "restored" /\ l.ck.state = "none" => l.conf.refresh = l.orig.refresh
    /\ pc[c] \in {"restored", "ask", "wait", "project_db"} /\ l.ck.state # "none" =>
         l.conf.refresh = l.ck.refresh /\ l.orig.refresh \in l.ck.inputs
    /\ pc[c] \in {"ask", "wait", "project_db"} => l.ck.state # "none"

\* A callback under the profile lock has the head flow in hand.
Current ==
  \A h \in Handlers :
    /\ pc[h] \in Exclusive => flow = seen[h]
    /\ pc[h] = "verify" => flow.phase = "pending"
    /\ pc[h] \in {"ask", "wait"} => flow.phase = "intent"
    /\ pc[h] \in {"project_db", "project_file", "apply"} => flow.phase = "ready"

\* Does the database show refresh token n of credential k?
Shows(k, n) == db.set \in Settings /\ CredOf(db) = k /\ db.refresh = n

\* An exchanged refresh token is superseded only by a checkpoint's, and is in
\* the database before its flow counts as applied.
Exchanged ==
  LET k == CredOf(flow.cfg) IN
  flow.phase = "ready" /\ flow.refresh # 0 =>
    /\ newest[k] \in {0, flow.refresh, ckpt[k].refresh}
    /\ \A h \in Handlers :
         pc[h] \in {"project_file", "apply"} /\ newest[k] = flow.refresh =>
           Shows(k, flow.refresh)

\* The operator's form keeps the tokens of unchanged credentials.
Forms == \A e \in Editors : pc[e] = "loaded" => edit[e].after \in Edits(edit[e].before)

\* A newest refresh token is where a later request or projection finds it.
Findable(k) ==
  newest[k] # 0 =>
    \/ newest[k] = ckpt[k].refresh
    \/ flow.phase = "ready" /\ CredOf(flow.cfg) = k /\ newest[k] = flow.refresh
    \/ Shows(k, newest[k])

Kept ==
  /\ Checkpoints /\ Carried /\ Current /\ Exchanged /\ Forms
  /\ \A k \in Credentials : Findable(k)

LEMMA KeptInit == Init => Kept
  <1> SUFFICES ASSUME Init PROVE Kept
    OBVIOUS
  <1>1. Checkpoints
    <2> SUFFICES ASSUME NEW k \in Credentials
                 PROVE  /\ ckpt[k].state = "none" => ckpt[k].refresh = 0
                        /\ ckpt[k].inputs \subseteq 0 .. Len(issues)
                        /\ newest[k] # 0 /\ newest[k] \in ckpt[k].inputs
                             => newest[k] = ckpt[k].refresh
      BY DEF Checkpoints
    <2>1. CASE ckpt[k] = NoCheckpoint
      BY <2>1 DEF NoCheckpoint
    <2>2. CASE /\ ckpt[k] = [state |-> "ready", inputs |-> {0}, token |-> 1, refresh |-> 0]
               /\ db.set # None
      <3>1. Len(issues) = 1
        BY <2>2 DEF Init, Gone
      <3> QED
        BY <2>2, <3>1
    <2> QED
      BY <2>1, <2>2 DEF Init
  <1>2. Carried /\ Current /\ Forms
    BY DEF Init, Carried, Current, Forms, Tasks, Exclusive, Unread
  <1>3. flow.phase # "ready"
    BY DEF Init, NoFlow
  <1>4. Exchanged
    BY <1>3 DEF Exchanged
  <1>5. ASSUME NEW k \in Credentials PROVE Findable(k)
    <2>1. db.set # None => db.set \in Settings
      BY DEF Init, Gone
    <2> QED
      BY <2>1 DEF Init, Findable, Shows
  <1> QED
    BY <1>1, <1>2, <1>4, <1>5 DEF Kept

\* Which part a step can disturb.
LEMMA Undisturbed ==
  ASSUME Kept
  PROVE  /\ UNCHANGED <<ckpt, newest, issues>> => Checkpoints'
         /\ (\A c \in Callers :
               \/ pc'[c] \in {"idle", "project_file", "cache"}
               \/ loc'[c] = loc[c] /\ (pc'[c] = pc[c] \/ {pc[c], pc'[c]} \subseteq Unread))
               => Carried'
         /\ UNCHANGED flow
            /\ (\A h \in Handlers : pc'[h] \in Exclusive =>
                  pc'[h] = pc[h] /\ seen'[h] = seen[h]) => Current'
         /\ UNCHANGED <<db, ckpt, flow, newest>>
            /\ (\A h \in Handlers : pc'[h] \in {"project_file", "apply"} =>
                  pc[h] \in {"project_file", "apply"}) => Exchanged'
         /\ (\A e \in Editors : pc'[e] = "loaded" =>
               pc[e] = "loaded" /\ edit'[e] = edit[e]) => Forms'
         /\ UNCHANGED <<db, ckpt, flow, newest>> => \A k \in Credentials : Findable(k)'
  <1> USE DEF Kept
  <1>1. ASSUME UNCHANGED <<ckpt, newest, issues>> PROVE Checkpoints'
    BY <1>1 DEF Checkpoints
  <1>2. ASSUME \A c \in Callers :
                 \/ pc'[c] \in {"idle", "project_file", "cache"}
                 \/ loc'[c] = loc[c] /\ (pc'[c] = pc[c] \/ {pc[c], pc'[c]} \subseteq Unread)
        PROVE  Carried'
    BY <1>2 DEF Carried, Unread
  <1>3. ASSUME UNCHANGED flow,
               \A h \in Handlers : pc'[h] \in Exclusive =>
                 pc'[h] = pc[h] /\ seen'[h] = seen[h]
        PROVE  Current'
    BY <1>3 DEF Current, Exclusive
  <1>4. ASSUME UNCHANGED <<db, ckpt, flow, newest>>,
               \A h \in Handlers : pc'[h] \in {"project_file", "apply"} =>
                 pc[h] \in {"project_file", "apply"}
        PROVE  Exchanged'
    BY <1>4 DEF Exchanged, Shows, CredOf
  <1>5. ASSUME \A e \in Editors : pc'[e] = "loaded" =>
                 pc[e] = "loaded" /\ edit'[e] = edit[e]
        PROVE  Forms'
    BY <1>5 DEF Forms
  <1>6. ASSUME UNCHANGED <<db, ckpt, flow, newest>>, NEW k \in Credentials
        PROVE  Findable(k)'
    BY <1>6 DEF Findable, Shows, CredOf
  <1> QED
    BY <1>1, <1>2, <1>3, <1>4, <1>5, <1>6

\* A step that leaves the durable records alone, and brings nobody to a place
\* where it knows something of them.
LEMMA Quiet ==
  ASSUME Kept, UNCHANGED <<db, ckpt, flow, newest, issues>>,
         \A c \in Callers :
           \/ pc'[c] \in {"idle", "project_file", "cache"}
           \/ loc'[c] = loc[c] /\ (pc'[c] = pc[c] \/ {pc[c], pc'[c]} \subseteq Unread),
         \A h \in Handlers : pc'[h] \in Exclusive => pc'[h] = pc[h] /\ seen'[h] = seen[h],
         \A e \in Editors : pc'[e] = "loaded" => pc[e] = "loaded" /\ edit'[e] = edit[e]
  PROVE  Kept'
  <1>1. Exchanged'
    BY Undisturbed DEF Exclusive
  <1> QED
    BY <1>1, Undisturbed DEF Kept

\* So is a call that ends.
LEMMA QuietLeave ==
  ASSUME Control, Kept, NEW t \in Tasks, Leave(t), UNCHANGED <<db, ckpt, flow, newest, issues>>
  PROVE  Kept'
  <1>1. pc'[t] = "idle" /\ \A u \in Tasks : u # t => pc'[u] = pc[u]
    BY DEF Leave, Goto, Control, TypeOK
  <1>2. /\ \A c \in Callers : c # t => loc'[c] = loc[c]
        /\ \A h \in Handlers : h # t => seen'[h] = seen[h]
        /\ \A e \in Editors : e # t => edit'[e] = edit[e]
    BY DEF Leave, Forget
  <1> QED
    BY <1>1, <1>2, Quiet DEF Exclusive, Tasks

LEMMA KeptStep ==
  ASSUME Control, Provenance, Kept, [Next]_vars
  PROVE  Kept'
  <1> USE DEF Goto, SetLoc, records, history
  <1>0. /\ Callers \cap Handlers = {} /\ Callers \cap Editors = {}
        /\ Handlers \cap Editors = {} /\ None \notin Tasks
        /\ \A c \in Callers : c \in Tasks
        /\ \A h \in Handlers : h \in Tasks
        /\ \A e \in Editors : e \in Tasks
    BY TasksAssumption DEF Tasks
  <1>1. ASSUME NEW m \in Managers, LoadManager(m) PROVE Kept'
    BY <1>1, Quiet DEF LoadManager
  <1>2. ASSUME NEW c \in Callers, NEW m \in Managers, GetToken(c, m) PROVE Kept'
    <2>1. /\ \A t \in Tasks : t # c => pc'[t] = pc[t]
          /\ pc'[c] \in {"cached", "claim"}
          /\ \A d \in Callers : d # c => loc'[d] = loc[d]
      BY <1>0, <1>2 DEF GetToken, Control, TypeOK
    <2>2. UNCHANGED <<db, ckpt, flow, newest, issues, seen, edit>>
      BY <1>2 DEF GetToken, Stay
    <2>3. loc'[c].conf = loc'[c].orig
      BY <1>2 DEF GetToken, NoLoc, Control, TypeOK
    <2>4. Carried'
      BY <1>0, <2>1, <2>3 DEF Kept, Carried, Unread
    <2> QED
      BY <1>0, <2>1, <2>2, <2>4, Undisturbed DEF Kept
  <1>3. ASSUME NEW c \in Callers, UseCached(c) PROVE Kept'
    <2>1. CASE Leave(c) /\ UNCHANGED <<records, mem, history>>
      BY <1>0, <2>1, QuietLeave
    <2>2. CASE Goto(c, "claim") /\ UNCHANGED loc /\ Stay
      BY <1>0, <2>2, <1>3, Quiet DEF UseCached, Stay, Control, TypeOK, Unread
    <2> QED
      BY <1>3, <2>1, <2>2 DEF UseCached
  <1>4. ASSUME NEW c \in Callers, Claim(c) \/ CheckSettled(c) PROVE Kept'
    <2>1. /\ \A t \in Tasks : t # c => pc'[t] = pc[t]
          /\ {pc[c], pc'[c]} \subseteq Unread
      BY <1>0, <1>4 DEF Claim, CheckSettled, Unread, Control, TypeOK
    <2>2. UNCHANGED <<db, ckpt, flow, newest, issues, loc, seen, edit>>
      BY <1>4 DEF Claim, CheckSettled, Stay
    <2> QED
      BY <1>0, <2>1, <2>2, Quiet
  <1>5. ASSUME NEW c \in Callers, Lock(c) PROVE Kept'
    <2> DEFINE k == CredOf(loc[c].conf)
    <2>1. /\ UNCHANGED <<db, ckpt, flow, newest, issues, seen, edit>>
          /\ \A t \in Tasks : t # c => pc'[t] = pc[t]
          /\ pc'[c] = "restored"
          /\ \A d \in Callers : d # c => loc'[d] = loc[d]
          /\ loc'[c].ck = ckpt[k] /\ loc'[c].conf = Restore(loc[c].conf, ckpt[k])
          /\ loc'[c].orig = loc[c].orig
      BY <1>0, <1>5 DEF Lock, Control, TypeOK, Loc
    <2>2. k \in Credentials /\ loc[c].conf \in Profile /\ loc[c].orig \in Profile
          /\ ckpt[k] \in Checkpoint
      BY <1>5, CallCred DEF Lock, Loc, Control, TypeOK
    <2>3. loc[c].conf.refresh = loc[c].orig.refresh
      BY <1>5 DEF Kept, Carried, Unread, Lock
    <2>4. CASE ckpt[k].state = "none"
      <3>1. loc'[c].conf.refresh = loc'[c].orig.refresh
        BY <2>1, <2>3, <2>4 DEF Restore
      <3>2. Carried'
        BY <1>0, <2>1, <2>4, <3>1 DEF Carried, Kept, Unread
      <3> QED
        BY <1>0, <2>1, <3>2, Undisturbed DEF Kept
    <2>5. CASE ckpt[k].state # "none"
      <3>1. loc'[c].conf.refresh = ckpt[k].refresh
        BY <2>1, <2>2, <2>5 DEF Restore, Merge, Profile
      <3>2. loc[c].orig.refresh \in ckpt[k].inputs
        BY <1>5, <2>3, <2>5 DEF Lock, Restorable
      <3>3. Carried'
        BY <1>0, <2>1, <2>5, <3>1, <3>2 DEF Carried, Kept, Unread
      <3> QED
        BY <1>0, <2>1, <3>3, Undisturbed DEF Kept
    <2> QED
      BY <2>4, <2>5
  <1>6. ASSUME NEW c \in Callers, Reuse(c) PROVE Kept'
    <2>1. /\ UNCHANGED <<db, ckpt, flow, newest, issues, loc, seen, edit>>
          /\ \A t \in Tasks : t # c => pc'[t] = pc[t]
          /\ pc[c] = "restored" /\ pc'[c] \in {"cache", "project_db"}
          /\ loc[c].ck.state = "ready"
      BY <1>0, <1>6 DEF Reuse, MayGoOn, Stay, Control, TypeOK
    <2>2. Carried'
      BY <1>0, <2>1 DEF Kept, Carried, Unread
    <2> QED
      BY <1>0, <2>1, <2>2, Undisturbed DEF Kept
  <1>7. ASSUME NEW c \in Callers, Intend(c) PROVE Kept'
    <2> DEFINE l == loc[c]
               k == CredOf(loc[c].conf)
    <2>1. /\ UNCHANGED <<db, flow, newest, issues, seen, edit>>
          /\ \A t \in Tasks : t # c => pc'[t] = pc[t]
          /\ pc[c] = "restored" /\ pc'[c] = "ask" /\ ckpt[k] = l.ck
          /\ \A d \in Callers : d # c => loc'[d] = loc[d]
          /\ loc'[c].ck = Intent(l) /\ loc'[c].conf = l.conf /\ loc'[c].orig = l.orig
          /\ \A j \in Credentials : ckpt'[j] = IF j = k THEN Intent(l) ELSE ckpt[j]
      BY <1>0, <1>7 DEF Intend, MayGoOn, Control, TypeOK, Loc
    <2>2. k \in Credentials /\ l.conf \in Profile /\ l.conf.set \in Settings /\ issues \in Seq(Credentials)
      BY <2>1, CallCred DEF Loc, Control, TypeOK, LiveCalls
    <2>3. /\ Intent(l).state = "intent" /\ Intent(l).refresh = l.conf.refresh
          /\ Intent(l).inputs = ckpt[k].inputs \cup {l.conf.refresh}
      BY <2>1 DEF Intent
    <2> HIDE DEF l, k
    <2>4. ckpt[k].state # "none" => l.conf.refresh = ckpt[k].refresh /\ l.orig.refresh \in ckpt[k].inputs
      BY <1>0, <2>1 DEF Kept, Carried, l, Unread
    <2>5. ckpt[k].state = "none" => ckpt[k].refresh = 0 /\ l.conf.refresh = l.orig.refresh
      BY <2>1, <2>2 DEF Kept, Carried, Checkpoints, l
    <2>6. l.conf.refresh \in 0 .. Len(issues)
      BY <2>2, LenProperties DEF Provenance, ProvenanceAt, Own, Belongs, l
    <2>7. Checkpoints'
      <3> SUFFICES ASSUME NEW j \in Credentials
                   PROVE  /\ ckpt'[j].state = "none" => ckpt'[j].refresh = 0
                          /\ ckpt'[j].inputs \subseteq 0 .. Len(issues')
                          /\ newest'[j] # 0 /\ newest'[j] \in ckpt'[j].inputs
                               => newest'[j] = ckpt'[j].refresh
        BY DEF Checkpoints
      <3>1. CASE j # k
        BY <2>1, <3>1 DEF Kept, Checkpoints
      <3>2. CASE j = k
        BY <2>1, <2>2, <2>3, <2>4, <2>5, <2>6, <3>2 DEF Kept, Checkpoints
      <3> QED
        BY <3>1, <3>2
    <2>8. Carried'
      <3>1. l.orig.refresh \in Intent(l).inputs
        BY <2>3, <2>4, <2>5
      <3> QED
        BY <1>0, <2>1, <2>3, <3>1 DEF Kept, Carried, l, Unread
    <2>9. \A j \in Credentials : newest[j] # 0 /\ newest[j] = ckpt[j].refresh => newest[j] = ckpt'[j].refresh
      BY <2>1, <2>3, <2>4, <2>5
    <2>10. \A j \in Credentials : Findable(j)'
      BY <2>1, <2>9 DEF Kept, Findable, Shows, CredOf
    <2>11. flow.phase = "ready" => CredOf(flow.cfg) \in Credentials
      BY CredType DEF Control, LiveFlows, TypeOK, Flow
    <2>12. Exchanged'
      <3>1. flow.phase = "ready" /\ flow.refresh # 0 =>
              newest[CredOf(flow.cfg)] \in {0, flow.refresh, ckpt'[CredOf(flow.cfg)].refresh}
        BY <2>9, <2>11 DEF Kept, Exchanged
      <3>2. \A h \in Handlers : pc'[h] = pc[h]
        BY <1>0, <2>1
      <3> QED
        BY <2>1, <3>1, <3>2 DEF Kept, Exchanged, Shows, CredOf
    <2> QED
      BY <1>0, <2>1, <2>7, <2>8, <2>10, <2>12, Undisturbed DEF Kept
  <1>8. ASSUME NEW c \in Callers, Ask(c) PROVE Kept'
    <2>1. /\ UNCHANGED <<db, ckpt, flow, newest, issues, loc, seen, edit>>
          /\ \A t \in Tasks : t # c => pc'[t] = pc[t]
          /\ pc[c] = "ask" /\ pc'[c] = "wait"
      BY <1>0, <1>8 DEF Ask, Control, TypeOK
    <2>2. Carried'
      BY <1>0, <2>1 DEF Kept, Carried, Unread
    <2> QED
      BY <1>0, <2>1, <2>2, Undisturbed DEF Kept
  <1>9. ASSUME NEW c \in Callers, Finish(c) PROVE Kept'
    <2> DEFINE l == loc[c]
               k == CredOf(loc[c].conf)
               n == Len(issues) + 1
    <2>1. PICK r \in {l.ck.refresh, n} : Answer(c, r)
      BY <1>9 DEF Finish
    <2>2. k \in Credentials /\ l.conf \in Profile /\ l.conf.set \in Settings
          /\ issues \in Seq(Credentials) /\ Len(issues) \in Nat
      BY <2>1, CallCred, LenProperties DEF Answer, Loc, Control, TypeOK, LiveCalls
    <2>3. /\ UNCHANGED <<db, flow, seen, edit>>
          /\ \A t \in Tasks : t # c => pc'[t] = pc[t]
          /\ pc[c] = "wait" /\ pc'[c] \in {"cache", "project_db"} /\ ckpt[k] = l.ck
          /\ \A d \in Callers : d # c => loc'[d] = loc[d]
          /\ loc'[c].ck = Ready(l, n, r) /\ loc'[c].conf = Restore(l.conf, Ready(l, n, r))
          /\ loc'[c].orig = l.orig
          /\ \A j \in Credentials : ckpt'[j] = IF j = k THEN Ready(l, n, r) ELSE ckpt[j]
          /\ \A j \in Credentials : newest'[j] = IF j = k /\ r = n THEN n ELSE newest[j]
      BY <1>0, <2>1 DEF Answer, Control, TypeOK, Loc
    <2>4. Len(issues') = n
      BY <2>1, <2>2, AppendProperties DEF Answer
    <2>5. /\ Ready(l, n, r).state = "ready" /\ Ready(l, n, r).refresh = r
          /\ Ready(l, n, r).inputs = ckpt[k].inputs \cup {r}
          /\ Restore(l.conf, Ready(l, n, r)).refresh = r
      BY <2>2, <2>3 DEF Ready, Restore, Merge, Profile
    <2> HIDE DEF l, k
    <2>6. ckpt[k].refresh = l.ck.refresh /\ l.orig.refresh \in ckpt[k].inputs
      BY <2>3 DEF Kept, Carried, l
    <2>7. ckpt[k].refresh \in 0 .. n
      BY <2>2 DEF Provenance, ProvenanceAt, OwnCheckpoint, Belongs
    <2>8. Checkpoints'
      <3> SUFFICES ASSUME NEW j \in Credentials
                   PROVE  /\ ckpt'[j].state = "none" => ckpt'[j].refresh = 0
                          /\ ckpt'[j].inputs \subseteq 0 .. Len(issues')
                          /\ newest'[j] # 0 /\ newest'[j] \in ckpt'[j].inputs
                               => newest'[j] = ckpt'[j].refresh
        BY DEF Checkpoints
      <3>1. ckpt[j].inputs \subseteq 0 .. n
        BY <2>2 DEF Kept, Checkpoints
      <3> HIDE DEF n
      <3>2. CASE j # k
        BY <2>3, <2>4, <3>1, <3>2 DEF Kept, Checkpoints
      <3>3. CASE j = k
        <4>1. ckpt'[j].inputs = ckpt[j].inputs \cup {r} /\ ckpt'[j].refresh = r
              /\ ckpt'[j].state = "ready"
          BY <2>3, <2>5, <3>3
        <4>2. r \in 0 .. n
          BY <2>2, <2>6, <2>7 DEF n
        <4>3. CASE r = n
          BY <2>3, <2>4, <3>1, <3>3, <4>1, <4>2, <4>3
        <4>4. CASE r # n
          <5>1. newest'[j] = newest[j] /\ r = ckpt[j].refresh
            BY <2>1, <2>3, <2>6, <3>3, <4>4
          <5> QED
            BY <2>4, <3>1, <4>1, <4>2, <5>1 DEF Kept, Checkpoints
        <4> QED
          BY <4>3, <4>4
      <3> QED
        BY <3>2, <3>3
    <2> HIDE DEF n
    <2>9. Carried'
      BY <1>0, <2>3, <2>5, <2>6 DEF Kept, Carried, l, Unread
    <2>10. \A j \in Credentials : newest[j] = ckpt[j].refresh => newest'[j] = ckpt'[j].refresh
      BY <2>1, <2>3, <2>5, <2>6
    <2>11. \A j \in Credentials : newest'[j] = newest[j] \/ newest'[j] = ckpt'[j].refresh
      BY <2>1, <2>3, <2>5, <2>6
    <2>12. \A j \in Credentials : Findable(j)'
      BY <2>3, <2>10, <2>11 DEF Kept, Findable, Shows, CredOf
    <2>13. flow.phase = "ready" => CredOf(flow.cfg) \in Credentials
      BY CredType DEF Control, LiveFlows, TypeOK, Flow
    <2>14. Exchanged'
      <3>1. flow.phase = "ready" /\ flow.refresh # 0 =>
              newest'[CredOf(flow.cfg)] \in {0, flow.refresh, ckpt'[CredOf(flow.cfg)].refresh}
        BY <2>10, <2>11, <2>13 DEF Kept, Exchanged
      <3>2. \A h \in Handlers : pc'[h] \notin {"project_file", "apply"}
        BY <1>0, <2>3, Alone DEF Control, OneHolder, Exclusive
      <3> QED
        BY <2>3, <3>1, <3>2 DEF Exchanged, CredOf
    <2> QED
      BY <1>0, <2>3, <2>8, <2>9, <2>12, <2>14, Undisturbed DEF Kept
  <1>10. ASSUME NEW c \in Callers, ProjectDb(c) PROVE Kept'
    <2> DEFINE l == loc[c]
               k == CredOf(loc[c].conf)
    <2>1. /\ UNCHANGED <<ckpt, newest, issues, flow, loc, seen, edit>>
          /\ \A t \in Tasks : t # c => pc'[t] = pc[t]
          /\ pc[c] = "project_db" /\ pc'[c] = "project_file" /\ ckpt[k] = l.ck
          /\ Mergeable(db, l.orig, l.conf) /\ db' = Merge(db, l.conf)
      BY <1>0, <1>10 DEF ProjectDb, Control, TypeOK
    <2>2. /\ db \in Profile /\ l.orig \in Profile /\ l.conf \in Profile
          /\ l.conf.set = l.orig.set /\ k \in Credentials
      BY <2>1, CallCred DEF Control, TypeOK, Loc, LiveCalls
    <2>3. db.set \in Settings /\ CredOf(db) = k
      BY <2>1, <2>2, MergeableCred DEF CredOf
    <2>4. db'.set = db.set /\ CredOf(db') = k /\ db'.refresh = l.conf.refresh
      BY <2>1, <2>2, <2>3 DEF Merge, Profile, CredOf
    <2>5. l.conf.refresh = ckpt[k].refresh /\ l.orig.refresh \in ckpt[k].inputs
      BY <2>1 DEF Kept, Carried
    <2>6. db'.refresh = db.refresh \/ db.refresh = l.orig.refresh
      BY <2>1, <2>4 DEF Mergeable, Projected
    <2> HIDE DEF l, k
    <2>7. newest[k] # 0 /\ newest[k] = db.refresh => newest[k] = db'.refresh
      BY <2>2, <2>4, <2>5, <2>6 DEF Kept, Checkpoints
    <2>8. \A j \in Credentials : Findable(j)'
      BY <2>1, <2>2, <2>3, <2>4, <2>7 DEF Kept, Findable, Shows, CredOf
    <2>9. \A h \in Handlers : pc'[h] \notin {"project_file", "apply"}
      BY <1>0, <2>1, Alone DEF Control, OneHolder, Exclusive
    <2>10. Exchanged'
      BY <2>1, <2>9 DEF Kept, Exchanged, CredOf
    <2> QED
      BY <1>0, <2>1, <2>8, <2>10, Undisturbed DEF Kept
  <1>11. ASSUME NEW c \in Callers, ProjectFile(c) PROVE Kept'
    <2>1. /\ UNCHANGED <<db, ckpt, flow, newest, issues, loc, seen, edit>>
          /\ \A t \in Tasks : t # c => pc'[t] = pc[t]
          /\ pc'[c] = "cache"
      BY <1>0, <1>11 DEF ProjectFile, Control, TypeOK
    <2> QED
      BY <1>0, <2>1, Quiet
  <1>12. ASSUME NEW c \in Callers, CacheToken(c) PROVE Kept'
    BY <1>0, <1>12, QuietLeave DEF CacheToken
  <1>13. ASSUME NEW h \in Handlers, Callback(h) PROVE Kept'
    <2>1. /\ UNCHANGED <<db, ckpt, flow, newest, issues, loc, edit>>
          /\ \A t \in Tasks : t # h => pc'[t] = pc[t]
          /\ \/ flow.phase = "pending" /\ pc'[h] = "verify"
             \/ flow.phase = "ready" /\ pc'[h] = "project_db"
          /\ seen' = [seen EXCEPT ![h] = flow] /\ profile = None
      <3>1. /\ UNCHANGED <<db, ckpt, flow, newest, issues, loc, edit>>
            /\ seen' = [seen EXCEPT ![h] = flow] /\ profile = None
            /\ flow.phase \in {"pending", "ready"}
        BY <1>13 DEF Callback
      <3>2. pc' = [pc EXCEPT ![h] = IF flow.phase = "pending" THEN "verify" ELSE "project_db"]
        BY <1>13 DEF Callback
      <3> QED
        BY <1>0, <3>1, <3>2 DEF Control, TypeOK
    <2>2. seen'[h] = flow /\ \A g \in Handlers : g # h => pc[g] \notin Exclusive
      BY <1>0, <2>1 DEF Control, OneHolder, TypeOK
    <2>3. Current'
      BY <1>0, <2>1, <2>2 DEF Current, Exclusive
    <2>4. Exchanged'
      BY <1>0, <2>1, Undisturbed
    <2> QED
      BY <1>0, <2>1, <2>3, <2>4, Undisturbed DEF Kept
  <1>14. ASSUME NEW h \in Handlers, BeginExchange(h) PROVE Kept'
    <2>1. /\ UNCHANGED <<db, ckpt, newest, issues, loc, edit>>
          /\ \A t \in Tasks : t # h => pc'[t] = pc[t]
          /\ pc[h] = "verify" /\ pc'[h] = "ask"
          /\ seen'[h] = flow' /\ flow'.phase = "intent" /\ flow.phase # "ready"
      BY <1>0, <1>14 DEF BeginExchange, SaveFlow, Control, TypeOK, Flow, Kept, Current
    <2>2. \A g \in Handlers : g # h => pc[g] \notin Exclusive
      BY <1>0, <2>1 DEF Control, OneHolder, Exclusive
    <2>3. Current'
      BY <1>0, <2>1, <2>2 DEF Current, Exclusive
    <2>4. Exchanged'
      BY <2>1 DEF Exchanged
    <2>5. \A k \in Credentials : Findable(k)'
      BY <2>1 DEF Kept, Findable, Shows, CredOf
    <2> QED
      BY <1>0, <2>1, <2>3, <2>4, <2>5, Undisturbed DEF Kept
  <1>15. ASSUME NEW h \in Handlers, SendCode(h) PROVE Kept'
    <2>1. /\ UNCHANGED <<db, ckpt, flow, newest, issues, loc, seen, edit>>
          /\ \A t \in Tasks : t # h => pc'[t] = pc[t]
          /\ pc[h] = "ask" /\ pc'[h] = "wait"
      BY <1>0, <1>15 DEF SendCode, Control, TypeOK
    <2>2. Current'
      BY <1>0, <2>1 DEF Kept, Current, Exclusive
    <2> QED
      BY <1>0, <2>1, <2>2, Undisturbed DEF Kept
  <1>16. ASSUME NEW h \in Handlers, FinishExchange(h) PROVE Kept'
    <2> DEFINE k == CredOf(seen[h].cfg)
               n == Len(issues) + 1
    <2>1. PICK r \in {0, n} :
            /\ SaveFlow(h, [seen[h] EXCEPT !.phase = "ready", !.token = n, !.refresh = r])
            /\ newest' = IF r = n THEN [newest EXCEPT ![k] = n] ELSE newest
      BY <1>16 DEF FinishExchange
    <2>2. k \in Credentials /\ issues \in Seq(Credentials) /\ Len(issues) \in Nat
      BY <1>16, CredType, LenProperties DEF FinishExchange, Control, LiveFlows, TypeOK, Flow
    <2>3. /\ UNCHANGED <<db, ckpt, loc, edit>>
          /\ \A t \in Tasks : t # h => pc'[t] = pc[t]
          /\ pc[h] = "wait" /\ pc'[h] = "project_db"
          /\ seen'[h] = flow' /\ flow'.phase = "ready" /\ flow'.refresh = r
          /\ flow'.cfg = seen[h].cfg
      BY <1>0, <1>16, <2>1 DEF FinishExchange, SaveFlow, Control, TypeOK, Flow
    <2>4. flow.phase # "ready"
      BY <2>3 DEF Kept, Current
    <2>5. Len(issues') = n
      BY <1>16, <2>2, AppendProperties DEF FinishExchange
    <2>6. \A j \in Credentials : newest'[j] = IF j = k /\ r = n THEN n ELSE newest[j]
      BY <2>1 DEF Control, TypeOK
    <2>7. CredOf(flow'.cfg) = k
      BY <2>3 DEF CredOf
    <2>8. n # 0
      BY <2>2
    <2>9. Checkpoints'
      <3> SUFFICES ASSUME NEW j \in Credentials
                   PROVE  /\ ckpt'[j].state = "none" => ckpt'[j].refresh = 0
                          /\ ckpt'[j].inputs \subseteq 0 .. Len(issues')
                          /\ newest'[j] # 0 /\ newest'[j] \in ckpt'[j].inputs
                               => newest'[j] = ckpt'[j].refresh
        BY DEF Checkpoints
      <3>1. ckpt[j].inputs \subseteq 0 .. n /\ n \notin ckpt[j].inputs
        BY <2>2 DEF Kept, Checkpoints
      <3> HIDE DEF k, n
      <3> QED
        BY <2>3, <2>5, <2>6, <3>1 DEF Kept, Checkpoints
    <2> HIDE DEF k, n
    <2>10. \A j \in Credentials : Findable(j)'
      BY <2>1, <2>3, <2>4, <2>6, <2>7 DEF Kept, Findable, Shows, CredOf
    <2>11. \A g \in Handlers : g # h => pc[g] \notin Exclusive
      BY <1>0, <2>3 DEF Control, OneHolder, Exclusive
    <2>12. Current'
      BY <1>0, <2>3, <2>11 DEF Current, Exclusive
    <2>13. Exchanged'
      <3>1. r # 0 => newest'[k] = r
        BY <2>1, <2>2, <2>6
      <3>2. \A g \in Handlers : pc'[g] \notin {"project_file", "apply"}
        BY <1>0, <2>3, <2>11 DEF Exclusive
      <3> QED
        BY <2>3, <2>7, <3>1, <3>2 DEF Exchanged
    <2> QED
      BY <1>0, <2>3, <2>9, <2>10, <2>12, <2>13, Undisturbed DEF Kept
  <1>17. ASSUME NEW h \in Handlers, ProjectAuthorizationDb(h) PROVE Kept'
    <2> DEFINE f == seen[h]
               saved == Authorized(seen[h])
               k == CredOf(flow.cfg)
    <2>1. /\ UNCHANGED <<ckpt, newest, issues, flow, loc, seen, edit>>
          /\ \A t \in Tasks : t # h => pc'[t] = pc[t]
          /\ pc[h] = "project_db" /\ pc'[h] = "project_file" /\ flow = f
          /\ Mergeable(db, f.cfg, saved) /\ db' = Merge(db, saved)
      BY <1>0, <1>17 DEF ProjectAuthorizationDb, Control, TypeOK
    <2>2. db \in Profile /\ f.cfg \in Profile /\ f \in Flow
      BY DEF Control, TypeOK, Flow
    <2>3. db.set \in Settings /\ CredOf(db) = k /\ k \in Credentials
      BY <2>1, <2>2, MergeableCred, CredType
    <2>4. /\ db'.set = db.set /\ CredOf(db') = k
          /\ db'.refresh = IF flow.refresh = 0 THEN f.cfg.refresh ELSE flow.refresh
      BY <2>1, <2>2, <2>3 DEF Merge, Authorized, Profile, Flow, CredOf
    <2>5. flow.refresh = 0 => db'.refresh = db.refresh
      BY <2>1, <2>2, <2>4 DEF Mergeable, Projected, Merge, Profile
    <2>6. flow.phase = "ready"
      BY <2>1 DEF Kept, Current
    <2> HIDE DEF f, k
    <2>7. flow.refresh # 0 => newest[k] \in {0, flow.refresh, ckpt[k].refresh}
      BY <2>6 DEF Kept, Exchanged, k
    <2>8. \A j \in Credentials : Findable(j)'
      <3> SUFFICES ASSUME NEW j \in Credentials PROVE Findable(j)'
        OBVIOUS
      <3>1. CASE flow.refresh = 0
        BY <2>1, <2>3, <2>4, <2>5, <3>1 DEF Kept, Findable, Shows, CredOf
      <3>2. CASE flow.refresh # 0 /\ j = k
        BY <2>1, <2>3, <2>4, <2>7, <3>2 DEF Findable, Shows, CredOf
      <3>3. CASE j # k
        BY <2>1, <2>3, <2>4, <3>3 DEF Kept, Findable, Shows, CredOf
      <3> QED
        BY <3>1, <3>2, <3>3
    <2>9. Current'
      BY <1>0, <2>1 DEF Kept, Current, Exclusive
    <2>10. Exchanged'
      <3>1. flow.refresh # 0 => Shows(k, flow.refresh)'
        BY <2>1, <2>3, <2>4 DEF Shows, CredOf, k
      <3> QED
        BY <2>1, <2>7, <3>1 DEF Exchanged, Shows, CredOf, k
    <2> QED
      BY <1>0, <2>1, <2>8, <2>9, <2>10, Undisturbed DEF Kept
  <1>18. ASSUME NEW h \in Handlers, ProjectAuthorizationFile(h) PROVE Kept'
    <2>1. /\ UNCHANGED <<db, ckpt, flow, newest, issues, loc, seen, edit>>
          /\ \A t \in Tasks : t # h => pc'[t] = pc[t]
          /\ pc[h] = "project_file" /\ pc'[h] = "apply"
      BY <1>0, <1>18 DEF ProjectAuthorizationFile, Control, TypeOK
    <2>2. Current'
      BY <1>0, <2>1 DEF Kept, Current, Exclusive
    <2> QED
      BY <1>0, <2>1, <2>2, Undisturbed DEF Kept
  <1>19. ASSUME NEW h \in Handlers, Apply(h) PROVE Kept'
    <2>1. /\ UNCHANGED <<db, ckpt, newest, issues>> /\ Leave(h)
          /\ pc[h] = "apply" /\ flow'.phase = "applied"
      BY <1>19 DEF Apply, Control, TypeOK, Flow
    <2>2. /\ \A t \in Tasks : t # h => pc'[t] = pc[t]
          /\ pc'[h] = "idle" /\ UNCHANGED <<loc, edit>>
      BY <1>0, <2>1 DEF Leave, Forget, Control, TypeOK
    <2>3. \A g \in Handlers : g # h => pc[g] \notin Exclusive
      BY <1>0, <2>1 DEF Control, OneHolder, Exclusive
    <2>4. Current'
      BY <1>0, <2>2, <2>3 DEF Current, Exclusive
    <2>5. Exchanged'
      BY <2>1 DEF Exchanged
    <2>6. flow.phase = "ready"
      BY <2>1 DEF Kept, Current
    <2>7. ASSUME NEW k \in Credentials PROVE Findable(k)'
      <3>1. newest[k] # 0 /\ CredOf(flow.cfg) = k /\ newest[k] = flow.refresh => Shows(k, newest[k])
        BY <2>1, <2>6 DEF Kept, Exchanged
      <3> QED
        BY <2>1, <3>1 DEF Kept, Findable, Shows, CredOf
    <2> QED
      BY <1>0, <2>1, <2>2, <2>4, <2>5, <2>7, Undisturbed DEF Kept
  <1>20. ASSUME NEW e \in Editors, OpenDocument(e) \/ InstallFile(e) PROVE Kept'
    <2>1. /\ UNCHANGED <<db, ckpt, flow, newest, issues, loc, seen, edit>>
          /\ \A t \in Tasks : t # e => pc'[t] = pc[t]
          /\ pc'[e] \in {"read", "recover", "clean"}
      BY <1>0, <1>20 DEF OpenDocument, InstallFile, Control, TypeOK
    <2> QED
      BY <1>0, <2>1, Quiet
  <1>21. ASSUME NEW e \in Editors, RemoveReceipt(e) PROVE Kept'
    <2>1. UNCHANGED <<db, ckpt, flow, newest, issues>>
      BY <1>21 DEF RemoveReceipt
    <2>2. CASE Leave(e)
      BY <1>0, <2>1, <2>2, QuietLeave
    <2>3. CASE Goto(e, "read") /\ UNCHANGED <<claim, profile, lease, loc, edit, seen>>
      <3>1. (\A t \in Tasks : t # e => pc'[t] = pc[t]) /\ pc'[e] = "read"
        BY <1>0, <2>3 DEF Control, TypeOK
      <3> QED
        BY <1>0, <2>1, <2>3, <3>1, Quiet
    <2> QED
      BY <1>21, <2>2, <2>3 DEF RemoveReceipt
  <1>22. ASSUME NEW e \in Editors, ReadConfig(e) PROVE Kept'
    <2>1. /\ UNCHANGED <<db, ckpt, flow, newest, issues, loc, seen>>
          /\ \A t \in Tasks : t # e => pc'[t] = pc[t]
          /\ \A u \in Editors : u # e => edit'[u] = edit[u]
          /\ edit'[e].before = file /\ edit'[e].after \in Edits(file)
      BY <1>0, <1>22 DEF ReadConfig, Control, TypeOK
    <2>2. Forms'
      BY <1>0, <2>1 DEF Kept, Forms
    <2> QED
      BY <1>0, <2>1, <2>2, Undisturbed DEF Kept
  <1>23. ASSUME NEW e \in Editors, SaveConfig(e) PROVE Kept'
    <2> DEFINE before == edit[e].before
               after == edit[e].after
               k == CredOf(before)
    <2>1. /\ UNCHANGED <<ckpt, flow, issues, loc, seen>>
          /\ \A t \in Tasks : t # e => pc'[t] = pc[t]
          /\ \A u \in Editors : u # e => edit'[u] = edit[u]
          /\ pc[e] = "loaded" /\ pc'[e] = "recover" /\ db = before /\ db' = after
          /\ newest' = IF before.set # None /\ ~SameCred(before, after)
                       THEN [newest EXCEPT ![k] = 0] ELSE newest
      BY <1>0, <1>23 DEF SaveConfig, Saveable, Control, TypeOK
    <2>2. before \in Profile /\ after \in Profile /\ after \in Edits(before)
      BY <2>1 DEF Control, TypeOK, Edit, Kept, Forms
    <2>3. SameCred(before, after) => after.refresh = before.refresh
      BY <2>2 DEF Edits, SameCred, CredOf, Gone, Profile
    <2>4. /\ before.set # None => before.set \in Settings /\ k \in Credentials
          /\ after.set # None => after.set \in Settings
      BY <2>2, CredType DEF Profile
    <2>5. \A j \in Credentials : newest'[j] =
            IF before.set # None /\ ~SameCred(before, after) /\ j = k THEN 0 ELSE newest[j]
      BY <2>1, <2>4 DEF Control, TypeOK
    <2>6. None \notin Settings
      BY TasksAssumption
    <2> HIDE DEF before, after
    <2>7. ASSUME NEW j \in Credentials, newest'[j] # 0, Shows(j, newest[j])
          PROVE  db'.set \in Settings /\ CredOf(db') = j /\ db'.refresh = newest'[j]
      <3>1. before.set # None /\ j = k
        BY <2>1, <2>6, <2>7 DEF Shows
      <3>2. SameCred(before, after) /\ newest'[j] = newest[j]
        BY <2>5, <2>7, <3>1
      <3> QED
        BY <2>1, <2>3, <2>4, <2>7, <3>1, <3>2 DEF Shows, SameCred, CredOf
    <2>8. \A j \in Credentials : newest'[j] \in {0, newest[j]}
      BY <2>5
    <2>9. Checkpoints'
      BY <2>1, <2>8 DEF Kept, Checkpoints
    <2>10. ASSUME NEW j \in Credentials PROVE Findable(j)'
      BY <2>1, <2>7, <2>8 DEF Kept, Findable, Shows, CredOf
    <2>11. flow.phase = "ready" => CredOf(flow.cfg) \in Credentials
      BY CredType DEF Control, LiveFlows, TypeOK, Flow
    <2>12. Exchanged'
      <3> SUFFICES ASSUME flow.phase = "ready", flow.refresh # 0
                   PROVE  /\ newest'[CredOf(flow.cfg)] \in {0, flow.refresh, ckpt[CredOf(flow.cfg)].refresh}
                          /\ \A h \in Handlers :
                               pc'[h] \in {"project_file", "apply"}
                               /\ newest'[CredOf(flow.cfg)] = flow.refresh =>
                                 Shows(CredOf(flow.cfg), flow.refresh)'
        BY <2>1 DEF Exchanged, Shows, CredOf
      <3>1. newest'[CredOf(flow.cfg)] \in {0, flow.refresh, ckpt[CredOf(flow.cfg)].refresh}
        BY <2>8, <2>11 DEF Kept, Exchanged
      <3>2. ASSUME NEW h \in Handlers, pc'[h] \in {"project_file", "apply"},
                   newest'[CredOf(flow.cfg)] = flow.refresh
            PROVE  Shows(CredOf(flow.cfg), flow.refresh)'
        <4>1. newest[CredOf(flow.cfg)] = flow.refresh /\ pc[h] = pc'[h]
          BY <1>0, <2>1, <2>8, <2>11, <3>2
        <4>2. Shows(CredOf(flow.cfg), flow.refresh)
          BY <3>2, <4>1 DEF Kept, Exchanged
        <4> QED
          BY <2>1, <2>7, <2>11, <3>2, <4>1, <4>2 DEF Shows, CredOf
      <3> QED
        BY <3>1, <3>2
    <2> QED
      BY <1>0, <2>1, <2>9, <2>10, <2>12, Undisturbed DEF Kept
  <1>24. ASSUME NEW t \in Tasks, Abandon(t) PROVE Kept'
    BY <1>24, QuietLeave DEF Abandon
  <1>25. ASSUME StartAuthorization PROVE Kept'
    <2>1. /\ UNCHANGED <<db, ckpt, newest, issues, pc, loc, seen, edit>>
          /\ profile = None /\ flow'.phase = "pending" /\ flow.phase # "ready"
      BY <1>25 DEF StartAuthorization, NoFlow
    <2>2. \A h \in Handlers : pc[h] \notin Exclusive
      BY <1>0, <2>1 DEF Control, OneHolder
    <2>3. Current'
      BY <2>1, <2>2 DEF Current, Exclusive
    <2>4. Exchanged' /\ \A k \in Credentials : Findable(k)'
      BY <2>1 DEF Kept, Exchanged, Findable, Shows, CredOf
    <2> QED
      BY <1>0, <2>1, <2>3, <2>4, Undisturbed DEF Kept
  <1>26. ASSUME Crash PROVE Kept'
    <2>1. \A t \in Tasks : pc'[t] = "idle"
      BY <1>26 DEF Crash
    <2> QED
      BY <1>0, <1>26, <2>1, Quiet DEF Crash, Exclusive
  <1>27. CASE UNCHANGED vars
    BY <1>27, Quiet DEF vars
  <1> QED
    BY <1>1, <1>2, <1>3, <1>4, <1>5, <1>6, <1>7, <1>8, <1>9, <1>10, <1>11, <1>12, <1>13, <1>14, <1>15, <1>16, <1>17, <1>18, <1>19, <1>20, <1>21, <1>22, <1>23, <1>24, <1>25, <1>26, <1>27
    DEF Next, CallerStep, HandlerStep, EditorStep

LEMMA KeptInvariant == Spec => []Kept
  <1>1. Control /\ Provenance /\ Kept /\ [Next]_vars => Kept'
    BY KeptStep
  <1> QED
    BY <1>1, KeptInit, ControlInvariant, ProvenanceInvariant, PTL DEF Spec

(* The newest refresh token saved for the profile's credentials is never    *)
(* lost: over lost answers, abandoned exchanges, crashes and projections    *)
(* that were done halfway it is in the checkpoint, the head flow or the     *)
(* profile, unless the operator dropped it with its credentials.            *)
THEOREM NewestKept == Spec => []NewestTokenKept
  <1>1. Control /\ Kept => NewestTokenKept
    <2> SUFFICES ASSUME Control, Kept, db.set # None, newest[CredOf(db)] # 0
                 PROVE  newest[CredOf(db)] \in {ckpt[CredOf(db)].refresh, flow.refresh, db.refresh}
      BY DEF NewestTokenKept
    <2>1. CredOf(db) \in Credentials
      BY CredType DEF Control, TypeOK, Profile
    <2> QED
      BY <2>1 DEF Kept, Findable, Shows
  <1> QED
    BY <1>1, ControlInvariant, KeptInvariant, PTL

=============================================================================
