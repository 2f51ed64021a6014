----------------------------- MODULE DiscoveryRun -----------------------------
(***************************************************************************)
(* One relation of one site, discovered over and over: the outbox of       *)
(* changes the site pushes, the retry queue, and the scan, in which        *)
(* several pipelines share a page counter, lease the items of a page from  *)
(* the site, reserve them against the cap of the run and translate them    *)
(* concurrently.  The markers that keep a failing item, a doomed relation  *)
(* or a missing endpoint from being tried again live in the process; the   *)
(* claim on an item under translation is kept in the database.             *)
(*                                                                         *)
(* A run works with the configuration it started from; the operator may    *)
(* change the configuration, or stop the run, at any moment.  What a       *)
(* translation saves and sends is ContentUnit's.                           *)
(***************************************************************************)
EXTENDS Integers, FiniteSets, SequencesExt

CONSTANTS
  NItems,      \* objects of the relation, listed in this order
  Pipelines,   \* batch pipelines of a scan
  PerPage,     \* objects of a page
  Cap,         \* items a run may translate
  PoisonAt,    \* structural failures in a row that condemn the relation
  Unserved,    \* objects no component serves under the first configuration
  Late,        \* objects the site does not list at first
  Changed,     \* objects with an entry in the outbox
  Retried,     \* objects in the retry queue
  MaxFaults,   \* transient failures
  MaxMoves     \* stops, restarts, changes of the configuration

ASSUME SizesAssumption ==
  {NItems, PerPage, Cap, PoisonAt} \subseteq Nat \ {0} /\ {MaxFaults, MaxMoves} \subseteq Nat
ASSUME ObjectsAssumption ==
  Unserved \cup Late \cup Changed \cup Retried \subseteq 1..NItems /\ IsFiniteSet(Pipelines)

Items == 1..NItems

VARIABLES
  listed,  \* objects the site lists as untranslated
  outbox,  \* changes the site keeps until they are acknowledged
  rival,   \* objects another client has leased
  retry,   \* the retry queue
  parked,  \* objects whose translation waits for a reviewer
  served,  \* objects some component serves under the present configuration
  claims,  \* rows of translation_in_progress
  mark,    \* the failure marker of each object
  streak,  \* structural failures of the relation since the last success
  hold,    \* outbox entries this process lets rest
  circuit, \* the claim endpoint is missing
  run,     \* the run under way
  pipe,    \* the pipelines of its scan
  team,    \* translations under way in the scan
  faults, moves

discoveryVars == <<listed, outbox, rival, retry, parked, served, claims, mark, streak, hold,
          circuit, run, pipe, team, faults, moves>>
site == <<listed, outbox, rival, parked>>
markers == <<mark, streak, hold, circuit>>
limits == <<faults, moves>>

Idle == [pc |-> "idle", served |-> {}, used |-> 0, page |-> 1,
         total |-> NItems + 1, queue |-> <<>>]
Off == [pc |-> "off", todo |-> <<>>]

DiscoveryInit ==
  /\ listed = Items \ Late /\ outbox = Changed /\ rival = {} /\ retry = Retried /\ parked = {}
  /\ served = Items \ Unserved
  /\ claims = {}
  /\ mark = [i \in Items |-> "clear"] /\ streak = 0 /\ hold = {} /\ circuit = FALSE
  /\ run = Idle /\ pipe = [p \in Pipelines |-> Off] /\ team = {}
  /\ faults = 0 /\ moves = 0

Fault == faults < MaxFaults /\ faults' = faults + 1
Move == moves < MaxMoves /\ moves' = moves + 1

-----------------------------------------------------------------------------
(* The markers *)

Blocked(i) == mark[i] # "clear"
Poisoned == streak >= PoisonAt

\* A structural marker is never downgraded to a cooldown.
Failed(i) == [mark EXCEPT ![i] = IF @ = "structural" THEN @ ELSE "cooling"]
Doomed(i) == [mark EXCEPT ![i] = "structural"]
Cleared(i) == [mark EXCEPT ![i] = "clear"]
OneMore == IF streak < PoisonAt THEN streak + 1 ELSE streak

Record(i, result) ==
  CASE result = "ok" -> mark' = Cleared(i) /\ streak' = 0
    [] result = "failed" -> mark' = Failed(i) /\ UNCHANGED streak
    [] result = "structural" -> mark' = Doomed(i) /\ streak' = OneMore

\* What a translation can come to under the configuration of the run: the
\* site took it, it waits for a reviewer or for its callback, or it failed.
Delivers(i) == i \in run.served \ parked /\ listed' = listed \ {i} /\ UNCHANGED <<parked, faults>>
Parks(i) == i \in run.served /\ parked' = parked \cup {i} /\ UNCHANGED <<listed, faults>>
Breaks(i) == i \in run.served /\ Fault /\ UNCHANGED <<listed, parked>>
Lacks(i) == i \notin run.served /\ UNCHANGED <<listed, parked, faults>>

-----------------------------------------------------------------------------
(* The operator, the site, the clock *)

\* A binding is saved: the structural markers and the poison are cleared.
Unmarked == [i \in Items |-> IF mark[i] = "structural" THEN "clear" ELSE mark[i]]

Configure ==
  /\ Move /\ served # Items
  /\ served' = Items
  /\ mark' = Unmarked /\ streak' = 0
  /\ UNCHANGED <<site, retry, claims, hold, circuit, run, pipe, team, faults>>

Cooled(i) ==
  /\ mark[i] = "cooling"
  /\ mark' = Cleared(i)
  /\ UNCHANGED <<site, retry, served, claims, streak, hold, circuit, run, pipe, team, limits>>

Rested(i) ==
  /\ i \in hold
  /\ hold' = hold \ {i}
  /\ UNCHANGED <<site, retry, served, claims, mark, streak, circuit, run, pipe, team, limits>>

Closed ==
  /\ circuit
  /\ circuit' = FALSE
  /\ UNCHANGED <<site, retry, served, claims, mark, streak, hold, run, pipe, team, limits>>

\* Another client leases an object, and its lease runs out.
Rival(i) ==
  /\ Fault /\ i \in listed \ rival
  /\ rival' = rival \cup {i}
  /\ UNCHANGED <<listed, outbox, parked, retry, served, claims, markers, run, pipe, team, moves>>

Lapses(i) ==
  /\ i \in rival
  /\ rival' = rival \ {i}
  /\ UNCHANGED <<listed, outbox, parked, retry, served, claims, markers, run, pipe, team, limits>>

\* A page shifts when an object is published or edited, and a change is queued.
PostEdited(i) ==
  /\ Fault /\ i \notin listed \cup parked
  /\ listed' = listed \cup {i} /\ outbox' = outbox \cup {i}
  /\ UNCHANGED <<rival, parked, retry, served, claims, markers, run, pipe, team, moves>>

Reviewed(i) ==
  /\ i \in parked
  /\ parked' = parked \ {i} /\ listed' = listed \ {i}
  /\ UNCHANGED <<outbox, rival, retry, served, claims, markers, run, pipe, team, limits>>

-----------------------------------------------------------------------------
(* The run: outbox, retry queue, scan *)

RunGoto(pc) == run' = [run EXCEPT !.pc = pc]

DrainedOne == IF outbox = {} THEN <<>> ELSE <<Min(outbox)>>  \* slip: the first entry alone

\* The outbox of the relation is drained once a run.
Drained == SetToSeq(outbox)

StartRun ==
  /\ run.pc = "idle"
  /\ run' = [Idle EXCEPT !.pc = "outbox", !.served = served, !.queue = Drained]
  /\ UNCHANGED <<site, retry, served, claims, markers, pipe, team, limits>>

Entry == Head(run.queue)
Serving(pc) == run.pc = pc /\ run.queue # <<>>
NextEntry == run' = [run EXCEPT !.queue = Tail(@)]

\* Held at home, or behind a condemned relation: passed over, not answered.
OutboxPass ==
  /\ Serving("outbox") /\ (Entry \in hold \/ Poisoned)
  /\ NextEntry
  /\ UNCHANGED <<site, retry, served, claims, markers, pipe, team, limits>>

OutboxOpen == Serving("outbox") /\ Entry \notin hold /\ ~Poisoned

\* The site keeps the entry, and this process lets it rest.
OutboxDefer ==
  /\ OutboxOpen /\ Blocked(Entry)
  /\ hold' = hold \cup {Entry}
  /\ NextEntry
  /\ UNCHANGED <<site, retry, served, claims, mark, streak, circuit, pipe, team, limits>>

\* The callback that reports the outcome is the acknowledgement.
OutboxDelivered ==
  /\ Delivers(Entry) /\ Record(Entry, "ok")
  /\ outbox' = outbox \ {Entry} /\ hold' = hold \cup {Entry}

\* Nothing to send, or a reviewer's decision to wait for: acknowledged here.
OutboxSettled ==
  /\ Parks(Entry) /\ Record(Entry, "ok")
  /\ outbox' = outbox \ {Entry} /\ hold' = hold \cup {Entry}

\* The acknowledgement, or the callback, did not get through.
OutboxUnheard ==
  /\ Breaks(Entry) /\ Record(Entry, "ok")
  /\ hold' = hold \cup {Entry} /\ UNCHANGED outbox

OutboxFailed ==
  /\ \/ Breaks(Entry) /\ Record(Entry, "failed")
     \/ Lacks(Entry) /\ Record(Entry, "structural")
  /\ hold' = hold \cup {Entry} /\ UNCHANGED outbox

OutboxTranslate ==
  /\ OutboxOpen /\ ~Blocked(Entry)
  /\ OutboxDelivered \/ OutboxSettled \/ OutboxUnheard \/ OutboxFailed
  /\ NextEntry
  /\ UNCHANGED <<rival, retry, served, claims, circuit, pipe, team, moves>>

\* Without its rules, or behind too many callbacks, the relation is left for later.
RelationFails ==
  /\ run.pc = "outbox" /\ run.queue = <<>> /\ ~circuit /\ Fault
  /\ run' = Idle
  /\ UNCHANGED <<site, retry, served, claims, markers, pipe, team, moves>>

\* An open scan circuit leaves the retry queue and the scan for later.
OutboxDone ==
  /\ run.pc = "outbox" /\ run.queue = <<>>
  /\ run' = IF circuit THEN Idle ELSE [run EXCEPT !.pc = "retry", !.queue = SetToSeq(retry)]
  /\ UNCHANGED <<site, retry, served, claims, markers, pipe, team, limits>>

\* The retry queue looks at the marker of the object alone.
RetrySkip ==
  /\ Serving("retry") /\ Blocked(Entry)
  /\ NextEntry
  /\ UNCHANGED <<site, retry, served, claims, markers, pipe, team, limits>>

\* Only a delivered translation leaves the queue.
RetryTranslate ==
  /\ Serving("retry") /\ ~Blocked(Entry)
  /\ \/ Delivers(Entry) /\ Record(Entry, "ok") /\ retry' = retry \ {Entry}
     \/ Parks(Entry) /\ Record(Entry, "ok") /\ UNCHANGED retry
     \/ Breaks(Entry) /\ Record(Entry, "failed") /\ UNCHANGED retry
     \/ Lacks(Entry) /\ Record(Entry, "structural") /\ UNCHANGED retry
  /\ NextEntry
  /\ UNCHANGED <<outbox, rival, served, claims, hold, circuit, pipe, team, moves>>

RetryDone ==
  /\ run.pc = "retry" /\ run.queue = <<>>
  /\ IF Poisoned THEN run' = Idle /\ UNCHANGED pipe
                 ELSE RunGoto("scan") /\ pipe' = [p \in Pipelines |-> [Off EXCEPT !.pc = "page"]]
  /\ UNCHANGED <<site, retry, served, claims, markers, team, limits>>

-----------------------------------------------------------------------------
(* A pipeline of the scan *)

PipeAt(p, pc) == run.pc = "scan" /\ pipe[p].pc = pc
To(p, pc, todo) == pipe' = [pipe EXCEPT ![p] = [pc |-> pc, todo |-> todo]]
Current(p) == Head(pipe[p].todo)
Rest(p) == Tail(pipe[p].todo)
Full == run.used >= Cap

\* Pages are cut from what the site lists at the moment.
Pages == (Cardinality(listed) + PerPage - 1) \div PerPage
Page(n) ==
  LET all == SetToSortSeq(listed, <)
      last == IF n * PerPage < Len(all) THEN n * PerPage ELSE Len(all)
  IN SubSeq(all, (n - 1) * PerPage + 1, last)

Least(a, b) == IF a <= b THEN a ELSE b

TurnPage(p) ==
  /\ PipeAt(p, "page")
  /\ IF Full THEN To(p, "off", <<>>) /\ UNCHANGED run
     ELSE /\ run' = [run EXCEPT !.page = @ + 1]
          /\ IF run.page > run.total THEN To(p, "off", <<>>) ELSE To(p, "fetch", <<run.page>>)
  /\ UNCHANGED <<site, retry, served, claims, markers, team, limits>>

FetchShort(p) ==  \* slip: the last page is never asked for
  /\ PipeAt(p, "fetch")
  /\ LET page == Page(Current(p)) IN
       IF page = <<>> THEN To(p, "off", <<>>) ELSE To(p, "lease", page)
  /\ run' = [run EXCEPT !.total = Least(@, Pages - 1)]
  /\ UNCHANGED <<site, retry, served, claims, markers, team, limits>>

\* The number of pages is only ever lowered; an empty page ends the pipeline.
Fetch(p) ==
  /\ PipeAt(p, "fetch")
  /\ LET page == Page(Current(p)) IN
       IF page = <<>> THEN To(p, "off", <<>>) ELSE To(p, "lease", page)
  /\ run' = [run EXCEPT !.total = Least(@, Pages)]
  /\ UNCHANGED <<site, retry, served, claims, markers, team, limits>>

FetchFails(p) ==
  /\ PipeAt(p, "fetch") /\ Fault
  /\ To(p, "off", <<>>)
  /\ UNCHANGED <<site, retry, served, claims, markers, run, team, moves>>

\* Blocked objects are not even leased; a page of them is turned over.
Free(page) == SelectSeq(page, LAMBDA i : ~Blocked(i))

TurnOver(p) ==
  /\ PipeAt(p, "lease") /\ Free(pipe[p].todo) = <<>>
  /\ To(p, "page", <<>>)
  /\ UNCHANGED <<site, retry, served, claims, markers, run, team, limits>>

\* The site leases what no other client holds; without a lease it ends.
Leased(page) == SelectSeq(Free(page), LAMBDA i : i \notin rival)

Lease(p) ==
  /\ PipeAt(p, "lease") /\ Free(pipe[p].todo) # <<>>
  /\ LET page == Leased(pipe[p].todo) IN
       IF page = <<>> THEN To(p, "off", <<>>) ELSE To(p, "item", page)
  /\ UNCHANGED <<site, retry, served, claims, markers, run, team, limits>>

\* A refused or lost lease ends the pipeline; a missing endpoint opens the circuit.
LeaseFails(p) ==
  /\ PipeAt(p, "lease") /\ Free(pipe[p].todo) # <<>> /\ Fault
  /\ circuit' \in {circuit, TRUE}
  /\ To(p, "off", <<>>)
  /\ UNCHANGED <<site, retry, served, claims, mark, streak, hold, run, team, moves>>

\* The item is counted before anything else is known about it.
Reserve(p) ==
  /\ PipeAt(p, "item") /\ pipe[p].todo # <<>>
  /\ IF Full THEN To(p, "item", <<>>) /\ UNCHANGED run
     ELSE run' = [run EXCEPT !.used = @ + 1] /\ To(p, "check", pipe[p].todo)
  /\ UNCHANGED <<site, retry, served, claims, markers, team, limits>>

Refund == run' = [run EXCEPT !.used = @ - 1]

CheckMarker(p) ==
  /\ PipeAt(p, "check")
  /\ IF Blocked(Current(p)) THEN Refund /\ To(p, "item", Rest(p))
                            ELSE To(p, "claim", pipe[p].todo) /\ UNCHANGED run
  /\ UNCHANGED <<site, retry, served, claims, markers, team, limits>>

Busy(p, i) == [pipe |-> p, item |-> i, result |-> "running"]

TakenNever(i) == FALSE  \* slip: the row is written over

Taken(i) == i \in claims

Claim(p) ==
  /\ PipeAt(p, "claim")
  /\ To(p, "item", Rest(p))
  /\ IF Taken(Current(p))
     THEN Refund /\ UNCHANGED <<claims, team>>
     ELSE /\ claims' = claims \cup {Current(p)}
          /\ team' = team \cup {Busy(p, Current(p))}
          /\ UNCHANGED run
  /\ UNCHANGED <<site, retry, served, markers, limits>>

\* Everything under way is dropped: the translators with it, not their claims.
Abort ==
  /\ run' = Idle /\ pipe' = [p \in Pipelines |-> Off] /\ team' = {}
  /\ UNCHANGED <<site, retry, served, claims, markers>>

\* The claim cannot be confirmed: the error leaves the run by way of the
\* first pipeline, and the others are dropped.
ClaimFails(p) == PipeAt(p, "claim") /\ Fault /\ Abort /\ UNCHANGED moves

Stop == run.pc # "idle" /\ Move /\ Abort /\ UNCHANGED faults

\* The outcome is known; the claim is released, then the markers are set.
Translated(t, result) ==
  /\ t.result = "running"
  /\ team' = (team \ {t}) \cup {[t EXCEPT !.result = result]}
  /\ claims' = claims \ {t.item}
  /\ UNCHANGED <<outbox, rival, retry, served, markers, run, pipe, moves>>

TranslateItem(t) ==
  \/ Delivers(t.item) /\ Translated(t, "ok")
  \/ Parks(t.item) /\ Translated(t, "ok")
  \/ Breaks(t.item) /\ \E result \in {"ok", "failed"} : Translated(t, result)
  \/ Lacks(t.item) /\ Translated(t, "structural")

Note(t) ==
  /\ t.result # "running"
  /\ Record(t.item, t.result)
  /\ team' = team \ {t}
  /\ UNCHANGED <<site, retry, served, claims, hold, circuit, run, pipe, limits>>

\* The next page waits for the translations of this one.
Join(p) ==
  /\ PipeAt(p, "item") /\ pipe[p].todo = <<>> /\ \A t \in team : t.pipe # p
  /\ To(p, "page", <<>>)
  /\ UNCHANGED <<site, retry, served, claims, markers, run, team, limits>>

EndRun ==
  /\ run.pc = "scan" /\ \A p \in Pipelines : pipe[p].pc = "off"
  /\ run' = Idle
  /\ UNCHANGED <<site, retry, served, claims, markers, pipe, team, limits>>

\* A new process: only the database is left, and its claims are cleared.
Restart ==
  /\ Move
  /\ run' = Idle /\ pipe' = [p \in Pipelines |-> Off] /\ team' = {}
  /\ claims' = {}
  /\ mark' = [i \in Items |-> "clear"] /\ streak' = 0 /\ hold' = {} /\ circuit' = FALSE
  /\ UNCHANGED <<site, retry, served, faults>>

-----------------------------------------------------------------------------
PipeStep(p) ==
  \/ TurnPage(p) \/ Fetch(p) \/ TurnOver(p) \/ Lease(p)
  \/ Reserve(p) \/ CheckMarker(p) \/ Claim(p) \/ Join(p)

PipeFails(p) == FetchFails(p) \/ LeaseFails(p) \/ ClaimFails(p)

RunStep ==
  \/ StartRun \/ OutboxPass \/ OutboxDefer \/ OutboxTranslate \/ OutboxDone
  \/ RetrySkip \/ RetryTranslate \/ RetryDone \/ EndRun

TeamStep == \E t \in team : TranslateItem(t) \/ Note(t)

DiscoveryNext ==
  \/ RunStep \/ RelationFails \/ TeamStep \/ Closed \/ Configure \/ Stop \/ Restart
  \/ \E p \in Pipelines : PipeStep(p) \/ PipeFails(p)
  \/ \E i \in Items : Cooled(i) \/ Rested(i) \/ Lapses(i) \/ Rival(i) \/ PostEdited(i) \/ Reviewed(i)

DiscoverySpec == DiscoveryInit /\ [][DiscoveryNext]_discoveryVars

\* The worker polls again, its tasks run on, cooldowns and leases run out.
\* Nobody has to review, configure or restart.
DiscoveryFairness ==
  /\ WF_discoveryVars(RunStep) /\ WF_discoveryVars(TeamStep) /\ WF_discoveryVars(Closed)
  /\ \A p \in Pipelines : WF_discoveryVars(PipeStep(p))
  /\ \A i \in Items : WF_discoveryVars(Cooled(i)) /\ WF_discoveryVars(Rested(i)) /\ WF_discoveryVars(Lapses(i))

DiscoveryFairSpec == DiscoverySpec /\ DiscoveryFairness

-----------------------------------------------------------------------------
(* What the lanes promise *)

\* However pages overlap while the list shrinks, an object is translated by
\* one pipeline at a time, and the claim stands while it is.
OneTranslator ==
  LET running == {t \in team : t.result = "running"} IN
    /\ {t.item : t \in running} \subseteq claims
    /\ \A t, u \in running : t.item = u.item => t = u

\* What may stand in an object's way for good: a structural marker, a
\* condemned relation, a claim left behind, parked objects that fill the cap.
Stuck(i) ==
  \/ mark[i] = "structural" \/ Poisoned
  \/ i \in claims /\ \A t \in team : t.item # i
  \/ Cardinality(parked \cap listed) >= Cap

\* Runs that shift pages, skip cooling objects and stop at the cap reach
\* every object of the relation all the same.
EveryObjectServed == \A i \in Items : i \in listed ~> (i \notin listed \/ i \in parked \/ Stuck(i))

\* Every entry of the outbox is answered in the end.
OutboxDrains == \A i \in Items : i \in outbox ~> (i \notin outbox \/ Stuck(i))

=============================================================================
