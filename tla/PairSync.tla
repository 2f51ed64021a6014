-------------------------------- MODULE PairSync --------------------------------
(***************************************************************************)
(* A pair of sites and all of its posts.  A run scans the source by pages, *)
(* in the order of the posts' numbers and from a stored cursor, pulls and  *)
(* ships what is new, and then asks about a slice of the posts it knows,   *)
(* which is how it learns of a later change or a deletion.  What lies      *)
(* below the cursor and is not known is never listed again.                *)
(*                                                                         *)
(* Shipping one post is a single step here: the lease of the unit keeps    *)
(* runs apart, and RelayUnit takes it to pieces.  Calls are signed with    *)
(* keys a handshake agrees on with each site; a run keeps the keys it      *)
(* began with.                                                             *)
(***************************************************************************)
EXTENDS FiniteSets, FiniteSetsExt, Integers

CONSTANTS
  Posts,       \* numbers of the posts at the source
  Extra,       \* those of a type the pair does not ask for at first
  Runs, Lane,  \* runs under way at one time; the one the worker repeats
  Pairings,    \* handshakes under way at one time
  PageSize, PullBatch, RotationBatch,
  MaxOps,      \* changes at the source, edits, runs by hand, handshakes
  MaxFaults,   \* calls that fail, crashes
  Absent

ASSUME PostsAssumption == Posts \subseteq Nat \ {0} /\ IsFiniteSet(Posts) /\ Extra \subseteq Posts
ASSUME LaneAssumption == Lane \in Runs
ASSUME SizesAssumption == {PageSize, PullBatch, RotationBatch} \subseteq Nat \ {0}
ASSUME BudgetAssumption == {MaxOps, MaxFaults} \subseteq Nat

VARIABLES
  source,  \* the posts at the source: version and status
  pair,    \* its entry: active, with the extra type, parking, how often edited
  state,   \* of the pair: cursor, place in the rotation, known posts
  row,     \* the scope of an effect that is not settled, by post
  parked,  \* the inbox: version, and the authority an approval has saved
  client,  \* the client's identity and its key for each end
  site,    \* the key and the identity each end has registered
  shake,   \* the handshakes
  run,     \* the runs
  missed,  \* posts the cursor passed though nothing is known of them
  ops, faults

inbox == <<row, parked>>
peers == <<client, site, shake>>
pairVars == <<source, pair, state, inbox, peers, run, missed, ops, faults>>

Ends == {"source", "target"}
Names == Nat \cup {Absent}
Client == [uuid : Names, key : [Ends -> Names]]
Entry == [ver : Nat, trash : BOOLEAN, rejected : BOOLEAN, shipped : BOOLEAN]
Waiting == [ver : Nat, by : (Nat \X Client) \cup {Absent}]
Terms == [on : BOOLEAN, extra : BOOLEAN, parks : BOOLEAN, set : Nat]
ASSUME AbsentAssumption == Absent \notin Nat \cup Entry \cup Waiting \cup Terms

Empty == [cursor |-> 0, turn |-> 0, known |-> [p \in Posts |-> Absent]]
Idle == [at |-> "idle", scan |-> 0, safe |-> 0, blocked |-> FALSE, peer |-> Absent, pair |-> Absent,
         page |-> <<>>, conv |-> {}, todo |-> {}, got |-> <<>>, bury |-> {}, next |-> 0]
Apart == [end |-> Absent, peer |-> Absent, key |-> Absent, agreed |-> FALSE]
Shipped(v) == [ver |-> v, trash |-> FALSE, rejected |-> FALSE, shipped |-> TRUE]

\* Both ends were paired long ago, or neither yet.
PairInit ==
  /\ source \in [Posts -> {[ver |-> 1, st |-> s] : s \in {"live", "trash"}}]
  /\ \E b \in BOOLEAN : pair = [on |-> TRUE, extra |-> FALSE, parks |-> b, set |-> 0]
  /\ state = Empty
  /\ row = [p \in Posts |-> Absent] /\ parked = [p \in Posts |-> Absent]
  /\ \E k \in {0, Absent} :
       /\ client = [uuid |-> k, key |-> [e \in Ends |-> k]]
       /\ site = [e \in Ends |-> [uuid |-> k, key |-> k]]
  /\ shake = [h \in Pairings |-> Apart] /\ run = [r \in Runs |-> Idle]
  /\ missed = {}
  /\ ops = 0 /\ faults = 0

Op == ops < MaxOps /\ ops' = ops + 1
Fault == faults < MaxFaults /\ faults' = faults + 1
Sets(r, new) == run' = [run EXCEPT ![r] = new]
To(r, at) == Sets(r, [run[r] EXCEPT !.at = at])
still == <<source, pair, peers>>

\* An end takes a call that is signed with the key it registered.
Takes(e, peer) == peer.key[e] # Absent /\ peer.key[e] = site[e].key /\ peer.uuid = site[e].uuid

-----------------------------------------------------------------------------
(* A run: the scan *)

\* The worker repeats its run; any other one is started by hand.
ByHand(r) == IF r = Lane THEN UNCHANGED ops ELSE Op

Begin(r) ==
  /\ run[r] = Idle /\ ByHand(r)
  /\ pair # Absent /\ pair.on /\ \A e \in Ends : client.key[e] # Absent
  /\ Sets(r, [Idle EXCEPT !.at = "digest", !.scan = state.cursor, !.safe = state.cursor,
                          !.peer = client, !.pair = pair])
  /\ UNCHANGED <<still, state, inbox, missed, faults>>

Listed(r) == {p \in Posts : p > run[r].scan /\ source[p].st # "gone" /\ (p \in Extra => run[r].pair.extra)}
FirstOf(S, n) == {p \in S : Cardinality({q \in S : q < p}) < n}

Digest(r) ==
  /\ run[r].at = "digest" /\ Takes("source", run[r].peer)
  /\ LET page == FirstOf(Listed(r), PageSize) IN
       Sets(r, IF page = {} THEN [run[r] EXCEPT !.at = "rotate"]
               ELSE [run[r] EXCEPT !.at = "sort", !.scan = Max(page),
                                   !.page = [p \in page |-> source[p]]])
  /\ UNCHANGED <<still, state, inbox, missed, ops, faults>>

\* The cursor goes over an unbroken run of converged posts.
Safe(safe, page, conv) == Max({safe} \cup {p \in page : \A q \in page : q <= p => q \in conv})

Unwanted(entry, src) == entry # Absent /\ src.st = "trash" /\ ~entry.trash
NeverShipped(entry) == entry.rejected /\ ~entry.shipped
Forgets(entry, src) == Unwanted(entry, src) /\ NeverShipped(entry)

\* What a page asks for.  A post that waits in the inbox counts as converged,
\* and so does one that is first seen in the trash.
Converged(p, src) ==
  LET entry == state.known[p] IN
  \/ parked[p] # Absent
  \/ IF entry = Absent THEN src.st = "trash" ELSE entry.ver = src.ver \/ Forgets(entry, src)
Buries(p, src) == ~Converged(p, src) /\ Unwanted(state.known[p], src)

\* Nothing is known of a post that was seen in the trash, or was not asked for.
Passes(r, cursor) == IF run[r].pair.extra THEN {} ELSE {p \in Extra : p <= cursor}

Sort(r) ==
  /\ run[r].at = "sort"
  /\ LET R == run[r]  page == DOMAIN R.page
         conv == {p \in page : Converged(p, R.page[p])}
         bury == {p \in page : Buries(p, R.page[p])}
         gone == {p \in conv : parked[p] = Absent /\ state.known[p] # Absent /\ Forgets(state.known[p], R.page[p])
                                 /\ state.known[p].ver # R.page[p].ver}
         safe == IF R.blocked THEN R.safe ELSE Safe(R.safe, page, conv)
         known == [p \in Posts |-> IF p \in gone THEN Absent ELSE state.known[p]] IN
       /\ Sets(r, [R EXCEPT !.at = IF page = conv \cup bury THEN "bury" ELSE "pull", !.conv = conv,
                            !.bury = bury, !.todo = page \ (conv \cup bury), !.safe = safe])
       /\ state' = [state EXCEPT !.cursor = safe, !.known = known]
       /\ missed' = missed \cup Passes(r, safe)
                      \cup {p \in conv : parked[p] = Absent /\ known[p] = Absent}
  /\ UNCHANGED <<still, inbox, ops, faults>>

\* All of a batch or nothing; the first that fails ends the pulling.
Pull(r) ==
  LET batch == FirstOf(run[r].todo, PullBatch) IN
  /\ run[r].at = "pull"
  /\ IF Takes("source", run[r].peer) /\ \A p \in batch : source[p].st = "live"
     THEN Sets(r, [run[r] EXCEPT !.at = "ship", !.todo = @ \ batch, !.got = [p \in batch |-> source[p].ver]])
     ELSE To(r, "bury")
  /\ UNCHANGED <<still, state, inbox, missed, ops, faults>>

-----------------------------------------------------------------------------
(* Shipping *)

Upsert(v, r) == [kind |-> "upsert", ver |-> v, set |-> run[r].pair.set]
Tomb(kind) == [kind |-> kind, ver |-> 0, set |-> 0]

\* An effect that is not settled admits no other one.
Admits(p, scope) == row[p] \in {Absent, scope}
Works(r) == \A e \in Ends : Takes(e, run[r].peer)

Known(p, entry) == state' = [state EXCEPT !.known[p] = entry]

\* Parked, or delivered and known.
Delivers(r, p, v) ==
  /\ Works(r) /\ Admits(p, Upsert(v, r))
  /\ row' = [row EXCEPT ![p] = Absent]
  /\ IF run[r].pair.parks
     THEN /\ parked' = [parked EXCEPT ![p] = IF @ = Absent THEN [ver |-> v, by |-> Absent]
                                             ELSE IF @.by = Absent THEN [ver |-> v, by |-> Absent] ELSE @]
          /\ UNCHANGED state
     ELSE Known(p, Shipped(v)) /\ UNCHANGED parked

\* Refused, or interrupted with the effect in doubt.
Stops(r, p, scope) ==
  /\ UNCHANGED <<state, parked>>
  /\ IF Works(r) /\ Admits(p, scope)
     THEN Fault /\ row' \in {row, [row EXCEPT ![p] = scope]}
     ELSE UNCHANGED <<row, faults>>

\* The packets of a batch, one after the other.
Ship(r) ==
  LET got == run[r].got IN
  /\ run[r].at = "ship"
  /\ \E p \in FirstOf(DOMAIN got, 1) :
       LET rest == [q \in DOMAIN got \ {p} |-> got[q]]
           at == IF rest # <<>> THEN "ship" ELSE IF run[r].todo = {} THEN "bury" ELSE "pull" IN
       \/ /\ Delivers(r, p, got[p])
          /\ Sets(r, [run[r] EXCEPT !.conv = @ \cup {p}, !.got = rest, !.at = at])
          /\ UNCHANGED faults
       \/ /\ Stops(r, p, Upsert(got[p], r))
          /\ Sets(r, [run[r] EXCEPT !.got = rest, !.at = at])
  /\ UNCHANGED <<still, missed, ops>>

Bury(r) ==
  /\ run[r].at = "bury"
  /\ \E p \in FirstOf(run[r].bury, 1) :
       \/ /\ Works(r) /\ Admits(p, Tomb("trash"))
          /\ row' = [row EXCEPT ![p] = Absent]
          /\ Known(p, IF state.known[p] = Absent THEN Absent
                      ELSE [state.known[p] EXCEPT !.trash = TRUE, !.ver = run[r].page[p].ver])
          /\ Sets(r, [run[r] EXCEPT !.conv = @ \cup {p}, !.bury = @ \ {p}])
          /\ UNCHANGED <<parked, faults>>
       \/ /\ Stops(r, p, Tomb("trash"))
          /\ Sets(r, [run[r] EXCEPT !.bury = @ \ {p}])
  /\ UNCHANGED <<still, missed, ops>>

\* slip: a page that failed does not hold the cursor for the pages after it
BlocksNever(page, conv) == FALSE

\* A post that did not converge holds the cursor for the rest of the run.
Blocks(page, conv) == ~(page \subseteq conv)

EndPage(r) ==
  LET R == run[r]  page == DOMAIN R.page
      safe == IF R.blocked THEN R.safe ELSE Safe(R.safe, page, R.conv) IN
  /\ R.at = "bury" /\ R.bury = {}
  /\ state' = [state EXCEPT !.cursor = safe]
  /\ missed' = missed \cup Passes(r, safe)
  /\ Sets(r, [R EXCEPT !.at = IF Cardinality(page) < PageSize THEN "rotate" ELSE "digest",
                       !.safe = safe, !.blocked = @ \/ Blocks(page, R.conv),
                       !.page = <<>>, !.conv = {}, !.todo = {}])
  /\ UNCHANGED <<still, inbox, ops, faults>>

-----------------------------------------------------------------------------
(* A run: the rotation *)

\* slip: the end of the list is not followed by its beginning
AfterEnd(end, len) == end

After(end, len) == IF end >= len THEN 0 ELSE end

\* A slice of what is known, by its order, and what was known of it.
Rotate(r) ==
  LET all == {p \in Posts : state.known[p] # Absent}
      len == Cardinality(all)
      start == IF state.turn < len THEN state.turn ELSE len - 1
      end == Min({start + RotationBatch, len})
      slice == FirstOf(all, end) \ FirstOf(all, start) IN
  /\ run[r].at = "rotate"
  /\ Sets(r, IF all = {} THEN Idle
             ELSE [run[r] EXCEPT !.at = "ask", !.page = [p \in slice |-> state.known[p]],
                                 !.next = After(end, len)])
  /\ UNCHANGED <<still, state, inbox, missed, ops, faults>>

\* Verdicts: in order, newer, or missing.
Ask(r) ==
  LET page == run[r].page IN
  /\ run[r].at = "ask" /\ Takes("source", run[r].peer)
  /\ Sets(r, [run[r] EXCEPT !.at = "act",
        !.todo = {p \in DOMAIN page : source[p].st # "gone" /\ source[p].ver # page[p].ver},
        !.bury = {p \in DOMAIN page : source[p].st = "gone"}])
  /\ UNCHANGED <<still, state, inbox, missed, ops, faults>>

Handled(r, p) == Sets(r, [run[r] EXCEPT !.todo = @ \ {p}, !.bury = @ \ {p}])

\* A missing post is deleted at the target, whatever the inbox holds.
Missing(r, p) ==
  /\ \/ /\ NeverShipped(run[r].page[p])
        /\ Known(p, Absent) /\ UNCHANGED <<inbox, faults>>
     \/ /\ ~NeverShipped(run[r].page[p]) /\ Works(r) /\ Admits(p, Tomb("delete"))
        /\ row' = [row EXCEPT ![p] = Absent]
        /\ Known(p, Absent) /\ UNCHANGED <<parked, faults>>
     \/ /\ ~NeverShipped(run[r].page[p])
        /\ Stops(r, p, Tomb("delete"))
  /\ Handled(r, p)

\* A newer one is pulled and shipped like any other, unless it is parked.
Newer(r, p) ==
  /\ IF parked[p] # Absent \/ source[p].st # "live" THEN UNCHANGED <<state, inbox, faults>>
     ELSE \/ Delivers(r, p, source[p].ver) /\ UNCHANGED faults
          \/ Stops(r, p, Upsert(source[p].ver, r))
  /\ Handled(r, p)

Act(r) ==
  /\ run[r].at = "act"
  /\ \E p \in FirstOf(run[r].todo \cup run[r].bury, 1) :
       IF p \in run[r].bury THEN Missing(r, p) ELSE Newer(r, p)
  /\ UNCHANGED <<still, missed, ops>>

Finish(r) ==
  /\ run[r].at = "act" /\ run[r].todo \cup run[r].bury = {}
  /\ state' = [state EXCEPT !.turn = run[r].next]
  /\ Sets(r, Idle)
  /\ UNCHANGED <<still, inbox, missed, ops, faults>>

\* A scan whose listing fails ends the run; a rotation goes on next time.
CallFails(r) ==
  /\ run[r].at \in {"digest", "pull", "ask"}
  /\ IF Takes("source", run[r].peer) THEN Fault ELSE run[r].at # "pull" /\ UNCHANGED faults
  /\ CASE run[r].at = "digest" -> Sets(r, Idle) /\ UNCHANGED state
       [] run[r].at = "pull" -> To(r, "bury") /\ UNCHANGED state
       [] run[r].at = "ask" -> Sets(r, Idle) /\ state' = [state EXCEPT !.turn = run[r].next]
  /\ UNCHANGED <<still, inbox, missed, ops>>

-----------------------------------------------------------------------------
(* The inbox *)

Authority == <<pair.set, client>>

\* An approval that began under another authority is refused for good.
Approve(p) ==
  /\ parked[p] # Absent /\ pair # Absent /\ parked[p].by \in {Absent, Authority}
  /\ \A e \in Ends : Takes(e, client)
  /\ \/ /\ Known(p, Shipped(parked[p].ver))
        /\ parked' = [parked EXCEPT ![p] = Absent]
        /\ UNCHANGED faults
     \/ /\ Fault
        /\ parked' = [parked EXCEPT ![p].by = Authority]
        /\ UNCHANGED state
  /\ UNCHANGED <<still, row, run, missed, ops>>

Reject(p) ==
  /\ parked[p] # Absent /\ parked[p].by = Absent
  /\ Known(p, [ver |-> parked[p].ver, trash |-> FALSE, rejected |-> TRUE,
               shipped |-> IF state.known[p] = Absent THEN FALSE ELSE state.known[p].shipped])
  /\ parked' = [parked EXCEPT ![p] = Absent]
  /\ UNCHANGED <<still, row, run, missed, ops, faults>>

-----------------------------------------------------------------------------
(* The operator *)

\* Pausing a pair stops no run that is under way.
Toggle == pair' = [pair EXCEPT !.on = ~@]

\* Editing a pair keeps what is known of its posts, and the cursor.
Edit ==
  /\ Op /\ pair # Absent
  /\ \/ Toggle
     \/ ~pair.extra /\ pair' = [pair EXCEPT !.extra = TRUE]
     \/ pair' = [pair EXCEPT !.parks = ~@]
     \/ pair' = [pair EXCEPT !.set = @ + 1]
  /\ UNCHANGED <<source, state, inbox, peers, run, missed, faults>>

\* First its state, then the pair.  A run under way writes its cursor again.
Delete ==
  /\ Op /\ pair # Absent
  /\ state' = Empty
  /\ missed' = IF \A r \in Runs : run[r] = Idle THEN {} ELSE Posts
  /\ \/ pair' = Absent /\ UNCHANGED faults
     \/ Fault /\ UNCHANGED pair
  /\ UNCHANGED <<source, inbox, peers, run>>

Create ==
  /\ Op /\ pair = Absent
  /\ \E b, c \in BOOLEAN : pair' = [on |-> TRUE, extra |-> b, parks |-> c, set |-> 0]
  /\ UNCHANGED <<source, state, inbox, peers, run, missed, faults>>

-----------------------------------------------------------------------------
(* Handshakes *)

\* The document is read before the site is called; a client without an
\* identity makes one up.
Greet(h) ==
  /\ Op /\ shake[h] = Apart
  /\ \E e \in Ends :
       shake' = [shake EXCEPT ![h] = [end |-> e, key |-> ops', agreed |-> FALSE,
         peer |-> IF client.uuid = Absent THEN [client EXCEPT !.uuid = ops'] ELSE client]]
  /\ UNCHANGED <<source, pair, state, inbox, client, site, run, missed, faults>>

\* The one-time code is spent, whether or not the answer arrives.
Register(h) ==
  /\ shake[h] # Apart /\ ~shake[h].agreed
  /\ site' = [site EXCEPT ![shake[h].end] = [uuid |-> shake[h].peer.uuid, key |-> shake[h].key]]
  /\ \/ shake' = [shake EXCEPT ![h].agreed = TRUE] /\ UNCHANGED faults
     \/ shake' = [shake EXCEPT ![h] = Apart] /\ Fault
  /\ UNCHANGED <<source, pair, state, inbox, client, run, missed, ops>>

\* slip: the key goes into the document as it is by now, without the identity
AgreedInto(h) == [client EXCEPT !.key[shake[h].end] = shake[h].key]

Agreed(h) == [shake[h].peer EXCEPT !.key[shake[h].end] = shake[h].key]

Remember(h) ==
  /\ shake[h].agreed
  /\ client' = Agreed(h)
  /\ shake' = [shake EXCEPT ![h] = Apart]
  /\ UNCHANGED <<source, pair, state, inbox, site, run, missed, ops, faults>>

Forget ==
  /\ Op
  /\ \E e \in Ends : client.key[e] # Absent /\ client' = [client EXCEPT !.key[e] = Absent]
  /\ UNCHANGED <<source, pair, state, inbox, site, shake, run, missed, faults>>

-----------------------------------------------------------------------------
(* The source, and crashes *)

Published ==
  /\ Op
  /\ \E p \in Posts, s \in {"live", "trash", "gone"} :
       /\ source[p].st # "gone"
       /\ source' = [source EXCEPT ![p] = [ver |-> @.ver + 1, st |-> s]]
  /\ UNCHANGED <<pair, state, inbox, peers, run, missed, faults>>

Crash ==
  /\ Fault
  /\ run' = [r \in Runs |-> Idle] /\ shake' = [h \in Pairings |-> Apart]
  /\ UNCHANGED <<source, pair, state, inbox, client, site, missed, ops>>

PairStep(r) ==
  \/ Digest(r) \/ Sort(r) \/ Pull(r) \/ Ship(r) \/ Bury(r) \/ EndPage(r)
  \/ Rotate(r) \/ Ask(r) \/ Act(r) \/ Finish(r) \/ CallFails(r)

PairNext ==
  \/ \E r \in Runs : Begin(r) \/ PairStep(r)
  \/ \E p \in Posts : Approve(p) \/ Reject(p)
  \/ Edit \/ Delete \/ Create
  \/ \E h \in Pairings : Greet(h) \/ Register(h) \/ Remember(h)
  \/ Forget \/ Published \/ Crash

\* The worker runs the pair again and again, and every run goes on.
PairSpec == PairInit /\ [][PairNext]_pairVars /\ WF_pairVars(Begin(Lane)) /\ \A r \in Runs : WF_pairVars(PairStep(r))

-----------------------------------------------------------------------------
(* Properties *)

\* What the cursor has passed is known or waits in the inbox: no order of
\* failures, pages and overlapping runs loses a post for good.  The posts
\* that are passed without a word are those the code settles on purpose.
NothingSkipped ==
  \A p \in Posts : p <= state.cursor /\ source[p].st = "live" /\ p \notin missed =>
    state.known[p] # Absent \/ parked[p] # Absent

\* A key the client and a site agree on is filed under the identity the site
\* registered it for, however handshakes with the two sites overlap.
KeysKeepIdentity ==
  \A e \in Ends : client.key[e] # Absent /\ client.key[e] = site[e].key => client.uuid = site[e].uuid

Want(p) == IF source[p].st = "live" THEN [kind |-> "upsert", ver |-> source[p].ver, set |-> pair.set]
           ELSE Tomb("delete")

\* Nothing stands in the way of the post: a listed one that cannot be pulled
\* would hold up its batch, and an effect in doubt admits no other.
SteadyPost(p) ==
  /\ pair # Absent /\ pair.on /\ \A e \in Ends : Takes(e, client)
  /\ source[p].st \in {"live", "gone"} /\ p \notin missed /\ (p \in Extra => pair.extra)
  /\ Admits(p, Want(p))
  /\ \A q \in Posts : source[q].st = "trash" => state.known[q] = Absent \/ state.known[q].ver = source[q].ver \/ ~state.known[q].trash

\* A post nothing stands in the way of gets to the target in its last
\* version, or waits for a person; a deleted one is deleted there.
Settles ==
  \A p \in Posts : <>[]SteadyPost(p) =>
    []<>(IF source[p].st = "live"
         THEN parked[p] # Absent \/ (state.known[p] # Absent /\ state.known[p].ver = source[p].ver)
         ELSE state.known[p] = Absent)
=============================================================================
