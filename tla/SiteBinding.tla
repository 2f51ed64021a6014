------------------------------ MODULE SiteBinding ------------------------------
(***************************************************************************)
(* The binding of one site: its token and route, the plugin the site is    *)
(* known to run, and the day that was last verified.  Work goes only to a  *)
(* site known to run the translation plugin.  Runs take a copy of the      *)
(* binding, verify the plugin when its verification has run out, and write *)
(* the copy back; meanwhile operators edit, import, test and delete the    *)
(* binding.  The agent keeps it in memory and in the database; the         *)
(* headless worker reads its file afresh for every round.                  *)
(***************************************************************************)
EXTENDS Integers

CONSTANTS
  Runs,      \* rounds that can be under way at one time
  Absent,
  TTL,       \* days an identity counts as verified
  MaxDay,
  MaxEdits,
  MaxFaults  \* pings without an answer, work cut short

ASSUME SizesAssumption == {TTL, MaxDay, MaxEdits, MaxFaults} \subseteq Nat

Plugins == {"ats", "sync"}
Unset == -1  \* never verified

VARIABLES
  mode,     \* the agent, with a control plane or local; the headless worker
  mem,      \* the binding in the shared state of the agent
  disk,     \* in the database or the file
  run,      \* the rounds under way
  edit,     \* the change an operator is making
  site,     \* the plugin and the route of the site
  day,
  vouched,  \* the day an operator last named the plugin
  edits, faults

bindingVars == <<mode, mem, disk, run, edit, site, day, vouched, edits, faults>>
binding == <<mem, disk, vouched>>
world == <<mode, site, day>>

agent == mode # "headless"
Rest == [at |-> "rest", doc |-> Absent, day |-> 0]
NoEdit == [at |-> "none", doc |-> Absent]

BindingInit ==
  /\ mode \in {"server", "local", "headless"}
  /\ \E s \in {Unset, 0} : mem = [plugin |-> "ats", stamp |-> s, route |-> "first"]
  /\ disk = mem
  /\ run = [r \in Runs |-> Rest] /\ edit = NoEdit
  /\ site = [plugin |-> "ats", since |-> 0, route |-> "first"]
  /\ day = 0 /\ vouched = 0 /\ edits = 0 /\ faults = 0

Fault == faults < MaxFaults /\ faults' = faults + 1

-----------------------------------------------------------------------------
(* The site and the clock *)

DayPasses ==
  /\ day < MaxDay
  /\ day' = day + 1
  /\ UNCHANGED <<mode, site, binding, run, edit, edits, faults>>

\* The other plugin takes the place of the one the site had.
Replaced ==
  /\ Fault
  /\ site' = [site EXCEPT !.plugin = CHOOSE p \in Plugins : p # site.plugin, !.since = day]
  /\ UNCHANGED <<mode, day, binding, run, edit, edits>>

\* The site changes its secret route.
Moved ==
  /\ Fault /\ site.route = "first"
  /\ site' = [site EXCEPT !.route = "second"]
  /\ UNCHANGED <<mode, day, binding, run, edit, edits>>

-----------------------------------------------------------------------------
(* A round *)

Step(r, at) == run' = [run EXCEPT ![r].at = at]
Over(r) == run' = [run EXCEPT ![r] = Rest]

\* Work is sent under the translation plugin alone.
Dispatch(r, e, d) ==
  run' = [run EXCEPT ![r] = IF e.plugin = "ats" THEN [at |-> "work", doc |-> e, day |-> d] ELSE Rest]

Begin(r) ==
  /\ run[r] = Rest
  /\ run' = [run EXCEPT ![r] = [at |-> "gate", doc |-> IF agent THEN mem ELSE disk, day |-> 0]]
  /\ UNCHANGED <<world, binding, edit, edits, faults>>

FreshForever(e) == e.stamp # Unset  \* slip: a verification never runs out

Fresh(e) == e.stamp # Unset /\ day - e.stamp <= TTL

AsksNever(r) == Over(r)  \* slip: a verification that ran out ends the round

Asks(r) == Step(r, "ping")

\* Without a binding there is nothing to do; any doubt asks the site.
Gate(r) ==
  /\ run[r].at = "gate"
  /\ LET e == run[r].doc IN
       \/ e = Absent /\ Over(r)
       \/ e # Absent /\ ~Fresh(e) /\ Asks(r)
       \/ e # Absent /\ Fresh(e) /\ Dispatch(r, e, day)
  /\ UNCHANGED <<world, binding, edit, edits, faults>>

\* The first verification takes what it finds; a later one has to agree.
Matches(e) == e.plugin = site.plugin \/ e.stamp = Unset

Reached(e) == e.route = site.route

Verified(r) ==
  /\ run[r].at = "ping" /\ Reached(run[r].doc) /\ Matches(run[r].doc)
  /\ run' = [run EXCEPT ![r].at = "save", ![r].doc.plugin = site.plugin,
                        ![r].doc.stamp = day, ![r].day = day]
  /\ UNCHANGED <<world, binding, edit, edits, faults>>

\* Another plugin, no identity in the answer, or no answer at all.
Unverified(r) ==
  /\ run[r].at = "ping"
  /\ IF Reached(run[r].doc) /\ Matches(run[r].doc) THEN Fault ELSE UNCHANGED faults
  /\ Over(r)
  /\ UNCHANGED <<world, binding, edit, edits>>

\* The whole document of the round is saved, then becomes the shared state.
SaveIdentity(r) ==
  /\ run[r].at = "save" /\ agent
  /\ disk' = run[r].doc /\ Step(r, "keep")
  /\ UNCHANGED <<world, mem, vouched, edit, edits, faults>>

SaveFile(r) ==
  /\ run[r].at = "save" /\ ~agent
  /\ disk' = run[r].doc /\ Dispatch(r, run[r].doc, run[r].day)
  /\ UNCHANGED <<world, mem, vouched, edit, edits, faults>>

KeepIdentity(r) ==
  /\ run[r].at = "keep"
  /\ mem' = run[r].doc
  /\ Dispatch(r, run[r].doc, run[r].day)
  /\ UNCHANGED <<world, disk, vouched, edit, edits, faults>>

Worked(r) ==
  /\ run[r].at = "work" /\ Reached(run[r].doc)
  /\ Over(r)
  /\ UNCHANGED <<world, binding, edit, edits, faults>>

WorkFails(r) ==
  /\ run[r].at = "work" /\ Fault
  /\ Over(r)
  /\ UNCHANGED <<world, binding, edit, edits>>

\* The new route goes into what is stored by now; a binding deleted meanwhile
\* is made again from the copy, without its identity.
Routed == IF disk = Absent THEN [plugin |-> "ats", stamp |-> Unset, route |-> site.route]
             ELSE [disk EXCEPT !.route = site.route]

\* The route is gone (404): the control plane is asked, and the round goes on.
RouteRefreshed(r) ==
  /\ run[r].at = "work" /\ ~Reached(run[r].doc) /\ mode = "server"
  /\ run' = [run EXCEPT ![r].doc.route = site.route]
  /\ disk' = Routed /\ mem' = disk'
  /\ UNCHANGED <<world, vouched, edit, edits, faults>>

RouteLost(r) ==
  /\ run[r].at = "work" /\ ~Reached(run[r].doc) /\ mode # "server"
  /\ Over(r)
  /\ UNCHANGED <<world, binding, edit, edits, faults>>

RunStep(r) ==
  \/ Begin(r) \/ Gate(r) \/ Verified(r) \/ Unverified(r)
  \/ SaveIdentity(r) \/ KeepIdentity(r) \/ SaveFile(r)
  \/ Worked(r) \/ WorkFails(r) \/ RouteRefreshed(r) \/ RouteLost(r)

-----------------------------------------------------------------------------
(* Operators *)

Known == IF agent THEN mem ELSE disk

Edits(doc) ==
  /\ edit = NoEdit /\ edits < MaxEdits /\ edits' = edits + 1
  /\ edit' = [at |-> "store", doc |-> doc]
  /\ UNCHANGED <<world, mem, disk, run, faults>>

Vouches(plugin) ==
  vouched' = IF Known # Absent /\ Known.plugin = plugin THEN vouched ELSE day

\* A new token, another plugin, the present route: the verification is kept.
Upsert ==
  \E p \in Plugins :
    /\ Edits([plugin |-> p, stamp |-> IF Known = Absent THEN Unset ELSE Known.stamp,
              route |-> site.route])
    /\ Vouches(p)

\* A connection pack is taken at its word.
Import ==
  /\ \E p \in Plugins : Edits([plugin |-> p, stamp |-> day, route |-> site.route])
  /\ vouched' = day

Delete == Known # Absent /\ Edits(Absent) /\ UNCHANGED vouched

\* The plugin found at the site replaces the one on record.
Test ==
  /\ Known # Absent /\ Reached(Known)
  /\ Edits([Known EXCEPT !.plugin = site.plugin, !.stamp = day]) /\ UNCHANGED vouched

Store ==
  /\ edit.at = "store"
  /\ disk' = edit.doc
  /\ edit' = IF agent THEN [edit EXCEPT !.at = "keep"] ELSE NoEdit
  /\ UNCHANGED <<world, mem, vouched, run, edits, faults>>

Keep ==
  /\ edit.at = "keep"
  /\ mem' = edit.doc /\ edit' = NoEdit
  /\ UNCHANGED <<world, disk, vouched, run, edits, faults>>

\* The agent starts again from what is stored.
Restart ==
  /\ agent /\ Fault
  /\ mem' = disk /\ run' = [r \in Runs |-> Rest] /\ edit' = NoEdit
  /\ UNCHANGED <<world, disk, vouched, edits>>

-----------------------------------------------------------------------------
BindingNext ==
  \/ \E r \in Runs : RunStep(r)
  \/ Upsert \/ Import \/ Delete \/ Test \/ Store \/ Keep
  \/ Restart \/ DayPasses \/ Replaced \/ Moved

BindingSpec == BindingInit /\ [][BindingNext]_bindingVars

\* Rounds are run and finished, changes are saved, time passes.
BindingFairness == (\A r \in Runs : WF_bindingVars(RunStep(r))) /\ WF_bindingVars(Store \/ Keep) /\ WF_bindingVars(DayPasses)

BindingFairSpec == BindingSpec /\ BindingFairness

-----------------------------------------------------------------------------
Later(a, b) == IF a >= b THEN a ELSE b

\* A site whose plugin was replaced is sent work for one validity period at
\* the most, unless an operator vouches for it again: no copy written back
\* late makes an old verification count anew (gate, classify_verify_outcome).
WrongPluginRunsOut ==
  \A r \in Runs : run[r].at = "work" /\ site.plugin # "ats" =>
                   run[r].day - Later(site.since, vouched) <= TTL

Working == \E r \in Runs : run[r].at = "work" /\ Reached(run[r].doc)
Settled == Known # Absent /\ Known.plugin = "ats" /\ site.plugin = "ats"

\* A site with the right plugin and route on record and on the ground is
\* worked on again and again: a verification that runs out is renewed by the
\* rounds themselves.
WorkGoesOn == <>[](Settled /\ Reached(Known)) => []<>Working
=============================================================================
