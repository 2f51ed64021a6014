-------------------------- MODULE FieldTranslation --------------------------
(***************************************************************************)
(* How the fields of an object are translated (task_engine/pipeline.rs),   *)
(* over the credential pools of CredentialPools.  A lane works on one      *)
(* object of a batch: its fields are prepared, grouped by content format,  *)
(* every group selects a component, and the fields of the group go to it   *)
(* one after the other, chunk by chunk.  A request to the provider is one  *)
(* task of the pools.  All lanes share the breaker of the component        *)
(* (task_engine/backoff.rs), which is asked once for each field, before    *)
(* the pools, and told after the guards of the last request are gone.      *)
(*                                                                         *)
(* One component, one object for each lane.  Preparation reads only the    *)
(* object, so it is part of the initial states.  What the data decides -   *)
(* whether a field is present, well-formed and mapped, what the provider   *)
(* says - is free.  The breaker's cooldown ends at any time.               *)
(***************************************************************************)
EXTENDS CredentialPools, Sequences

CONSTANTS
  Plan,  \* Plan[c]: groups, each the number of chunks of its fields
  Data   \* Data[c]: what preparation may make of a field of the object

Prepared == {"ready", "unfit", "skipped", "success"}

ASSUME PlanAssumption ==
  /\ Plan \in [Callers -> Seq(Seq(Nat \ {0}))]
  /\ Data \in [Callers -> SUBSET Prepared]

VARIABLES
  lane,     \* where the object of a lane stands
  verdict,  \* field_results
  carried,  \* what translated_fields, translated_meta and media_mappings hold
  cooling,  \* the component is in its cooldown
  again     \* history: failures recorded since the cooldown began

object == <<lane, verdict, carried>>
breaker == <<cooling, again>>
fieldVars == <<vars, object, breaker>>

Groups(c) == DOMAIN Plan[c]
Fields(c) == UNION {{<<g, i>> : i \in DOMAIN Plan[c][g]} : g \in Groups(c)}
Chunks(c, f) == Plan[c][f[1]][f[2]]
Copied == <<0, 0>>  \* the fields that are copied without a provider

At(c, phase) == lane[c].at = phase
Reach(c, phase) == lane' = [lane EXCEPT ![c].at = phase]
Current(c) == lane[c].field

With(c, v) == {f \in DOMAIN verdict[c] : verdict[c][f] = v}
Ready(c) == With(c, "ready") \ {Copied}
InGroup(c, g) == {f \in Ready(c) : f[1] = g}
NextGroup(c, g) == InGroup(c, g) # {} /\ \A h \in Groups(c) : InGroup(c, h) # {} => g <= h

Judge(c, fields, v) ==
  verdict' = [verdict EXCEPT ![c] = [f \in DOMAIN @ |-> IF f \in fields THEN v ELSE @[f]]]
Carry(c, f) == carried' = [carried EXCEPT ![c] = @ \cup {f}]

\* The verdict on a field is given; the next of its group follows, if any.
Settle(c, f, v) ==
  /\ Judge(c, {f}, v)
  /\ lane' = [lane EXCEPT ![c] = IF InGroup(c, f[1]) = {f}
                                THEN [at |-> "group", field |-> Copied, chunk |-> 0]
                                ELSE [at |-> "field", field |-> f, chunk |-> 0]]

\* A field is taken from the data by its storage; one without a storage in a
\* rule that maps storages, or of an unknown format, fails; an internal, empty
\* or missing one and one of code is skipped; global styles are kept as is.
FieldInit ==
  /\ Init
  /\ \E p \in [Callers -> UNION {[Fields(c) -> Data[c]] : c \in Callers}] :
       /\ \A c \in Callers : p[c] \in [Fields(c) -> Data[c]]
       /\ verdict = [c \in Callers |-> [f \in Fields(c) \cup {Copied} |->
                       IF f = Copied THEN "ready" ELSE p[c][f]]]
  /\ carried = [c \in Callers |-> With(c, "success")]
  /\ lane = [c \in Callers |-> [at |-> "group", field |-> Copied, chunk |-> 0]]
  /\ cooling = FALSE /\ again = 0

-----------------------------------------------------------------------------
(* The groups and fields of an object *)

\* Each group, in the order of its name, selects a component, for its own
\* task type and then for text; without one all its fields fail.  If the proxy
\* of the component is missing the object ends, with what earlier groups got.
Group(c) ==
  /\ At(c, "group") /\ Ready(c) # {}
  /\ \E g \in Groups(c) :
       /\ NextGroup(c, g)
       /\ \/ Judge(c, InGroup(c, g), "lacking") /\ UNCHANGED lane
          \/ lane' = [lane EXCEPT ![c] = [at |-> "field", field |-> <<g, 0>>, chunk |-> 0]]
             /\ UNCHANGED verdict
          \/ Reach(c, "refused") /\ UNCHANGED verdict
  /\ UNCHANGED <<vars, carried, breaker>>

BlockedFirst(c) == cooling /\ Current(c)[2] = 0  \* slip: asked once for the group

Blocked(c) == cooling

\* check_component: a suppressed field fails at once, without a request.  So
\* does a media field without a source, and the breaker hears nothing of it.
Field(c) ==
  /\ At(c, "field")
  /\ \E f \in InGroup(c, Current(c)[1]) :
       /\ \A other \in InGroup(c, Current(c)[1]) : f[2] <= other[2]
       /\ \/ Settle(c, f, "failed")
          \/ /\ ~Blocked(c)
             /\ lane' = [lane EXCEPT ![c] = [at |-> "chunk", field |-> f, chunk |-> 0]]
             /\ UNCHANGED verdict
  /\ UNCHANGED <<vars, carried, breaker>>

\* Each chunk, or leaf of a structure, is an operation of its own.
Request(c) ==
  /\ At(c, "chunk")
  /\ Start(c)
  /\ Reach(c, "call")
  /\ UNCHANGED <<verdict, carried, breaker>>

NextChunk(c) ==
  lane' = [lane EXCEPT ![c].at = IF lane[c].chunk + 1 = Chunks(c, Current(c))
                                 THEN "answer" ELSE "chunk",
                       ![c].chunk = @ + 1]

\* The saved result of an earlier attempt is used again; no slot is taken.
Replay(c) ==
  /\ At(c, "chunk")
  /\ NextChunk(c)
  /\ UNCHANGED <<vars, verdict, carried, breaker>>

-----------------------------------------------------------------------------
(* A request in the pools *)

Work(c) ==
  /\ \/ Listen(c) \/ NoPool(c) \/ Scan(c) \/ Load(c) \/ Swap(c) \/ GiveUp(c) \/ Wake(c)
     \/ TakeClock(c) \/ Stamp(c) \/ TokenReady(c) \/ DropGuard(c) \/ Notify(c)
  /\ UNCHANGED <<object, breaker>>

Answer(c) ==
  /\ Finish(c)
  /\ UNCHANGED lane \/ Reach(c, "error")
  /\ UNCHANGED <<verdict, carried, breaker>>

\* No entry of the pool admits the input, or no token can be had.
Refuse(c) ==
  /\ NoneEligible(c) \/ TokenFails(c)
  /\ Reach(c, "error")
  /\ UNCHANGED <<verdict, carried, breaker>>

\* The worker is stopped: the task of the object is dropped with its guards.
Drop(c) ==
  /\ Cancel(c)
  /\ Reach(c, "gone")
  /\ UNCHANGED <<verdict, carried, breaker>>

Return(c) ==
  /\ Ended(c)
  /\ \/ At(c, "call") /\ NextChunk(c)
     \/ At(c, "error") /\ Reach(c, "failure")
     \/ At(c, "gone") /\ Reach(c, "dropped")
  /\ UNCHANGED <<verdict, carried, breaker>>

-----------------------------------------------------------------------------
(* The verdict on a field, and what it tells the breaker *)

Recovered == cooling' = FALSE /\ again' = 0

Translated(c) ==
  /\ At(c, "answer")
  /\ Settle(c, Current(c), "success") /\ Carry(c, Current(c))
  /\ Recovered
  /\ UNCHANGED vars

\* A media answer without a reference, or a text product without text: the
\* component did answer.
Useless(c) ==
  /\ At(c, "answer")
  /\ Settle(c, Current(c), "failed")
  /\ Recovered
  /\ UNCHANGED <<vars, carried>>

KeepsNothing(c) == UNCHANGED carried

\* The source does not parse, the request failed, or the joined chunks lack
\* the source's structure or tokens.
Failure(c) ==
  /\ \/ At(c, "chunk") /\ lane[c].chunk = 0
     \/ At(c, "failure") \/ At(c, "answer")
  /\ Settle(c, Current(c), "failed") /\ KeepsNothing(c)
  /\ cooling' = TRUE
  /\ again' = IF cooling THEN again + 1 ELSE 0
  /\ UNCHANGED vars

Cooled ==
  /\ cooling /\ Recovered
  /\ UNCHANGED <<vars, object>>

-----------------------------------------------------------------------------
(* The end of the object *)

Reports == {"sent", "refused", "structural", "failed", "nothing"}

Failed(c) == With(c, "failed") \cup With(c, "unfit") \cup With(c, "lacking")

NoComponent(c) == With(c, "lacking") # {} /\ With(c, "failed") = {} /\ carried[c] = {}

ReportAnyFailure(c) ==  \* slip: a partial translation counts as a failed one
  IF Failed(c) # {} THEN {"failed"} ELSE IF carried[c] = {} THEN {"nothing"} ELSE {"sent"}

\* What was produced is sent, though other fields failed; without a revision
\* in the snapshot it is refused at the very end.
Report(c) ==
  IF NoComponent(c) THEN {"structural"}
  ELSE IF carried[c] # {} THEN {"sent", "refused"}
  ELSE IF Failed(c) # {} THEN {"failed"} ELSE {"nothing"}

\* Copied and excluded fields come last; no provider is asked.
Conclude(c) ==
  /\ At(c, "group") /\ Ready(c) = {}
  /\ \E v \in {"skipped"} \cup (Data[c] \cap {"success", "unfit"}) :
       /\ Judge(c, {Copied}, v)
       /\ IF v = "success" THEN Carry(c, Copied) ELSE UNCHANGED carried
  /\ \E r \in Report(c)' : Reach(c, r)
  /\ UNCHANGED <<vars, breaker>>

-----------------------------------------------------------------------------
LaneStep(c) ==
  \/ Group(c) \/ Field(c) \/ Request(c) \/ Replay(c)
  \/ Work(c) \/ Answer(c) \/ Refuse(c) \/ Return(c)
  \/ Translated(c) \/ Useless(c) \/ Failure(c) \/ Conclude(c)

FieldNext ==
  \/ \E c \in Callers : LaneStep(c) \/ Drop(c)
  \/ Tick /\ UNCHANGED <<object, breaker>>
  \/ Cooled

FieldSpec == FieldInit /\ [][FieldNext]_fieldVars

\* As in the pools: a task that can run runs on, the provider's answer has a
\* deadline and time passes.
FieldFairness ==
  /\ WF_fieldVars(Tick /\ UNCHANGED <<object, breaker>>)
  /\ \A c \in Callers : WF_fieldVars(LaneStep(c))

FairFieldSpec == FieldSpec /\ FieldFairness

-----------------------------------------------------------------------------
(* "a component ... is circuit-broken for ALL objects, so a large           *)
(* untranslated backlog cannot burn one provider failure per object"        *)
(* (backoff.rs:8-10): once a failure is recorded, only requests that passed *)
(* the check before can still fail, one in each other lane, however many    *)
(* fields and chunks the lanes have left and however long they wait for a   *)
(* slot.                                                                    *)
NoStampede == again = 0 \/ again < Cardinality(Callers)

(* What the site and the job row are told is what the payload holds: a      *)
(* field is a success exactly when its whole value is carried, an object is *)
(* a failure or a no-op only when nothing is, and only a refusal after the  *)
(* fact throws away what was translated.                                    *)
ReportIsTrue ==
  \A c \in Callers : lane[c].at \in Reports =>
    /\ With(c, "success") = carried[c]
    /\ lane[c].at = "sent" => carried[c] # {} /\ With(c, "ready") = {}
    /\ lane[c].at \in {"structural", "failed", "nothing"} => carried[c] = {}
    /\ lane[c].at = "nothing" => Failed(c) = {}

(* Every object ends, with whatever report: no field waits for good for a   *)
(* slot, a token, a rate clock or an answer, though its lane holds a key    *)
(* while it waits for a token.                                              *)
EveryObjectEnds == \A c \in Callers : <>(lane[c].at \in Reports \cup {"dropped"})
=============================================================================
