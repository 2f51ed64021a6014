-------------------------- MODULE PaidSubmission --------------------------
(***************************************************************************)
(* What a caller is promised about one purchase: nothing is sent before an *)
(* intent is durable, the paid request leaves once and is billed once, a   *)
(* result is fixed by its first save, and every caller gets that result.   *)
(***************************************************************************)
EXTENDS Integers

CONSTANTS Purchases,  \* one per operation: a unit in one revision
          Results,
          None

VARIABLES
  intended,  \* purchases with a durable intent, or sent before there was one
  sent,      \* how often the paid request of a purchase left
  billed,    \* how often the provider accepted it
  outcome,   \* the saved result of a purchase, or None
  handed     \* results handed to callers of a purchase

absvars == <<intended, sent, billed, outcome, handed>>

AbsInit ==
  /\ billed \in [Purchases -> {0, 1}]
  /\ sent = billed
  /\ intended = {p \in Purchases : sent[p] = 1}
  /\ outcome = [p \in Purchases |-> None]
  /\ handed = [p \in Purchases |-> {}]

Intend(p) ==
  /\ p \notin intended
  /\ intended' = intended \cup {p}
  /\ UNCHANGED <<sent, billed, outcome, handed>>

Send(p) ==
  /\ p \in intended
  /\ sent[p] = 0
  /\ sent' = [sent EXCEPT ![p] = 1]
  /\ UNCHANGED <<intended, billed, outcome, handed>>

Bill(p) ==
  /\ sent[p] = 1
  /\ billed[p] = 0
  /\ billed' = [billed EXCEPT ![p] = 1]
  /\ UNCHANGED <<intended, sent, outcome, handed>>

Conclude(p) ==
  /\ billed[p] = 1
  /\ outcome[p] = None
  /\ \E x \in Results : outcome' = [outcome EXCEPT ![p] = x]
  /\ UNCHANGED <<intended, sent, billed, handed>>

Hand(p) ==
  /\ outcome[p] # None
  /\ handed' = [handed EXCEPT ![p] = @ \cup {outcome[p]}]
  /\ UNCHANGED <<intended, sent, billed, outcome>>

AbsNext ==
  \E p \in Purchases :
    Intend(p) \/ Send(p) \/ Bill(p) \/ Conclude(p) \/ Hand(p)

AbsSpec == AbsInit /\ [][AbsNext]_absvars
=============================================================================
