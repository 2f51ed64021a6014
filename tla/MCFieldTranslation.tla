------------------------- MODULE MCFieldTranslation -------------------------
(* Three lanes. c1 and c2 share a key and disagree on its limit and its     *)
(* interval; c3 has no keys and its input does not fit the OAuth entry it   *)
(* shares with c1.                                                          *)
EXTENDS FieldTranslation, TLC

CONSTANTS c1, c2, c3, k1, t1

MCPool == (c1 :> {k1, t1}) @@ (c2 :> {k1}) @@ (c3 :> {t1})
MCFits == [MCPool EXCEPT ![c3] = {}]
MCLimit == [c \in Callers |-> [s \in Slots |-> IF c = c1 /\ s = k1 THEN 2 ELSE 1]]
MCInterval == [c \in Callers |-> [s \in Keys |-> IF c = c1 THEN 1 ELSE 0]]
MCPlan == (c1 :> <<<<1, 1>>>>) @@ (c2 :> <<<<1>>>>) @@ (c3 :> <<<<2>>>>)
MCData == [c \in Callers |-> IF c = c3 THEN {"ready", "unfit"} ELSE {"ready"}]
=============================================================================
