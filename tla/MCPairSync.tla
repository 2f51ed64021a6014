------------------------------- MODULE MCPairSync -------------------------------
(* Instance of PairSync: two posts in pages of one, the second of a type the  *)
(* pair does not ask for at first; the worker's run and one more beside it.   *)
EXTENDS PairSync
=============================================================================
