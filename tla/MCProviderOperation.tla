------------------------ MODULE MCProviderOperation ------------------------
(* One paid unit, whose input or component may change once, between two     *)
(* tasks and a reviewer.                                                    *)
EXTENDS ProviderOperation, TLC
=============================================================================
