-------------------------- MODULE MCComponentRegistry --------------------------
(* Instance of ComponentRegistry, with the catalog it takes templates from:  *)
(* a version that can be used, one whose templates address a forbidden host, *)
(* and three that are refused.                                               *)
EXTENDS ComponentRegistry, TLC

CONSTANTS v1, v2, v3, v4, v5
MCVersions == {v1, v2, v3, v4, v5}
MCFlaw == (v1 :> None) @@ (v2 :> "address") @@ (v3 :> "signature") @@ (v4 :> "template") @@ (v5 :> "secret")
=============================================================================
