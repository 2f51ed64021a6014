--------------------------- MODULE MCDiscoveryRun ---------------------------
(* One relation with a few objects, two pipelines, small pages. *)
EXTENDS DiscoveryRun, TLC
=============================================================================
