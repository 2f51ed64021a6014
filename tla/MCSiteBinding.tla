---------------------------- MODULE MCSiteBinding ----------------------------
(* One site, two overlapping rounds, a few changes. *)
EXTENDS SiteBinding, TLC
=============================================================================
