--------------------------- MODULE MCMediaUpload ---------------------------
(***************************************************************************)
(* A small data root for TLC.                                              *)
(***************************************************************************)
EXTENDS MediaUpload
============================================================================
