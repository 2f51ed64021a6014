--------------------------- MODULE MCOAuthTokens ---------------------------
(* One OAuth profile between a task, the authorization callback and the     *)
(* operator's editor.                                                       *)
EXTENDS OAuthTokens, TLC

CONSTANTS c1, h1, e1, m1, s1, a

MCCred == s1 :> a
=============================================================================
