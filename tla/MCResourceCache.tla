-------------------------- MODULE MCResourceCache --------------------------
(***************************************************************************)
(* A small instance of ResourceCache: callers of one account.              *)
(***************************************************************************)
EXTENDS ResourceCache

CONSTANTS c1, c2, c3   \* callers, one call each
MCCallers == {c1, c2, c3}
=============================================================================
