---------------------------- MODULE MCTokenCache ----------------------------
(* Constants for the run of TokenCache: three callers, so that one waits   *)
(* behind a waiter; the clock runs through three lifetimes of a token.      *)
EXTENDS TokenCache
CONSTANTS c1, c2, c3
ThreeCallers == {c1, c2, c3}
=============================================================================
