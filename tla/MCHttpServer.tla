---------------------------- MODULE MCHttpServer ----------------------------
(* Three connections are enough for two that are open at once to have the    *)
(* same number: one of two closes and a third arrives.  A client sends up to *)
(* two segments: one for the whole request and one after it, or two.         *)
EXTENDS HttpServer, TLC

CONSTANTS c1, c2, c3
MCConns == {c1, c2, c3}
MCSymmetry == Permutations(MCConns)
=============================================================================
