--------------------------- MODULE MCPoolClients ---------------------------
(* Two event loop threads and as many connections of tuchuang_slave, or one  *)
(* more; the other pools have one connection each, the smallest number with  *)
(* which a handler can be served.                                            *)
EXTENDS PoolClients, TLC

CONSTANTS t1, t2
MCThreads == {t1, t2}
MCSizes == {[p \in Pools |-> IF p = "slave" THEN slaves ELSE 1] : slaves \in {2, 3}}
MCApis == DOMAIN Plan
=============================================================================
