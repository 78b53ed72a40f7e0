----------------------------- MODULE MCConnPool -----------------------------
(* Four threads over a pool of two connections, opened one by one: two can   *)
(* sleep while two hold, a notified thread can be overtaken, and a release   *)
(* can fall between any two steps of a thread that waits.                    *)
EXTENDS ConnPool, TLC

CONSTANTS t1, t2, t3, t4
MCThreads == {t1, t2, t3, t4}
Symmetry == Permutations(MCThreads)
=============================================================================
