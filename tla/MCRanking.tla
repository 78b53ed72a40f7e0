----------------------------- MODULE MCRanking -----------------------------
(* Two files, so that scores differ and ZLEXCOUNT is not exact, two users    *)
(* who compete for a share, two workers that overlap.                        *)
EXTENDS Ranking, TLC

CONSTANTS w1, w2, u1, u2, f1, f2
MCWorkers == {w1, w2}
MCUsers == {u1, u2}
MCFiles == {f1, f2}
MCSymmetry == Permutations(MCWorkers) \cup Permutations(MCUsers) \cup Permutations(MCFiles)
=============================================================================
