--------------------------- MODULE MCFileService ---------------------------
(* Two workers serve two users.  Three environments: requests about one file *)
(* overlap and one fails; they do not overlap and several fail; two files,   *)
(* no overlap on one of them, no failure.                                    *)
EXTENDS FileService, TLC

CONSTANTS w1, w2, u1, u2, m1, m2, n1
MCUsers == {u1, u2}
MCMd5s == {m1, m2}
MCNames == {n1}
MCWorkers == {w1, w2}

Overlapping == [unique |-> FALSE, overlap |-> TRUE, polite |-> FALSE,
                about |-> {m1}, requests |-> 4, faults |-> 1]
Failing     == [unique |-> TRUE, overlap |-> FALSE, polite |-> FALSE,
                about |-> {m1}, requests |-> 6, faults |-> 2]
Apart       == [unique |-> FALSE, overlap |-> FALSE, polite |-> TRUE,
                about |-> MCMd5s, requests |-> 5, faults |-> 0]
Racing      == [unique |-> TRUE, overlap |-> TRUE, polite |-> TRUE,
                about |-> {m1}, requests |-> 3, faults |-> 0]
MCWorlds     == {Overlapping, Failing, Apart}
MCRaceWorlds == {Racing}

Symmetry == Permutations(MCUsers) \cup Permutations(MCWorkers)
=============================================================================
