--------------------------- MODULE MCUserService ---------------------------
(* Worlds for UserService: accounts with and without overlap, lists, and       *)
(* pictures, of a named user and of requests that carry no name.               *)
EXTENDS UserService, TLC

CONSTANTS w1, w2, u1

MCWorlds ==
  { [unique |-> k, overlap |-> o, settled |-> FALSE, about |-> {"register", "login", "expire"},
     requests |-> 4, faults |-> 1, restarts |-> 1] : k \in BOOLEAN, o \in BOOLEAN }
  \cup { [unique |-> TRUE, overlap |-> FALSE, settled |-> TRUE, restarts |-> 0, requests |-> 3,
          faults |-> 1, about |-> {"count", "list", "view", "pictures"}],
         [unique |-> TRUE, overlap |-> FALSE, settled |-> TRUE, restarts |-> 1, requests |-> 4,
          faults |-> 1, about |-> {"share", "browse", "cancel"}] }

Symmetry == Permutations(Workers)
=============================================================================
