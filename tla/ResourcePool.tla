---------------------------- MODULE ResourcePool ----------------------------
(***************************************************************************)
(* What a connection pool promises its callers, with nothing said about    *)
(* queues, condition variables or who waits: every connection belongs to   *)
(* at most one thread, and connections are opened only on demand and up to *)
(* a maximum.  ConnPool is shown to implement this module.                 *)
(***************************************************************************)
EXTENDS Naturals, FiniteSets

CONSTANTS
  Threads,   \* the callers
  Conn,      \* names of connections
  MinConn,   \* connections opened with the pool
  MaxConn    \* no connection is opened once this many have been

VARIABLES
  opened,    \* every connection ever opened
  idle,      \* connections that may be granted
  alloc      \* alloc[t]: the connections granted to thread t

rvars == <<opened, idle, alloc>>

Init ==
  /\ opened = 1..MinConn
  /\ idle = 1..MinConn
  /\ alloc = [t \in Threads |-> {}]

Grant(t) ==
  /\ \E c \in idle :
       /\ idle' = idle \ {c}
       /\ alloc' = [alloc EXCEPT ![t] = @ \cup {c}]
  /\ UNCHANGED opened

\* A new connection is opened only when none is idle, and goes to its opener.
GrantNew(t) ==
  /\ idle = {}
  /\ Cardinality(opened) < MaxConn
  /\ \E c \in Conn \ opened :
       /\ opened' = opened \cup {c}
       /\ alloc' = [alloc EXCEPT ![t] = @ \cup {c}]
  /\ UNCHANGED idle

Return(t) ==
  /\ \E c \in alloc[t] :
       /\ alloc' = [alloc EXCEPT ![t] = @ \ {c}]
       /\ idle' = idle \cup {c}
  /\ UNCHANGED opened

Next == \E t \in Threads : Grant(t) \/ GrantNew(t) \/ Return(t)

Spec == Init /\ [][Next]_rvars
=============================================================================
