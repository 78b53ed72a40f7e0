------------------------------ MODULE ConnPool ------------------------------
(***************************************************************************)
(* CDBPool (mysql/db_pool.cc): a list of free MySQL connections behind one *)
(* mutex and one condition variable.  GetCacheConn and RelCacheConn of     *)
(* CachePool (redis/cache_pool.cc) are the same code on redis connections. *)
(* Each action is one critical section of the mutex.  A thread blocked in  *)
(* cond_var_.wait is in waiters; once it is notified (or wakes spuriously, *)
(* or its wait_for expires) it is in woken until it gets the mutex back    *)
(* and evaluates the predicate again.  Calls that find a free connection   *)
(* in the meantime overtake it.                                            *)
(*                                                                         *)
(* The pools live as long as the process: nothing deletes a CDBPool (the   *)
(* destructor of CDBManager is empty), so abort_request_, which only its   *)
(* destructor sets, is FALSE in every state and is left out.               *)
(***************************************************************************)
EXTENDS Naturals, Sequences, FiniteSets

CONSTANTS
  Threads,     \* event loop threads that run handlers
  MinConn,     \* MIN_DB_CONN_CNT: connections opened by Init
  MaxConn,     \* db_max_conn_cnt_, from <pool>_maxconncnt of the configuration
  HoldLimit    \* bound: connections one thread holds at once

ASSUME PoolAssumption ==
  /\ IsFiniteSet(Threads)
  /\ MinConn \in Nat
  /\ MaxConn \in Nat
  /\ HoldLimit \in Nat

VARIABLES
  free_list,       \* free_list_: connections are numbered in opening order
  cur_conn_cnt,    \* db_cur_conn_cnt_
  alive,           \* CDBConn objects that exist
  held,            \* held[t]: connections GetDBConn gave to t, not yet returned
  waiters,         \* threads asleep in cond_var_.wait / wait_for
  woken,           \* threads whose wait has ended, not yet holding the mutex
  timed            \* waiting threads that called with timeout_ms > 0

vars == <<free_list, cur_conn_cnt, alive, held,
          waiters, woken, timed>>

InList == {free_list[i] : i \in DOMAIN free_list}
Inside == waiters \cup woken        \* threads that are inside GetDBConn
InUse  == UNION {held[t] : t \in Threads}

Init ==
  /\ free_list = [i \in 1..MinConn |-> i]
  /\ cur_conn_cnt = MinConn
  /\ alive = 1..MinConn
  /\ held = [t \in Threads |-> {}]
  /\ waiters = {}
  /\ woken = {}
  /\ timed = {}

-----------------------------------------------------------------------------
(* GetDBConn *)

Calls(t) == t \notin Inside /\ Cardinality(held[t]) < HoldLimit

\* Lines 453-454: the front of the list goes to t.
PopFront(t) ==
  /\ free_list # <<>>
  /\ held' = [held EXCEPT ![t] = @ \cup {Head(free_list)}]
  /\ free_list' = Tail(free_list)
  /\ UNCHANGED <<cur_conn_cnt, alive>>

GetFree(t) ==
  /\ Calls(t)
  /\ PopFront(t)
  /\ UNCHANGED <<waiters, woken, timed>>

\* Mutant of GetNew: db_cur_conn_cnt_ compared with > instead of >=.
GetNew_OneTooMany(t) ==
  /\ Calls(t)
  /\ free_list = <<>>
  /\ cur_conn_cnt <= MaxConn
  /\ cur_conn_cnt' = cur_conn_cnt + 1
  /\ alive' = alive \cup {cur_conn_cnt + 1}
  /\ held' = [held EXCEPT ![t] = @ \cup {cur_conn_cnt + 1}]
  /\ UNCHANGED <<free_list, waiters, woken, timed>>

\* The list is empty and the pool may still grow: the connection is opened
\* while the mutex is held, pushed and popped in the same critical section.
GetNew(t) ==
  /\ Calls(t)
  /\ free_list = <<>>
  /\ cur_conn_cnt < MaxConn
  /\ cur_conn_cnt' = cur_conn_cnt + 1
  /\ alive' = alive \cup {cur_conn_cnt + 1}
  /\ held' = [held EXCEPT ![t] = @ \cup {cur_conn_cnt + 1}]
  /\ UNCHANGED <<free_list, waiters, woken, timed>>

\* Mutant of GetNewFails: the counter is raised before the connection is tried.
GetNewFails_Counted(t) ==
  /\ Calls(t)
  /\ free_list = <<>>
  /\ cur_conn_cnt < MaxConn
  /\ cur_conn_cnt' = cur_conn_cnt + 1
  /\ UNCHANGED <<free_list, alive, held, waiters, woken, timed>>

\* CDBConn::Init failed: the object is deleted and NULL returned.
GetNewFails(t) ==
  /\ Calls(t)
  /\ free_list = <<>>
  /\ cur_conn_cnt < MaxConn
  /\ UNCHANGED vars

\* At the maximum the caller sleeps, with or without a deadline.
GetWaits(t) ==
  /\ Calls(t)
  /\ free_list = <<>>
  /\ cur_conn_cnt >= MaxConn
  /\ waiters' = waiters \cup {t}
  /\ \/ timed' = timed \cup {t}
     \/ timed' = timed
  /\ UNCHANGED <<free_list, cur_conn_cnt, alive, held, woken>>

\* A spurious wake-up, or the deadline of wait_for.
Wakes(t) ==
  /\ t \in waiters
  /\ waiters' = waiters \ {t}
  /\ woken' = woken \cup {t}
  /\ UNCHANGED <<free_list, cur_conn_cnt, alive, held, timed>>

\* The predicate is false: sleep again ...
ResumeWaits(t) ==
  /\ t \in woken
  /\ free_list = <<>>
  /\ waiters' = waiters \cup {t}
  /\ woken' = woken \ {t}
  /\ UNCHANGED <<free_list, cur_conn_cnt, alive, held, timed>>

Leaves(t) ==
  /\ woken' = woken \ {t}
  /\ timed' = timed \ {t}
  /\ UNCHANGED waiters

\* Mutant of ResumeTimesOut: after the deadline NULL is returned without looking
\* at the list again.
ResumeTimesOut_Blind(t) ==
  /\ t \in woken \cap timed
  /\ Leaves(t)
  /\ UNCHANGED <<free_list, cur_conn_cnt, alive, held>>

\* ... unless the deadline of wait_for has passed: NULL.
ResumeTimesOut(t) ==
  /\ t \in woken \cap timed
  /\ free_list = <<>>
  /\ Leaves(t)
  /\ UNCHANGED <<free_list, cur_conn_cnt, alive, held>>

ResumeTakes(t) ==
  /\ t \in woken
  /\ PopFront(t)
  /\ Leaves(t)

Resume(t) ==
  ResumeWaits(t) \/ ResumeTimesOut(t) \/ ResumeTakes(t)

-----------------------------------------------------------------------------
(* RelDBConn *)

NotifyOne ==
  IF waiters = {}
  THEN UNCHANGED <<waiters, woken>>
  ELSE \E w \in waiters :
         /\ waiters' = waiters \ {w}
         /\ woken' = woken \cup {w}

\* Mutant of RelDBConn: waiters are notified only when the list was empty.
RelDBConn_NotifyIfEmpty(t, c) ==
  /\ t \notin Inside
  /\ c \in held[t]
  /\ held' = [held EXCEPT ![t] = @ \ {c}]
  /\ free_list' = Append(free_list, c)
  /\ IF free_list = <<>> THEN NotifyOne ELSE UNCHANGED <<waiters, woken>>
  /\ UNCHANGED <<cur_conn_cnt, alive, timed>>

\* Mutant of RelDBConn: nobody is notified.
RelDBConn_Silent(t, c) ==
  /\ t \notin Inside
  /\ c \in held[t]
  /\ held' = [held EXCEPT ![t] = @ \ {c}]
  /\ free_list' = Append(free_list, c)
  /\ UNCHANGED <<cur_conn_cnt, alive, waiters, woken, timed>>

\* A connection already in the list is not pushed a second time.
RelDBConn(t, c) ==
  /\ t \notin Inside
  /\ c \in held[t]
  /\ held' = [held EXCEPT ![t] = @ \ {c}]
  /\ IF c \in InList
     THEN UNCHANGED <<free_list, waiters, woken>>
     ELSE /\ free_list' = Append(free_list, c)
          /\ NotifyOne
  /\ UNCHANGED <<cur_conn_cnt, alive, timed>>

-----------------------------------------------------------------------------
GetDBConn(t) ==
  GetFree(t) \/ GetNew(t) \/ GetNewFails(t) \/ GetWaits(t)

Step(t) ==
  GetDBConn(t) \/ Wakes(t) \/ Resume(t) \/ (\E c \in held[t] : RelDBConn(t, c))

Next == \E t \in Threads : Step(t)

\* The scheduler eventually gives the mutex to a thread that was notified.
Fairness == \A t \in Threads : WF_vars(Resume(t))

Spec == Init /\ [][Next]_vars
FairSpec == Spec /\ Fairness
-----------------------------------------------------------------------------
(* Properties *)

Conns == 1..cur_conn_cnt

\* Every variable has its type; a waiting thread is asleep or woken, not both.
TypeOK ==
  /\ cur_conn_cnt \in Nat
  /\ free_list \in Seq(Conns)
  /\ alive \subseteq Conns
  /\ held \in [Threads -> SUBSET Conns]
  /\ waiters \subseteq Threads
  /\ woken \subseteq Threads
  /\ waiters \cap woken = {}
  /\ timed \subseteq Inside

\* A connection is in one place only: two threads never share one, a held one
\* is not in the free list, and the list has no duplicates (MySQL connections
\* are not thread safe).
Exclusive ==
  /\ \A t, u \in Threads : t # u => held[t] \cap held[u] = {}
  /\ \A t \in Threads : held[t] \cap InList = {}
  /\ \A i, j \in DOMAIN free_list : free_list[i] = free_list[j] => i = j

\* No connection is lost: the objects that exist are exactly those in the list
\* or in use, and they are as many as the counter that limits opening says.
Conserved ==
  /\ alive = InList \cup InUse
  /\ alive = Conns
  /\ cur_conn_cnt <= MinConn \/ cur_conn_cnt <= MaxConn

\* No lost wake-up: while a thread sleeps, at least as many threads have been
\* woken as there are connections to take, so a free connection never waits
\* for a notification that was already spent.
NoLostWakeup ==
  waiters # {} => Len(free_list) <= Cardinality(woken)

\* A thread is inside GetDBConn only because the pool was full.
WaitersFaceFullPool == Inside # {} => cur_conn_cnt >= MaxConn

\* The inductive invariant: the four conditions that together survive a step.
IInv ==
  /\ TypeOK
  /\ Exclusive
  /\ Conserved
  /\ NoLostWakeup
  /\ WaitersFaceFullPool

\* When every thread inside GetDBConn is asleep, each connection of a full pool
\* is in use: nobody sleeps next to a connection it could have.
SleepMeansExhausted ==
  waiters # {} /\ woken = {} =>
    cur_conn_cnt >= MaxConn /\ InUse = Conns

\* The pool is an exclusive, bounded allocator.
RP == INSTANCE ResourcePool
        WITH Conn <- 1..(IF MaxConn > MinConn THEN MaxConn ELSE MinConn),
             opened <- Conns, idle <- InList, alloc <- held
ImplementsResourcePool == RP!Spec

\* A free connection and a sleeping thread meet: the list is emptied or nobody
\* sleeps any more.
FreeIsTaken ==
  (waiters # {} /\ free_list # <<>>) ~> (waiters = {} \/ free_list = <<>>)
=============================================================================
