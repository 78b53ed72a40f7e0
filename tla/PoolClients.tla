---------------------------- MODULE PoolClients ----------------------------
(***************************************************************************)
(* The event loop threads and the four connection pools they share: MySQL  *)
(* pools tuchuang_master and tuchuang_slave, redis pools token and         *)
(* ranking_list.  A handler asks for connections one after another, sleeps *)
(* in the pool without a timeout while none is free, and gives back what   *)
(* it holds, the last first, when the function that took it returns        *)
(* (AUTO_REL_DBCONN, AUTO_REL_CACHECONN).  What happens inside one pool is *)
(* in ConnPool; here every connection can be opened.                       *)
(***************************************************************************)
EXTENDS Naturals, Sequences, FiniteSets

CONSTANTS
  Threads,  \* event loop threads; each runs one handler at a time
  Sizes,    \* what tc_http_server.conf may say: the maximum size of each pool
  Apis      \* the requests that arrive, each with its plan below

Pools == {"master", "slave", "token", "ranking"}

Get(p) == [op |-> "get", pool |-> p]
Rel(p) == [op |-> "rel", pool |-> p]

\* Mutant: the connection for the token is taken first and kept.
LoginPlan_TokenFirst == <<Get("token"), Get("master")>>

\* What a handler does with the pools before it returns.  A "rel" is the end of
\* a function called on the way: VerifyToken, verifyUserPassword,
\* handleGetSharefilesCount.
LoginPlan     == <<Get("master"), Rel("master"), Get("token")>>
RegisterPlan  == <<Get("master")>>
Md5Plan       == <<Get("token"), Rel("token"), Get("master"), Get("token")>>
UploadPlan    == <<Get("master")>>
MycountPlan   == <<Get("token"), Rel("token"), Get("master")>>
MylistPlan    == <<Get("token"), Rel("token"), Get("slave")>>
PiclistPlan   == <<Get("slave")>>
DealPlan      == <<Get("master"), Get("ranking")>>
SharelistPlan == <<Get("slave"), Get("slave"), Rel("slave")>>
RankingPlan   == <<Get("slave"), Get("ranking"), Get("slave"), Rel("slave")>>

\* Handlers with the same plan share a name: upload stands for save, for the pv
\* of one's own file and for browsing or cancelling a picture, mylist for
\* sharing a picture, piclist for the count of shared files, deal for share,
\* del, cancel and the pv of a shared file.
Plan ==
  [register |-> RegisterPlan, login |-> LoginPlan, md5 |-> Md5Plan,
   upload |-> UploadPlan, mycount |-> MycountPlan, mylist |-> MylistPlan,
   piclist |-> PiclistPlan, deal |-> DealPlan, sharelist |-> SharelistPlan,
   ranking |-> RankingPlan]

\* registerUser has no AUTO_REL_DBCONN.
Returns(api) == api # "register"

ASSUME ThreadsAssumption == IsFiniteSet(Threads)
ASSUME SizesAssumption == Sizes \subseteq [Pools -> Nat \ {0}]
ASSUME ApisAssumption == Apis \subseteq DOMAIN Plan

VARIABLES
  size,   \* size[p]: maxconncnt of pool p, read at the start
  run,    \* run[t]: the request thread t serves and the next step of its plan
  stack,  \* stack[t]: the connections t holds, in the order it took them
  lost    \* connections nobody holds any more and no pool has

vars == <<size, run, stack, lost>>

Idle == [api |-> "none", at |-> 0]

Of(p)   == {[pool |-> p, id |-> i] : i \in 1..size[p]}
AllConns == UNION {Of(p) : p \in Pools}
Held(t) == {stack[t][i] : i \in DOMAIN stack[t]}
Free(p) == (Of(p) \ lost) \ UNION {Held(t) : t \in Threads}

Busy(t)     == run[t].api # "none"
Steps(t)    == Plan[run[t].api]
Done(t)     == Busy(t) /\ run[t].at > Len(Steps(t))
NextIs(t, step) == Busy(t) /\ ~Done(t) /\ Steps(t)[run[t].at] = step

Advance(t) == run' = [run EXCEPT ![t].at = @ + 1]
Pop(t)     == stack' = [stack EXCEPT ![t] = SubSeq(@, 1, Len(@) - 1)]

Init ==
  /\ size \in Sizes
  /\ run = [t \in Threads |-> Idle]
  /\ stack = [t \in Threads |-> <<>>]
  /\ lost = {}

Request(t, api) ==
  /\ ~Busy(t)
  /\ run' = [run EXCEPT ![t] = [api |-> api, at |-> 1]]
  /\ UNCHANGED <<size, stack, lost>>

\* GetDBConn and GetCacheConn: while no connection is free the thread sleeps.
Acquire(t, p) ==
  /\ NextIs(t, Get(p))
  /\ \E c \in Free(p) : stack' = [stack EXCEPT ![t] = Append(@, c)]
  /\ Advance(t)
  /\ UNCHANGED <<size, lost>>

\* A function called on the way returns.
Release(t, p) ==
  /\ NextIs(t, Rel(p))
  /\ Pop(t)
  /\ Advance(t)
  /\ UNCHANGED <<size, lost>>

\* A refused token or password, a failed count: the handler does no more.
GiveUp(t) ==
  /\ Busy(t) /\ ~Done(t)
  /\ \E p \in Pools : run[t].at > 1 /\ Steps(t)[run[t].at - 1] = Rel(p)
  /\ run' = [run EXCEPT ![t].at = Len(Steps(t)) + 1]
  /\ UNCHANGED <<size, stack, lost>>

\* The destructors of AutoRelDBCon and AutoRelCacheCon.
Unwind(t) ==
  /\ Done(t) /\ Returns(run[t].api)
  /\ stack[t] # <<>>
  /\ Pop(t)
  /\ UNCHANGED <<size, run, lost>>

\* The pointer registerUser still has goes out of scope.
Finish(t) ==
  /\ Done(t)
  /\ Returns(run[t].api) => stack[t] = <<>>
  /\ lost' = lost \cup Held(t)
  /\ stack' = [stack EXCEPT ![t] = <<>>]
  /\ run' = [run EXCEPT ![t] = Idle]
  /\ UNCHANGED size

Step(t) ==
  \/ \E p \in Pools : Acquire(t, p) \/ Release(t, p)
  \/ GiveUp(t)
  \/ Unwind(t)
  \/ Finish(t)

Next == \E t \in Threads : Step(t) \/ \E api \in Apis : Request(t, api)

Spec == Init /\ [][Next]_vars

\* A thread that can go on does.  Nothing says which of the threads that sleep
\* in a pool gets the next connection.
FairSpec == Spec /\ \A t \in Threads : WF_vars(Step(t))

-----------------------------------------------------------------------------
(* Properties *)

Waits(t, p) == NextIs(t, Get(p)) /\ Free(p) = {}

\* Every busy thread sleeps in a pool, so none will ever wake another.
Stuck ==
  /\ \E t \in Threads : Busy(t)
  /\ \A t \in Threads : Busy(t) => \E p \in Pools : Waits(t, p)

\* Every variable has its type, and a thread between two requests holds
\* nothing.
TypeOK ==
  /\ size \in Sizes
  /\ run \in [Threads -> [api : Apis, at : 1..5] \cup {Idle}]
  /\ DOMAIN stack = Threads
  /\ \A t \in Threads : stack[t] \in Seq(AllConns)
  /\ lost \subseteq AllConns
  /\ \A t \in Threads : ~Busy(t) => stack[t] = <<>>

\* The handlers take connections of different pools in an order that cannot
\* deadlock, with one exception: two listings of api_sharefiles.cc hold a
\* connection of tuchuang_slave while handleGetSharefilesCount asks for
\* another.  All threads sleep only if each connection of that pool is with a
\* sleeping thread.
StuckOnlyNested ==
  (lost = {} /\ Stuck) =>
    \A c \in Of("slave") : \E t \in Threads : c \in Held(t) /\ run[t].api \in {"sharelist", "ranking"}

\* One connection of tuchuang_slave more than there are event loop threads is
\* enough: the server never sleeps for good.
EnoughSlaves ==
  (lost = {} /\ size["slave"] > Cardinality(Threads)) => ~Stuck

\* A connection leaves with the function that took it: AutoRelDBCon is there
\* to give it back.
NothingLost == lost = {}

\* While the server is busy some handler comes to its end, unless a connection
\* is lost or there are too few of tuchuang_slave.
SomeRequestEnds ==
  (\E t \in Threads : Busy(t)) ~>
    ((\E t \in Threads : Done(t)) \/ lost # {} \/ size["slave"] <= Cardinality(Threads))
=============================================================================
