------------------------- MODULE PoolClientsProofs -------------------------
(***************************************************************************)
(* With one connection of tuchuang_slave more than there are event loop    *)
(* threads the server cannot sleep for good, for any threads and pools.    *)
(* What is inductive is that a thread holds exactly what its plan has      *)
(* taken so far (StackFollowsPlan): it says what a sleeping thread holds.  *)
(***************************************************************************)
EXTENDS PoolClients, TLAPS, FiniteSetTheorems

\* The pools a handler holds connections of when it comes to a step of its
\* plan, in the order it took them.
Taken ==
  [register  |-> << <<>> >>,
   login     |-> << <<>>, <<"master">>, <<>> >>,
   md5       |-> << <<>>, <<"token">>, <<>>, <<"master">> >>,
   upload    |-> << <<>> >>,
   mycount   |-> << <<>>, <<"token">>, <<>> >>,
   mylist    |-> << <<>>, <<"token">>, <<>> >>,
   piclist   |-> << <<>> >>,
   deal      |-> << <<>>, <<"master">> >>,
   sharelist |-> << <<>>, <<"slave">>, <<"slave", "slave">> >>,
   ranking   |-> << <<>>, <<"slave">>, <<"slave", "ranking">>,
                    <<"slave", "ranking", "slave">> >>]

Follows(s, held) == Len(s) = Len(held) /\ \A i \in 1..Len(s) : s[i].pool = held[i]

StackFollowsPlan ==
  \A t \in Threads : Busy(t) /\ ~Done(t) => Follows(stack[t], Taken[run[t].api][run[t].at])

IInv == TypeOK /\ StackFollowsPlan

\* What may be held by a handler that is about to ask pool p for a connection.
MayWait(api, held, p) ==
  /\ \A i \in 1..Len(held) :
       /\ held[i] # "token"
       /\ held[i] = "ranking" => p = "slave"
       /\ held[i] = "master" => p \in {"token", "ranking"}
       /\ held[i] = "slave" => api \in {"sharelist", "ranking"}
  /\ \A i, j \in 1..Len(held) : held[i] = "slave" /\ held[j] = "slave" => i = j

\* Of two successive lists of held pools the longer one has one pool more.
Extends(longer, p, shorter) ==
  /\ Len(shorter) \in Nat /\ Len(longer) = Len(shorter) + 1
  /\ longer[Len(longer)] = p
  /\ \A j \in 1..Len(shorter) : longer[j] = shorter[j]

PlanStep(api, i) ==
  /\ Plan[api][i].pool \in Pools
  /\ \/ /\ Plan[api][i] = Get(Plan[api][i].pool)
        /\ MayWait(api, Taken[api][i], Plan[api][i].pool)
        /\ i < Len(Plan[api]) => Extends(Taken[api][i + 1], Plan[api][i].pool, Taken[api][i])
     \/ /\ Plan[api][i] = Rel(Plan[api][i].pool)
        /\ Len(Taken[api][i]) \in Nat \ {0}
        /\ i < Len(Plan[api]) =>
             Extends(Taken[api][i], Plan[api][i].pool, Taken[api][i + 1])

LEMMA PlanFacts ==
  ASSUME NEW api \in DOMAIN Plan
  PROVE  /\ Len(Plan[api]) \in 1..4
         /\ Taken[api][1] = <<>>
         /\ \A i \in 1..Len(Plan[api]) : PlanStep(api, i)
<1>1. CASE api = "register"
  <2>1. Plan[api] = <<Get("master")>> /\ Len(Plan[api]) = 1
    BY <1>1 DEF Plan, RegisterPlan
  <2>2. Taken[api] = << <<>> >>
    BY <1>1 DEF Taken
  <2>3. PlanStep(api, 1)
    BY <1>1, <2>1, <2>2 DEF PlanStep, MayWait, Extends, Get, Rel, Pools
  <2>. QED
    BY <2>1, <2>2, <2>3
<1>2. CASE api = "login"
  <2>1. Plan[api] = <<Get("master"), Rel("master"), Get("token")>> /\ Len(Plan[api]) = 3
    BY <1>2 DEF Plan, LoginPlan
  <2>2. Taken[api] = << <<>>, <<"master">>, <<>> >>
    BY <1>2 DEF Taken
  <2>3. PlanStep(api, 1)
    BY <1>2, <2>1, <2>2 DEF PlanStep, MayWait, Extends, Get, Rel, Pools
  <2>4. PlanStep(api, 2)
    BY <1>2, <2>1, <2>2 DEF PlanStep, MayWait, Extends, Get, Rel, Pools
  <2>5. PlanStep(api, 3)
    BY <1>2, <2>1, <2>2 DEF PlanStep, MayWait, Extends, Get, Rel, Pools
  <2>. QED
    BY <2>1, <2>2, <2>3, <2>4, <2>5
<1>3. CASE api = "md5"
  <2>1. Plan[api] = <<Get("token"), Rel("token"), Get("master"), Get("token")>> /\ Len(Plan[api]) = 4
    BY <1>3 DEF Plan, Md5Plan
  <2>2. Taken[api] = << <<>>, <<"token">>, <<>>, <<"master">> >>
    BY <1>3 DEF Taken
  <2>3. PlanStep(api, 1)
    BY <1>3, <2>1, <2>2 DEF PlanStep, MayWait, Extends, Get, Rel, Pools
  <2>4. PlanStep(api, 2)
    BY <1>3, <2>1, <2>2 DEF PlanStep, MayWait, Extends, Get, Rel, Pools
  <2>5. PlanStep(api, 3)
    BY <1>3, <2>1, <2>2 DEF PlanStep, MayWait, Extends, Get, Rel, Pools
  <2>6. PlanStep(api, 4)
    BY <1>3, <2>1, <2>2 DEF PlanStep, MayWait, Extends, Get, Rel, Pools
  <2>. QED
    BY <2>1, <2>2, <2>3, <2>4, <2>5, <2>6
<1>4. CASE api = "upload"
  <2>1. Plan[api] = <<Get("master")>> /\ Len(Plan[api]) = 1
    BY <1>4 DEF Plan, UploadPlan
  <2>2. Taken[api] = << <<>> >>
    BY <1>4 DEF Taken
  <2>3. PlanStep(api, 1)
    BY <1>4, <2>1, <2>2 DEF PlanStep, MayWait, Extends, Get, Rel, Pools
  <2>. QED
    BY <2>1, <2>2, <2>3
<1>5. CASE api = "mycount"
  <2>1. Plan[api] = <<Get("token"), Rel("token"), Get("master")>> /\ Len(Plan[api]) = 3
    BY <1>5 DEF Plan, MycountPlan
  <2>2. Taken[api] = << <<>>, <<"token">>, <<>> >>
    BY <1>5 DEF Taken
  <2>3. PlanStep(api, 1)
    BY <1>5, <2>1, <2>2 DEF PlanStep, MayWait, Extends, Get, Rel, Pools
  <2>4. PlanStep(api, 2)
    BY <1>5, <2>1, <2>2 DEF PlanStep, MayWait, Extends, Get, Rel, Pools
  <2>5. PlanStep(api, 3)
    BY <1>5, <2>1, <2>2 DEF PlanStep, MayWait, Extends, Get, Rel, Pools
  <2>. QED
    BY <2>1, <2>2, <2>3, <2>4, <2>5
<1>6. CASE api = "mylist"
  <2>1. Plan[api] = <<Get("token"), Rel("token"), Get("slave")>> /\ Len(Plan[api]) = 3
    BY <1>6 DEF Plan, MylistPlan
  <2>2. Taken[api] = << <<>>, <<"token">>, <<>> >>
    BY <1>6 DEF Taken
  <2>3. PlanStep(api, 1)
    BY <1>6, <2>1, <2>2 DEF PlanStep, MayWait, Extends, Get, Rel, Pools
  <2>4. PlanStep(api, 2)
    BY <1>6, <2>1, <2>2 DEF PlanStep, MayWait, Extends, Get, Rel, Pools
  <2>5. PlanStep(api, 3)
    BY <1>6, <2>1, <2>2 DEF PlanStep, MayWait, Extends, Get, Rel, Pools
  <2>. QED
    BY <2>1, <2>2, <2>3, <2>4, <2>5
<1>7. CASE api = "piclist"
  <2>1. Plan[api] = <<Get("slave")>> /\ Len(Plan[api]) = 1
    BY <1>7 DEF Plan, PiclistPlan
  <2>2. Taken[api] = << <<>> >>
    BY <1>7 DEF Taken
  <2>3. PlanStep(api, 1)
    BY <1>7, <2>1, <2>2 DEF PlanStep, MayWait, Extends, Get, Rel, Pools
  <2>. QED
    BY <2>1, <2>2, <2>3
<1>8. CASE api = "deal"
  <2>1. Plan[api] = <<Get("master"), Get("ranking")>> /\ Len(Plan[api]) = 2
    BY <1>8 DEF Plan, DealPlan
  <2>2. Taken[api] = << <<>>, <<"master">> >>
    BY <1>8 DEF Taken
  <2>3. PlanStep(api, 1)
    BY <1>8, <2>1, <2>2 DEF PlanStep, MayWait, Extends, Get, Rel, Pools
  <2>4. PlanStep(api, 2)
    BY <1>8, <2>1, <2>2 DEF PlanStep, MayWait, Extends, Get, Rel, Pools
  <2>. QED
    BY <2>1, <2>2, <2>3, <2>4
<1>9. CASE api = "sharelist"
  <2>1. Plan[api] = <<Get("slave"), Get("slave"), Rel("slave")>> /\ Len(Plan[api]) = 3
    BY <1>9 DEF Plan, SharelistPlan
  <2>2. Taken[api] = << <<>>, <<"slave">>, <<"slave", "slave">> >>
    BY <1>9 DEF Taken
  <2>3. PlanStep(api, 1)
    BY <1>9, <2>1, <2>2 DEF PlanStep, MayWait, Extends, Get, Rel, Pools
  <2>4. PlanStep(api, 2)
    BY <1>9, <2>1, <2>2 DEF PlanStep, MayWait, Extends, Get, Rel, Pools
  <2>5. PlanStep(api, 3)
    BY <1>9, <2>1, <2>2 DEF PlanStep, MayWait, Extends, Get, Rel, Pools
  <2>. QED
    BY <2>1, <2>2, <2>3, <2>4, <2>5
<1>10. CASE api = "ranking"
  <2>1. Plan[api] = <<Get("slave"), Get("ranking"), Get("slave"), Rel("slave")>> /\ Len(Plan[api]) = 4
    BY <1>10 DEF Plan, RankingPlan
  <2>2. Taken[api] = << <<>>, <<"slave">>, <<"slave", "ranking">>, <<"slave", "ranking", "slave">> >>
    BY <1>10 DEF Taken
  <2>3. PlanStep(api, 1)
    BY <1>10, <2>1, <2>2 DEF PlanStep, MayWait, Extends, Get, Rel, Pools
  <2>4. PlanStep(api, 2)
    BY <1>10, <2>1, <2>2 DEF PlanStep, MayWait, Extends, Get, Rel, Pools
  <2>5. PlanStep(api, 3)
    BY <1>10, <2>1, <2>2 DEF PlanStep, MayWait, Extends, Get, Rel, Pools
  <2>6. PlanStep(api, 4)
    BY <1>10, <2>1, <2>2 DEF PlanStep, MayWait, Extends, Get, Rel, Pools
  <2>. QED
    BY <2>1, <2>2, <2>3, <2>4, <2>5, <2>6
<1>. QED
  BY <1>1, <1>2, <1>3, <1>4, <1>5, <1>6, <1>7, <1>8, <1>9, <1>10 DEF Plan

-----------------------------------------------------------------------------
(* A thread holds what its plan has taken so far. *)

LEMMA StepFacts ==
  ASSUME TypeOK, NEW t \in Threads, Busy(t), ~Done(t)
  PROVE  /\ run[t].api \in DOMAIN Plan
         /\ run[t].at \in 1..Len(Steps(t)) /\ Len(Steps(t)) \in 1..4
         /\ PlanStep(run[t].api, run[t].at)
         /\ run[t] \in [api : Apis, at : 1..5]
<1>1. run[t] \in [api : Apis, at : 1..5]
  BY DEF TypeOK, Busy, Idle
<1>2. run[t].api \in DOMAIN Plan
  BY <1>1, ApisAssumption
<1>3. Len(Steps(t)) \in 1..4
  BY <1>2, PlanFacts DEF Steps
<1>4. run[t].at \in 1..Len(Steps(t))
  BY <1>1, <1>3 DEF Done
<1>. QED
  BY <1>1, <1>2, <1>3, <1>4, PlanFacts DEF Steps

LEMMA InitInv == Init => IInv
  BY DEF Init, IInv, TypeOK, StackFollowsPlan, Busy, Idle

LEMMA RequestInv ==
  ASSUME IInv, NEW t \in Threads, NEW api \in Apis, Request(t, api)
  PROVE  IInv'
<1>. USE DEF IInv
<1>1. stack[t] = <<>>
  BY DEF TypeOK, Request
<1>2. run' = [run EXCEPT ![t] = [api |-> api, at |-> 1]] /\ stack' = stack /\ lost' = lost /\ size' = size
  BY DEF Request
<1>3. api # "none" /\ api \in DOMAIN Plan
  BY ApisAssumption DEF Plan
<1>4. TypeOK'
  BY <1>2, <1>3 DEF TypeOK, Busy, Idle, Of, AllConns
<1>5. Follows(<<>>, <<>>)
  BY DEF Follows
<1>6. ASSUME NEW u \in Threads, (Busy(u) /\ ~Done(u))'
      PROVE  Follows(stack'[u], Taken[run'[u].api][run'[u].at])
  <2>1. CASE u = t
    BY <2>1, <1>1, <1>2, <1>3, <1>5, PlanFacts DEF TypeOK
  <2>2. CASE u # t
    BY <2>2, <1>6, <1>2 DEF StackFollowsPlan, TypeOK, Busy, Done, Steps
  <2>. QED
    BY <2>1, <2>2
<1>. QED
  BY <1>2, <1>4, <1>6 DEF StackFollowsPlan

\* Steps that move one thread on, or to its end, and change its stack only.
LEMMA OthersFollow ==
  ASSUME TypeOK, StackFollowsPlan, NEW t \in Threads,
         \A u \in Threads \ {t} : run'[u] = run[u] /\ stack'[u] = stack[u],
         (Busy(t) /\ ~Done(t))' => Follows(stack[t], Taken[run[t].api][run[t].at])'
  PROVE  StackFollowsPlan'
  BY DEF StackFollowsPlan, Busy, Done, Steps

LEMMA FollowsPush ==
  ASSUME NEW s \in Seq(AllConns), NEW held, NEW longer, NEW p, NEW c,
         Follows(s, held), Extends(longer, p, held), c.pool = p
  PROVE  Follows(Append(s, c), longer)
  BY DEF Follows, Extends

LEMMA FollowsPop ==
  ASSUME NEW s \in Seq(AllConns), NEW held, NEW shorter, NEW p,
         Follows(s, held), Extends(held, p, shorter)
  PROVE  Follows(SubSeq(s, 1, Len(s) - 1), shorter)
  BY DEF Follows, Extends

LEMMA AcquireInv ==
  ASSUME IInv, NEW t \in Threads, NEW p \in Pools, Acquire(t, p)
  PROVE  IInv'
<1>. USE DEF IInv
<1>1. PICK c \in Free(p) : stack' = [stack EXCEPT ![t] = Append(@, c)]
  BY DEF Acquire
<1>2. Busy(t) /\ ~Done(t) /\ Steps(t)[run[t].at] = Get(p)
      /\ run' = [run EXCEPT ![t].at = @ + 1] /\ lost' = lost /\ size' = size
  BY DEF Acquire, NextIs, Advance
<1>3. run[t] \in [api : Apis, at : 1..5] /\ run[t].at \in 1..Len(Steps(t))
      /\ Len(Steps(t)) \in 1..4 /\ PlanStep(run[t].api, run[t].at)
  BY <1>2, StepFacts
<1>4. c \in AllConns /\ c.pool = p
  BY DEF Free, Of, AllConns
<1>5. stack[t] \in Seq(AllConns) /\ stack'[t] = Append(stack[t], c)
  BY <1>1 DEF TypeOK, AllConns
<1>6. run'[t] = [api |-> run[t].api, at |-> run[t].at + 1]
  BY <1>2, <1>3 DEF TypeOK
<1>7. TypeOK'
  <2>1. run' \in [Threads -> [api : Apis, at : 1..5] \cup {Idle}]
    BY <1>2, <1>3, <1>6 DEF TypeOK
  <2>2. \A u \in Threads : stack'[u] \in Seq(AllConns)
    BY <1>1, <1>4, <1>5 DEF TypeOK, AllConns
  <2>3. \A u \in Threads : ~Busy(u)' => stack'[u] = <<>>
    BY <1>1, <1>2, <1>6 DEF TypeOK, Busy
  <2>. QED
    BY <1>1, <1>2, <2>1, <2>2, <2>3 DEF TypeOK, AllConns, Of
<1>8. ASSUME ~Done(t)'
      PROVE  Follows(stack'[t], Taken[run[t].api][run[t].at + 1])
  <2>1. Extends(Taken[run[t].api][run[t].at + 1], p, Taken[run[t].api][run[t].at])
    BY <1>2, <1>3, <1>6, <1>8 DEF PlanStep, Get, Rel, Done, Busy, Steps
  <2>. QED
    BY <2>1, <1>2, <1>4, <1>5, FollowsPush DEF StackFollowsPlan
<1>. QED
  BY <1>1, <1>2, <1>6, <1>7, <1>8, OthersFollow DEF TypeOK

LEMMA PopTyped ==
  ASSUME TypeOK, NEW t \in Threads, Pop(t), stack[t] # <<>>
  PROVE  /\ stack' = [stack EXCEPT ![t] = SubSeq(@, 1, Len(@) - 1)]
         /\ stack[t] \in Seq(AllConns) /\ Len(stack[t]) \in Nat \ {0}
         /\ stack'[t] = SubSeq(stack[t], 1, Len(stack[t]) - 1)
         /\ \A u \in Threads \ {t} : stack'[u] = stack[u]
         /\ \A u \in Threads : stack'[u] \in Seq(AllConns)
  BY DEF TypeOK, Pop, AllConns

LEMMA ReleaseInv ==
  ASSUME IInv, NEW t \in Threads, NEW p \in Pools, Release(t, p)
  PROVE  IInv'
<1>. USE DEF IInv
<1>1. Busy(t) /\ ~Done(t) /\ Steps(t)[run[t].at] = Rel(p) /\ Pop(t)
      /\ run' = [run EXCEPT ![t].at = @ + 1] /\ lost' = lost /\ size' = size
  BY DEF Release, NextIs, Advance
<1>2. run[t] \in [api : Apis, at : 1..5] /\ run[t].at \in 1..Len(Steps(t))
      /\ Len(Steps(t)) \in 1..4 /\ PlanStep(run[t].api, run[t].at)
  BY <1>1, StepFacts
<1>3. Follows(stack[t], Taken[run[t].api][run[t].at]) /\ Len(Taken[run[t].api][run[t].at]) \in Nat \ {0}
  BY <1>1, <1>2 DEF StackFollowsPlan, PlanStep, Get, Rel, Steps
<1>4. stack[t] # <<>>
  BY <1>3 DEF Follows
<1>5. run'[t] = [api |-> run[t].api, at |-> run[t].at + 1]
  BY <1>1, <1>2 DEF TypeOK
<1>6. TypeOK'
  <2>1. run' \in [Threads -> [api : Apis, at : 1..5] \cup {Idle}]
    BY <1>1, <1>2, <1>5 DEF TypeOK
  <2>2. \A u \in Threads : ~Busy(u)' => stack'[u] = <<>>
    BY <1>1, <1>4, <1>5, PopTyped DEF TypeOK, Busy
  <2>3. AllConns' = AllConns
    BY <1>1 DEF AllConns, Of
  <2>. QED
    BY <1>1, <1>4, <2>1, <2>2, <2>3, PopTyped DEF TypeOK
<1>7. ASSUME ~Done(t)'
      PROVE  Follows(stack'[t], Taken[run[t].api][run[t].at + 1])
  <2>1. Extends(Taken[run[t].api][run[t].at], p, Taken[run[t].api][run[t].at + 1])
    BY <1>1, <1>2, <1>5, <1>7 DEF PlanStep, Get, Rel, Done, Busy, Steps
  <2>2. stack'[t] = SubSeq(stack[t], 1, Len(stack[t]) - 1) /\ stack[t] \in Seq(AllConns)
    BY <1>1, <1>4, PopTyped
  <2>. QED
    BY <2>1, <2>2, <1>3, FollowsPop
<1>8. \A u \in Threads \ {t} : run'[u] = run[u] /\ stack'[u] = stack[u]
  BY <1>1, <1>4, PopTyped DEF TypeOK
<1>. QED
  BY <1>5, <1>6, <1>7, <1>8, OthersFollow

LEMMA GiveUpInv ==
  ASSUME IInv, NEW t \in Threads, GiveUp(t)
  PROVE  IInv'
<1>. USE DEF IInv
<1>1. Busy(t) /\ ~Done(t) /\ run' = [run EXCEPT ![t].at = Len(Steps(t)) + 1]
      /\ stack' = stack /\ lost' = lost /\ size' = size
  BY DEF GiveUp
<1>2. run[t] \in [api : Apis, at : 1..5] /\ Len(Steps(t)) \in 1..4
  BY <1>1, StepFacts
<1>3. PICK n \in 1..4 : n = Len(Steps(t)) /\ run' = [run EXCEPT ![t].at = n + 1]
  BY <1>1, <1>2
<1>4. run'[t] = [api |-> run[t].api, at |-> n + 1] /\ n + 1 \in 1..5
  <2>1. DOMAIN run = Threads
    BY DEF TypeOK
  <2>2. run'[t] = [run[t] EXCEPT !.at = n + 1]
    BY <1>3, <2>1
  <2>. QED
    BY <1>2, <2>2
<1>5. Done(t)'
  <2>1. Steps(t)' = Steps(t) /\ Busy(t)'
    BY <1>1, <1>4 DEF Steps, Busy
  <2>. QED
    BY <2>1, <1>3, <1>4 DEF Done
<1>6. TypeOK'
  <2>1. run' \in [Threads -> [api : Apis, at : 1..5] \cup {Idle}]
    BY <1>2, <1>3, <1>4 DEF TypeOK
  <2>2. \A u \in Threads : ~Busy(u)' => stack'[u] = <<>>
    BY <1>1, <1>3, <1>4 DEF TypeOK, Busy
  <2>. QED
    BY <1>1, <2>1, <2>2 DEF TypeOK, Of, AllConns
<1>. QED
  BY <1>1, <1>5, <1>6, OthersFollow DEF TypeOK

LEMMA UnwindInv ==
  ASSUME IInv, NEW t \in Threads, Unwind(t)
  PROVE  IInv'
<1>. USE DEF IInv
<1>1. Done(t) /\ stack[t] # <<>> /\ Pop(t) /\ run' = run /\ lost' = lost /\ size' = size
  BY DEF Unwind
<1>2. Done(t)' /\ Busy(t)
  BY <1>1 DEF Done, Busy, Steps
<1>3. TypeOK'
  <2>1. AllConns' = AllConns
    BY <1>1 DEF AllConns, Of
  <2>. QED
    BY <1>1, <1>2, <2>1, PopTyped DEF TypeOK, Busy
<1>. QED
  BY <1>1, <1>2, <1>3, PopTyped, OthersFollow DEF TypeOK

LEMMA FinishInv ==
  ASSUME IInv, NEW t \in Threads, Finish(t)
  PROVE  IInv'
<1>. USE DEF IInv
<1>1. lost' = lost \cup Held(t) /\ stack' = [stack EXCEPT ![t] = <<>>]
      /\ run' = [run EXCEPT ![t] = Idle] /\ size' = size
  BY DEF Finish
<1>2. Held(t) \subseteq AllConns
  <2>1. stack[t] \in Seq(AllConns)
    BY DEF TypeOK, AllConns
  <2>. QED
    BY <2>1 DEF Held
<1>3. TypeOK'
  BY <1>1, <1>2 DEF TypeOK, AllConns, Busy, Idle, Of
<1>4. ~Busy(t)'
  BY <1>1 DEF TypeOK, Busy, Idle
<1>. QED
  BY <1>1, <1>3, <1>4, OthersFollow DEF TypeOK

\* Every step of every handler keeps the type of the state and the agreement of
\* what a thread holds with the plan of its handler.
THEOREM PoolClientsInvariant == Spec => []IInv
<1>1. ASSUME IInv, [Next]_vars
      PROVE  IInv'
  <2>1. CASE UNCHANGED vars
    BY <1>1, <2>1 DEF vars, IInv, TypeOK, StackFollowsPlan, Busy, Done, Steps, Of, AllConns
  <2>2. CASE Next
    BY <1>1, <2>2, RequestInv, AcquireInv, ReleaseInv, GiveUpInv, UnwindInv, FinishInv
       DEF Next, Step
  <2>. QED
    BY <1>1, <2>1, <2>2
<1>. QED
  BY InitInv, <1>1, PTL DEF Spec

-----------------------------------------------------------------------------
(* What threads that sleep for good hold. *)

LEMMA SleeperHolds ==
  ASSUME IInv, NEW t \in Threads, NEW p \in Pools, NextIs(t, Get(p)), NEW c \in Held(t)
  PROVE  /\ c.pool # "token"
         /\ c.pool = "ranking" => p = "slave"
         /\ c.pool = "master" => p \in {"token", "ranking"}
         /\ c.pool = "slave" => run[t].api \in {"sharelist", "ranking"}
         /\ \A d \in Held(t) : c.pool = "slave" /\ d.pool = "slave" => c = d
<1>. DEFINE held == Taken[run[t].api][run[t].at]
<1>1. Busy(t) /\ ~Done(t) /\ Steps(t)[run[t].at] = Get(p)
  BY DEF NextIs
<1>2. PlanStep(run[t].api, run[t].at)
  BY <1>1, StepFacts DEF IInv
<1>3. MayWait(run[t].api, held, p)
  BY <1>1, <1>2 DEF PlanStep, Get, Rel, Steps
<1>4. Follows(stack[t], held) /\ stack[t] \in Seq(AllConns)
  BY <1>1 DEF IInv, TypeOK, StackFollowsPlan, AllConns
<1>. HIDE DEF held
<1>5. PICK i \in 1..Len(stack[t]) : c = stack[t][i]
  BY <1>4 DEF Held
<1>6. \A d \in Held(t) : \E j \in 1..Len(stack[t]) : d = stack[t][j]
  BY <1>4 DEF Held
<1>. QED
  BY <1>3, <1>4, <1>5, <1>6 DEF MayWait, Follows

LEMMA SleeperMeetsHolder ==
  ASSUME IInv, lost = {}, Stuck, NEW t \in Threads, NEW p \in Pools, Waits(t, p),
         NEW c \in Of(p)
  PROVE  \E u \in Threads, q \in Pools : c \in Held(u) /\ Waits(u, q)
<1>1. PICK u \in Threads : c \in Held(u)
  BY DEF Waits, Free
<1>2. Busy(u)
  BY <1>1 DEF IInv, TypeOK, Held
<1>. QED
  BY <1>1, <1>2 DEF Stuck

LEMMA PoolNotEmpty ==
  ASSUME IInv, NEW p \in Pools
  PROVE  [pool |-> p, id |-> 1] \in Of(p)
  BY SizesAssumption DEF Of, IInv, TypeOK

LEMMA SomeoneWaitsForSlave ==
  ASSUME IInv, lost = {}, Stuck
  PROVE  \E t \in Threads : Waits(t, "slave")
<1>1. \A t \in Threads : ~Waits(t, "token")
  <2>. SUFFICES ASSUME NEW t \in Threads, Waits(t, "token") PROVE FALSE
    OBVIOUS
  <2>1. [pool |-> "token", id |-> 1] \in Of("token") /\ "token" \in Pools
    BY PoolNotEmpty DEF Pools
  <2>2. PICK u \in Threads, q \in Pools : [pool |-> "token", id |-> 1] \in Held(u) /\ Waits(u, q)
    BY <2>1, SleeperMeetsHolder
  <2>. QED
    BY <2>2, SleeperHolds DEF Waits
<1>2. ASSUME NEW t \in Threads, Waits(t, "ranking")
      PROVE  \E u \in Threads : Waits(u, "slave")
  <2>1. [pool |-> "ranking", id |-> 1] \in Of("ranking") /\ "ranking" \in Pools
    BY PoolNotEmpty DEF Pools
  <2>2. PICK u \in Threads, q \in Pools : [pool |-> "ranking", id |-> 1] \in Held(u) /\ Waits(u, q)
    BY <1>2, <2>1, SleeperMeetsHolder
  <2>. QED
    BY <2>2, SleeperHolds DEF Waits
<1>3. ASSUME NEW t \in Threads, Waits(t, "master")
      PROVE  \E u \in Threads : Waits(u, "token") \/ Waits(u, "ranking")
  <2>1. [pool |-> "master", id |-> 1] \in Of("master") /\ "master" \in Pools
    BY PoolNotEmpty DEF Pools
  <2>2. PICK u \in Threads, q \in Pools : [pool |-> "master", id |-> 1] \in Held(u) /\ Waits(u, q)
    BY <1>3, <2>1, SleeperMeetsHolder
  <2>3. q \in {"token", "ranking"}
    BY <2>2, SleeperHolds DEF Waits
  <2>. QED
    BY <2>2, <2>3
<1>4. PICK t \in Threads, p \in Pools : Waits(t, p)
  BY DEF Stuck
<1>. QED
  BY <1>1, <1>2, <1>3, <1>4 DEF Pools

LEMMA SleepersShareSlaves ==
  ASSUME IInv, lost = {}, Stuck, NEW c \in Of("slave")
  PROVE  \E t \in Threads, q \in Pools : c \in Held(t) /\ Waits(t, q)
<1>1. PICK t \in Threads : Waits(t, "slave")
  BY SomeoneWaitsForSlave
<1>. QED
  BY <1>1, SleeperMeetsHolder DEF Pools

\* The handlers take connections of different pools in an order that cannot
\* deadlock; all threads sleep for good only if each connection of
\* tuchuang_slave is with a listing of api_sharefiles.cc.
THEOREM PoolClientsStuckOnlyNested == Spec => []StuckOnlyNested
<1>1. ASSUME IInv, lost = {}, Stuck, NEW c \in Of("slave")
      PROVE  \E t \in Threads : c \in Held(t) /\ run[t].api \in {"sharelist", "ranking"}
  <2>1. PICK t \in Threads, q \in Pools : c \in Held(t) /\ Waits(t, q)
    BY <1>1, SleepersShareSlaves
  <2>2. c.pool = "slave"
    BY DEF Of
  <2>. QED
    BY <1>1, <2>1, <2>2, SleeperHolds DEF Waits
<1>2. IInv => StuckOnlyNested
  BY <1>1 DEF StuckOnlyNested
<1>. QED
  BY <1>2, PoolClientsInvariant, PTL

LEMMA Crowded ==
  ASSUME NEW n \in Nat, Cardinality(Threads) < n, NEW f \in [1..n -> Threads]
  PROVE  \E i, j \in 1..n : i # j /\ f[i] = f[j]
<1>. DEFINE S == 1..n
<1>1. IsFiniteSet(S) /\ Cardinality(S) = n
  BY FS_Interval
<1>2. IsFiniteSet(Threads)
  BY ThreadsAssumption
<1>. HIDE DEF S
<1>3. \E i, j \in S : i # j /\ f[i] = f[j]
  <2>1. f \in [S -> Threads] /\ Cardinality(Threads) < Cardinality(S)
    BY <1>1 DEF S
  <2>. QED
    BY <1>1, <1>2, <2>1, FS_PigeonHole
<1>. QED
  BY <1>3 DEF S

\* With one connection of tuchuang_slave more than there are event loop
\* threads (num_event_loops in main.cc) the threads never all sleep: a thread
\* that waits holds at most one of them.
THEOREM PoolClientsEnoughSlaves == Spec => []EnoughSlaves
<1>1. ASSUME IInv, lost = {}, size["slave"] > Cardinality(Threads), Stuck
      PROVE  FALSE
  <2>. DEFINE Conn(i) == [pool |-> "slave", id |-> i]
              holder == [i \in 1..size["slave"] |->
                           CHOOSE t \in Threads : \E q \in Pools : Conn(i) \in Held(t) /\ Waits(t, q)]
  <2>1. size["slave"] \in Nat
    BY <1>1, SizesAssumption DEF Pools, IInv, TypeOK
  <2>2. \A i \in 1..size["slave"] : Conn(i) \in Of("slave")
    BY DEF Of
  <2>3. \A i \in 1..size["slave"] :
          /\ holder[i] \in Threads
          /\ \E q \in Pools : Conn(i) \in Held(holder[i]) /\ Waits(holder[i], q)
    BY <1>1, <2>2, SleepersShareSlaves
  <2>4. holder \in [1..size["slave"] -> Threads]
    BY <2>3
  <2>. HIDE DEF holder
  <2>5. PICK i, j \in 1..size["slave"] : i # j /\ holder[i] = holder[j]
    BY <1>1, <2>1, <2>4, Crowded
  <2>6. Conn(i) = Conn(j)
    BY <1>1, <2>3, <2>5, SleeperHolds DEF Waits
  <2>. QED
    BY <2>5, <2>6
<1>2. IInv => EnoughSlaves
  BY <1>1 DEF EnoughSlaves
<1>. QED
  BY <1>2, PoolClientsInvariant, PTL
=============================================================================
