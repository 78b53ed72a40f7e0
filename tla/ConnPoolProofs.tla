--------------------------- MODULE ConnPoolProofs ---------------------------
(***************************************************************************)
(* CDBPool for any number of threads and any pool size: IInv is inductive, *)
(* hence connections are exclusive and conserved and no wake-up is lost;   *)
(* and every step is a step of ResourcePool.                               *)
(***************************************************************************)
EXTENDS ConnPool, FiniteSetTheorems, SequenceTheorems, TLAPS

-----------------------------------------------------------------------------
(* Sequences without duplicates *)

Elems(s) == {s[i] : i \in DOMAIN s}
NoDup(s) == \A i, j \in DOMAIN s : s[i] = s[j] => i = j

\* Taking the head of a list without duplicates removes exactly that element.
LEMMA TailFacts ==
  ASSUME NEW S, NEW s \in Seq(S), s # <<>>, NoDup(s)
  PROVE  /\ Head(s) \in Elems(s)
         /\ Tail(s) \in Seq(S)
         /\ Len(Tail(s)) = Len(s) - 1
         /\ Elems(Tail(s)) = Elems(s) \ {Head(s)}
         /\ NoDup(Tail(s))
<1>1. /\ Tail(s) \in Seq(S)
      /\ Len(Tail(s)) = Len(s) - 1
      /\ \A i \in 1 .. Len(Tail(s)) : Tail(s)[i] = s[i+1]
  BY HeadTailProperties
<1>2. /\ Len(s) \in Nat /\ Len(s) # 0
      /\ DOMAIN s = 1..Len(s)
      /\ DOMAIN Tail(s) = 1..(Len(s) - 1)
      /\ Head(s) = s[1]
  BY <1>1
<1>3. Head(s) \in Elems(s)
  BY <1>2 DEF Elems
<1>4. NoDup(Tail(s))
  BY <1>1, <1>2 DEF NoDup
<1>5. ASSUME NEW x \in Elems(Tail(s))
      PROVE  x \in Elems(s) \ {Head(s)}
  <2>1. PICK i \in 1..(Len(s) - 1) : x = Tail(s)[i]
    BY <1>2 DEF Elems
  <2>2. x = s[i + 1] /\ i + 1 \in DOMAIN s /\ i + 1 # 1 /\ 1 \in DOMAIN s
    BY <1>1, <1>2, <2>1
  <2>. QED  BY <1>2, <2>2 DEF Elems, NoDup
<1>6. ASSUME NEW x \in Elems(s) \ {Head(s)}
      PROVE  x \in Elems(Tail(s))
  <2>1. PICK i \in 1..Len(s) : x = s[i]
    BY <1>2 DEF Elems
  <2>2. i # 1 /\ i - 1 \in DOMAIN Tail(s) /\ Tail(s)[i - 1] = x
    BY <1>1, <1>2, <2>1
  <2>. QED  BY <2>2 DEF Elems
<1>. QED  BY <1>1, <1>3, <1>4, <1>5, <1>6

\* Appending a new element keeps a list free of duplicates.
LEMMA AppendFacts ==
  ASSUME NEW S, NEW s \in Seq(S), NEW x \in S, x \notin Elems(s), NoDup(s)
  PROVE  /\ Append(s, x) \in Seq(S)
         /\ Len(Append(s, x)) = Len(s) + 1
         /\ Elems(Append(s, x)) = Elems(s) \cup {x}
         /\ NoDup(Append(s, x))
<1>1. /\ Append(s, x) \in Seq(S)
      /\ Len(Append(s, x)) = Len(s) + 1
      /\ \A i \in 1..Len(s) : Append(s, x)[i] = s[i]
      /\ Append(s, x)[Len(s) + 1] = x
  BY AppendProperties
<1>2. /\ Len(s) \in Nat
      /\ DOMAIN s = 1..Len(s)
      /\ DOMAIN Append(s, x) = 1..(Len(s) + 1)
  BY <1>1
<1>3. Elems(Append(s, x)) = Elems(s) \cup {x}
  <2>1. ASSUME NEW y \in Elems(Append(s, x))
        PROVE  y \in Elems(s) \cup {x}
    <3>1. PICK i \in 1..(Len(s) + 1) : y = Append(s, x)[i]
      BY <1>2 DEF Elems
    <3>2. CASE i = Len(s) + 1  BY <1>1, <3>1, <3>2
    <3>3. CASE i \in 1..Len(s)  BY <1>1, <1>2, <3>1, <3>3 DEF Elems
    <3>. QED  BY <1>2, <3>2, <3>3
  <2>2. x \in Elems(Append(s, x))
    BY <1>1, <1>2 DEF Elems
  <2>3. ASSUME NEW i \in 1..Len(s)
        PROVE  s[i] \in Elems(Append(s, x))
    <3>1. i \in DOMAIN Append(s, x) /\ Append(s, x)[i] = s[i]
      BY <1>1, <1>2
    <3>. QED  BY <3>1 DEF Elems
  <2>. QED  BY <1>2, <2>1, <2>2, <2>3 DEF Elems
<1>4. NoDup(Append(s, x))
  <2>. SUFFICES ASSUME NEW i \in 1..(Len(s) + 1), NEW j \in 1..(Len(s) + 1),
                       Append(s, x)[i] = Append(s, x)[j]
                PROVE  i = j
    BY <1>2 DEF NoDup
  <2>1. CASE i \in 1..Len(s) /\ j \in 1..Len(s)
    BY <1>1, <1>2, <2>1 DEF NoDup
  <2>2. CASE i = Len(s) + 1 /\ j \in 1..Len(s)
    BY <1>1, <1>2, <2>2 DEF Elems
  <2>3. CASE i \in 1..Len(s) /\ j = Len(s) + 1
    BY <1>1, <1>2, <2>3 DEF Elems
  <2>. QED  BY <1>2, <2>1, <2>2, <2>3
<1>. QED  BY <1>1, <1>3, <1>4

-----------------------------------------------------------------------------
(* What the steps do to the list and to the owners *)

ListInv == TypeOK /\ Exclusive /\ Conserved

\* Handing out the front of the list keeps connections exclusive and conserved.
LEMMA PopFrontKeeps ==
  ASSUME ListInv, NEW t \in Threads, PopFront(t)
  PROVE  /\ free_list' \in Seq(Conns') /\ held' \in [Threads -> SUBSET Conns']
         /\ Len(free_list') = Len(free_list) - 1
         /\ Len(free_list) # 0
         /\ Exclusive'
         /\ Conserved'
<1>. USE DEF ListInv
<1>1. /\ free_list \in Seq(Conns)
      /\ free_list # <<>>
      /\ free_list' = Tail(free_list)
      /\ held' = [held EXCEPT ![t] = @ \cup {Head(free_list)}]
      /\ held \in [Threads -> SUBSET Conns]
      /\ Conns' = Conns
  BY DEF PopFront, TypeOK, Conns
<1>2. InList = Elems(free_list) /\ InList' = Elems(free_list')
  BY DEF InList, Elems
<1>3. NoDup(free_list)
  BY DEF Exclusive, NoDup
<1>4. /\ Head(free_list) \in InList
      /\ free_list' \in Seq(Conns)
      /\ Len(free_list') = Len(free_list) - 1
      /\ InList' = InList \ {Head(free_list)}
      /\ NoDup(free_list')
  BY <1>1, <1>2, <1>3, TailFacts
<1>5. Len(free_list) # 0
  BY <1>1
<1>6. Head(free_list) \in Conns
  BY <1>1, HeadTailProperties
<1>7. held' \in [Threads -> SUBSET Conns']
  BY <1>1, <1>6
<1>8. Exclusive'
  <2>1. \A u \in Threads : Head(free_list) \notin held[u]
    BY <1>4 DEF Exclusive
  <2>2. \A u, w \in Threads : u # w => held'[u] \cap held'[w] = {}
    BY <1>1, <2>1 DEF Exclusive
  <2>3. \A u \in Threads : held'[u] \cap InList' = {}
    BY <1>1, <1>4 DEF Exclusive
  <2>. QED  BY <1>4, <2>2, <2>3 DEF Exclusive, NoDup
<1>9. Conserved'
  <2>1. InUse' = InUse \cup {Head(free_list)}
    BY <1>1 DEF InUse
  <2>2. alive' = InList' \cup InUse'
    BY <1>4, <2>1 DEF Conserved, PopFront
  <2>. QED  BY <2>2 DEF Conserved, PopFront, Conns
<1>. QED  BY <1>1, <1>4, <1>5, <1>7, <1>8, <1>9

\* So does a step that touches neither the list, nor owners, nor objects.
LEMMA UnchangedKeeps ==
  ASSUME ListInv,
         UNCHANGED <<free_list, cur_conn_cnt, alive, held>>
  PROVE  /\ free_list' \in Seq(Conns') /\ held' \in [Threads -> SUBSET Conns']
         /\ Exclusive'
         /\ Conserved'
BY DEF ListInv, TypeOK, Exclusive, Conserved, InList, InUse, Conns

\* A newly opened connection has a name no list or owner knows yet.
LEMMA GetNewKeeps ==
  ASSUME ListInv, NEW t \in Threads, GetNew(t)
  PROVE  TypeOK' /\ Exclusive' /\ Conserved'
<1>. USE DEF ListInv
<1>. DEFINE n == cur_conn_cnt + 1
<1>1. /\ cur_conn_cnt \in Nat /\ cur_conn_cnt' = n
      /\ Conns' = Conns \cup {n} /\ n \notin Conns
      /\ free_list = <<>> /\ free_list' = <<>>
      /\ InList = {} /\ InList' = {}
      /\ held \in [Threads -> SUBSET Conns]
      /\ held' = [held EXCEPT ![t] = @ \cup {n}]
  BY DEF GetNew, TypeOK, Conns, InList
<1>2. TypeOK'
  <2>1. held' \in [Threads -> SUBSET Conns'] /\ <<>> \in Seq(Conns')
    BY <1>1
  <2>. QED  BY <1>1, <2>1 DEF TypeOK, GetNew, Inside
<1>3. Exclusive'
  <2>1. \A u \in Threads : n \notin held[u]
    BY <1>1
  <2>2. \A u, w \in Threads : u # w => held'[u] \cap held'[w] = {}
    BY <1>1, <2>1 DEF Exclusive
  <2>. QED  BY <1>1, <2>2 DEF Exclusive
<1>4. Conserved'
  <2>1. InUse' = InUse \cup {n}
    BY <1>1 DEF InUse
  <2>2. alive' = InList' \cup InUse'
    BY <1>1, <2>1 DEF Conserved, GetNew
  <2>3. alive' = Conns'
    BY <1>1 DEF Conserved, GetNew
  <2>4. cur_conn_cnt' <= MaxConn
    BY <1>1, PoolAssumption DEF GetNew
  <2>. QED  BY <2>2, <2>3, <2>4 DEF Conserved
<1>. QED  BY <1>2, <1>3, <1>4

\* A returned connection was not in the list, so it is pushed, once.
LEMMA RelDBConnKeeps ==
  ASSUME ListInv, NEW t \in Threads, NEW c \in held[t], RelDBConn(t, c)
  PROVE  /\ free_list' \in Seq(Conns') /\ held' \in [Threads -> SUBSET Conns']
         /\ Len(free_list') = Len(free_list) + 1
         /\ NotifyOne
         /\ Exclusive'
         /\ Conserved'
<1>. USE DEF ListInv
<1>1. /\ c \in Conns /\ c \notin InList
      /\ free_list \in Seq(Conns)
      /\ held \in [Threads -> SUBSET Conns]
      /\ held' = [held EXCEPT ![t] = @ \ {c}]
      /\ Conns' = Conns
  BY DEF TypeOK, Exclusive, RelDBConn, Conns
<1>2. free_list' = Append(free_list, c) /\ NotifyOne
  BY <1>1 DEF RelDBConn
<1>3. InList = Elems(free_list) /\ InList' = Elems(free_list') /\ NoDup(free_list)
  BY DEF InList, Elems, Exclusive, NoDup
<1>4. /\ free_list' \in Seq(Conns)
      /\ Len(free_list') = Len(free_list) + 1
      /\ InList' = InList \cup {c}
      /\ NoDup(free_list')
  BY <1>1, <1>2, <1>3, AppendFacts
<1>5. held' \in [Threads -> SUBSET Conns']
  BY <1>1
<1>6. \A u \in Threads : u # t => c \notin held[u]
  BY DEF Exclusive
<1>7. Exclusive'
  <2>1. \A u, w \in Threads : u # w => held'[u] \cap held'[w] = {}
    BY <1>1 DEF Exclusive
  <2>2. \A u \in Threads : held'[u] \cap InList' = {}
    BY <1>1, <1>4, <1>6 DEF Exclusive
  <2>. QED  BY <1>4, <2>1, <2>2 DEF Exclusive, NoDup
<1>8. Conserved'
  <2>1. InUse' = InUse \ {c}
    BY <1>1, <1>6 DEF InUse
  <2>2. alive' = InList' \cup InUse'
    BY <1>4, <2>1 DEF Conserved, RelDBConn, InUse
  <2>. QED  BY <2>2 DEF Conserved, RelDBConn, Conns
<1>. QED  BY <1>1, <1>2, <1>4, <1>5, <1>7, <1>8

-----------------------------------------------------------------------------
(* The inductive invariant *)

LEMMA InitEstablishesIInv == Init => IInv
<1>. SUFFICES ASSUME Init PROVE IInv
  OBVIOUS
<1>1. /\ free_list \in Seq(1..MinConn) /\ DOMAIN free_list = 1..MinConn
      /\ InList = 1..MinConn /\ InUse = {} /\ Conns = 1..MinConn
  BY PoolAssumption DEF Init, InList, InUse, Conns
<1>2. TypeOK
  BY <1>1, PoolAssumption DEF Init, TypeOK, Conns, Inside
<1>3. Exclusive
  BY <1>1 DEF Init, Exclusive
<1>4. Conserved
  BY <1>1, PoolAssumption DEF Init, Conserved
<1>. QED  BY <1>2, <1>3, <1>4
          DEF Init, IInv, NoLostWakeup, WaitersFaceFullPool, Inside

\* woken is finite, so that adding or removing a thread changes its
\* cardinality by one.
LEMMA WokenCounts ==
  ASSUME TypeOK
  PROVE  /\ Cardinality(woken) \in Nat
         /\ \A t \in woken : /\ Cardinality(woken \ {t}) = Cardinality(woken) - 1
                             /\ Cardinality(woken \ {t}) \in Nat
         /\ \A t \in waiters : Cardinality(woken \cup {t}) = Cardinality(woken) + 1
<1>1. IsFiniteSet(woken)
  BY PoolAssumption, FS_Subset DEF TypeOK
<1>2. \A t \in waiters : t \notin woken
  BY DEF TypeOK
<1>. QED  BY <1>1, <1>2, FS_CardinalityType, FS_AddElement, FS_RemoveElement

LEMMA StepKeepsIInv ==
  ASSUME IInv, NEW t \in Threads, Step(t)
  PROVE  IInv'
<1>0. ListInv
  BY DEF ListInv, IInv
<1>w. /\ Cardinality(woken) \in Nat
      /\ \A u \in woken : /\ Cardinality(woken \ {u}) = Cardinality(woken) - 1
                          /\ Cardinality(woken \ {u}) \in Nat
      /\ \A u \in waiters : Cardinality(woken \cup {u}) = Cardinality(woken) + 1
  BY WokenCounts DEF IInv
<1>l. Len(free_list) \in Nat /\ (free_list = <<>> => Len(free_list) = 0)
  BY DEF IInv, TypeOK
<1>1. CASE GetNewFails(t)
  <2>1. UNCHANGED vars
    BY <1>1 DEF GetNewFails
  <2>2. Exclusive' /\ Conserved'
    BY <2>1, <1>0, UnchangedKeeps DEF vars
  <2>. QED  BY <2>1, <2>2 DEF vars, IInv, TypeOK, NoLostWakeup,
                 WaitersFaceFullPool, Inside, Conns
<1>2. CASE GetFree(t)
  <2>1. PopFront(t)
    BY <1>2 DEF GetFree
  <2>2. /\ free_list' \in Seq(Conns') /\ held' \in [Threads -> SUBSET Conns']
        /\ Len(free_list') = Len(free_list) - 1
        /\ Exclusive' /\ Conserved'
    BY <1>0, <2>1, PopFrontKeeps
  <2>3. TypeOK'
    BY <1>2, <2>1, <2>2 DEF IInv, TypeOK, PopFront, GetFree, Inside, Conns
  <2>4. NoLostWakeup'
    BY <1>2, <2>2, <1>l, <1>w DEF IInv, NoLostWakeup, GetFree
  <2>5. WaitersFaceFullPool'
    BY <1>2, <2>1 DEF IInv, WaitersFaceFullPool, Inside, GetFree, PopFront
  <2>. QED  BY <2>2, <2>3, <2>4, <2>5 DEF IInv
<1>3. CASE GetNew(t)
  <2>1. TypeOK' /\ Exclusive' /\ Conserved'
    BY <1>0, <1>3, GetNewKeeps
  <2>2. Inside = {}
    BY <1>3, PoolAssumption DEF IInv, WaitersFaceFullPool, Inside, GetNew, TypeOK
  <2>. QED  BY <1>3, <2>1, <2>2 DEF IInv, NoLostWakeup, WaitersFaceFullPool,
                 Inside, GetNew
<1>4. CASE GetWaits(t)
  <2>1. Exclusive' /\ Conserved' /\ free_list' \in Seq(Conns')
        /\ held' \in [Threads -> SUBSET Conns']
    BY <1>4, <1>0, UnchangedKeeps DEF GetWaits
  <2>2. TypeOK'
    BY <1>4, <2>1 DEF IInv, TypeOK, GetWaits, Calls, Inside, Conns
  <2>3. NoLostWakeup'
    BY <1>4, <1>w, <1>l DEF GetWaits, NoLostWakeup
  <2>4. WaitersFaceFullPool'
    BY <1>4 DEF GetWaits, WaitersFaceFullPool, Inside
  <2>. QED  BY <2>1, <2>2, <2>3, <2>4 DEF IInv
<1>5. CASE Wakes(t)
  <2>1. Exclusive' /\ Conserved' /\ free_list' \in Seq(Conns')
        /\ held' \in [Threads -> SUBSET Conns']
    BY <1>5, <1>0, UnchangedKeeps DEF Wakes
  <2>2. TypeOK'
    BY <1>5, <2>1 DEF IInv, TypeOK, Wakes, Inside, Conns
  <2>3. NoLostWakeup'
    BY <1>5, <1>w, <1>l DEF IInv, Wakes, NoLostWakeup
  <2>4. WaitersFaceFullPool'
    BY <1>5 DEF IInv, Wakes, WaitersFaceFullPool, Inside
  <2>. QED  BY <2>1, <2>2, <2>3, <2>4 DEF IInv
<1>6. CASE ResumeWaits(t)
  <2>1. Exclusive' /\ Conserved' /\ free_list' \in Seq(Conns')
        /\ held' \in [Threads -> SUBSET Conns']
    BY <1>6, <1>0, UnchangedKeeps DEF ResumeWaits
  <2>2. TypeOK'
    BY <1>6, <2>1 DEF IInv, TypeOK, ResumeWaits, Inside, Conns
  <2>3. NoLostWakeup'
    BY <1>6, <1>w, <1>l DEF ResumeWaits, NoLostWakeup
  <2>4. WaitersFaceFullPool'
    BY <1>6 DEF IInv, ResumeWaits, WaitersFaceFullPool, Inside
  <2>. QED  BY <2>1, <2>2, <2>3, <2>4 DEF IInv
<1>7. CASE ResumeTimesOut(t)
  <2>1. Exclusive' /\ Conserved' /\ free_list' \in Seq(Conns')
        /\ held' \in [Threads -> SUBSET Conns']
    BY <1>7, <1>0, UnchangedKeeps DEF ResumeTimesOut
  <2>2. TypeOK'
    BY <1>7, <2>1 DEF IInv, TypeOK, ResumeTimesOut, Leaves, Inside, Conns
  <2>3. NoLostWakeup'
    BY <1>7, <1>w, <1>l DEF ResumeTimesOut, Leaves, NoLostWakeup
  <2>4. WaitersFaceFullPool'
    BY <1>7 DEF IInv, ResumeTimesOut, Leaves, WaitersFaceFullPool, Inside
  <2>. QED  BY <2>1, <2>2, <2>3, <2>4 DEF IInv
<1>8. CASE ResumeTakes(t)
  <2>1. /\ free_list' \in Seq(Conns') /\ held' \in [Threads -> SUBSET Conns']
        /\ Len(free_list') = Len(free_list) - 1
        /\ Exclusive' /\ Conserved'
    BY <1>0, <1>8, PopFrontKeeps DEF ResumeTakes
  <2>2. TypeOK'
    BY <1>8, <2>1 DEF IInv, TypeOK, ResumeTakes, PopFront, Leaves, Inside, Conns
  <2>3. NoLostWakeup'
    BY <1>8, <2>1, <1>w, <1>l DEF IInv, NoLostWakeup, ResumeTakes, Leaves
  <2>4. WaitersFaceFullPool'
    BY <1>8 DEF IInv, ResumeTakes, PopFront, Leaves, WaitersFaceFullPool, Inside
  <2>. QED  BY <2>1, <2>2, <2>3, <2>4 DEF IInv
<1>9. CASE \E c \in held[t] : RelDBConn(t, c)
  <2>. PICK c \in held[t] : RelDBConn(t, c)
    BY <1>9
  <2>1. /\ free_list' \in Seq(Conns') /\ held' \in [Threads -> SUBSET Conns']
        /\ Len(free_list') = Len(free_list) + 1
        /\ NotifyOne
        /\ Exclusive' /\ Conserved'
    BY <1>0, RelDBConnKeeps
  <2>2. UNCHANGED <<cur_conn_cnt, alive, timed>>
    BY DEF RelDBConn
  <2>3. CASE waiters = {}
    <3>1. UNCHANGED <<waiters, woken>>
      BY <2>1, <2>3 DEF NotifyOne
    <3>2. TypeOK'
      BY <2>1, <2>2, <3>1 DEF IInv, TypeOK, Inside, Conns
    <3>. QED  BY <2>1, <2>2, <2>3, <3>1, <3>2
              DEF IInv, NoLostWakeup, WaitersFaceFullPool, Inside
  <2>4. CASE waiters # {}
    <3>1. PICK w \in waiters : waiters' = waiters \ {w} /\ woken' = woken \cup {w}
      BY <2>1, <2>4 DEF NotifyOne
    <3>2. TypeOK'
      BY <2>1, <2>2, <3>1 DEF IInv, TypeOK, Inside, Conns
    <3>3. NoLostWakeup'
      BY <2>1, <2>4, <3>1, <1>w, <1>l DEF IInv, NoLostWakeup
    <3>4. WaitersFaceFullPool'
      BY <2>2, <3>1 DEF IInv, WaitersFaceFullPool, Inside
    <3>. QED  BY <2>1, <3>2, <3>3, <3>4 DEF IInv
  <2>. QED  BY <2>3, <2>4
<1>. QED
  BY <1>1, <1>2, <1>3, <1>4, <1>5, <1>6, <1>7, <1>8, <1>9
  DEF Step, GetDBConn, Resume

LEMMA NextKeepsIInv == IInv /\ [Next]_vars => IInv'
<1>. SUFFICES ASSUME IInv, [Next]_vars PROVE IInv'
  OBVIOUS
<1>1. CASE \E t \in Threads : Step(t)
  BY <1>1, StepKeepsIInv
<1>2. CASE UNCHANGED vars
  <2>1. Exclusive' /\ Conserved'
    BY <1>2, UnchangedKeeps DEF vars, ListInv, IInv
  <2>. QED  BY <1>2, <2>1 DEF vars, IInv, TypeOK, NoLostWakeup,
                 WaitersFaceFullPool, Inside, Conns
<1>. QED  BY <1>1, <1>2 DEF Next

\* The inductive invariant holds of every pool: whatever the number of threads,
\* MIN_DB_CONN_CNT and the configured maximum.
THEOREM PoolInvariant == Spec => []IInv
BY InitEstablishesIInv, NextKeepsIInv, PTL DEF Spec

\* A connection is never shared by two handlers, nor both free and in use.
THEOREM PoolExclusive == Spec => []Exclusive
BY PoolInvariant, PTL DEF IInv

\* Connections are neither lost nor opened beyond the configured maximum.
THEOREM PoolConserved == Spec => []Conserved
BY PoolInvariant, PTL DEF IInv

\* notify_one after each push is enough: no wake-up is lost.
THEOREM PoolNoLostWakeup == Spec => []NoLostWakeup
BY PoolInvariant, PTL DEF IInv

\* If every thread inside GetDBConn sleeps, every connection of a full pool is
\* in use: with no lost wake-up, nobody sleeps next to a free connection.
THEOREM PoolSleepMeansExhausted == Spec => []SleepMeansExhausted
<1>1. ASSUME IInv PROVE SleepMeansExhausted
  <2>. SUFFICES ASSUME waiters # {}, woken = {}
                PROVE  cur_conn_cnt >= MaxConn /\ InUse = Conns
    BY DEF SleepMeansExhausted
  <2>1. cur_conn_cnt >= MaxConn
    BY <1>1 DEF IInv, WaitersFaceFullPool, Inside
  <2>2. Len(free_list) <= 0
    BY <1>1, FS_EmptySet DEF IInv, NoLostWakeup
  <2>3. InList = {}
    BY <1>1, <2>2 DEF IInv, TypeOK, InList
  <2>. QED  BY <1>1, <2>1, <2>3 DEF IInv, Conserved
<1>. QED  BY <1>1, PoolInvariant, PTL

-----------------------------------------------------------------------------
(* ConnPool implements ResourcePool *)

LEMMA InitMaps == Init => RP!Init
<1>. SUFFICES ASSUME Init PROVE RP!Init
  OBVIOUS
<1>1. Conns = 1..MinConn /\ InList = 1..MinConn
  BY PoolAssumption DEF Init, Conns, InList
<1>. QED  BY <1>1 DEF Init, RP!Init

\* Both ways of popping the list are a Grant.
LEMMA PopFrontMaps ==
  ASSUME IInv, NEW t \in Threads, PopFront(t)
  PROVE  RP!Grant(t)
<1>1. InList = Elems(free_list) /\ InList' = Elems(free_list') /\ NoDup(free_list)
  BY DEF InList, Elems, NoDup, IInv, Exclusive
<1>2. free_list \in Seq(Conns) /\ free_list # <<>> /\ free_list' = Tail(free_list)
  BY DEF IInv, TypeOK, PopFront
<1>3. Head(free_list) \in InList /\ InList' = InList \ {Head(free_list)}
  BY <1>1, <1>2, TailFacts
<1>. QED  BY <1>3 DEF RP!Grant, PopFront, Conns

LEMMA StepMaps ==
  ASSUME IInv, IInv', NEW t \in Threads, Step(t)
  PROVE  RP!Next \/ UNCHANGED RP!rvars
<1>0. UNCHANGED <<free_list, cur_conn_cnt, held>>
        => UNCHANGED RP!rvars
  BY DEF RP!rvars, Conns, InList
<1>1. CASE GetFree(t) \/ ResumeTakes(t)
  <2>1. RP!Grant(t)
    BY <1>1, PopFrontMaps DEF GetFree, ResumeTakes
  <2>. QED  BY <2>1 DEF RP!Next
<1>2. CASE GetNew(t)
  <2>1. /\ InList = {} /\ InList' = InList
        /\ cur_conn_cnt \in Nat /\ cur_conn_cnt < MaxConn
        /\ held' = [held EXCEPT ![t] = @ \cup {cur_conn_cnt + 1}]
    BY <1>2 DEF GetNew, InList, IInv, TypeOK
  <2>2. Cardinality(Conns) < MaxConn
    BY <2>1, FS_Interval DEF Conns
  <2>3. Conns' = Conns \cup {cur_conn_cnt + 1} /\ cur_conn_cnt + 1 \notin Conns
    BY <1>2, <2>1 DEF Conns, GetNew
  <2>4. cur_conn_cnt + 1 \in 1..(IF MaxConn > MinConn THEN MaxConn ELSE MinConn)
    BY <2>1, PoolAssumption
  <2>5. RP!Cardinality(Conns) = Cardinality(Conns)
    BY DEF RP!Cardinality, Cardinality
  <2>6. RP!GrantNew(t)
    BY <2>1, <2>2, <2>3, <2>4, <2>5 DEF RP!GrantNew
  <2>. QED  BY <2>6 DEF RP!Next
<1>3. CASE \E c \in held[t] : RelDBConn(t, c)
  <2>. PICK c \in held[t] : RelDBConn(t, c)
    BY <1>3
  <2>1. /\ c \in Conns /\ c \notin InList
        /\ free_list \in Seq(Conns)
    BY DEF IInv, TypeOK, Exclusive
  <2>2. free_list' = Append(free_list, c)
    BY <2>1 DEF RelDBConn
  <2>3. InList' = InList \cup {c}
    <3>1. InList = Elems(free_list) /\ InList' = Elems(free_list') /\ NoDup(free_list)
      BY DEF InList, Elems, NoDup, IInv, Exclusive
    <3>. QED  BY <2>1, <2>2, <3>1, AppendFacts
  <2>4. RP!Return(t)
    BY <2>3 DEF RP!Return, RelDBConn, Conns
  <2>. QED  BY <2>4 DEF RP!Next
<1>4. CASE GetNewFails(t) \/ GetWaits(t) \/ Wakes(t)
            \/ ResumeWaits(t) \/ ResumeTimesOut(t)
  BY <1>0, <1>4 DEF GetNewFails, GetWaits, Wakes, ResumeWaits,
                    ResumeTimesOut, vars
<1>. QED  BY <1>1, <1>2, <1>3, <1>4 DEF Step, GetDBConn, Resume

\* CDBPool is an exclusive, bounded allocator: each of its steps is a grant, a
\* grant of a new connection or a return of ResourcePool, or is invisible to
\* callers.
THEOREM PoolImplementsResourcePool == Spec => ImplementsResourcePool
<1>1. IInv /\ IInv' /\ [Next]_vars => [RP!Next]_RP!rvars
  <2>. SUFFICES ASSUME IInv, IInv', [Next]_vars
                PROVE  RP!Next \/ UNCHANGED RP!rvars
    OBVIOUS
  <2>1. CASE \E t \in Threads : Step(t)
    BY <2>1, StepMaps
  <2>2. CASE UNCHANGED vars
    BY <2>2 DEF vars, RP!rvars, Conns, InList
  <2>. QED  BY <2>1, <2>2 DEF Next
<1>. QED
  BY <1>1, InitMaps, PoolInvariant, PTL DEF Spec, ImplementsResourcePool, RP!Spec
=============================================================================
