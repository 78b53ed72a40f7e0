--------------------------- MODULE RankingProofs ---------------------------
(***************************************************************************)
(* The ranking, for any workers, users, files, requests and faults.        *)
(*                                                                         *)
(* Page views: MySQL never counts more of them than there were, in calm or *)
(* not.  pv is read by one statement and written by another, so what is    *)
(* inductive is that neither a row nor a value a worker has read is ahead  *)
(* of the views; a value that is out of date may set pv back, but never    *)
(* too far ahead.                                                          *)
(*                                                                         *)
(* Calm: the mirror agrees with MySQL about a file no request is about, is *)
(* not ahead of it, and a listing finds it whole.  While a request is      *)
(* about a file the two differ by the part of its work it has done, so     *)
(* what is inductive (CalmInv) has a promise for each place in a handler,  *)
(* that no two requests disturb each other, and that a file has one row.   *)
(* Only the request about a file touches it, so a step is looked at for    *)
(* its file alone (LocalAgreement).                                        *)
(***************************************************************************)
EXTENDS Ranking, TLAPS, FiniteSetTheorems

-----------------------------------------------------------------------------
(* What the ways of going on do to the jobs *)

\* The labels of a request are those of its kind.
LEMMA LabelsFacts ==
  /\ DOMAIN LabelsOf = {"none", "share", "cancel", "del", "view", "list"}
  /\ \A o \in DOMAIN LabelsOf : "idle" \in LabelsOf[o] => o = "none"
BY DEF LabelsOf

\* A job of the right type in place of one worker's keeps JobOK.
LEMMA JobReplaced ==
  ASSUME JobOK, NEW w \in Workers, NEW j \in Jobs, job' = [job EXCEPT ![w] = j],
         j.pc \in LabelsOf[j.req.op],
         j.pc = "idle" => j.n = 0 /\ j.page = {},
         j.req.op \in {"share", "cancel", "del"} => j.req.user \in Users,
         j.req.op \notin {"none", "list"} => j.req.file \in Files
  PROVE  JobOK'
<1>1. job'[w] = j /\ \A v \in Workers : v # w => job'[v] = job[v]
  BY DEF JobOK
<1>2. job' \in [Workers -> Jobs]
  BY DEF JobOK
<1> QED BY <1>1, <1>2 DEF JobOK, At, Op, User, File

\* A worker that goes on inside its handler, with a number it has read, keeps JobOK.
LEMMA KeepTyped ==
  ASSUME JobOK, NEW w \in Workers, NEW l, l \in LabelsOf[Op(w)], l # "idle",
         NEW n \in Nat, Keep(w, l, n)
  PROVE  JobOK'
<1> DEFINE j == [job[w] EXCEPT !.pc = l, !.n = n]
<1>1. job[w] \in Jobs /\ Op(w) \in DOMAIN LabelsOf
  BY DEF JobOK, Op, Jobs
<1>2. j.pc = l /\ j.n = n /\ j.req = job[w].req /\ j.page = job[w].page
  BY <1>1 DEF Jobs
<1>3. j \in Jobs
  BY <1>1 DEF Jobs
<1>4. job' = [job EXCEPT ![w] = j]
  BY DEF Keep, JobOK
<1> HIDE DEF j
<1> QED BY <1>2, <1>3, <1>4, JobReplaced DEF JobOK, Op, User, File

\* So does one that goes on as it is.
LEMMA GoTyped ==
  ASSUME JobOK, NEW w \in Workers, NEW l, l \in LabelsOf[Op(w)], l # "idle", Go(w, l)
  PROVE  JobOK'
<1>1. job[w] \in Jobs /\ job[w].n \in Nat
  BY DEF JobOK, Jobs
<1>2. Keep(w, l, job[w].n)
  BY <1>1 DEF Keep, Go, JobOK, Jobs
<1> QED BY <1>1, <1>2, KeepTyped

\* So does a listing with another page,
LEMMA PageTyped ==
  ASSUME JobOK, NEW w \in Workers, NEW q \in SUBSET Files, Op(w) = "list",
         job' = [job EXCEPT ![w].pc = "ls_name", ![w].page = q]
  PROVE  JobOK'
<1> DEFINE j == [job[w] EXCEPT !.pc = "ls_name", !.page = q]
<1>1. job[w] \in Jobs
  BY DEF JobOK
<1>2. j.pc = "ls_name" /\ j.page = q /\ j.req = job[w].req /\ j.n = job[w].n
  BY <1>1 DEF Jobs
<1>3. "list" \in DOMAIN LabelsOf /\ "ls_name" \in LabelsOf["list"]
  BY DEF LabelsOf
<1>4. j \in Jobs
  BY <1>1, <1>3 DEF Jobs
<1>5. job' = [job EXCEPT ![w] = j]
  BY DEF JobOK
<1>6. j.req.op = "list"
  BY <1>2 DEF Op
<1> HIDE DEF j
<1> QED BY <1>2, <1>3, <1>4, <1>5, <1>6, JobReplaced

\* with another member to look at,
LEMMA FileTyped ==
  ASSUME JobOK, NEW w \in Workers, NEW f \in Files, Op(w) = "list",
         job' = [job EXCEPT ![w].pc = "ls_score", ![w].req.file = f]
  PROVE  JobOK'
<1> DEFINE j == [job[w] EXCEPT !.pc = "ls_score", !.req = [job[w].req EXCEPT !.file = f]]
<1>1. job[w] \in Jobs
  BY DEF JobOK
<1>2. /\ j.pc = "ls_score" /\ j.page = job[w].page /\ j.n = job[w].n
      /\ j.req = [job[w].req EXCEPT !.file = f] /\ j.req.op = "list"
  BY <1>1 DEF Jobs, Op
<1>3. "list" \in DOMAIN LabelsOf /\ "ls_score" \in LabelsOf["list"]
  BY DEF LabelsOf
<1>4. j \in Jobs
  BY <1>1, <1>3 DEF Jobs
<1>5. job' = [job EXCEPT ![w] = j]
  BY DEF JobOK
<1> HIDE DEF j
<1> QED BY <1>2, <1>3, <1>4, <1>5, JobReplaced

\* and any worker that ends.
LEMMA FinishTyped ==
  ASSUME JobOK, NEW w \in Workers, Finish(w)
  PROVE  JobOK'
<1>1. Idle \in Jobs /\ Idle.pc \in LabelsOf[Idle.req.op]
  BY DEF Idle, NoRequest, LabelsOf, Jobs
<1> QED BY <1>1, JobReplaced DEF Finish, Idle, NoRequest

\* A handler is at its own labels only, and knows the user and the file it is about.
LEMMA AtOp ==
  ASSUME JobOK, NEW w \in Workers
  PROVE  /\ Op(w) \in DOMAIN LabelsOf
         /\ \A o \in DOMAIN LabelsOf : \A l \in LabelsOf[o] : At(w, l) => Op(w) = o
         /\ job[w].n \in Nat /\ job[w].page \subseteq Files
         /\ Op(w) \in {"share", "cancel", "del"} => User(w) \in Users
         /\ Op(w) \in {"share", "cancel", "del", "view"} => File(w) \in Files
<1>1. Op(w) \in DOMAIN LabelsOf /\ job[w].pc \in LabelsOf[Op(w)]
  BY DEF JobOK, Jobs, Op
<1>2. \A o, k \in DOMAIN LabelsOf : o # k => LabelsOf[o] \cap LabelsOf[k] = {}
  BY DEF LabelsOf
<1>3. job[w].n \in Nat /\ job[w].page \subseteq Files
  BY DEF JobOK, Jobs
<1>4. /\ Op(w) \in {"share", "cancel", "del"} => User(w) \in Users
      /\ Op(w) \in {"share", "cancel", "del", "view"} => File(w) \in Files
  BY DEF JobOK
<1> QED BY <1>1, <1>2, <1>3, <1>4 DEF At

-----------------------------------------------------------------------------
(* Types *)

ScoreOK == Members \subseteq Files /\ score \in [Members -> Nat]

\* ZADD, ZINCRBY and ZREM keep the sorted set one.
LEMMA ZsetTyped ==
  ASSUME ScoreOK, NEW f \in Files,
         \/ \E n \in Nat : ZsetAdd(f, n)
         \/ ZsetIncr(f)
         \/ ZsetZrem(f)
  PROVE  ScoreOK'
<1>1. ASSUME NEW n \in Nat, ZsetAdd(f, n)
      PROVE  ScoreOK'
  <2>1. score' \in [Members \cup {f} -> Nat]
    BY <1>1 DEF ZsetAdd, ScoreOK
  <2> QED BY <2>1 DEF ScoreOK, Members
<1>2. CASE ZsetIncr(f)
  <2>1. (IF f \in Members THEN score[f] + 1 ELSE 1) \in Nat
    BY DEF ScoreOK
  <2> QED BY <1>1, <1>2, <2>1 DEF ZsetIncr
<1>3. CASE ZsetZrem(f)
  <2>1. score' \in [Members \ {f} -> Nat]
    BY <1>3 DEF ZsetZrem, Restrict, ScoreOK
  <2> QED BY <2>1 DEF ScoreOK, Members
<1> QED BY <1>1, <1>2, <1>3

\* The steps of Share keep the types.
LEMMA ShareTyped ==
  ASSUME TypeOK, NEW w \in Workers, Share(w)
  PROVE  TypeOK'
<1> USE DEF TypeOK
<1>1. /\ Op(w) = "share" /\ LabelsOf["share"] \subseteq LabelsOf[Op(w)] /\ job[w].n \in Nat
      /\ User(w) \in Users /\ File(w) \in Files
  BY AtOp DEF Share, LabelsOf, ShareZsetExit, ShareReadRows, ShareMark, ShareInsertRow, ShareZadd, ShareHset
<1>2. JobOK'
  <2>1. CASE ShareZsetExit(w)
    BY <2>1, <1>1, GoTyped, KeepTyped, FinishTyped DEF ShareZsetExit, LabelsOf
  <2>2. CASE ShareReadRows(w)
    BY <2>2, <1>1, GoTyped, KeepTyped, FinishTyped DEF ShareReadRows, LabelsOf
  <2>3. CASE ShareMark(w)
    BY <2>3, <1>1, GoTyped, KeepTyped, FinishTyped DEF ShareMark, LabelsOf
  <2>4. CASE ShareInsertRow(w)
    BY <2>4, <1>1, GoTyped, KeepTyped, FinishTyped DEF ShareInsertRow, LabelsOf
  <2>5. CASE ShareZadd(w)
    BY <2>5, <1>1, GoTyped, KeepTyped, FinishTyped DEF ShareZadd, LabelsOf
  <2>6. CASE ShareHset(w)
    BY <2>6, <1>1, GoTyped, KeepTyped, FinishTyped DEF ShareHset, LabelsOf
  <2> QED BY <2>1, <2>2, <2>3, <2>4, <2>5, <2>6 DEF Share
<1>3. DataOK'
  <2>1. CASE ShareZsetExit(w)
    BY <2>1, <1>1 DEF DataOK, ShareZsetExit, mysql, redis, budget, Members
  <2>2. CASE ShareReadRows(w)
    BY <2>2, <1>1 DEF DataOK, ShareReadRows, mysql, redis, budget, Members
  <2>3. CASE ShareMark(w)
    BY <2>3, <1>1 DEF DataOK, ShareMark, mysql, redis, budget, Members
  <2>4. CASE ShareInsertRow(w)
    <3>1. IsFiniteSet(rows')
      BY <2>4, FS_AddElement DEF DataOK, ShareInsertRow
    <3> QED BY <2>4, <3>1, <1>1 DEF DataOK, ShareInsertRow, mysql, redis, budget, Members
  <2>5. CASE ShareZadd(w)
    BY <2>5, <1>1, ZsetTyped DEF DataOK, ShareZadd, mysql, redis, budget, Members, ScoreOK
  <2>6. CASE ShareHset(w)
    BY <2>6, <1>1 DEF DataOK, ShareHset, mysql, redis, budget, Members
  <2> QED BY <2>1, <2>2, <2>3, <2>4, <2>5, <2>6 DEF Share
<1> QED BY <1>2, <1>3

\* The steps of Cancel keep the types.
LEMMA CancelTyped ==
  ASSUME TypeOK, NEW w \in Workers, Cancel(w)
  PROVE  TypeOK'
<1> USE DEF TypeOK
<1>1. /\ Op(w) = "cancel" /\ LabelsOf["cancel"] \subseteq LabelsOf[Op(w)] /\ job[w].n \in Nat
      /\ User(w) \in Users /\ File(w) \in Files
  BY AtOp DEF Cancel, LabelsOf, CancelMark, CancelRows, CancelZrem, CancelHdel
<1>2. JobOK'
  <2>1. CASE CancelMark(w)
    BY <2>1, <1>1, GoTyped, KeepTyped, FinishTyped DEF CancelMark, LabelsOf
  <2>2. CASE CancelRows(w)
    BY <2>2, <1>1, GoTyped, KeepTyped, FinishTyped DEF CancelRows, LabelsOf
  <2>3. CASE CancelZrem(w)
    BY <2>3, <1>1, GoTyped, KeepTyped, FinishTyped DEF CancelZrem, LabelsOf
  <2>4. CASE CancelHdel(w)
    BY <2>4, <1>1, GoTyped, KeepTyped, FinishTyped DEF CancelHdel, LabelsOf
  <2> QED BY <2>1, <2>2, <2>3, <2>4 DEF Cancel
<1>3. DataOK'
  <2>1. CASE CancelMark(w)
    BY <2>1, <1>1 DEF DataOK, CancelMark, mysql, redis, budget, Members, Unmark
  <2>2. CASE CancelRows(w)
    <3>1. rows' \subseteq rows /\ IsFiniteSet(rows')
      BY <2>2, FS_Subset DEF DataOK, CancelRows, DropRows
    <3> QED BY <2>2, <3>1, <1>1 DEF DataOK, CancelRows, mysql, redis, budget, Members
  <2>3. CASE CancelZrem(w)
    BY <2>3, <1>1, ZsetTyped DEF DataOK, CancelZrem, mysql, redis, budget, Members, ScoreOK
  <2>4. CASE CancelHdel(w)
    BY <2>4, <1>1 DEF DataOK, CancelHdel, mysql, redis, budget, Members
  <2> QED BY <2>1, <2>2, <2>3, <2>4 DEF Cancel
<1> QED BY <1>2, <1>3

\* The steps of Delete keep the types.
LEMMA DeleteTyped ==
  ASSUME TypeOK, NEW w \in Workers, Delete(w)
  PROVE  TypeOK'
<1> USE DEF TypeOK
<1>1. /\ Op(w) = "del" /\ LabelsOf["del"] \subseteq LabelsOf[Op(w)] /\ job[w].n \in Nat
      /\ User(w) \in Users /\ File(w) \in Files
  BY AtOp DEF Delete, LabelsOf, DeleteReadStatus, DeleteZrem, DeleteHdel, DeleteShareRows, DeleteRows
<1>2. JobOK'
  <2>1. CASE DeleteReadStatus(w)
    BY <2>1, <1>1, GoTyped, KeepTyped, FinishTyped DEF DeleteReadStatus, LabelsOf
  <2>2. CASE DeleteZrem(w)
    BY <2>2, <1>1, GoTyped, KeepTyped, FinishTyped DEF DeleteZrem, LabelsOf
  <2>3. CASE DeleteHdel(w)
    BY <2>3, <1>1, GoTyped, KeepTyped, FinishTyped DEF DeleteHdel, LabelsOf
  <2>4. CASE DeleteShareRows(w)
    BY <2>4, <1>1, GoTyped, KeepTyped, FinishTyped DEF DeleteShareRows, LabelsOf
  <2>5. CASE DeleteRows(w)
    BY <2>5, <1>1, GoTyped, KeepTyped, FinishTyped DEF DeleteRows, LabelsOf
  <2> QED BY <2>1, <2>2, <2>3, <2>4, <2>5 DEF Delete
<1>3. DataOK'
  <2>1. CASE DeleteReadStatus(w)
    BY <2>1, <1>1 DEF DataOK, DeleteReadStatus, mysql, redis, budget, Members
  <2>2. CASE DeleteZrem(w)
    BY <2>2, <1>1, ZsetTyped DEF DataOK, DeleteZrem, mysql, redis, budget, Members, ScoreOK
  <2>3. CASE DeleteHdel(w)
    BY <2>3, <1>1 DEF DataOK, DeleteHdel, mysql, redis, budget, Members
  <2>4. CASE DeleteShareRows(w)
    <3>1. rows' \subseteq rows /\ IsFiniteSet(rows')
      BY <2>4, FS_Subset DEF DataOK, DeleteShareRows, DropRows
    <3> QED BY <2>4, <3>1, <1>1 DEF DataOK, DeleteShareRows, mysql, redis, budget, Members
  <2>5. CASE DeleteRows(w)
    BY <2>5, <1>1 DEF DataOK, DeleteRows, mysql, redis, budget, Members, Unmark
  <2> QED BY <2>1, <2>2, <2>3, <2>4, <2>5 DEF Delete
<1> QED BY <1>2, <1>3

\* The steps of View keep the types.
LEMMA ViewTyped ==
  ASSUME TypeOK, NEW w \in Workers, View(w)
  PROVE  TypeOK'
<1> USE DEF TypeOK
<1>1. /\ Op(w) = "view" /\ LabelsOf["view"] \subseteq LabelsOf[Op(w)] /\ job[w].n \in Nat
      /\ File(w) \in Files
  BY AtOp DEF View, LabelsOf, ViewRead, ViewWrite, ViewZsetExit, ViewZadd, ViewHset, ViewIncr
<1>2. JobOK'
  <2>1. CASE ViewRead(w)
    <3>1. CASE Finish(w)
      BY <3>1, FinishTyped
    <3>2. ASSUME NEW r \in RowsOf(File(w)), Keep(w, "vw_write", r.pv)
          PROVE  JobOK'
      <4>1. r.pv \in Nat
        BY DEF RowsOf, DataOK
      <4> QED BY <3>2, <4>1, <1>1, KeepTyped DEF LabelsOf
    <3> QED BY <2>1, <3>1, <3>2 DEF ViewRead
  <2>2. CASE ViewWrite(w)
    BY <2>2, <1>1, GoTyped, KeepTyped, FinishTyped DEF ViewWrite, LabelsOf
  <2>3. CASE ViewZsetExit(w)
    BY <2>3, <1>1, GoTyped, KeepTyped, FinishTyped DEF ViewZsetExit, LabelsOf
  <2>4. CASE ViewZadd(w)
    BY <2>4, <1>1, GoTyped, KeepTyped, FinishTyped DEF ViewZadd, LabelsOf
  <2>5. CASE ViewHset(w)
    BY <2>5, <1>1, GoTyped, KeepTyped, FinishTyped DEF ViewHset, LabelsOf
  <2>6. CASE ViewIncr(w)
    BY <2>6, <1>1, GoTyped, KeepTyped, FinishTyped DEF ViewIncr, LabelsOf
  <2> QED BY <2>1, <2>2, <2>3, <2>4, <2>5, <2>6 DEF View
<1>3. DataOK'
  <2>1. CASE ViewRead(w)
    BY <2>1, <1>1 DEF DataOK, ViewRead, mysql, redis, budget, Members
  <2>2. CASE ViewWrite(w)
    <3> DEFINE new(r) == IF r.file = File(w) THEN [r EXCEPT !.pv = job[w].n + 1] ELSE r
    <3>1. rows' = {new(r) : r \in rows}
      BY <2>2 DEF ViewWrite
    <3>2. \A r \in rows : new(r) \in [id : 1..ids, user : Users, file : Files, pv : Nat]
      BY <1>1 DEF DataOK
    <3> HIDE DEF new
    <3>3. IsFiniteSet(rows')
      BY <3>1, [r \in rows |-> new(r)] \in Surjection(rows, rows'), FS_Surjection
         DEF DataOK, Surjection
    <3> QED BY <2>2, <3>1, <3>2, <3>3, <1>1 DEF DataOK, ViewWrite, mysql, redis, budget, Members
  <2>3. CASE ViewZsetExit(w)
    BY <2>3, <1>1 DEF DataOK, ViewZsetExit, mysql, redis, budget, Members
  <2>4. CASE ViewZadd(w)
    BY <2>4, <1>1, ZsetTyped DEF DataOK, ViewZadd, mysql, redis, budget, Members, ScoreOK
  <2>5. CASE ViewHset(w)
    BY <2>5, <1>1 DEF DataOK, ViewHset, mysql, redis, budget, Members
  <2>6. CASE ViewIncr(w)
    BY <2>6, <1>1, ZsetTyped DEF DataOK, ViewIncr, mysql, redis, budget, Members, ScoreOK
  <2> QED BY <2>1, <2>2, <2>3, <2>4, <2>5, <2>6 DEF View
<1> QED BY <1>2, <1>3

\* The steps of List keep the types.
LEMMA ListTyped ==
  ASSUME TypeOK, NEW w \in Workers, List(w)
  PROVE  TypeOK'
<1> USE DEF TypeOK
<1>1. /\ Op(w) = "list" /\ LabelsOf["list"] \subseteq LabelsOf[Op(w)] /\ job[w].n \in Nat
      /\ job[w].page \subseteq Files
  BY AtOp DEF List, LabelsOf, ListCount, ListZcard, ListDelZset, ListDelHash, ListImport, ListRange, ListName, ListScore
<1>2. JobOK'
  <2>1. CASE ListCount(w)
    <3>1. Cardinality(rows) \in Nat
      BY FS_CardinalityType DEF DataOK
    <3> QED BY <2>1, <3>1, <1>1, KeepTyped DEF ListCount, LabelsOf
  <2>2. CASE ListZcard(w)
    BY <2>2, <1>1, GoTyped, KeepTyped, FinishTyped DEF ListZcard, LabelsOf
  <2>3. CASE ListDelZset(w)
    BY <2>3, <1>1, GoTyped, KeepTyped, FinishTyped DEF ListDelZset, LabelsOf
  <2>4. CASE ListDelHash(w)
    BY <2>4, <1>1, GoTyped, KeepTyped, FinishTyped DEF ListDelHash, LabelsOf
  <2>5. CASE ListImport(w)
    BY <2>5, <1>1, GoTyped, KeepTyped, FinishTyped DEF ListImport, LabelsOf
  <2>6. CASE ListRange(w)
    <3>1. PICK q \in SUBSET Members :
            job' = [job EXCEPT ![w].pc = "ls_name", ![w].page = q]
      BY <2>6 DEF ListRange
    <3>2. q \subseteq Files
      BY DEF DataOK
    <3> QED BY <3>1, <3>2, <1>1, PageTyped DEF LabelsOf, JobOK
  <2>7. CASE ListName(w)
    <3>1. CASE Finish(w)
      BY <3>1, FinishTyped
    <3>2. ASSUME NEW f \in job[w].page,
                 job' = [job EXCEPT ![w].pc = "ls_score", ![w].req.file = f]
          PROVE  JobOK'
      BY <3>2, <1>1, FileTyped DEF LabelsOf
    <3> QED BY <2>7, <3>1, <3>2 DEF ListName
  <2>8. CASE ListScore(w)
    <3>1. CASE Finish(w)
      BY <3>1, FinishTyped
    <3>2. ASSUME job' = [job EXCEPT ![w].pc = "ls_name", ![w].page = @ \ {File(w)}]
          PROVE  JobOK'
      <4>1. job[w].page \ {File(w)} \subseteq Files
        BY <1>1
      <4>2. job' = [job EXCEPT ![w].pc = "ls_name", ![w].page = job[w].page \ {File(w)}]
        BY <3>2 DEF JobOK, Jobs
      <4> QED BY <4>1, <4>2, <1>1, PageTyped
    <3> QED BY <2>8, <3>1, <3>2 DEF ListScore
  <2> QED BY <2>1, <2>2, <2>3, <2>4, <2>5, <2>6, <2>7, <2>8 DEF List
<1>3. DataOK'
  <2>1. CASE ListCount(w)
    BY <2>1, <1>1 DEF DataOK, ListCount, mysql, redis, budget, Members
  <2>2. CASE ListZcard(w)
    BY <2>2, <1>1 DEF DataOK, ListZcard, mysql, redis, budget, Members
  <2>3. CASE ListDelZset(w)
    BY <2>3, <1>1 DEF DataOK, ListDelZset, mysql, redis, budget, Members
  <2>4. CASE ListDelHash(w)
    BY <2>4, <1>1 DEF DataOK, ListDelHash, mysql, redis, budget, Members
  <2>5. CASE ListImport(w)
    BY <2>5, <1>1 DEF DataOK, ListImport, mysql, redis, budget, Members
  <2>6. CASE ListRange(w)
    BY <2>6, <1>1 DEF DataOK, ListRange, mysql, redis, budget, Members
  <2>7. CASE ListName(w)
    BY <2>7, <1>1 DEF DataOK, ListName, mysql, redis, budget, Members
  <2>8. CASE ListScore(w)
    BY <2>8, <1>1 DEF DataOK, ListScore, mysql, redis, budget, Members
  <2> QED BY <2>1, <2>2, <2>3, <2>4, <2>5, <2>6, <2>7, <2>8 DEF List
<1> QED BY <1>2, <1>3

\* The initial states have the types.
LEMMA InitTyped == Init => TypeOK
<1> SUFFICES ASSUME Init PROVE TypeOK
  OBVIOUS
<1>1. Idle \in Jobs /\ Idle.pc \in LabelsOf[Idle.req.op] /\ Idle.req.op = "none"
  BY DEF Idle, NoRequest, LabelsOf, Jobs
<1>2. JobOK
  BY <1>1 DEF Init, JobOK, Idle, Op, At
<1>3. DataOK
  BY FS_EmptySet, RankingAssumption DEF Init, DataOK, Members
<1> QED BY <1>2, <1>3 DEF TypeOK

\* So does a request.
LEMMA RequestTyped ==
  ASSUME TypeOK, NEW w \in Workers, NEW q \in Requests, Request(w, q)
  PROVE  TypeOK'
<1> DEFINE j == [pc |-> First[q.op], req |-> q, n |-> 0, page |-> {}]
<1>1. /\ q \in [op : DOMAIN LabelsOf, user : Users \cup {Nobody}, file : Files \cup {Nobody}]
      /\ q.op \in DOMAIN First
      /\ q.op \in {"share", "cancel", "del"} => q.user \in Users
      /\ q.op \notin {"none", "list"} => q.file \in Files
  BY DEF Requests, LabelsOf, First
<1>2. First[q.op] \in LabelsOf[q.op] /\ First[q.op] # "idle" /\ q.op \in DOMAIN LabelsOf
  BY <1>1 DEF First, LabelsOf
<1>3. j \in Jobs
  BY <1>1, <1>2 DEF Jobs
<1>4. job' = [job EXCEPT ![w] = j]
  BY DEF Request
<1>5. JobOK'
  BY <1>1, <1>2, <1>3, <1>4, JobReplaced DEF TypeOK
<1>6. DataOK'
  BY RankingAssumption DEF TypeOK, DataOK, Request, mysql, redis, Members
<1> QED BY <1>5, <1>6 DEF TypeOK

\* So do a failure and a crash.
LEMMA FaultTyped ==
  ASSUME TypeOK, Crash \/ \E w \in Workers : StatementFails(w)
  PROVE  TypeOK'
<1>1. DataOK'
  BY RankingAssumption DEF TypeOK, DataOK, Crash, StatementFails, mysql, redis, Members
<1>2. ASSUME NEW w \in Workers, StatementFails(w)
      PROVE  JobOK'
  <2>1. CASE job[w].pc \in DOMAIN GoesOn
    <3>1. GoesOn[job[w].pc] \in LabelsOf[Op(w)] /\ GoesOn[job[w].pc] # "idle"
      BY <2>1, AtOp DEF TypeOK, GoesOn, LabelsOf, At
    <3> QED BY <1>2, <2>1, <3>1, GoTyped DEF TypeOK, StatementFails
  <2>2. CASE job[w].pc \notin DOMAIN GoesOn
    BY <1>2, <2>2, FinishTyped DEF TypeOK, StatementFails
  <2> QED BY <2>1, <2>2
<1>3. ASSUME Crash
      PROVE  JobOK'
  <2>1. /\ Idle \in Jobs /\ Idle.pc \in LabelsOf[Idle.req.op] /\ Idle.req.op = "none"
        /\ Idle.n = 0 /\ Idle.page = {}
    BY DEF Idle, NoRequest, LabelsOf, Jobs
  <2>2. job' = [w \in Workers |-> Idle]
    BY <1>3 DEF Crash
  <2>3. \A w \in Workers : job'[w] = Idle
    BY <2>2
  <2>4. job' \in [Workers -> Jobs]
    BY <2>1, <2>2
  <2> QED BY <2>1, <2>3, <2>4 DEF JobOK, Op, At, User, File
<1> QED BY <1>1, <1>2, <1>3 DEF TypeOK

\* Every step keeps the types.
LEMMA TypeStep ==
  ASSUME TypeOK, [Next]_vars
  PROVE  TypeOK'
<1>1. CASE UNCHANGED vars
  BY <1>1 DEF TypeOK, DataOK, JobOK, vars, mysql, redis, budget, Members, At, Op, User, File
<1>2. CASE Next
  BY <1>2, RequestTyped, ShareTyped, CancelTyped, DeleteTyped, ViewTyped, ListTyped, FaultTyped
     DEF Next
<1> QED BY <1>1, <1>2

\* Every variable keeps its type, and every worker is inside the handler of its request.
THEOREM RankingTyped == Spec => []TypeOK
BY InitTyped, TypeStep, PTL DEF Spec

-----------------------------------------------------------------------------
(* Page views *)

\* A step that adds no page view, lowers none, and leaves every worker that is
\* about to write where it was keeps both bounds.
LEMMA NothingCounted ==
  ASSUME IInv, TypeOK', views' = views,
         \A r \in rows' : r \in rows \/ r.pv = 0,
         \A w \in Workers : At(w, "vw_write")' => job'[w] = job[w]
  PROVE  ViewsCountedOnce' /\ ReadNotAhead'
<1>1. \A r \in rows' : r.file \in Files
  BY DEF TypeOK, DataOK
<1>2. ViewsCountedOnce'
  BY <1>1 DEF IInv, TypeOK, DataOK, ViewsCountedOnce
<1>3. ReadNotAhead'
  BY DEF IInv, ReadNotAhead, At, File
<1> QED BY <1>2, <1>3

\* Going on to a label other than that of the write moves nobody there.
LEMMA NobodyComesToWrite ==
  ASSUME TypeOK, NEW w \in Workers,
         \/ \E l : l # "vw_write" /\ Go(w, l)
         \/ \E l, n : l # "vw_write" /\ Keep(w, l, n)
         \/ Finish(w)
  PROVE  \A v \in Workers : At(v, "vw_write")' => job'[v] = job[v]
<1>1. ASSUME NEW l, l # "vw_write", NEW n, Keep(w, l, n)
      PROVE  \A v \in Workers : At(v, "vw_write")' => job'[v] = job[v]
  <2>1. job'[w].pc = l /\ \A v \in Workers : v # w => job'[v] = job[v]
    BY <1>1 DEF TypeOK, JobOK, Jobs, Keep
  <2> QED BY <1>1, <2>1 DEF At
<1>2. ASSUME NEW l, l # "vw_write", Go(w, l)
      PROVE  \A v \in Workers : At(v, "vw_write")' => job'[v] = job[v]
  <2>1. job'[w].pc = l /\ \A v \in Workers : v # w => job'[v] = job[v]
    BY <1>2 DEF TypeOK, JobOK, Jobs, Go
  <2> QED BY <1>2, <2>1 DEF At
<1>3. CASE Finish(w)
  <2>1. job'[w].pc = "idle" /\ \A v \in Workers : v # w => job'[v] = job[v]
    BY <1>3 DEF TypeOK, JobOK, Finish, Idle
  <2> QED BY <2>1 DEF At
<1> QED BY <1>1, <1>2, <1>3

LEMMA ShareCounts ==
  ASSUME IInv, NEW w \in Workers, Share(w)
  PROVE  ViewsCountedOnce' /\ ReadNotAhead'
<1>1. TypeOK /\ TypeOK'
  BY ShareTyped DEF IInv
<1>2. views' = views /\ \A r \in rows' : r \in rows \/ r.pv = 0
  BY DEF Share, ShareZsetExit, ShareReadRows, ShareMark, ShareInsertRow, ShareZadd, ShareHset, mysql
<1>3. Finish(w) \/ \E l : l # "vw_write" /\ Go(w, l)
  BY DEF Share, ShareZsetExit, ShareReadRows, ShareMark, ShareInsertRow, ShareZadd, ShareHset
<1> QED BY <1>1, <1>2, <1>3, NobodyComesToWrite, NothingCounted

LEMMA CancelCounts ==
  ASSUME IInv, NEW w \in Workers, Cancel(w)
  PROVE  ViewsCountedOnce' /\ ReadNotAhead'
<1>1. TypeOK /\ TypeOK'
  BY CancelTyped DEF IInv
<1>2. views' = views /\ rows' \subseteq rows
  BY DEF Cancel, CancelMark, CancelRows, CancelZrem, CancelHdel, DropRows, mysql
<1>3. Finish(w) \/ \E l : l # "vw_write" /\ Go(w, l)
  BY DEF Cancel, CancelMark, CancelRows, CancelZrem, CancelHdel
<1> QED BY <1>1, <1>2, <1>3, NobodyComesToWrite, NothingCounted

LEMMA DeleteCounts ==
  ASSUME IInv, NEW w \in Workers, Delete(w)
  PROVE  ViewsCountedOnce' /\ ReadNotAhead'
<1>1. TypeOK /\ TypeOK'
  BY DeleteTyped DEF IInv
<1>2. views' = views /\ rows' \subseteq rows
  BY DEF Delete, DeleteReadStatus, DeleteZrem, DeleteHdel, DeleteShareRows, DeleteRows, DropRows, mysql
<1>3. Finish(w) \/ \E l : l # "vw_write" /\ Go(w, l)
  BY DEF Delete, DeleteReadStatus, DeleteZrem, DeleteHdel, DeleteShareRows, DeleteRows
<1> QED BY <1>1, <1>2, <1>3, NobodyComesToWrite, NothingCounted

LEMMA ListCounts ==
  ASSUME IInv, NEW w \in Workers, List(w)
  PROVE  ViewsCountedOnce' /\ ReadNotAhead'
<1>1. TypeOK /\ TypeOK'
  BY ListTyped DEF IInv
<1>2. views' = views /\ rows' = rows
  BY DEF List, ListCount, ListZcard, ListDelZset, ListDelHash, ListImport, ListRange, ListName,
         ListScore, mysql
<1>3. \A v \in Workers : At(v, "vw_write")' => job'[v] = job[v]
  <2>1. CASE ListRange(w) \/ ListName(w) \/ ListScore(w)
    BY <1>1, <2>1 DEF ListRange, ListName, ListScore, TypeOK, JobOK, Jobs, Finish, Idle, At
  <2>2. CASE ListCount(w) \/ ListZcard(w) \/ ListDelZset(w) \/ ListDelHash(w) \/ ListImport(w)
    <3>1. \/ \E l : l # "vw_write" /\ Go(w, l)
          \/ \E l, n : l # "vw_write" /\ Keep(w, l, n)
          \/ Finish(w)
      BY <2>2 DEF ListCount, ListZcard, ListDelZset, ListDelHash, ListImport
    <3> QED BY <1>1, <3>1, NobodyComesToWrite
  <2> QED BY <2>1, <2>2 DEF List
<1> QED BY <1>1, <1>2, <1>3, NothingCounted

\* A view reads a pv that is not ahead, and writes one more when it is counted.
LEMMA ViewCounts ==
  ASSUME IInv, NEW w \in Workers, View(w)
  PROVE  ViewsCountedOnce' /\ ReadNotAhead'
<1>1. TypeOK /\ TypeOK'
  BY ViewTyped DEF IInv
<1>2. CASE ViewWrite(w)
  <2>1. /\ At(w, "vw_write") /\ Go(w, "vw_exists")
        /\ views' = [views EXCEPT ![File(w)] = @ + 1]
        /\ rows' = {IF r.file = File(w) THEN [r EXCEPT !.pv = job[w].n + 1] ELSE r : r \in rows}
    BY <1>2 DEF ViewWrite
  <2>2. File(w) \in Files /\ job[w].n \in Nat
    BY <1>1, <2>1, AtOp DEF TypeOK, LabelsOf
  <2>3. \A f \in Files : views[f] \in Nat /\ views'[f] = IF f = File(w) THEN views[f] + 1 ELSE views[f]
    BY <1>1, <2>1 DEF TypeOK, DataOK
  <2>4. \A r \in rows : r.file \in Files /\ r.pv \in Nat /\ r.pv <= views[r.file]
    BY <1>1 DEF IInv, TypeOK, DataOK, ViewsCountedOnce
  <2>5. job[w].n <= views[File(w)]
    BY <2>1 DEF IInv, ReadNotAhead
  <2>6. ASSUME NEW r \in rows'
        PROVE  r.pv <= views'[r.file]
    <3>1. PICK s \in rows :
            r = IF s.file = File(w) THEN [s EXCEPT !.pv = job[w].n + 1] ELSE s
      BY <2>1
    <3>2. CASE s.file = File(w)
      <4>1. r.file = File(w) /\ r.pv = job[w].n + 1
        BY <1>1, <3>1, <3>2 DEF TypeOK, DataOK
      <4> QED BY <4>1, <2>2, <2>3, <2>5
    <3>3. CASE s.file # File(w)
      BY <3>1, <3>3, <2>3, <2>4
    <3> QED BY <3>2, <3>3
  <2>7. ASSUME NEW v \in Workers, At(v, "vw_write")'
        PROVE  job'[v].n <= views'[File(v)']
    <3>1. job'[v] = job[v]
      BY <1>1, <2>1, <2>7 DEF TypeOK, JobOK, Jobs, Go, At
    <3>2. At(v, "vw_write") /\ File(v)' = File(v)
      BY <2>7, <3>1 DEF At, File
    <3>3. File(v) \in Files /\ job[v].n \in Nat /\ job[v].n <= views[File(v)]
      BY <1>1, <3>2, AtOp DEF TypeOK, LabelsOf, IInv, ReadNotAhead
    <3> QED BY <3>1, <3>2, <3>3, <2>3
  <2> QED BY <2>6, <2>7 DEF ViewsCountedOnce, ReadNotAhead
<1>3. CASE ViewRead(w)
  <2>1. views' = views /\ rows' = rows
    BY <1>3 DEF ViewRead, mysql
  <2>2. CASE Finish(w)
    BY <1>1, <2>1, <2>2, NobodyComesToWrite, NothingCounted
  <2>3. ASSUME NEW r \in RowsOf(File(w)), Keep(w, "vw_write", r.pv)
        PROVE  ViewsCountedOnce' /\ ReadNotAhead'
    <3>1. r \in rows /\ r.file = File(w) /\ r.pv <= views[File(w)]
      BY DEF RowsOf, IInv, ViewsCountedOnce
    <3>2. job'[w].n = r.pv /\ job'[w].req = job[w].req /\ \A v \in Workers : v # w => job'[v] = job[v]
      BY <1>1, <2>3 DEF TypeOK, JobOK, Jobs, Keep
    <3>3. ReadNotAhead'
      BY <2>1, <3>1, <3>2 DEF ReadNotAhead, IInv, At, File
    <3> QED BY <2>1, <3>3 DEF ViewsCountedOnce, IInv
  <2> QED BY <1>3, <2>2, <2>3 DEF ViewRead
<1>4. CASE ViewZsetExit(w) \/ ViewZadd(w) \/ ViewHset(w) \/ ViewIncr(w)
  <2>1. views' = views /\ rows' = rows
    BY <1>4 DEF ViewZsetExit, ViewZadd, ViewHset, ViewIncr, mysql
  <2>2. Finish(w) \/ \E l : l # "vw_write" /\ Go(w, l)
    <3>1. CASE ViewZsetExit(w)
      <4>1. Finish(w) \/ Go(w, "vw_zadd") \/ Go(w, "vw_incr")
        BY <3>1, Zenon DEF ViewZsetExit
      <4> QED BY <4>1
    <3> QED BY <1>4, <3>1 DEF ViewZadd, ViewHset, ViewIncr
  <2> QED BY <1>1, <2>1, <2>2, NobodyComesToWrite, NothingCounted
<1> QED BY <1>2, <1>3, <1>4 DEF View

\* A request is at its first label, which is not that of the write; a failure
\* leads there from nowhere.
LEMMA OtherCounts ==
  ASSUME IInv,
         \/ \E w \in Workers : StatementFails(w) \/ \E q \in Requests : Request(w, q)
         \/ Crash
  PROVE  ViewsCountedOnce' /\ ReadNotAhead'
<1>1. TypeOK /\ TypeOK'
  BY RequestTyped, FaultTyped DEF IInv
<1>2. views' = views /\ rows' = rows
  BY DEF StatementFails, Request, Crash, mysql
<1>3. \A v \in Workers : At(v, "vw_write")' => job'[v] = job[v]
  <2>1. ASSUME NEW w \in Workers, StatementFails(w)
        PROVE  \A v \in Workers : At(v, "vw_write")' => job'[v] = job[v]
    <3>1. Finish(w) \/ \E l : l # "vw_write" /\ Go(w, l)
      BY <2>1 DEF StatementFails, GoesOn
    <3> QED BY <1>1, <3>1, NobodyComesToWrite
  <2>2. ASSUME NEW w \in Workers, NEW q \in Requests, Request(w, q)
        PROVE  \A v \in Workers : At(v, "vw_write")' => job'[v] = job[v]
    <3>1. First[q.op] # "vw_write"
      BY DEF Requests, First
    <3> QED BY <1>1, <2>2, <3>1 DEF Request, TypeOK, JobOK, At
  <2>3. CASE Crash
    BY <2>3 DEF Crash, Idle, At
  <2> QED BY <2>1, <2>2, <2>3
<1> QED BY <1>1, <1>2, <1>3, NothingCounted

\* MySQL never counts more page views of a file than there were.
THEOREM RankingViewsCountedOnce == Spec => []ViewsCountedOnce
<1>1. Init => IInv
  <2>1. Init => ViewsCountedOnce /\ ReadNotAhead
    BY DEF Init, Idle, At, ViewsCountedOnce, ReadNotAhead
  <2> QED BY <2>1, InitTyped DEF IInv
<1>2. IInv /\ [Next]_vars => IInv'
  <2> SUFFICES ASSUME IInv, [Next]_vars PROVE IInv'
    OBVIOUS
  <2>1. TypeOK'
    BY TypeStep DEF IInv
  <2>2. CASE UNCHANGED vars
    BY <2>1, <2>2 DEF IInv, vars, mysql, ViewsCountedOnce, ReadNotAhead, At, File
  <2>3. CASE Next
    BY <2>1, <2>3, ShareCounts, CancelCounts, DeleteCounts, ViewCounts, ListCounts, OtherCounts
       DEF Next, IInv
  <2> QED BY <2>2, <2>3
<1>3. IInv => ViewsCountedOnce
  BY DEF IInv
<1> QED BY <1>1, <1>2, <1>3, PTL DEF Spec

-----------------------------------------------------------------------------
(* Calm: nothing fails and requests that disturb each other do not overlap.  *)
(* MySQL and redis agree about every file, but for what the request about it *)
(* has done of its work: what is inductive says, for each place in a         *)
(* handler, how far that is.                                                 *)

Sharers(f) == {r.user : r \in RowsOf(f)}
Marks(f)   == {u \in Users : <<u, f>> \in marked}

\* Redis has a member and a name for what has a row, and for nothing else.
Mirrored(f) == (f \in Members <=> f \in Shared) /\ (f \in names <=> f \in Shared)
Absent(f)   == f \notin Members /\ f \notin names

\* The ranking is not ahead of the rows.
Scored(f)  == \A r \in RowsOf(f) : f \in Members => score[f] <= r.pv
Settled(f) == Mirrored(f) /\ Sharers(f) = Marks(f) /\ Scored(f)

\* A view of f that has read n, and has written n + 1 to MySQL if one is 1.
Viewed(f, n, one) ==
  /\ RowsOf(f) # {} /\ Mirrored(f) /\ Sharers(f) = Marks(f)
  /\ \A r \in RowsOf(f) : r.pv = n + one /\ (f \in Members => score[f] <= n)

\* What holds of file f while the request of user u about it is at l.
Promise(f, u, l, n) ==
  /\ l \in {"vw_read", "sh_zset", "sh_rows", "de_status"} => Settled(f)
  /\ l = "vw_write" => Viewed(f, n, 0)
  /\ l \in {"vw_exists", "vw_zadd", "vw_incr"} => Viewed(f, n, 1)
  /\ l = "vw_hset" => Settled(f) /\ RowsOf(f) # {}
  /\ l = "sh_status" => Settled(f) /\ RowsOf(f) = {}
  /\ l = "sh_row" => RowsOf(f) = {} /\ Absent(f) /\ Marks(f) = {u}
  /\ l = "sh_zadd" => RowsOf(f) # {} /\ Sharers(f) = Marks(f) /\ Scored(f)
  /\ l = "sh_hset" => RowsOf(f) # {} /\ Sharers(f) = Marks(f) /\ Scored(f) /\ f \in Members
  /\ l = "ca_status" => Settled(f) /\ u \in Marks(f)
  /\ l = "ca_rows" => Marks(f) = {} /\ Sharers(f) \subseteq {u} /\ Scored(f)
  /\ l = "ca_zset" => Marks(f) = {} /\ RowsOf(f) = {}
  /\ l = "ca_hash" => Marks(f) = {} /\ RowsOf(f) = {} /\ f \notin Members
  /\ l = "de_zset" => Sharers(f) = {u} /\ Marks(f) = {u} /\ Scored(f)
  /\ l = "de_hash" => Sharers(f) = {u} /\ Marks(f) = {u} /\ f \notin Members
  /\ l = "de_share" => Sharers(f) = {u} /\ Marks(f) = {u} /\ Absent(f)
  /\ l = "de_rows" => Mirrored(f) /\ Sharers(f) = Marks(f) \ {u} /\ Scored(f)

\* A listing has counted as many rows as there are members and has a page of
\* members that all have names.
Listing(w) ==
  /\ job[w].pc \notin {"ls_delz", "ls_delh", "ls_import"}
  /\ At(w, "ls_card") => job[w].n = Cardinality(Members)
  /\ job[w].page \subseteq names \cap Members

OneRow == \A r, s \in rows : r.file = s.file => r = s

Apart ==
  \A v, w \in Workers :
    v # w /\ ~At(v, "idle") /\ ~At(w, "idle") => ~Disturbs(job[v].req, job[w].req)

Agreement ==
  /\ OneRow /\ Apart
  /\ \A f \in Files : Untouched(f) => Settled(f)
  /\ \A w \in Workers : Changes(w) => Promise(File(w), User(w), job[w].pc, job[w].n)
  /\ \A w \in Workers : IF Op(w) = "list" THEN Listing(w) ELSE job[w].page = {}

CalmInv == calm => Agreement

\* A handler goes on with its request, or has ended it.
Others(w)       == \A v \in Workers \ {w} : job'[v] = job[v]
Onward(w, l, n) == /\ job'[w].pc = l /\ job'[w].n = n /\ job'[w].req = job[w].req
                   /\ job'[w].page = job[w].page /\ Others(w)
Ended(w)        == job'[w] = Idle /\ Others(w)

LEMMA GoOnward ==
  ASSUME JobOK, NEW w \in Workers, NEW l, Go(w, l)
  PROVE  Onward(w, l, job[w].n)
BY DEF JobOK, Jobs, Go, Onward, Others

LEMMA KeepOnward ==
  ASSUME JobOK, NEW w \in Workers, NEW l, NEW n, Keep(w, l, n)
  PROVE  Onward(w, l, n)
BY DEF JobOK, Jobs, Keep, Onward, Others

LEMMA FinishEnds ==
  ASSUME JobOK, NEW w \in Workers, Finish(w)
  PROVE  Ended(w)
BY DEF JobOK, Finish, Ended, Others

\* A step leaves everything about file f.
SameFile(f) ==
  /\ RowsOf(f)' = RowsOf(f) /\ Marks(f)' = Marks(f)
  /\ (f \in Members)' <=> f \in Members
  /\ (f \in names)' <=> f \in names
  /\ f \in Members => score'[f] = score[f]

LEMMA SharedIs == \A f : f \in Shared <=> RowsOf(f) # {}
BY DEF Shared, RowsOf

LEMMA SameFileKeeps ==
  ASSUME NEW f, SameFile(f)
  PROVE  /\ Settled(f)' <=> Settled(f)
         /\ \A u, l, n : Promise(f, u, l, n)' <=> Promise(f, u, l, n)
<1>1. Sharers(f)' = Sharers(f) /\ Marks(f)' = Marks(f) /\ (RowsOf(f)' = {} <=> RowsOf(f) = {})
  BY DEF SameFile, Sharers
<1>2. (f \in Shared)' <=> f \in Shared
  BY <1>1, SharedIs DEF Shared, RowsOf, SameFile
<1>3. Mirrored(f)' <=> Mirrored(f)
  BY <1>2 DEF SameFile, Mirrored
<1>4. Absent(f)' <=> Absent(f)
  BY DEF SameFile, Absent
<1>5. Scored(f)' <=> Scored(f)
  BY DEF SameFile, Scored
<1>6. \A n, one : Viewed(f, n, one)' <=> Viewed(f, n, one)
  BY <1>1, <1>3 DEF SameFile, Viewed
<1>7. Settled(f)' <=> Settled(f)
  BY <1>1, <1>3, <1>5 DEF Settled
<1>8. (f \in Members)' <=> f \in Members
  BY DEF SameFile
<1>. QED  BY <1>1, <1>3, <1>4, <1>5, <1>6, <1>7, <1>8 DEF Promise

\* Two requests that run at the same time are not about one file, and if one is
\* a listing the other is a view or a listing.
LEMMA ApartFacts ==
  ASSUME JobOK, Apart, NEW v \in Workers, NEW w \in Workers, v # w, Changes(w)
  PROVE  /\ Changes(v) => File(v) # File(w)
         /\ Op(v) = "list" => Op(w) = "view"
<1>1. ~At(w, "idle") /\ Op(w) \in {"share", "cancel", "del", "view"}
  BY AtOp, LabelsFacts DEF Changes, JobOK, At, Op, LabelsOf
<1>2. Changes(v) \/ Op(v) = "list" => ~At(v, "idle")
  BY AtOp, LabelsFacts DEF Changes, JobOK, At, Op, LabelsOf
<1>3. Changes(v) \/ Op(v) = "list" => ~Disturbs(job[v].req, job[w].req)
  BY <1>1, <1>2 DEF Apart
<1>. QED  BY <1>1, <1>3 DEF Disturbs, Changes, Op, File

\* The rows of a file have that file.
LEMMA RowsByFile ==
  ASSUME DataOK
  PROVE  \A r \in rows : r.file \in Files /\ r \in RowsOf(r.file)
BY DEF DataOK, RowsOf

\* A request about f moves on: it is enough to look at f.
LEMMA LocalAgreement ==
  ASSUME TypeOK, TypeOK', Agreement, NEW w \in Workers, Changes(w),
         NEW f \in Files, NEW u, f = File(w), u = User(w),
         \A g \in Files \ {f} : SameFile(g),
         \A r, s \in RowsOf(f)' : r = s,
         Op(w) = "view" => Members' = Members /\ names' = names,
         \/ Ended(w) /\ Settled(f)'
         \/ \E l, n : Onward(w, l, n) /\ l # "idle" /\ Promise(f, u, l, n)'
  PROVE  Agreement'
<1>1. OneRow'
  <2>. SUFFICES ASSUME NEW r \in rows', NEW s \in rows', r.file = s.file PROVE r = s
    BY DEF OneRow
  <2>1. PICK g \in Files : g = r.file /\ r \in RowsOf(g)' /\ s \in RowsOf(g)'
    BY RowsByFile DEF TypeOK, DataOK, RowsOf
  <2>2. CASE g = f
    BY <2>1, <2>2
  <2>3. CASE g # f
    <3>1. r \in rows /\ s \in rows
      BY <2>1, <2>3 DEF SameFile, RowsOf
    <3>. QED  BY <3>1 DEF Agreement, OneRow
  <2>. QED  BY <2>2, <2>3
<1>2. Others(w) /\ (Ended(w) \/ job'[w].req = job[w].req)
  BY DEF Ended, Onward
<1>3. ~At(w, "idle") /\ \A v \in Workers \ {w} : job'[v] = job[v]
  BY <1>2, AtOp, LabelsFacts DEF Changes, TypeOK, JobOK, At, Op, LabelsOf, Others
<1>4. Ended(w) => job'[w].pc = "idle" /\ job'[w].page = {} /\ job'[w].req.op = "none"
  BY DEF Ended, Idle, NoRequest
<1>5. Apart'
  BY <1>2, <1>3, <1>4 DEF Agreement, Apart, At
<1>6. ASSUME NEW g \in Files, Untouched(g)' PROVE Settled(g)'
  <2>1. CASE g # f
    <3>1. Untouched(g)
      BY <1>3, <1>6, <2>1 DEF Untouched, Changes, Op, File
    <3>. QED  BY <2>1, <3>1, SameFileKeeps DEF Agreement
  <2>2. CASE g = f
    <3>1. Ended(w)
      BY <1>2, <1>6, <2>2 DEF Untouched, Changes, Op, File
    <3>2. job'[w].pc = "idle"
      BY <1>4, <3>1
    <3>. QED  BY <2>2, <3>2 DEF Onward
  <2>. QED  BY <2>1, <2>2
<1>7. ASSUME NEW v \in Workers, Changes(v)'
      PROVE  Promise(File(v), User(v), job[v].pc, job[v].n)'
  <2>1. CASE v # w
    <3>1. PICK g \in Files, x \in {User(v)}, l \in {job[v].pc}, n \in {job[v].n} : g = File(v) /\ x = User(v) /\ l = job[v].pc /\ n = job[v].n
      BY <1>3, <1>7, <2>1, AtOp, LabelsFacts DEF TypeOK, Changes, Op
    <3>2. Changes(v) /\ job'[v] = job[v] /\ g # f
      BY <1>3, <1>7, <2>1, <3>1, ApartFacts DEF Changes, Op, Agreement, TypeOK
    <3>3. Promise(g, x, l, n)'
      BY <3>1, <3>2, SameFileKeeps DEF Agreement
    <3>4. g = job'[v].req.file /\ x = job'[v].req.user /\ l = job'[v].pc /\ n = job'[v].n
      BY <3>1, <3>2 DEF File, User
    <3>. QED
      BY <3>3, <3>4 DEF File, User
  <2>2. CASE v = w
    <3>1. ~Ended(w)
      BY <1>4, <1>7, <2>2 DEF Changes, Op
    <3>2. PICK l, n : Onward(w, l, n) /\ Promise(f, u, l, n)'
      BY <3>1
    <3>3. f = job'[v].req.file /\ u = job'[v].req.user /\ l = job'[v].pc /\ n = job'[v].n
      BY <2>2, <3>2 DEF Onward, File, User
    <3>. QED  BY <3>2, <3>3 DEF File, User
  <2>. QED  BY <2>1, <2>2
<1>8. ASSUME NEW v \in Workers PROVE (IF Op(v) = "list" THEN Listing(v) ELSE job[v].page = {})'
  <2>1. CASE v # w /\ Op(v) = "list"
    <3>1. Members' = Members /\ names' = names
      BY <2>1, ApartFacts DEF Agreement, TypeOK
    <3>2. job'[v] = job[v] /\ Listing(v)
      BY <1>3, <2>1 DEF Agreement
    <3>3. Cardinality(Members)' = Cardinality(Members)
      BY <3>1
    <3>. QED  BY <2>1, <3>1, <3>2, <3>3 DEF Listing, Op, At
  <2>2. CASE v # w /\ Op(v) # "list"
    BY <1>3, <2>2 DEF Agreement, Op
  <2>3. CASE v = w
    <3>1. Op(w) # "list" /\ job[w].page = {}
      BY DEF Changes, Agreement
    <3>2. Ended(w) \/ (job'[w].req = job[w].req /\ job'[w].page = job[w].page)
      BY DEF Onward
    <3>3. Op(w)' # "list" /\ job'[w].page = {}
      BY <1>4, <3>1, <3>2 DEF Op
    <3>. QED  BY <2>3, <3>3
  <2>. QED  BY <2>1, <2>2, <2>3
<1>. QED  BY <1>1, <1>5, <1>6, <1>7, <1>8 DEF Agreement

\* A step that leaves MySQL and redis.
LEMMA Unchanged ==
  ASSUME rows' = rows, marked' = marked, score' = score, names' = names
  PROVE  \A f : SameFile(f)
BY DEF SameFile, RowsOf, Marks, Members

\* A request about f moves on and changes nothing in MySQL and redis.
LEMMA QuietAgreement ==
  ASSUME TypeOK, TypeOK', Agreement, NEW w \in Workers, Changes(w),
         NEW f \in Files, NEW u, f = File(w), u = User(w),
         rows' = rows, marked' = marked, score' = score, names' = names,
         \/ Ended(w) /\ Settled(f)
         \/ \E l, n : Onward(w, l, n) /\ l # "idle" /\ Promise(f, u, l, n)
  PROVE  Agreement'
<1>1. \A g : SameFile(g)
  BY Unchanged
<1>2. \A r, s \in RowsOf(f)' : r = s
  BY DEF Agreement, OneRow, RowsOf
<1>3. Members' = Members /\ names' = names
  BY DEF Members
<1>4. CASE Ended(w) /\ Settled(f)
  BY <1>1, <1>2, <1>3, <1>4, SameFileKeeps, LocalAgreement
<1>5. ASSUME NEW l, NEW n, Onward(w, l, n), l # "idle", Promise(f, u, l, n)
      PROVE  Agreement'
  <2>1. Promise(f, u, l, n)'
    BY <1>1, <1>5, SameFileKeeps
  <2>. QED  BY <1>1, <1>2, <1>3, <1>5, <2>1, LocalAgreement
<1>. QED  BY <1>4, <1>5

\* The sorted set after ZADD and ZREM.
LEMMA ZaddFacts ==
  ASSUME ScoreOK, NEW f, NEW n, ZsetAdd(f, n)
  PROVE  /\ Members' = Members \cup {f} /\ score'[f] = n
         /\ \A g \in Members : g # f => score'[g] = score[g]
BY DEF ZsetAdd, ScoreOK, Members

LEMMA ZremFacts ==
  ASSUME ScoreOK, NEW f, ZsetZrem(f)
  PROVE  /\ Members' = Members \ {f}
         /\ \A g \in Members : g # f => score'[g] = score[g]
<1>1. score' = [g \in Members \ {f} |-> score[g]]
  BY DEF ZsetZrem, Restrict
<1>. QED  BY <1>1 DEF Members

\* A file the command is not about.
LEMMA OtherFile ==
  ASSUME NEW f, NEW g, g # f, RowsOf(g)' = RowsOf(g),
         marked' = marked \/ \E x : marked' = marked \cup {<<x, f>>} \/ marked' = marked \ {<<x, f>>},
         Members' \cup {f} = Members \cup {f}, names' \cup {f} = names \cup {f},
         g \in Members => score'[g] = score[g]
  PROVE  SameFile(g)
<1>1. Marks(g)' = Marks(g)
  BY DEF Marks
<1>. QED  BY <1>1 DEF SameFile

LEMMA CalmRequest ==
  ASSUME TypeOK, TypeOK', calm, Agreement, NEW w \in Workers, NEW q \in Requests, Request(w, q)
  PROVE  Agreement'
<1>1. /\ rows' = rows /\ marked' = marked /\ score' = score /\ names' = names
      /\ At(w, "idle") /\ Sensible(q)
      /\ \A v \in Workers : ~At(v, "idle") => ~Disturbs(q, job[v].req)
  BY DEF Request, mysql, redis
<1>2. /\ job'[w].pc = First[q.op] /\ job'[w].req = q /\ job'[w].n = 0 /\ job'[w].page = {}
      /\ \A v \in Workers \ {w} : job'[v] = job[v]
  BY DEF Request, TypeOK, JobOK
<1>3. \A f : SameFile(f)
  BY <1>1, Unchanged
<1>4. OneRow'
  BY <1>1 DEF Agreement, OneRow
<1>5. \A a, b : Disturbs(a, b) <=> Disturbs(b, a)
  BY DEF Disturbs
<1>6. Apart'
  BY <1>1, <1>2, <1>5 DEF Agreement, Apart, At
<1>7. Op(w) = "none"
  BY <1>1, AtOp DEF TypeOK, LabelsOf
<1>8. ASSUME NEW f \in Files, Untouched(f)' PROVE Settled(f)'
  <2>1. Untouched(f)
    BY <1>2, <1>7, <1>8 DEF Untouched, Changes, Op, File
  <2>. QED  BY <1>3, <2>1, SameFileKeeps DEF Agreement
<1>9. ASSUME NEW v \in Workers, Changes(v)'
      PROVE  Promise(File(v), User(v), job[v].pc, job[v].n)'
  <2>1. CASE v # w
    <3>1. PICK f, x, l, n : f = File(v) /\ x = User(v) /\ l = job[v].pc /\ n = job[v].n
      OBVIOUS
    <3>2. Changes(v) /\ f = job'[v].req.file /\ x = job'[v].req.user /\ l = job'[v].pc /\ n = job'[v].n
      BY <1>2, <1>9, <2>1, <3>1 DEF Changes, Op, File, User
    <3>3. Promise(f, x, l, n)'
      BY <1>3, <3>1, <3>2, SameFileKeeps DEF Agreement
    <3>. QED  BY <3>2, <3>3 DEF File, User
  <2>2. CASE v = w
    <3>1. q.op \in {"share", "cancel", "del", "view"} /\ q.file \in Files
      BY <1>2, <1>9, <2>2 DEF Requests, Changes, Op
    <3>2. PICK f \in Files, u \in {q.user} : f = q.file /\ u = q.user
      BY <3>1
    <3>3. Untouched(f)
      <4>. SUFFICES ASSUME NEW x \in Workers, Changes(x), File(x) = f PROVE FALSE
        BY DEF Untouched
      <4>1. ~At(x, "idle") /\ Op(x) # "list"
        BY AtOp DEF TypeOK, Changes, LabelsOf
      <4>. QED  BY <1>1, <3>1, <3>2, <4>1 DEF Disturbs, Op, File
    <3>4. Settled(f) /\ (q.op = "cancel" => u \in Marks(f))
      BY <1>1, <3>2, <3>3 DEF Agreement, Sensible, Marks, Requests
    <3>5. Promise(f, u, First[q.op], 0)
      BY <3>1, <3>4 DEF Promise, First
    <3>6. PICK l : l = First[q.op]
      OBVIOUS
    <3>7. Promise(f, u, l, 0)'
      BY <1>3, <3>5, <3>6, SameFileKeeps
    <3>8. f = job'[v].req.file /\ u = job'[v].req.user /\ l = job'[v].pc /\ 0 = job'[v].n
      BY <1>2, <2>2, <3>2, <3>6
    <3>. QED  BY <3>7, <3>8 DEF File, User
  <2>. QED  BY <2>1, <2>2
<1>10. ASSUME NEW v \in Workers PROVE (IF Op(v) = "list" THEN Listing(v) ELSE job[v].page = {})'
  <2>1. CASE v # w
    BY <1>1, <1>2, <2>1 DEF Agreement, Op, Listing, At, Members
  <2>2. CASE v = w
    BY <1>2, <2>2 DEF Listing, Op, At, First
  <2>. QED  BY <2>1, <2>2
<1>. QED  BY <1>4, <1>6, <1>8, <1>9, <1>10 DEF Agreement

\* While a listing runs, what changes is page views only.
LEMMA MirroredWhileListed ==
  ASSUME TypeOK, Agreement, NEW w \in Workers, Op(w) = "list", NEW f \in Files
  PROVE  Mirrored(f)
<1>1. CASE Untouched(f)
  BY <1>1 DEF Agreement, Settled
<1>2. ASSUME NEW v \in Workers, Changes(v), File(v) = f PROVE Mirrored(f)
  <2>1. Op(v) = "view" /\ job[v].pc \in LabelsOf["view"]
    BY <1>2, ApartFacts, AtOp DEF Agreement, TypeOK, JobOK, Changes
  <2>2. Promise(f, User(v), job[v].pc, job[v].n)
    BY <1>2 DEF Agreement
  <2>. QED  BY <2>1, <2>2 DEF Promise, LabelsOf, Settled, Viewed
<1>. QED  BY <1>1, <1>2 DEF Untouched

\* Then there are as many rows as members.
LEMMA AsManyRows ==
  ASSUME TypeOK, Agreement, NEW w \in Workers, Op(w) = "list"
  PROVE  Cardinality(rows) = Cardinality(Members)
<1>. DEFINE map == [r \in rows |-> r.file]
<1>1. Members = Shared
  <2>1. Members \subseteq Files /\ Shared \subseteq Files
    BY DEF TypeOK, DataOK, Shared
  <2>2. \A f \in Files : f \in Members <=> f \in Shared
    BY MirroredWhileListed DEF Mirrored
  <2>. QED  BY <2>1, <2>2
<1>2. map \in [rows -> Members] /\ \A f \in Members : \E r \in rows : map[r] = f
  BY <1>1 DEF Shared
<1>3. \A r, s \in rows : map[r] = map[s] => r = s
  BY DEF Agreement, OneRow
<1>4. ExistsBijection(rows, Members)
  BY <1>2, <1>3 DEF ExistsBijection, Bijection, Injection, IsInjective, Surjection
<1>. QED  BY <1>4, FS_Bijection DEF TypeOK, DataOK

LEMMA ListingAgreement ==
  ASSUME TypeOK, Agreement, NEW w \in Workers, Op(w) = "list",
         rows' = rows, marked' = marked, score' = score, names' = names, Others(w),
         job'[w] = Idle \/ (~At(w, "idle") /\ Op(w)' = "list" /\ Listing(w)')
  PROVE  Agreement'
<1>1. \A f : SameFile(f)
  BY Unchanged
<1>2. /\ \A v \in Workers \ {w} : job'[v] = job[v]
      /\ ~Changes(w) /\ ~Changes(w)' /\ ~At(w, "idle")
      /\ Op(w)' # "list" => job'[w].pc = "idle" /\ job'[w].page = {}
  BY AtOp DEF Others, Changes, Op, Idle, NoRequest, TypeOK, JobOK, At, LabelsOf
<1>3. OneRow'
  BY DEF Agreement, OneRow
<1>4. \A r : Op(w)' = "list" => /\ Disturbs(job'[w].req, r) <=> Disturbs(job[w].req, r)
                                /\ Disturbs(r, job'[w].req) <=> Disturbs(r, job[w].req)
  BY DEF Disturbs, Op
<1>5. Apart'
  BY <1>2, <1>4 DEF Agreement, Apart, At
<1>6. ASSUME NEW f \in Files, Untouched(f)' PROVE Settled(f)'
  <2>1. Untouched(f)
    BY <1>2, <1>6 DEF Untouched, Changes, Op, File
  <2>. QED  BY <1>1, <2>1, SameFileKeeps DEF Agreement
<1>7. ASSUME NEW v \in Workers, Changes(v)'
      PROVE  Promise(File(v), User(v), job[v].pc, job[v].n)'
  <2>1. PICK f, x, l, n : f = File(v) /\ x = User(v) /\ l = job[v].pc /\ n = job[v].n
    OBVIOUS
  <2>2. v # w
    BY <1>2, <1>7
  <2>3. Changes(v) /\ f = job'[v].req.file /\ x = job'[v].req.user /\ l = job'[v].pc /\ n = job'[v].n
    BY <1>2, <1>7, <2>1, <2>2 DEF Changes, Op, File, User
  <2>4. Promise(f, x, l, n)'
    BY <1>1, <2>1, <2>3, SameFileKeeps DEF Agreement
  <2>. QED  BY <2>3, <2>4 DEF File, User
<1>8. ASSUME NEW v \in Workers PROVE (IF Op(v) = "list" THEN Listing(v) ELSE job[v].page = {})'
  <2>1. CASE v # w
    BY <1>2, <2>1 DEF Agreement, Op, Listing, At, Members
  <2>2. CASE v = w
    <3>1. Op(w)' = "list" => Listing(w)'
      BY DEF Op, Idle, NoRequest
    <3>. QED  BY <1>2, <2>2, <3>1
  <2>. QED  BY <2>1, <2>2
<1>. QED  BY <1>3, <1>5, <1>6, <1>7, <1>8 DEF Agreement

LEMMA CalmList ==
  ASSUME TypeOK, Agreement, NEW w \in Workers, List(w)
  PROVE  Agreement'
<1>1. Op(w) = "list" /\ JobOK /\ DataOK
  BY AtOp DEF List, LabelsOf, ListCount, ListZcard, ListDelZset, ListDelHash, ListImport, ListRange,
     ListName, ListScore, TypeOK
<1>2. ~At(w, "idle") /\ ~At(w, "ls_delz") /\ ~At(w, "ls_delh") /\ ~At(w, "ls_import")
      /\ Listing(w)
  BY <1>1, AtOp DEF Agreement, Listing, At, TypeOK, LabelsOf
<1>3. /\ rows' = rows /\ marked' = marked /\ score' = score /\ names' = names
  BY <1>2 DEF List, ListCount, ListZcard, ListDelZset, ListDelHash, ListImport, ListRange,
     ListName, ListScore, mysql, redis
<1>4. ASSUME Finish(w) PROVE Agreement'
  BY <1>1, <1>3, <1>4, FinishEnds, ListingAgreement DEF Ended
<1>5. ASSUME NEW l, NEW n, Onward(w, l, n), l \notin {"ls_delz", "ls_delh", "ls_import"},
             l = "ls_card" => n = Cardinality(Members)
      PROVE  Agreement'
  <2>1. Op(w)' = "list" /\ Others(w)
    BY <1>1, <1>5 DEF Onward, Op
  <2>2. Listing(w)'
    BY <1>2, <1>3, <1>5 DEF Onward, Listing, At, Members
  <2>. QED  BY <1>1, <1>2, <1>3, <2>1, <2>2, ListingAgreement
<1>6. ASSUME NEW l, NEW q, job' = [job EXCEPT ![w].pc = l, ![w].page = q], l = "ls_name",
             q \subseteq names \cap Members
      PROVE  Agreement'
  <2>1. job'[w].pc = l /\ job'[w].page = q /\ job'[w].req = job[w].req /\ Others(w)
    BY <1>1, <1>6 DEF JobOK, Jobs, Others
  <2>2. Op(w)' = "list" /\ Listing(w)'
    BY <1>1, <1>3, <1>6, <2>1 DEF Op, Listing, At, Members
  <2>. QED  BY <1>1, <1>2, <1>3, <2>1, <2>2, ListingAgreement
<1>7. CASE ListCount(w)
  <2>1. Onward(w, "ls_card", Cardinality(rows)) /\ Cardinality(rows) = Cardinality(Members)
    BY <1>1, <1>7, KeepOnward, AsManyRows DEF ListCount
  <2>. QED  BY <1>5, <2>1
<1>8. CASE ListZcard(w)
  <2>1. Cardinality(Members) = job[w].n
    BY <1>2, <1>8 DEF ListZcard, Listing
  <2>2. Go(w, "ls_range")
    BY <1>8, <2>1 DEF ListZcard
  <2>. QED  BY <1>1, <1>5, <2>2, GoOnward
<1>9. CASE ListRange(w)
  <2>1. PICK p \in SUBSET Members : job' = [job EXCEPT ![w].pc = "ls_name", ![w].page = p]
    BY <1>9 DEF ListRange
  <2>2. p \subseteq names
    BY <1>1, <2>1, MirroredWhileListed DEF Mirrored, DataOK
  <2>. QED  BY <1>6, <2>1, <2>2
<1>10. CASE ListName(w)
  <2>1. ASSUME NEW f, job' = [job EXCEPT ![w].pc = "ls_score", ![w].req.file = f] PROVE Agreement'
    <3>1. /\ job'[w].pc = "ls_score" /\ job'[w].page = job[w].page /\ job'[w].req.op = job[w].req.op
          /\ Others(w)
      BY <1>1, <2>1 DEF JobOK, Jobs, Others
    <3>2. Op(w)' = "list" /\ Listing(w)'
      BY <1>1, <1>2, <1>3, <3>1 DEF Op, Listing, At, Members
    <3>. QED  BY <1>1, <1>2, <1>3, <3>1, <3>2, ListingAgreement
  <2>. QED  BY <1>4, <1>10, <2>1 DEF ListName
<1>11. CASE ListScore(w)
  <2>1. job[w].page \ {File(w)} \subseteq names \cap Members
    BY <1>2 DEF Listing
  <2>2. Finish(w) \/ job' = [job EXCEPT ![w].pc = "ls_name", ![w].page = job[w].page \ {File(w)}]
    BY <1>1, <1>11 DEF ListScore, JobOK, Jobs
  <2>. QED  BY <1>4, <1>6, <2>1, <2>2
<1>. QED  BY <1>2, <1>7, <1>8, <1>9, <1>10, <1>11 DEF List, ListDelZset, ListDelHash, ListImport

\* The promise of the place a request about a file is at.
LEMMA Promised ==
  ASSUME TypeOK, Agreement, NEW w \in Workers, Share(w) \/ Cancel(w) \/ Delete(w) \/ View(w)
  PROVE  /\ Changes(w) /\ File(w) \in Files /\ job[w].n \in Nat
         /\ Promise(File(w), User(w), job[w].pc, job[w].n)
<1>1. /\ Share(w) => Op(w) = "share"
      /\ Cancel(w) => Op(w) = "cancel"
      /\ Delete(w) => Op(w) = "del"
      /\ View(w) => Op(w) = "view"
  BY AtOp DEF TypeOK, LabelsOf, Share, Cancel, Delete, View, ShareZsetExit, ShareReadRows, ShareMark,
     ShareInsertRow, ShareZadd, ShareHset, CancelMark, CancelRows, CancelZrem, CancelHdel,
     DeleteReadStatus, DeleteZrem, DeleteHdel, DeleteShareRows, DeleteRows,
     ViewRead, ViewWrite, ViewZsetExit, ViewZadd, ViewHset, ViewIncr
<1>2. Changes(w) /\ File(w) \in Files /\ job[w].n \in Nat
  BY <1>1, AtOp DEF TypeOK, Changes
<1>3. Promise(File(w), User(w), job[w].pc, job[w].n)
  BY <1>2 DEF Agreement
<1>. QED  BY <1>2, <1>3

LEMMA CalmShare ==
  ASSUME TypeOK, TypeOK', Agreement, NEW w \in Workers, Share(w)
  PROVE  Agreement'
<1>. PICK f \in Files : f = File(w)
  BY Promised
<1>. PICK n \in Nat : n = job[w].n
  BY Promised
<1>. PICK u, l : u = User(w) /\ l = job[w].pc
  OBVIOUS
<1>1. /\ f = File(w) /\ u = User(w) /\ l = job[w].pc /\ n = job[w].n
      /\ Changes(w) /\ Promise(f, u, l, n)
  BY Promised
<1>2. /\ JobOK /\ ScoreOK /\ DataOK /\ Op(w) = "share" /\ u \in Users
  BY <1>1, AtOp DEF TypeOK, LabelsOf, Share, ShareZsetExit, ShareReadRows, ShareMark,
     ShareInsertRow, ShareZadd, ShareHset, ScoreOK, DataOK
<1>3. \A r, s \in RowsOf(f) : r = s
  BY DEF Agreement, OneRow, RowsOf
<1>4. CASE ShareZsetExit(w)
  <2>1. Settled(f) /\ Promise(f, u, "sh_rows", n)
    BY <1>1, <1>4 DEF ShareZsetExit, At, Promise
  <2>2. Finish(w) \/ Go(w, "sh_rows")
    BY <1>4 DEF ShareZsetExit
  <2>3. rows' = rows /\ marked' = marked /\ score' = score /\ names' = names
    BY <1>4 DEF ShareZsetExit, mysql, redis
  <2>. QED  BY <1>1, <1>2, <2>1, <2>2, <2>3, FinishEnds, GoOnward, QuietAgreement
<1>5. CASE ShareReadRows(w)
  <2>1. Settled(f)
    BY <1>1, <1>5 DEF ShareReadRows, At, Promise
  <2>2. PICK k : Go(w, k) /\ k = IF RowsOf(f) # {} THEN "sh_zadd" ELSE "sh_status"
    BY <1>1, <1>5 DEF ShareReadRows
  <2>3. rows' = rows /\ marked' = marked /\ score' = score /\ names' = names
    BY <1>5 DEF ShareReadRows, mysql, redis
  <2>4. Promise(f, u, k, n) /\ k # "idle"
    BY <2>1, <2>2 DEF Promise, Settled
  <2>. QED  BY <1>1, <1>2, <2>2, <2>3, <2>4, GoOnward, QuietAgreement
<1>6. CASE ShareMark(w)
  <2>1. Settled(f) /\ RowsOf(f) = {}
    BY <1>1, <1>6 DEF ShareMark, At, Promise
  <2>2. /\ rows' = rows /\ marked' = marked \cup {<<u, f>>} /\ score' = score /\ names' = names
        /\ Go(w, "sh_row")
    BY <1>1, <1>6 DEF ShareMark, redis
  <2>3. Marks(f) = {} /\ Absent(f)
    BY <2>1, SharedIs DEF Settled, Sharers, Mirrored, Absent
  <2>4. Marks(f)' = {u}
    BY <1>2, <2>2, <2>3 DEF Marks
  <2>5. RowsOf(f)' = {} /\ Absent(f)'
    BY <2>1, <2>2, <2>3 DEF RowsOf, Absent, Members
  <2>6. Promise(f, u, "sh_row", n)'
    BY <2>4, <2>5 DEF Promise
  <2>7. \A g \in Files \ {f} : SameFile(g)
    BY <2>2, OtherFile DEF RowsOf, Members
  <2>. QED  BY <1>1, <1>2, <2>2, <2>5, <2>6, <2>7, GoOnward, LocalAgreement
<1>7. CASE ShareInsertRow(w)
  <2>1. RowsOf(f) = {} /\ Absent(f) /\ Marks(f) = {u}
    BY <1>1, <1>7 DEF ShareInsertRow, At, Promise
  <2>. DEFINE row == [id |-> ids + 1, user |-> u, file |-> f, pv |-> 0]
  <2>2. row.user = u /\ row.file = f /\ row.pv = 0
    OBVIOUS
  <2>3. /\ rows' = rows \cup {row} /\ marked' = marked /\ score' = score /\ names' = names
        /\ Go(w, "sh_zadd")
    BY <1>1, <1>7 DEF ShareInsertRow, redis
  <2>. HIDE DEF row
  <2>4. RowsOf(f)' = {row} /\ \A g \in Files \ {f} : RowsOf(g)' = RowsOf(g)
    BY <2>1, <2>2, <2>3 DEF RowsOf
  <2>5. Marks(f)' = {u} /\ Sharers(f)' = {u} /\ f \notin Members'
    BY <2>1, <2>2, <2>3, <2>4 DEF Marks, Sharers, Absent, Members
  <2>6. Promise(f, u, "sh_zadd", n)'
    BY <2>4, <2>5 DEF Promise, Scored
  <2>7. \A g \in Files \ {f} : SameFile(g)
    BY <2>3, <2>4, OtherFile DEF Members
  <2>. QED  BY <1>1, <1>2, <2>3, <2>4, <2>6, <2>7, GoOnward, LocalAgreement
<1>8. CASE ShareZadd(w)
  <2>1. RowsOf(f) # {} /\ Sharers(f) = Marks(f)
    BY <1>1, <1>8 DEF ShareZadd, At, Promise
  <2>2. rows' = rows /\ marked' = marked /\ names' = names /\ ZsetAdd(f, 0) /\ Go(w, "sh_hset")
    BY <1>1, <1>8 DEF ShareZadd, mysql
  <2>3. Members' = Members \cup {f} /\ score'[f] = 0 /\ \A g \in Members : g # f => score'[g] = score[g]
    BY <1>2, <2>2, ZaddFacts
  <2>4. RowsOf(f)' = RowsOf(f) /\ Marks(f)' = Marks(f) /\ Sharers(f)' = Sharers(f)
    BY <2>2 DEF RowsOf, Marks, Sharers
  <2>5. \A r \in RowsOf(f) : r.pv \in Nat
    BY <1>2 DEF DataOK, RowsOf
  <2>6. Scored(f)'
    BY <2>3, <2>4, <2>5 DEF Scored
  <2>7. Promise(f, u, "sh_hset", n)'
    BY <2>1, <2>3, <2>4, <2>6 DEF Promise
  <2>8. \A g \in Files \ {f} : SameFile(g)
    BY <2>2, <2>3, OtherFile DEF RowsOf
  <2>. QED  BY <1>1, <1>2, <1>3, <2>2, <2>4, <2>7, <2>8, GoOnward, LocalAgreement
<1>9. CASE ShareHset(w)
  <2>1. RowsOf(f) # {} /\ Sharers(f) = Marks(f) /\ Scored(f) /\ f \in Members
    BY <1>1, <1>9 DEF ShareHset, At, Promise
  <2>2. rows' = rows /\ marked' = marked /\ names' = names \cup {f} /\ score' = score /\ Finish(w)
    BY <1>1, <1>9 DEF ShareHset, mysql
  <2>3. RowsOf(f)' = RowsOf(f) /\ Marks(f)' = Marks(f) /\ Sharers(f)' = Sharers(f) /\ Members' = Members
    BY <2>2 DEF RowsOf, Marks, Sharers, Members
  <2>4. f \in Shared'
    BY <2>1, <2>2, SharedIs DEF Shared
  <2>5. Settled(f)'
    BY <2>1, <2>2, <2>3, <2>4 DEF Settled, Mirrored, Scored
  <2>6. \A g \in Files \ {f} : SameFile(g)
    BY <2>2, <2>3, OtherFile DEF RowsOf
  <2>. QED  BY <1>1, <1>2, <1>3, <2>2, <2>3, <2>5, <2>6, FinishEnds, LocalAgreement
<1>. QED  BY <1>4, <1>5, <1>6, <1>7, <1>8, <1>9 DEF Share

\* The rows of f after those of its only owner are dropped.
LEMMA DropFacts ==
  ASSUME NEW w \in Workers, NEW f, NEW u, f = File(w), u = User(w), DropRows(w),
         Sharers(f) \subseteq {u}
  PROVE  RowsOf(f)' = {} /\ \A g : g # f => RowsOf(g)' = RowsOf(g)
BY DEF DropRows, RowsOf, Sharers

\* The marks of f after that of its only owner is taken.
LEMMA UnmarkFacts ==
  ASSUME NEW w \in Workers, NEW f, NEW u, f = File(w), u = User(w), Unmark(w)
  PROVE  /\ Marks(f)' = Marks(f) \ {u}
         /\ marked' = marked \ {<<u, f>>}
BY DEF Unmark, Marks

LEMMA CalmCancel ==
  ASSUME TypeOK, TypeOK', Agreement, NEW w \in Workers, Cancel(w)
  PROVE  Agreement'
<1>. PICK f \in Files : f = File(w)
  BY Promised
<1>. PICK n \in Nat : n = job[w].n
  BY Promised
<1>. PICK u, l : u = User(w) /\ l = job[w].pc
  OBVIOUS
<1>1. /\ f = File(w) /\ u = User(w) /\ l = job[w].pc /\ n = job[w].n
      /\ Changes(w) /\ Promise(f, u, l, n)
  BY Promised
<1>2. /\ JobOK /\ ScoreOK /\ DataOK /\ Op(w) = "cancel" /\ u \in Users
  BY <1>1, AtOp DEF TypeOK, LabelsOf, Cancel, CancelMark, CancelRows, CancelZrem, CancelHdel, ScoreOK, DataOK
<1>3. \A r, s \in RowsOf(f) : r = s
  BY DEF Agreement, OneRow, RowsOf
<1>4. CASE CancelMark(w)
  <2>1. Settled(f) /\ u \in Marks(f)
    BY <1>1, <1>4 DEF CancelMark, At, Promise
  <2>2. rows' = rows /\ score' = score /\ names' = names /\ Unmark(w) /\ Go(w, "ca_rows")
    BY <1>4 DEF CancelMark, redis
  <2>3. Marks(f)' = Marks(f) \ {u} /\ marked' = marked \ {<<u, f>>}
    BY <1>1, <2>2, UnmarkFacts
  <2>4. RowsOf(f)' = RowsOf(f) /\ Sharers(f)' = Sharers(f) /\ Members' = Members
    BY <2>2 DEF RowsOf, Sharers, Members
  <2>5. Sharers(f) = {u}
    BY <1>3, <2>1 DEF Settled, Sharers
  <2>6. Marks(f)' = {} /\ Sharers(f)' \subseteq {u} /\ Scored(f)'
    BY <2>1, <2>2, <2>3, <2>4, <2>5 DEF Settled, Scored
  <2>7. Promise(f, u, "ca_rows", n)'
    BY <2>6 DEF Promise
  <2>8. \A g \in Files \ {f} : SameFile(g)
    BY <2>2, <2>3, <2>4, OtherFile DEF RowsOf
  <2>. QED  BY <1>1, <1>2, <1>3, <2>2, <2>4, <2>7, <2>8, GoOnward, LocalAgreement
<1>5. CASE CancelRows(w)
  <2>1. Marks(f) = {} /\ Sharers(f) \subseteq {u}
    BY <1>1, <1>5 DEF CancelRows, At, Promise
  <2>2. marked' = marked /\ score' = score /\ names' = names /\ DropRows(w) /\ Go(w, "ca_zset")
    BY <1>5 DEF CancelRows, redis
  <2>3. RowsOf(f)' = {} /\ \A g : g # f => RowsOf(g)' = RowsOf(g)
    BY <1>1, <2>1, <2>2, DropFacts
  <2>4. Marks(f)' = {} /\ Members' = Members
    BY <2>1, <2>2 DEF Marks, Members
  <2>5. Promise(f, u, "ca_zset", n)'
    BY <2>3, <2>4 DEF Promise
  <2>6. \A g \in Files \ {f} : SameFile(g)
    BY <2>2, <2>3, <2>4, OtherFile
  <2>. QED  BY <1>1, <1>2, <2>2, <2>3, <2>5, <2>6, GoOnward, LocalAgreement
<1>6. CASE CancelZrem(w)
  <2>1. Marks(f) = {} /\ RowsOf(f) = {}
    BY <1>1, <1>6 DEF CancelZrem, At, Promise
  <2>2. rows' = rows /\ marked' = marked /\ names' = names /\ ZsetZrem(f) /\ Go(w, "ca_hash")
    BY <1>1, <1>6 DEF CancelZrem, mysql
  <2>3. Members' = Members \ {f} /\ \A g \in Members : g # f => score'[g] = score[g]
    BY <1>2, <2>2, ZremFacts
  <2>4. RowsOf(f)' = {} /\ Marks(f)' = {}
    BY <2>1, <2>2 DEF RowsOf, Marks
  <2>5. Promise(f, u, "ca_hash", n)'
    BY <2>3, <2>4 DEF Promise
  <2>6. \A g \in Files \ {f} : SameFile(g)
    BY <2>2, <2>3, OtherFile DEF RowsOf
  <2>. QED  BY <1>1, <1>2, <2>2, <2>4, <2>5, <2>6, GoOnward, LocalAgreement
<1>7. CASE CancelHdel(w)
  <2>1. Marks(f) = {} /\ RowsOf(f) = {} /\ f \notin Members
    BY <1>1, <1>7 DEF CancelHdel, At, Promise
  <2>2. /\ rows' = rows /\ marked' = marked /\ score' = score /\ names' = names \ {f}
        /\ Finish(w)
    BY <1>1, <1>7 DEF CancelHdel, mysql
  <2>3. RowsOf(f)' = {} /\ Marks(f)' = {} /\ Members' = Members
    BY <2>1, <2>2 DEF RowsOf, Marks, Members
  <2>4. f \notin Shared'
    BY <2>3 DEF Shared, RowsOf
  <2>5. Settled(f)'
    BY <2>1, <2>2, <2>3, <2>4 DEF Settled, Mirrored, Sharers, Scored
  <2>6. \A g \in Files \ {f} : SameFile(g)
    BY <2>2, <2>3, OtherFile DEF RowsOf
  <2>. QED  BY <1>1, <1>2, <2>2, <2>3, <2>5, <2>6, FinishEnds, LocalAgreement
<1>. QED  BY <1>4, <1>5, <1>6, <1>7 DEF Cancel

LEMMA CalmDelete ==
  ASSUME TypeOK, TypeOK', Agreement, NEW w \in Workers, Delete(w)
  PROVE  Agreement'
<1>. PICK f \in Files : f = File(w)
  BY Promised
<1>. PICK n \in Nat : n = job[w].n
  BY Promised
<1>. PICK u, l : u = User(w) /\ l = job[w].pc
  OBVIOUS
<1>1. /\ f = File(w) /\ u = User(w) /\ l = job[w].pc /\ n = job[w].n
      /\ Changes(w) /\ Promise(f, u, l, n)
  BY Promised
<1>2. /\ JobOK /\ ScoreOK /\ DataOK /\ Op(w) = "del" /\ u \in Users
  BY <1>1, AtOp DEF TypeOK, LabelsOf, Delete, DeleteReadStatus, DeleteZrem, DeleteHdel,
     DeleteShareRows, DeleteRows, ScoreOK, DataOK
<1>3. \A r, s \in RowsOf(f) : r = s
  BY DEF Agreement, OneRow, RowsOf
<1>4. CASE DeleteReadStatus(w)
  <2>1. Settled(f)
    BY <1>1, <1>4 DEF DeleteReadStatus, At, Promise
  <2>2. PICK k : Go(w, k) /\ k = IF <<u, f>> \in marked THEN "de_zset" ELSE "de_rows"
    BY <1>1, <1>4 DEF DeleteReadStatus
  <2>3. rows' = rows /\ marked' = marked /\ score' = score /\ names' = names
    BY <1>4 DEF DeleteReadStatus, mysql, redis
  <2>4. u \in Marks(f) <=> <<u, f>> \in marked
    BY <1>2 DEF Marks
  <2>5. u \in Marks(f) => Marks(f) = {u}
    BY <1>3, <2>1 DEF Settled, Sharers
  <2>6. CASE u \in Marks(f)
    <3>1. k = "de_zset" /\ Promise(f, u, "de_zset", n)
      BY <2>1, <2>2, <2>4, <2>5, <2>6 DEF Promise, Settled
    <3>. QED  BY <1>1, <1>2, <2>2, <2>3, <3>1, GoOnward, QuietAgreement
  <2>7. CASE u \notin Marks(f)
    <3>1. k = "de_rows" /\ Marks(f) = Marks(f) \ {u}
      BY <2>2, <2>4, <2>7
    <3>2. Promise(f, u, "de_rows", n)
      BY <2>1, <3>1 DEF Promise, Settled
    <3>. QED  BY <1>1, <1>2, <2>2, <2>3, <3>1, <3>2, GoOnward, QuietAgreement
  <2>. QED  BY <2>6, <2>7
<1>5. CASE DeleteZrem(w)
  <2>1. Sharers(f) = {u} /\ Marks(f) = {u}
    BY <1>1, <1>5 DEF DeleteZrem, At, Promise
  <2>2. rows' = rows /\ marked' = marked /\ names' = names /\ ZsetZrem(f) /\ Go(w, "de_hash")
    BY <1>1, <1>5 DEF DeleteZrem, mysql
  <2>3. Members' = Members \ {f} /\ \A g \in Members : g # f => score'[g] = score[g]
    BY <1>2, <2>2, ZremFacts
  <2>4. RowsOf(f)' = RowsOf(f) /\ Sharers(f)' = {u} /\ Marks(f)' = {u}
    BY <2>1, <2>2 DEF RowsOf, Marks, Sharers
  <2>5. Promise(f, u, "de_hash", n)'
    BY <2>3, <2>4 DEF Promise
  <2>6. \A g \in Files \ {f} : SameFile(g)
    BY <2>2, <2>3, OtherFile DEF RowsOf
  <2>. QED  BY <1>1, <1>2, <1>3, <2>2, <2>4, <2>5, <2>6, GoOnward, LocalAgreement
<1>6. CASE DeleteHdel(w)
  <2>1. Sharers(f) = {u} /\ Marks(f) = {u} /\ f \notin Members
    BY <1>1, <1>6 DEF DeleteHdel, At, Promise
  <2>2. /\ rows' = rows /\ marked' = marked /\ score' = score /\ names' = names \ {f}
        /\ Go(w, "de_share")
    BY <1>1, <1>6 DEF DeleteHdel, mysql
  <2>3. /\ RowsOf(f)' = RowsOf(f) /\ Sharers(f)' = {u} /\ Marks(f)' = {u}
        /\ Members' = Members
    BY <2>1, <2>2 DEF RowsOf, Marks, Sharers, Members
  <2>4. Absent(f)'
    BY <2>1, <2>2, <2>3 DEF Absent
  <2>5. Promise(f, u, "de_share", n)'
    BY <2>3, <2>4 DEF Promise
  <2>6. \A g \in Files \ {f} : SameFile(g)
    BY <2>2, <2>3, OtherFile DEF RowsOf
  <2>. QED  BY <1>1, <1>2, <1>3, <2>2, <2>3, <2>5, <2>6, GoOnward, LocalAgreement
<1>7. CASE DeleteShareRows(w)
  <2>1. Sharers(f) = {u} /\ Marks(f) = {u} /\ Absent(f)
    BY <1>1, <1>7 DEF DeleteShareRows, At, Promise
  <2>2. marked' = marked /\ score' = score /\ names' = names /\ DropRows(w) /\ Go(w, "de_rows")
    BY <1>7 DEF DeleteShareRows, redis
  <2>3. RowsOf(f)' = {} /\ \A g : g # f => RowsOf(g)' = RowsOf(g)
    BY <1>1, <2>1, <2>2, DropFacts
  <2>4. Marks(f)' = {u} /\ Members' = Members /\ Sharers(f)' = {} /\ f \notin Shared'
    BY <2>1, <2>2, <2>3 DEF Marks, Members, Sharers, Shared, RowsOf
  <2>5. Mirrored(f)' /\ Scored(f)'
    BY <2>1, <2>2, <2>3, <2>4 DEF Mirrored, Absent, Scored
  <2>6. Promise(f, u, "de_rows", n)'
    BY <2>4, <2>5 DEF Promise
  <2>7. \A g \in Files \ {f} : SameFile(g)
    BY <2>2, <2>3, <2>4, OtherFile
  <2>. QED  BY <1>1, <1>2, <2>2, <2>3, <2>6, <2>7, GoOnward, LocalAgreement
<1>8. CASE DeleteRows(w)
  <2>1. Mirrored(f) /\ Sharers(f) = Marks(f) \ {u} /\ Scored(f)
    BY <1>1, <1>8 DEF DeleteRows, At, Promise
  <2>2. rows' = rows /\ score' = score /\ names' = names /\ Unmark(w) /\ Finish(w)
    BY <1>8 DEF DeleteRows, redis
  <2>3. Marks(f)' = Marks(f) \ {u} /\ marked' = marked \ {<<u, f>>}
    BY <1>1, <2>2, UnmarkFacts
  <2>4. /\ RowsOf(f)' = RowsOf(f) /\ Sharers(f)' = Sharers(f) /\ Members' = Members
        /\ Shared' = Shared
    BY <2>2 DEF RowsOf, Sharers, Members, Shared
  <2>5. Mirrored(f)' /\ Scored(f)'
    BY <2>1, <2>2, <2>4 DEF Mirrored, Scored
  <2>6. Settled(f)'
    BY <2>1, <2>3, <2>4, <2>5 DEF Settled
  <2>7. \A g \in Files \ {f} : SameFile(g)
    BY <2>2, <2>3, <2>4, OtherFile DEF RowsOf
  <2>. QED  BY <1>1, <1>2, <1>3, <2>2, <2>4, <2>6, <2>7, FinishEnds, LocalAgreement
<1>. QED  BY <1>4, <1>5, <1>6, <1>7, <1>8 DEF Delete

\* The rows of f after a view has written n + 1.
Write(f, n) == rows' = {IF r.file = f THEN [r EXCEPT !.pv = n + 1] ELSE r : r \in rows}

LEMMA WriteFacts ==
  ASSUME DataOK, NEW f, NEW n \in Nat, Write(f, n)
  PROVE  /\ RowsOf(f) # {} => RowsOf(f)' # {}
         /\ (\A r, s \in RowsOf(f) : r = s) => \A r, s \in RowsOf(f)' : r = s
         /\ Sharers(f)' = Sharers(f)
         /\ \A r \in RowsOf(f)' : r.pv = n + 1
         /\ \A g : g # f => RowsOf(g)' = RowsOf(g)
<1>. USE DEF Write
<1>1. ASSUME NEW r \in rows
      PROVE  /\ [r EXCEPT !.pv = n + 1].pv = n + 1
             /\ [r EXCEPT !.pv = n + 1].file = r.file
             /\ [r EXCEPT !.pv = n + 1].user = r.user
  BY DEF DataOK
<1>2. RowsOf(f)' = {[r EXCEPT !.pv = n + 1] : r \in RowsOf(f)}
  <2>1. ASSUME NEW t \in RowsOf(f)' PROVE t \in {[r EXCEPT !.pv = n + 1] : r \in RowsOf(f)}
    <3>1. PICK r \in rows : t = IF r.file = f THEN [r EXCEPT !.pv = n + 1] ELSE r
      BY <2>1 DEF RowsOf
    <3>2. r.file = f
      BY <2>1, <3>1 DEF RowsOf
    <3>. QED  BY <3>1, <3>2 DEF RowsOf
  <2>2. ASSUME NEW r \in RowsOf(f) PROVE [r EXCEPT !.pv = n + 1] \in RowsOf(f)'
    <3>1. r \in rows /\ r.file = f
      BY DEF RowsOf
    <3>2. [r EXCEPT !.pv = n + 1] \in rows'
      BY <3>1
    <3>. QED  BY <1>1, <3>1, <3>2 DEF RowsOf
  <2>. QED  BY <2>1, <2>2
<1>3. \A r \in RowsOf(f) : r \in rows
  BY DEF RowsOf
<1>4. Sharers(f)' = Sharers(f)
  <2>1. ASSUME NEW x \in Sharers(f)' PROVE x \in Sharers(f)
    <3>1. PICK t \in RowsOf(f)' : t.user = x
      BY <2>1 DEF Sharers
    <3>2. PICK r \in RowsOf(f) : t = [r EXCEPT !.pv = n + 1]
      BY <1>2, <3>1
    <3>. QED  BY <1>1, <1>3, <3>1, <3>2 DEF Sharers
  <2>2. ASSUME NEW x \in Sharers(f) PROVE x \in Sharers(f)'
    <3>1. PICK r \in RowsOf(f) : r.user = x
      BY <2>2 DEF Sharers
    <3>2. [r EXCEPT !.pv = n + 1] \in RowsOf(f)' /\ [r EXCEPT !.pv = n + 1].user = x
      BY <1>1, <1>2, <1>3, <3>1
    <3>. QED  BY <3>2 DEF Sharers
  <2>. QED  BY <2>1, <2>2
<1>5. (\A r, s \in RowsOf(f) : r = s) => \A r, s \in RowsOf(f)' : r = s
  BY <1>2
<1>6. RowsOf(f) # {} => RowsOf(f)' # {}
  BY <1>2
<1>7. \A r \in RowsOf(f)' : r.pv = n + 1
  BY <1>1, <1>2, <1>3
<1>8. ASSUME NEW g, g # f PROVE RowsOf(g)' = RowsOf(g)
  <2>1. ASSUME NEW t \in RowsOf(g)' PROVE t \in RowsOf(g)
    <3>1. PICK r \in rows : t = IF r.file = f THEN [r EXCEPT !.pv = n + 1] ELSE r
      BY <2>1 DEF RowsOf
    <3>2. r.file # f
      BY <1>1, <1>8, <2>1, <3>1 DEF RowsOf
    <3>. QED  BY <2>1, <3>1, <3>2 DEF RowsOf
  <2>2. ASSUME NEW t \in RowsOf(g) PROVE t \in RowsOf(g)'
    <3>1. t \in rows /\ t.file # f /\ t.file = g
      BY <1>8, <2>2 DEF RowsOf
    <3>2. t \in rows'
      BY <3>1
    <3>. QED  BY <3>1, <3>2 DEF RowsOf
  <2>. QED  BY <2>1, <2>2
<1>. QED  BY <1>4, <1>5, <1>6, <1>7, <1>8

LEMMA CalmView ==
  ASSUME TypeOK, TypeOK', Agreement, NEW w \in Workers, View(w)
  PROVE  Agreement'
<1>. PICK f \in Files : f = File(w)
  BY Promised
<1>. PICK n \in Nat : n = job[w].n
  BY Promised
<1>. PICK u, l : u = User(w) /\ l = job[w].pc
  OBVIOUS
<1>1. /\ f = File(w) /\ u = User(w) /\ l = job[w].pc /\ n = job[w].n
      /\ Changes(w) /\ Promise(f, u, l, n)
  BY Promised
<1>2. /\ JobOK /\ ScoreOK /\ DataOK
      /\ \A r \in rows : r.pv \in Nat
  BY DEF TypeOK, ScoreOK, DataOK
<1>3. \A r, s \in RowsOf(f) : r = s
  BY DEF Agreement, OneRow, RowsOf
<1>4. CASE ViewRead(w)
  <2>1. Settled(f)
    BY <1>1, <1>4 DEF ViewRead, At, Promise
  <2>2. rows' = rows /\ marked' = marked /\ score' = score /\ names' = names
    BY <1>4 DEF ViewRead, mysql, redis
  <2>3. CASE Finish(w)
    BY <1>1, <1>2, <2>1, <2>2, <2>3, FinishEnds, QuietAgreement
  <2>4. ASSUME NEW r \in RowsOf(f), Keep(w, "vw_write", r.pv) PROVE Agreement'
    <3>1. r \in rows /\ r.pv \in Nat /\ RowsOf(f) # {}
      BY <1>2 DEF RowsOf
    <3>2. PICK k \in Nat : k = r.pv
      BY <3>1
    <3>3. \A s \in RowsOf(f) : s.pv = k /\ (f \in Members => score[f] <= k)
      BY <1>3, <2>1, <3>2 DEF Settled, Scored
    <3>4. \A s \in RowsOf(f) : s.pv = k + 0 /\ (f \in Members => score[f] <= k)
      BY <3>3
    <3>5. Promise(f, u, "vw_write", k)
      BY <2>1, <3>1, <3>4 DEF Promise, Viewed, Settled
    <3>6. Onward(w, "vw_write", k)
      BY <1>2, <2>4, <3>2, KeepOnward
    <3>. QED  BY <1>1, <2>2, <3>5, <3>6, QuietAgreement
  <2>. QED  BY <1>1, <1>4, <2>3, <2>4 DEF ViewRead
<1>5. CASE ViewWrite(w)
  <2>1. Viewed(f, n, 0)
    BY <1>1, <1>5 DEF ViewWrite, At, Promise
  <2>2. /\ Write(f, n) /\ marked' = marked /\ score' = score /\ names' = names /\ Go(w, "vw_exists")
    BY <1>1, <1>5 DEF ViewWrite, Write, redis
  <2>3. /\ RowsOf(f) # {} => RowsOf(f)' # {}
        /\ (\A r, s \in RowsOf(f) : r = s) => \A r, s \in RowsOf(f)' : r = s
        /\ Sharers(f)' = Sharers(f)
        /\ \A r \in RowsOf(f)' : r.pv = n + 1
        /\ \A g : g # f => RowsOf(g)' = RowsOf(g)
    BY <1>2, <2>2, WriteFacts
  <2>4. Marks(f)' = Marks(f) /\ Members' = Members
    BY <2>2 DEF Marks, Members
  <2>5. RowsOf(f) # {} /\ RowsOf(f)' # {} /\ \A r, s \in RowsOf(f)' : r = s
    BY <1>3, <2>1, <2>3 DEF Viewed
  <2>6. f \in Shared /\ f \in Shared'
    BY <2>5 DEF Shared, RowsOf
  <2>7. Mirrored(f)'
    BY <2>1, <2>2, <2>4, <2>6 DEF Mirrored, Viewed
  <2>8. f \in Members' => score'[f] <= n
    BY <2>1, <2>2, <2>4, <2>5 DEF Viewed
  <2>9. Viewed(f, n, 1)'
    BY <2>1, <2>3, <2>4, <2>5, <2>7, <2>8 DEF Viewed
  <2>10. Promise(f, u, "vw_exists", n)'
    BY <2>9 DEF Promise
  <2>11. \A g \in Files \ {f} : SameFile(g)
    BY <2>2, <2>3, <2>4, OtherFile
  <2>. QED  BY <1>1, <1>2, <2>2, <2>4, <2>5, <2>10, <2>11, GoOnward, LocalAgreement
<1>6. CASE ViewZsetExit(w)
  <2>1. Viewed(f, n, 1)
    BY <1>1, <1>6 DEF ViewZsetExit, At, Promise
  <2>2. rows' = rows /\ marked' = marked /\ score' = score /\ names' = names
    BY <1>6 DEF ViewZsetExit, mysql, redis
  <2>3. \A r \in RowsOf(f) : r.pv = n + 1 /\ (f \in Members => score[f] <= n)
    BY <2>1 DEF Viewed
  <2>4. f \in Members => score[f] \in Nat
    BY <1>2 DEF DataOK
  <2>5. \A r \in RowsOf(f) : f \in Members => score[f] <= r.pv
    BY <2>3, <2>4
  <2>6. Settled(f)
    BY <2>1, <2>5 DEF Settled, Viewed, Scored
  <2>7. Promise(f, u, "vw_zadd", n) /\ Promise(f, u, "vw_incr", n)
    BY <2>1 DEF Promise
  <2>8. Finish(w) \/ Go(w, "vw_zadd") \/ Go(w, "vw_incr")
    BY <1>6, Zenon DEF ViewZsetExit
  <2>9. CASE Finish(w)
    BY <1>1, <1>2, <2>2, <2>6, <2>9, FinishEnds, QuietAgreement
  <2>10. CASE Go(w, "vw_zadd") \/ Go(w, "vw_incr")
    BY <1>1, <1>2, <2>2, <2>7, <2>10, GoOnward, QuietAgreement
  <2>. QED  BY <2>8, <2>9, <2>10
<1>7. ASSUME NEW k \in Nat, ZsetAdd(f, k), k <= n + 1, Viewed(f, n, 1),
             rows' = rows, marked' = marked, names' = names
      PROVE  /\ Members' = Members /\ Settled(f)' /\ RowsOf(f)' # {}
             /\ \A r, s \in RowsOf(f)' : r = s
             /\ \A g \in Files \ {f} : SameFile(g)
  <2>1. Members' = Members \cup {f} /\ score'[f] = k /\ \A g \in Members : g # f => score'[g] = score[g]
    BY <1>2, <1>7, ZaddFacts
  <2>2. RowsOf(f) # {} /\ Mirrored(f) /\ Sharers(f) = Marks(f) /\ \A r \in RowsOf(f) : r.pv = n + 1
    BY <1>7 DEF Viewed
  <2>3. f \in Shared /\ f \in Members
    BY <2>2, SharedIs DEF Mirrored
  <2>4. /\ Members' = Members /\ Shared' = Shared /\ RowsOf(f)' = RowsOf(f)
        /\ Marks(f)' = Marks(f) /\ Sharers(f)' = Sharers(f)
    BY <1>7, <2>1, <2>3 DEF Shared, RowsOf, Marks, Sharers
  <2>5. Mirrored(f)'
    BY <1>7, <2>2, <2>4 DEF Mirrored
  <2>6. Scored(f)'
    BY <1>7, <2>1, <2>2, <2>4 DEF Scored
  <2>7. Settled(f)'
    BY <2>2, <2>4, <2>5, <2>6 DEF Settled
  <2>8. \A g \in Files \ {f} : SameFile(g)
    BY <1>7, <2>1, OtherFile DEF RowsOf
  <2>. QED  BY <1>3, <2>2, <2>4, <2>7, <2>8
<1>8. CASE ViewZadd(w)
  <2>1. Viewed(f, n, 1) /\ n + 1 \in Nat
    BY <1>1, <1>8 DEF ViewZadd, At, Promise
  <2>2. rows' = rows /\ marked' = marked /\ names' = names /\ ZsetAdd(f, n + 1) /\ Go(w, "vw_hset")
    BY <1>1, <1>8 DEF ViewZadd, mysql
  <2>3. /\ Members' = Members /\ Settled(f)' /\ RowsOf(f)' # {}
        /\ \A r, s \in RowsOf(f)' : r = s
        /\ \A g \in Files \ {f} : SameFile(g)
    BY <1>7, <2>1, <2>2
  <2>4. Promise(f, u, "vw_hset", n)'
    BY <2>3 DEF Promise
  <2>. QED  BY <1>1, <1>2, <2>2, <2>3, <2>4, GoOnward, LocalAgreement
<1>9. CASE ViewIncr(w)
  <2>1. Viewed(f, n, 1)
    BY <1>1, <1>9 DEF ViewIncr, At, Promise
  <2>2. f \in Members
    BY <2>1, SharedIs DEF Viewed, Mirrored
  <2>3. score[f] \in Nat /\ score[f] <= n
    BY <1>2, <2>1, <2>2 DEF Viewed, DataOK
  <2>4. rows' = rows /\ marked' = marked /\ names' = names /\ ZsetAdd(f, score[f] + 1) /\ Finish(w)
    BY <1>1, <1>9, <2>2 DEF ViewIncr, ZsetIncr, mysql
  <2>5. PICK k \in Nat : k = score[f] + 1 /\ k <= n + 1
    BY <2>3
  <2>6. /\ Members' = Members /\ Settled(f)' /\ RowsOf(f)' # {}
        /\ \A r, s \in RowsOf(f)' : r = s
        /\ \A g \in Files \ {f} : SameFile(g)
    BY <1>7, <2>1, <2>4, <2>5
  <2>. QED  BY <1>1, <1>2, <2>4, <2>6, FinishEnds, LocalAgreement
<1>10. CASE ViewHset(w)
  <2>1. Settled(f) /\ RowsOf(f) # {}
    BY <1>1, <1>10 DEF ViewHset, At, Promise
  <2>2. f \in names
    BY <2>1, SharedIs DEF Settled, Mirrored
  <2>3. rows' = rows /\ marked' = marked /\ score' = score /\ names' = names /\ Finish(w)
    BY <1>1, <1>10, <2>2 DEF ViewHset, mysql
  <2>. QED  BY <1>1, <1>2, <2>1, <2>3, FinishEnds, QuietAgreement
<1>. QED  BY <1>4, <1>5, <1>6, <1>8, <1>9, <1>10 DEF View

LEMMA InitCalm == Init => CalmInv
<1>. SUFFICES ASSUME Init PROVE Agreement
  BY DEF CalmInv
<1>1. rows = {} /\ marked = {} /\ Members = {} /\ names = {}
  BY DEF Init, Members
<1>2. \A w \in Workers : job[w] = Idle /\ ~Changes(w) /\ Op(w) = "none" /\ At(w, "idle")
  BY DEF Init, Idle, NoRequest, Changes, Op, At
<1>3. \A f : Settled(f)
  BY <1>1 DEF Settled, Mirrored, Shared, Sharers, Marks, Scored, RowsOf
<1>4. OneRow /\ Apart
  BY <1>1, <1>2 DEF OneRow, Apart
<1>. QED  BY <1>2, <1>3, <1>4 DEF Agreement, Idle

LEMMA CalmStep ==
  ASSUME TypeOK, CalmInv, [Next]_vars
  PROVE  CalmInv'
<1>1. TypeOK' /\ calm' = calm
  BY TypeStep DEF Next, vars, Request, StatementFails, Crash, Share, Cancel, Delete, View, List,
     ShareZsetExit, ShareReadRows, ShareMark, ShareInsertRow, ShareZadd, ShareHset,
     CancelMark, CancelRows, CancelZrem, CancelHdel,
     DeleteReadStatus, DeleteZrem, DeleteHdel, DeleteShareRows, DeleteRows,
     ViewRead, ViewWrite, ViewZsetExit, ViewZadd, ViewHset, ViewIncr,
     ListCount, ListZcard, ListDelZset, ListDelHash, ListImport, ListRange, ListName, ListScore
<1>. SUFFICES ASSUME calm, Agreement PROVE Agreement'
  BY <1>1 DEF CalmInv
<1>2. CASE UNCHANGED vars
  <2>1. job' = job /\ rows' = rows /\ marked' = marked /\ score' = score /\ names' = names
    BY <1>2 DEF vars, mysql, redis
  <2>2. \A f : SameFile(f)
    BY <2>1, Unchanged
  <2>3. OneRow' /\ Apart'
    BY <2>1 DEF Agreement, OneRow, Apart, At
  <2>4. \A f \in Files : Untouched(f)' => Settled(f)'
    BY <2>1, <2>2, SameFileKeeps DEF Agreement, Untouched, Changes, Op, File
  <2>5. ASSUME NEW v \in Workers, Changes(v)'
        PROVE  Promise(File(v), User(v), job[v].pc, job[v].n)'
    <3>1. PICK f, x, l, n : f = File(v) /\ x = User(v) /\ l = job[v].pc /\ n = job[v].n
      OBVIOUS
    <3>2. Changes(v) /\ f = job'[v].req.file /\ x = job'[v].req.user /\ l = job'[v].pc /\ n = job'[v].n
      BY <2>1, <2>5, <3>1 DEF Changes, Op, File, User
    <3>3. Promise(f, x, l, n)'
      BY <2>2, <3>1, <3>2, SameFileKeeps DEF Agreement
    <3>. QED  BY <3>2, <3>3 DEF File, User
  <2>6. \A v \in Workers : (IF Op(v) = "list" THEN Listing(v) ELSE job[v].page = {})'
    BY <2>1 DEF Agreement, Op, Listing, At, Members
  <2>. QED  BY <2>3, <2>4, <2>5, <2>6 DEF Agreement
<1>3. CASE Next
  <2>1. ASSUME NEW w \in Workers, NEW q \in Requests, Request(w, q) PROVE Agreement'
    BY <1>1, <2>1, CalmRequest
  <2>2. ASSUME NEW w \in Workers, Share(w) \/ Cancel(w) \/ Delete(w) \/ View(w) \/ List(w)
        PROVE  Agreement'
    BY <1>1, <2>2, CalmShare, CalmCancel, CalmDelete, CalmView, CalmList
  <2>3. ~Crash /\ \A w \in Workers : ~StatementFails(w)
    BY DEF Crash, StatementFails
  <2>. QED  BY <1>3, <2>1, <2>2, <2>3 DEF Next
<1>. QED  BY <1>2, <1>3

\* What the three properties say, in the states of the invariant.
LEMMA CalmSays ==
  ASSUME TypeOK, CalmInv
  PROVE  RankingAgrees /\ ScoreNotAhead /\ ListingSucceeds
<1>. SUFFICES ASSUME calm PROVE RankingAgrees /\ ScoreNotAhead /\ ListingSucceeds
  BY DEF RankingAgrees, ScoreNotAhead, ListingSucceeds
<1>1. Agreement
  BY DEF CalmInv
<1>2. \A f \in Files : Untouched(f) => Settled(f)
  BY <1>1 DEF Agreement
<1>3. RankingAgrees
  <2>1. ASSUME NEW f \in Files, Untouched(f)
        PROVE  /\ (f \in Members) = (f \in Shared)
               /\ (f \in names) = (f \in Shared)
               /\ {r.user : r \in RowsOf(f)} = {u \in Users : <<u, f>> \in marked}
    <3>1. Mirrored(f) /\ Sharers(f) = Marks(f)
      BY <1>2, <2>1 DEF Settled
    <3>2. (f \in Members) = (f \in Shared)
      BY <3>1 DEF Mirrored
    <3>3. (f \in names) = (f \in Shared)
      BY <3>1 DEF Mirrored
    <3>. QED  BY <3>1, <3>2, <3>3, Zenon DEF Sharers, Marks
  <2>. QED  BY <2>1, Zenon DEF RankingAgrees
<1>4. ScoreNotAhead
  BY <1>2 DEF ScoreNotAhead, Settled, Scored
<1>5. ASSUME NEW w \in Workers PROVE ~At(w, "ls_delz") /\ job[w].page \subseteq names \cap Members
  <2>1. CASE Op(w) = "list"
    BY <1>1, <2>1 DEF Agreement, Listing, At
  <2>2. CASE Op(w) # "list"
    BY <1>1, <2>2, AtOp DEF Agreement, TypeOK, LabelsOf
  <2>. QED  BY <2>1, <2>2
<1>. QED  BY <1>3, <1>4, <1>5 DEF ListingSucceeds

LEMMA CalmAlways == Spec => [](TypeOK /\ CalmInv)
<1>1. Init => TypeOK /\ CalmInv
  BY InitTyped, InitCalm
<1>2. (TypeOK /\ CalmInv) /\ [Next]_vars => (TypeOK /\ CalmInv)'
  BY TypeStep, CalmStep
<1>. QED  BY <1>1, <1>2, PTL DEF Spec

\* In calm, the four places say the same of every file no request is about.
THEOREM RankingAgree == Spec => []RankingAgrees
<1>1. TypeOK /\ CalmInv => RankingAgrees
  BY CalmSays
<1>. QED  BY <1>1, CalmAlways, PTL

\* In calm, redis never shows more page views of such a file than MySQL.
THEOREM RankingScoreNotAhead == Spec => []ScoreNotAhead
<1>1. TypeOK /\ CalmInv => ScoreNotAhead
  BY CalmSays
<1>. QED  BY <1>1, CalmAlways, PTL

\* In calm, a listing finds as many members as rows and a name and a score of
\* each, whatever is viewed meanwhile: it is never led to start redis anew.
THEOREM RankingListingSucceeds == Spec => []ListingSucceeds
<1>1. TypeOK /\ CalmInv => ListingSucceeds
  BY CalmSays
<1>. QED  BY <1>1, CalmAlways, PTL
=============================================================================
