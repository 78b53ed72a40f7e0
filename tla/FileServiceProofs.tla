------------------------- MODULE FileServiceProofs -------------------------
(***************************************************************************)
(* Theorems about the catalogue handlers, for any number of workers, users *)
(* and files.  Three inductive invariants, each resting on the one before: *)
(*   IInv      the file a handler is about to enter is in no row and in no *)
(*             other handler's hands, the file it is about to remove is in *)
(*             no row that stays;                                          *)
(*   CountInv  where a file has one row and one handler at a time, how the *)
(*             count in the row, the count in the handler's hand and the   *)
(*             number of users' rows compare at each place of a handler;   *)
(*   CalmInv   if besides nothing fails, they differ by exactly what the   *)
(*             handler has still to do, a file is in a row or in a         *)
(*             handler's hands, and who is about to share found no share.  *)
(* From the second follows that the catalogue implements RefCatalog.       *)
(***************************************************************************)
EXTENDS FileService, TLAPS, FiniteSetTheorems

LEMMA GoTyped ==
  ASSUME JobsOK, NEW w \in Workers, ~At(w, "idle"),
         NEW l \in Labels, l # "de_dec", Go(w, l), made' = made
  PROVE  JobsOK'
  BY DEF JobsOK, Jobs, Go, At, Key

LEMMA KeepTyped ==
  ASSUME JobsOK, NEW w \in Workers, ~At(w, "idle"),
         NEW l \in Labels, NEW c \in Nat, l = "de_dec" => c > 0,
         Keep(w, l, c), made' = made
  PROVE  JobsOK'
  BY DEF JobsOK, Jobs, Keep, At, Key

LEMMA HoldTyped ==
  ASSUME JobsOK, made \in Nat, made' \in Nat, made <= made',
         NEW w \in Workers, ~At(w, "idle"),
         NEW l \in Labels, l # "de_dec", NEW o \in 0..made', Hold(w, l, o)
  PROVE  JobsOK'
<1>1. \A j \in Jobs : j \in Jobs'
  BY DEF Jobs
<1>2. \A j \in Jobs : [j EXCEPT !.pc = l, !.obj = o] \in Jobs'
  BY DEF Jobs
<1>3. job[w] \in Jobs /\ [job[w] EXCEPT !.pc = l, !.obj = o].key = job[w].key
      /\ [job[w] EXCEPT !.pc = l, !.obj = o].pc = l
  BY DEF JobsOK, Jobs
<1>4. job' = [job EXCEPT ![w] = [job[w] EXCEPT !.pc = l, !.obj = o]]
  BY DEF JobsOK, Hold
<1>. QED
  BY <1>1, <1>2, <1>3, <1>4 DEF JobsOK, At, Key

LEMMA FinishTyped ==
  ASSUME JobsOK, made \in Nat, NEW w \in Workers, Finish(w), made' = made
  PROVE  JobsOK'
<1>1. Idle \in Jobs
  BY DEF Jobs, Idle, Labels
<1>2. Jobs' = Jobs
  BY DEF Jobs
<1>. QED
  BY <1>1, <1>2 DEF JobsOK, Finish, At, Key, Idle

LEMMA SetCountTyped ==
  ASSUME TablesOK, NEW m \in Md5s, NEW c \in Nat, SetCount(m, c)
  PROVE  file_info' \in [Md5s -> SUBSET [count : Nat, obj : 0..made]]
  BY DEF TablesOK, SetCount

LEMMA KeyTyped ==
  ASSUME JobsOK, NEW w \in Workers, ~At(w, "idle")
  PROVE  Key(w) \in Keys /\ Md5Of(Key(w)) \in Md5s /\ Key(w)[1] \in Users
         /\ FileId(Key(w)) \in FileIds /\ job[w] \in Jobs
  BY DEF JobsOK, Keys, Md5Of, FileId, FileIds

LEMMA RowTyped ==
  ASSUME TablesOK, NEW m \in Md5s, NEW r \in file_info[m]
  PROVE  r \in [count : Nat, obj : 0..made] /\ r.count \in Nat /\ r.obj \in 0..made
  BY DEF TablesOK

-----------------------------------------------------------------------------
(* Type correctness *)

LEMMA TypeStep == ASSUME TypeOK, [Next]_vars PROVE TypeOK'
<1>. USE DEF TypeOK, db, redis, fdfs, budget
<1>1. ASSUME NEW w \in Workers, UploadStore(w) PROVE TypeOK'
  <2>1. ~At(w, "idle")
    BY <1>1 DEF UploadStore, At
  <2>2. TablesOK'
    BY <1>1, <2>1, KeyTyped, SetCountTyped DEF TablesOK, UploadStore
  <2>3. JobsOK'
    BY <1>1, <2>1, HoldTyped DEF TablesOK, Labels, UploadStore
  <2>. QED
    BY <2>2, <2>3
<1>2. ASSUME NEW w \in Workers, UploadInsertInfo(w) PROVE TypeOK'
  <2>1. ~At(w, "idle")
    BY <1>2 DEF UploadInsertInfo, At
  <2>2. TablesOK'
    <3>1. job[w].obj \in 0..made
      BY <2>1, KeyTyped DEF Jobs
    <3>. QED
      BY <1>2, <2>1, KeyTyped, <3>1 DEF TablesOK, UploadInsertInfo
  <2>3. JobsOK'
    BY <1>2, <2>1, GoTyped, FinishTyped DEF TablesOK, Labels, UploadInsertInfo
  <2>. QED
    BY <2>2, <2>3
<1>3. ASSUME NEW w \in Workers, UploadInsertRow(w) PROVE TypeOK'
  <2>1. ~At(w, "idle")
    BY <1>3 DEF UploadInsertRow, At
  <2>2. TablesOK'
    BY <1>3, <2>1, KeyTyped, SetCountTyped DEF TablesOK, UploadInsertRow, InsertOwn
  <2>3. JobsOK'
    BY <1>3, <2>1, GoTyped, FinishTyped DEF TablesOK, Labels, UploadInsertRow
  <2>. QED
    BY <2>2, <2>3
<1>4. ASSUME NEW w \in Workers, Md5ReadCount(w) PROVE TypeOK'
  <2>1. ~At(w, "idle")
    BY <1>4 DEF Md5ReadCount, At
  <2>2. TablesOK'
    BY <1>4, <2>1, KeyTyped, SetCountTyped DEF TablesOK, Md5ReadCount
  <2>3. JobsOK'
    BY <1>4, <2>1, KeyTyped, RowTyped, KeepTyped, FinishTyped
       DEF TablesOK, Labels, ReadCount, Md5ReadCount
  <2>. QED
    BY <2>2, <2>3
<1>5. ASSUME NEW w \in Workers, Md5CheckOwner(w) PROVE TypeOK'
  <2>1. ~At(w, "idle")
    BY <1>5 DEF Md5CheckOwner, At
  <2>2. TablesOK'
    BY <1>5, <2>1, KeyTyped, SetCountTyped DEF TablesOK, Md5CheckOwner
  <2>3. JobsOK'
    BY <1>5, <2>1, GoTyped, FinishTyped DEF TablesOK, Labels, Md5CheckOwner
  <2>. QED
    BY <2>2, <2>3
<1>6. ASSUME NEW w \in Workers, Md5Increment(w) PROVE TypeOK'
  <2>1. ~At(w, "idle")
    BY <1>6 DEF Md5Increment, At
  <2>2. TablesOK'
    <3>1. job[w].count \in Nat /\ (At(w, "de_dec") => job[w].count - 1 \in Nat)
      BY <2>1 DEF JobsOK, Jobs
    <3>2. file_info' \in [Md5s -> SUBSET [count : Nat, obj : 0..made]]
      BY <1>6, <2>1, <3>1, KeyTyped, SetCountTyped DEF TablesOK, Md5Increment
    <3>. QED
      BY <1>6, <3>2 DEF TablesOK, Md5Increment
  <2>3. JobsOK'
    BY <1>6, <2>1, GoTyped, FinishTyped DEF TablesOK, Labels, Md5Increment
  <2>. QED
    BY <2>2, <2>3
<1>7. ASSUME NEW w \in Workers, Md5InsertRow(w) PROVE TypeOK'
  <2>1. ~At(w, "idle")
    BY <1>7 DEF Md5InsertRow, At
  <2>2. TablesOK'
    BY <1>7, <2>1, KeyTyped, SetCountTyped DEF TablesOK, Md5InsertRow, InsertOwn
  <2>3. JobsOK'
    BY <1>7, <2>1, GoTyped, FinishTyped DEF TablesOK, Labels, Md5InsertRow
  <2>. QED
    BY <2>2, <2>3
<1>8. ASSUME NEW w \in Workers, Md5CountUser(w) PROVE TypeOK'
  <2>1. ~At(w, "idle")
    BY <1>8 DEF Md5CountUser, At
  <2>2. TablesOK'
    BY <1>8, <2>1, KeyTyped, SetCountTyped DEF TablesOK, Md5CountUser
  <2>3. JobsOK'
    BY <1>8, <2>1, GoTyped, FinishTyped DEF TablesOK, Labels, Md5CountUser
  <2>. QED
    BY <2>2, <2>3
<1>9. ASSUME NEW w \in Workers, Md5Restore(w) PROVE TypeOK'
  <2>1. ~At(w, "idle")
    BY <1>9 DEF Md5Restore, At
  <2>2. TablesOK'
    <3>1. job[w].count \in Nat /\ (At(w, "de_dec") => job[w].count - 1 \in Nat)
      BY <2>1 DEF JobsOK, Jobs
    <3>2. file_info' \in [Md5s -> SUBSET [count : Nat, obj : 0..made]]
      BY <1>9, <2>1, <3>1, KeyTyped, SetCountTyped DEF TablesOK, Md5Restore
    <3>. QED
      BY <1>9, <3>2 DEF TablesOK, Md5Restore
  <2>3. JobsOK'
    BY <1>9, <2>1, GoTyped, FinishTyped DEF TablesOK, Labels, Md5Restore
  <2>. QED
    BY <2>2, <2>3
<1>10. ASSUME NEW w \in Workers, SaveCheckOwner(w) PROVE TypeOK'
  <2>1. ~At(w, "idle")
    BY <1>10 DEF SaveCheckOwner, At
  <2>2. TablesOK'
    BY <1>10, <2>1, KeyTyped, SetCountTyped DEF TablesOK, SaveCheckOwner
  <2>3. JobsOK'
    BY <1>10, <2>1, GoTyped, FinishTyped DEF TablesOK, Labels, SaveCheckOwner
  <2>. QED
    BY <2>2, <2>3
<1>11. ASSUME NEW w \in Workers, SaveReadCount(w) PROVE TypeOK'
  <2>1. ~At(w, "idle")
    BY <1>11 DEF SaveReadCount, At
  <2>2. TablesOK'
    BY <1>11, <2>1, KeyTyped, SetCountTyped DEF TablesOK, SaveReadCount
  <2>3. JobsOK'
    BY <1>11, <2>1, KeyTyped, RowTyped, KeepTyped, FinishTyped
       DEF TablesOK, Labels, ReadCount, SaveReadCount
  <2>. QED
    BY <2>2, <2>3
<1>12. ASSUME NEW w \in Workers, SaveIncrement(w) PROVE TypeOK'
  <2>1. ~At(w, "idle")
    BY <1>12 DEF SaveIncrement, At
  <2>2. TablesOK'
    <3>1. job[w].count \in Nat /\ (At(w, "de_dec") => job[w].count - 1 \in Nat)
      BY <2>1 DEF JobsOK, Jobs
    <3>2. file_info' \in [Md5s -> SUBSET [count : Nat, obj : 0..made]]
      BY <1>12, <2>1, <3>1, KeyTyped, SetCountTyped DEF TablesOK, SaveIncrement
    <3>. QED
      BY <1>12, <3>2 DEF TablesOK, SaveIncrement
  <2>3. JobsOK'
    BY <1>12, <2>1, GoTyped, FinishTyped DEF TablesOK, Labels, SaveIncrement
  <2>. QED
    BY <2>2, <2>3
<1>13. ASSUME NEW w \in Workers, SaveInsertRow(w) PROVE TypeOK'
  <2>1. ~At(w, "idle")
    BY <1>13 DEF SaveInsertRow, At
  <2>2. TablesOK'
    BY <1>13, <2>1, KeyTyped, SetCountTyped DEF TablesOK, SaveInsertRow, InsertOwn
  <2>3. JobsOK'
    BY <1>13, <2>1, GoTyped, FinishTyped DEF TablesOK, Labels, SaveInsertRow
  <2>. QED
    BY <2>2, <2>3
<1>14. ASSUME NEW w \in Workers, DeleteReadStatus(w) PROVE TypeOK'
  <2>1. ~At(w, "idle")
    BY <1>14 DEF DeleteReadStatus, At
  <2>2. TablesOK'
    BY <1>14, <2>1, KeyTyped, SetCountTyped DEF TablesOK, DeleteReadStatus
  <2>3. JobsOK'
    BY <1>14, <2>1, GoTyped, FinishTyped DEF TablesOK, Labels, DeleteReadStatus
  <2>. QED
    BY <2>2, <2>3
<1>15. ASSUME NEW w \in Workers, DeleteZrem(w) PROVE TypeOK'
  <2>1. ~At(w, "idle")
    BY <1>15 DEF DeleteZrem, At
  <2>2. TablesOK'
    BY <1>15, <2>1, KeyTyped, SetCountTyped DEF TablesOK, DeleteZrem
  <2>3. JobsOK'
    BY <1>15, <2>1, GoTyped, FinishTyped DEF TablesOK, Labels, DeleteZrem
  <2>. QED
    BY <2>2, <2>3
<1>16. ASSUME NEW w \in Workers, DeleteHdel(w) PROVE TypeOK'
  <2>1. ~At(w, "idle")
    BY <1>16 DEF DeleteHdel, At
  <2>2. TablesOK'
    BY <1>16, <2>1, KeyTyped, SetCountTyped DEF TablesOK, DeleteHdel
  <2>3. JobsOK'
    BY <1>16, <2>1, GoTyped, FinishTyped DEF TablesOK, Labels, DeleteHdel
  <2>. QED
    BY <2>2, <2>3
<1>17. ASSUME NEW w \in Workers, DeleteShareRows(w) PROVE TypeOK'
  <2>1. ~At(w, "idle")
    BY <1>17 DEF DeleteShareRows, At
  <2>2. TablesOK'
    BY <1>17, <2>1, KeyTyped, SetCountTyped DEF TablesOK, DeleteShareRows
  <2>3. JobsOK'
    BY <1>17, <2>1, GoTyped, FinishTyped DEF TablesOK, Labels, DeleteShareRows
  <2>. QED
    BY <2>2, <2>3
<1>18. ASSUME NEW w \in Workers, DeleteRows(w) PROVE TypeOK'
  <2>1. ~At(w, "idle")
    BY <1>18 DEF DeleteRows, At
  <2>2. TablesOK'
    BY <1>18, <2>1, KeyTyped, SetCountTyped DEF TablesOK, DeleteRows
  <2>3. JobsOK'
    BY <1>18, <2>1, GoTyped, FinishTyped DEF TablesOK, Labels, DeleteRows
  <2>. QED
    BY <2>2, <2>3
<1>19. ASSUME NEW w \in Workers, DeleteReadCount(w) PROVE TypeOK'
  <2>1. ~At(w, "idle")
    BY <1>19 DEF DeleteReadCount, At
  <2>2. TablesOK'
    BY <1>19, <2>1, KeyTyped, SetCountTyped DEF TablesOK, DeleteReadCount
  <2>3. JobsOK'
    BY <1>19, <2>1, KeyTyped, RowTyped, KeepTyped, FinishTyped
       DEF TablesOK, Labels, ReadCount, DeleteReadCount
  <2>. QED
    BY <2>2, <2>3
<1>20. ASSUME NEW w \in Workers, DeleteDecrement(w) PROVE TypeOK'
  <2>1. ~At(w, "idle")
    BY <1>20 DEF DeleteDecrement, At
  <2>2. TablesOK'
    <3>1. job[w].count \in Nat /\ (At(w, "de_dec") => job[w].count - 1 \in Nat)
      BY <2>1 DEF JobsOK, Jobs
    <3>2. file_info' \in [Md5s -> SUBSET [count : Nat, obj : 0..made]]
      BY <1>20, <2>1, <3>1, KeyTyped, SetCountTyped DEF TablesOK, DeleteDecrement
    <3>. QED
      BY <1>20, <3>2 DEF TablesOK, DeleteDecrement
  <2>3. JobsOK'
    BY <1>20, <2>1, GoTyped, FinishTyped DEF TablesOK, Labels, DeleteDecrement
  <2>. QED
    BY <2>2, <2>3
<1>21. ASSUME NEW w \in Workers, DeleteReadFileId(w) PROVE TypeOK'
  <2>1. ~At(w, "idle")
    BY <1>21 DEF DeleteReadFileId, At
  <2>2. TablesOK'
    BY <1>21, <2>1, KeyTyped, SetCountTyped DEF TablesOK, DeleteReadFileId
  <2>3. JobsOK'
    BY <1>21, <2>1, KeyTyped, RowTyped, HoldTyped DEF TablesOK, Labels, DeleteReadFileId
  <2>. QED
    BY <2>2, <2>3
<1>22. ASSUME NEW w \in Workers, DeleteInfo(w) PROVE TypeOK'
  <2>1. ~At(w, "idle")
    BY <1>22 DEF DeleteInfo, At
  <2>2. TablesOK'
    BY <1>22, <2>1, KeyTyped, SetCountTyped DEF TablesOK, DeleteInfo
  <2>3. JobsOK'
    BY <1>22, <2>1, GoTyped, FinishTyped DEF TablesOK, Labels, DeleteInfo
  <2>. QED
    BY <2>2, <2>3
<1>23. ASSUME NEW w \in Workers, DeleteObject(w) PROVE TypeOK'
  <2>1. ~At(w, "idle")
    BY <1>23 DEF DeleteObject, At
  <2>2. TablesOK'
    BY <1>23, <2>1, KeyTyped, SetCountTyped DEF TablesOK, DeleteObject
  <2>3. JobsOK'
    BY <1>23, <2>1, GoTyped, FinishTyped DEF TablesOK, Labels, DeleteObject
  <2>. QED
    BY <2>2, <2>3
<1>24. ASSUME NEW w \in Workers, ShareZsetExit(w) PROVE TypeOK'
  <2>1. ~At(w, "idle")
    BY <1>24 DEF ShareZsetExit, At
  <2>2. TablesOK'
    BY <1>24, <2>1, KeyTyped, SetCountTyped DEF TablesOK, ShareZsetExit
  <2>3. JobsOK'
    BY <1>24, <2>1, GoTyped, FinishTyped DEF TablesOK, Labels, ShareZsetExit
  <2>. QED
    BY <2>2, <2>3
<1>25. ASSUME NEW w \in Workers, ShareReadRows(w) PROVE TypeOK'
  <2>1. ~At(w, "idle")
    BY <1>25 DEF ShareReadRows, At
  <2>2. TablesOK'
    BY <1>25, <2>1, KeyTyped, SetCountTyped DEF TablesOK, ShareReadRows
  <2>3. JobsOK'
    BY <1>25, <2>1, GoTyped, FinishTyped DEF TablesOK, Labels, ShareReadRows
  <2>. QED
    BY <2>2, <2>3
<1>26. ASSUME NEW w \in Workers, ShareMark(w) PROVE TypeOK'
  <2>1. ~At(w, "idle")
    BY <1>26 DEF ShareMark, At
  <2>2. TablesOK'
    BY <1>26, <2>1, KeyTyped, SetCountTyped DEF TablesOK, ShareMark, MarkShared, Rows
  <2>3. JobsOK'
    BY <1>26, <2>1, GoTyped, FinishTyped DEF TablesOK, Labels, ShareMark
  <2>. QED
    BY <2>2, <2>3
<1>27. ASSUME NEW w \in Workers, ShareInsertRow(w) PROVE TypeOK'
  <2>1. ~At(w, "idle")
    BY <1>27 DEF ShareInsertRow, At
  <2>2. TablesOK'
    BY <1>27, <2>1, KeyTyped, SetCountTyped DEF TablesOK, ShareInsertRow
  <2>3. JobsOK'
    BY <1>27, <2>1, GoTyped, FinishTyped DEF TablesOK, Labels, ShareInsertRow
  <2>. QED
    BY <2>2, <2>3
<1>28. ASSUME NEW w \in Workers, ShareZadd(w) PROVE TypeOK'
  <2>1. ~At(w, "idle")
    BY <1>28 DEF ShareZadd, At
  <2>2. TablesOK'
    BY <1>28, <2>1, KeyTyped, SetCountTyped DEF TablesOK, ShareZadd
  <2>3. JobsOK'
    BY <1>28, <2>1, GoTyped, FinishTyped DEF TablesOK, Labels, ShareZadd
  <2>. QED
    BY <2>2, <2>3
<1>29. ASSUME NEW w \in Workers, ShareHset(w) PROVE TypeOK'
  <2>1. ~At(w, "idle")
    BY <1>29 DEF ShareHset, At
  <2>2. TablesOK'
    BY <1>29, <2>1, KeyTyped, SetCountTyped DEF TablesOK, ShareHset
  <2>3. JobsOK'
    BY <1>29, <2>1, GoTyped, FinishTyped DEF TablesOK, Labels, ShareHset
  <2>. QED
    BY <2>2, <2>3
<1>30. ASSUME NEW w \in Workers, CancelMark(w) PROVE TypeOK'
  <2>1. ~At(w, "idle")
    BY <1>30 DEF CancelMark, At
  <2>2. TablesOK'
    BY <1>30, <2>1, KeyTyped, SetCountTyped DEF TablesOK, CancelMark, MarkShared, Rows
  <2>3. JobsOK'
    BY <1>30, <2>1, GoTyped, FinishTyped DEF TablesOK, Labels, CancelMark
  <2>. QED
    BY <2>2, <2>3
<1>31. ASSUME NEW w \in Workers, CancelRows(w) PROVE TypeOK'
  <2>1. ~At(w, "idle")
    BY <1>31 DEF CancelRows, At
  <2>2. TablesOK'
    BY <1>31, <2>1, KeyTyped, SetCountTyped DEF TablesOK, CancelRows
  <2>3. JobsOK'
    BY <1>31, <2>1, GoTyped, FinishTyped DEF TablesOK, Labels, CancelRows
  <2>. QED
    BY <2>2, <2>3
<1>32. ASSUME NEW w \in Workers, CancelZrem(w) PROVE TypeOK'
  <2>1. ~At(w, "idle")
    BY <1>32 DEF CancelZrem, At
  <2>2. TablesOK'
    BY <1>32, <2>1, KeyTyped, SetCountTyped DEF TablesOK, CancelZrem
  <2>3. JobsOK'
    BY <1>32, <2>1, GoTyped, FinishTyped DEF TablesOK, Labels, CancelZrem
  <2>. QED
    BY <2>2, <2>3
<1>33. ASSUME NEW w \in Workers, CancelHdel(w) PROVE TypeOK'
  <2>1. ~At(w, "idle")
    BY <1>33 DEF CancelHdel, At
  <2>2. TablesOK'
    BY <1>33, <2>1, KeyTyped, SetCountTyped DEF TablesOK, CancelHdel
  <2>3. JobsOK'
    BY <1>33, <2>1, GoTyped, FinishTyped DEF TablesOK, Labels, CancelHdel
  <2>. QED
    BY <2>2, <2>3
<1>34. ASSUME NEW w \in Workers, StatementFails(w) PROVE TypeOK'
  <2>1. ~At(w, "idle")
    BY <1>34 DEF StatementFails, GivesUp, GoesOn, At
  <2>2. TablesOK'
    BY <1>34 DEF TablesOK, StatementFails
  <2>3. CASE job[w].pc \in GivesUp /\ Finish(w)
    BY <1>34, <2>2, <2>3, FinishTyped DEF TablesOK, StatementFails
  <2>4. CASE job[w].pc \in DOMAIN GoesOn /\ Go(w, GoesOn[job[w].pc])
    <3>1. GoesOn[job[w].pc] \in Labels \ {"de_dec"}
      BY <2>4 DEF GoesOn, Labels
    <3>. QED
      BY <1>34, <2>1, <2>2, <2>4, <3>1, GoTyped DEF StatementFails
  <2>. QED
    BY <1>34, <2>3, <2>4 DEF StatementFails
<1>35. ASSUME NEW w \in Workers, NEW op \in DOMAIN First, NEW k \in Keys, Request(w, op, k)
       PROVE TypeOK'
  <2>1. TablesOK'
    BY <1>35 DEF TablesOK, Request
  <2>2. First[op] \in Labels \ {"de_dec"}
    BY DEF First, Labels
  <2>3. [pc |-> First[op], key |-> k, count |-> 0, obj |-> 0] \in Jobs
    BY <2>2 DEF Jobs, TablesOK
  <2>4. JobsOK'
    BY <1>35, <2>2, <2>3 DEF TablesOK, JobsOK, Jobs, Request, At, Key
  <2>. QED
    BY <2>1, <2>4
<1>36. CASE Crash
  BY <1>36 DEF Crash, TablesOK, JobsOK, Jobs, Idle, Labels, At, Key
<1>37. CASE UNCHANGED vars
  BY <1>37 DEF vars, TablesOK, JobsOK, Jobs, At, Key
<1>. QED
  BY <1>1, <1>2, <1>3, <1>4, <1>5, <1>6, <1>7, <1>8, <1>9, <1>10, <1>11, <1>12, <1>13, <1>14, <1>15, <1>16, <1>17, <1>18, <1>19, <1>20, <1>21, <1>22, <1>23, <1>24, <1>25, <1>26, <1>27, <1>28, <1>29, <1>30, <1>31, <1>32, <1>33, <1>34, <1>35, <1>36, <1>37 DEF Next, Step, Upload, Md5, Save, Delete, Share, Cancel

-----------------------------------------------------------------------------
(* NoDanglingRow *)

Handling == {"up_info", "de_info", "de_object"}

\* A step that names, stores and takes up no file changes nothing that
\* NoDanglingRow and what it rests on depend on.
LEMMA Elsewhere ==
  ASSUME IInv, NEW w \in Workers, objects' = objects,
         \A m \in Md5s : Named(m)' = Named(m),
         \A v \in Workers \ {w} : job'[v] = job[v],
         job'[w].pc \notin Handling
  PROVE  FilesSafe'
<1>. USE DEF IInv, FilesSafe
<1>1. NoDanglingRow'
  <2>1. \A m \in Md5s : Named(m) \subseteq objects
    BY DEF NoDanglingRow, Named
  <2>2. \A m \in Md5s : Named(m)' \subseteq objects'
    BY <2>1
  <2>. QED
    BY <2>2 DEF NoDanglingRow, Named
<1>2. ObjectsApart'
  BY DEF ObjectsApart
<1>3. FreshUpload'
  BY DEF FreshUpload, At, Handling
<1>4. DoomedFile'
  BY DEF DoomedFile, At, Key, Handling
<1>. QED
  BY <1>1, <1>2, <1>3, <1>4

LEMMA SafeGo ==
  ASSUME IInv, NEW w \in Workers, NEW l, l \notin Handling, Go(w, l),
         objects' = objects, \A m \in Md5s : Named(m)' = Named(m)
  PROVE  FilesSafe'
<1>1. job'[w].pc = l /\ \A v \in Workers \ {w} : job'[v] = job[v]
  BY DEF IInv, TypeOK, JobsOK, Jobs, Go
<1>. QED
  BY <1>1, Elsewhere

LEMMA SafeKeep ==
  ASSUME IInv, NEW w \in Workers, NEW l, NEW c, l \notin Handling, Keep(w, l, c),
         objects' = objects, \A m \in Md5s : Named(m)' = Named(m)
  PROVE  FilesSafe'
<1>1. job'[w].pc = l /\ \A v \in Workers \ {w} : job'[v] = job[v]
  BY DEF IInv, TypeOK, JobsOK, Jobs, Keep
<1>. QED
  BY <1>1, Elsewhere

LEMMA SafeFinish ==
  ASSUME IInv, NEW w \in Workers, Finish(w),
         objects' = objects, \A m \in Md5s : Named(m)' = Named(m)
  PROVE  FilesSafe'
<1>1. job'[w].pc = "idle" /\ \A v \in Workers \ {w} : job'[v] = job[v]
  BY DEF IInv, TypeOK, JobsOK, Jobs, Finish, Idle
<1>. QED
  BY <1>1, Elsewhere DEF Handling

\* A new count leaves the rows naming the same files.
LEMMA SetCountNames ==
  ASSUME TablesOK, NEW m \in Md5s, NEW c, SetCount(m, c)
  PROVE  \A n \in Md5s : Named(n)' = Named(n)
<1>. TAKE n \in Md5s
<1>1. CASE n = m
  <2>1. file_info'[n] = {[r EXCEPT !.count = c] : r \in file_info[n]}
    BY <1>1 DEF TablesOK, SetCount
  <2>2. \A r \in file_info[n] : [r EXCEPT !.count = c].obj = r.obj
    BY RowTyped
  <2>3. Named(n)' = {[r EXCEPT !.count = c].obj : r \in file_info[n]}
    BY <2>1 DEF Named
  <2>. QED
    BY <2>2, <2>3 DEF Named
<1>2. CASE n # m
  BY <1>2 DEF TablesOK, SetCount, Named
<1>. QED
  BY <1>1, <1>2

LEMMA SafeStep == ASSUME IInv, [Next]_vars PROVE FilesSafe'
<1>. USE DEF db, redis, fdfs, budget
<1>1. ASSUME NEW w \in Workers, UploadInsertRow(w) PROVE FilesSafe'
  BY <1>1, SafeGo, SafeFinish DEF Named, Handling, UploadInsertRow
<1>2. ASSUME NEW w \in Workers, Md5ReadCount(w) PROVE FilesSafe'
  BY <1>2, SafeKeep, SafeFinish DEF Named, Handling, Md5ReadCount, ReadCount
<1>3. ASSUME NEW w \in Workers, Md5CheckOwner(w) PROVE FilesSafe'
  BY <1>3, SafeGo, SafeFinish DEF Named, Handling, Md5CheckOwner
<1>4. ASSUME NEW w \in Workers, Md5Increment(w) PROVE FilesSafe'
  <2>1. \A m \in Md5s : Named(m)' = Named(m)
    BY <1>4, KeyTyped, SetCountNames DEF IInv, TypeOK, At, Named, Md5Increment
  <2>. QED
    BY <1>4, <2>1, SafeGo, SafeFinish DEF Handling, Md5Increment
<1>5. ASSUME NEW w \in Workers, Md5InsertRow(w) PROVE FilesSafe'
  BY <1>5, SafeGo, SafeFinish DEF Named, Handling, Md5InsertRow
<1>6. ASSUME NEW w \in Workers, Md5CountUser(w) PROVE FilesSafe'
  BY <1>6, SafeGo, SafeFinish DEF Named, Handling, Md5CountUser
<1>7. ASSUME NEW w \in Workers, Md5Restore(w) PROVE FilesSafe'
  <2>1. \A m \in Md5s : Named(m)' = Named(m)
    BY <1>7, KeyTyped, SetCountNames DEF IInv, TypeOK, At, Named, Md5Restore
  <2>. QED
    BY <1>7, <2>1, SafeGo, SafeFinish DEF Handling, Md5Restore
<1>8. ASSUME NEW w \in Workers, SaveCheckOwner(w) PROVE FilesSafe'
  BY <1>8, SafeGo, SafeFinish DEF Named, Handling, SaveCheckOwner
<1>9. ASSUME NEW w \in Workers, SaveReadCount(w) PROVE FilesSafe'
  BY <1>9, SafeKeep, SafeFinish DEF Named, Handling, SaveReadCount, ReadCount
<1>10. ASSUME NEW w \in Workers, SaveIncrement(w) PROVE FilesSafe'
  <2>1. \A m \in Md5s : Named(m)' = Named(m)
    BY <1>10, KeyTyped, SetCountNames DEF IInv, TypeOK, At, Named, SaveIncrement
  <2>. QED
    BY <1>10, <2>1, SafeGo, SafeFinish DEF Handling, SaveIncrement
<1>11. ASSUME NEW w \in Workers, SaveInsertRow(w) PROVE FilesSafe'
  BY <1>11, SafeGo, SafeFinish DEF Named, Handling, SaveInsertRow
<1>12. ASSUME NEW w \in Workers, DeleteReadStatus(w) PROVE FilesSafe'
  BY <1>12, SafeGo, SafeFinish DEF Named, Handling, DeleteReadStatus
<1>13. ASSUME NEW w \in Workers, DeleteZrem(w) PROVE FilesSafe'
  BY <1>13, SafeGo, SafeFinish DEF Named, Handling, DeleteZrem
<1>14. ASSUME NEW w \in Workers, DeleteHdel(w) PROVE FilesSafe'
  BY <1>14, SafeGo, SafeFinish DEF Named, Handling, DeleteHdel
<1>15. ASSUME NEW w \in Workers, DeleteShareRows(w) PROVE FilesSafe'
  BY <1>15, SafeGo, SafeFinish DEF Named, Handling, DeleteShareRows
<1>16. ASSUME NEW w \in Workers, DeleteRows(w) PROVE FilesSafe'
  BY <1>16, SafeGo, SafeFinish DEF Named, Handling, DeleteRows
<1>17. ASSUME NEW w \in Workers, DeleteReadCount(w) PROVE FilesSafe'
  BY <1>17, SafeKeep, SafeFinish DEF Named, Handling, DeleteReadCount, ReadCount
<1>18. ASSUME NEW w \in Workers, DeleteDecrement(w) PROVE FilesSafe'
  <2>1. \A m \in Md5s : Named(m)' = Named(m)
    BY <1>18, KeyTyped, SetCountNames DEF IInv, TypeOK, At, Named, DeleteDecrement
  <2>. QED
    BY <1>18, <2>1, SafeGo, SafeFinish DEF Handling, DeleteDecrement
<1>19. ASSUME NEW w \in Workers, ShareZsetExit(w) PROVE FilesSafe'
  BY <1>19, SafeGo, SafeFinish DEF Named, Handling, ShareZsetExit
<1>20. ASSUME NEW w \in Workers, ShareReadRows(w) PROVE FilesSafe'
  BY <1>20, SafeGo, SafeFinish DEF Named, Handling, ShareReadRows
<1>21. ASSUME NEW w \in Workers, ShareMark(w) PROVE FilesSafe'
  BY <1>21, SafeGo, SafeFinish DEF Named, Handling, ShareMark
<1>22. ASSUME NEW w \in Workers, ShareInsertRow(w) PROVE FilesSafe'
  BY <1>22, SafeGo, SafeFinish DEF Named, Handling, ShareInsertRow
<1>23. ASSUME NEW w \in Workers, ShareZadd(w) PROVE FilesSafe'
  BY <1>23, SafeGo, SafeFinish DEF Named, Handling, ShareZadd
<1>24. ASSUME NEW w \in Workers, ShareHset(w) PROVE FilesSafe'
  BY <1>24, SafeGo, SafeFinish DEF Named, Handling, ShareHset
<1>25. ASSUME NEW w \in Workers, CancelMark(w) PROVE FilesSafe'
  BY <1>25, SafeGo, SafeFinish DEF Named, Handling, CancelMark
<1>26. ASSUME NEW w \in Workers, CancelRows(w) PROVE FilesSafe'
  BY <1>26, SafeGo, SafeFinish DEF Named, Handling, CancelRows
<1>27. ASSUME NEW w \in Workers, CancelZrem(w) PROVE FilesSafe'
  BY <1>27, SafeGo, SafeFinish DEF Named, Handling, CancelZrem
<1>28. ASSUME NEW w \in Workers, CancelHdel(w) PROVE FilesSafe'
  BY <1>28, SafeGo, SafeFinish DEF Named, Handling, CancelHdel
\* The new file has a number of its own.
<1>29. ASSUME NEW w \in Workers, UploadStore(w) PROVE FilesSafe'
  <2>1. \A m \in Md5s : Named(m)' = Named(m) /\ Named(m) \subseteq objects
    BY <1>29 DEF UploadStore, Named, IInv, FilesSafe, NoDanglingRow
  <2>2. /\ made + 1 \notin objects /\ objects' = objects \cup {made + 1}
        /\ \A v \in Workers : job[v].obj # made + 1
    BY <1>29 DEF UploadStore, IInv, TypeOK, TablesOK, JobsOK, Jobs
  <2>3. /\ job'[w].pc = "up_info" /\ job'[w].obj = made + 1
        /\ \A v \in Workers \ {w} : job'[v] = job[v]
    BY <1>29 DEF UploadStore, Hold, IInv, TypeOK, JobsOK, Jobs
  <2>4. NoDanglingRow' /\ ObjectsApart'
    BY <2>1, <2>2, <1>29 DEF UploadStore, IInv, FilesSafe, NoDanglingRow, ObjectsApart
  <2>5. FreshUpload'
    BY <2>1, <2>2, <2>3 DEF IInv, FilesSafe, FreshUpload, At
  <2>6. DoomedFile'
    BY <2>1, <2>3 DEF IInv, FilesSafe, DoomedFile, At, Key
  <2>. QED
    BY <2>4, <2>5, <2>6 DEF FilesSafe
\* The file has been stored and no other handler holds it.
<1>30. ASSUME NEW w \in Workers, UploadInsertInfo(w) PROVE FilesSafe'
  <2>1. PICK m \in Md5s, o \in 0..made :
               At(w, "up_info") /\ m = Md5Of(Key(w)) /\ o = job[w].obj
    BY <1>30, KeyTyped DEF UploadInsertInfo, IInv, TypeOK, At, Jobs
  <2>2. CASE Finish(w) /\ UNCHANGED file_info
    BY <1>30, <2>2, SafeFinish DEF UploadInsertInfo, Named
  <2>3. CASE /\ file_info' = [file_info EXCEPT ![m] = @ \cup {[count |-> 1, obj |-> o]}]
             /\ Go(w, "up_row")
    <3>1. /\ Named(m)' = Named(m) \cup {o}
          /\ \A n \in Md5s \ {m} : Named(n)' = Named(n)
      <4>1. /\ file_info'[m] = file_info[m] \cup {[count |-> 1, obj |-> o]}
            /\ \A n \in Md5s \ {m} : file_info'[n] = file_info[n]
        BY <2>3 DEF IInv, TypeOK, TablesOK
      <4>2. [count |-> 1, obj |-> o].obj = o
        OBVIOUS
      <4>. QED
        BY <4>1, <4>2 DEF Named
    <3>2. job'[w].pc = "up_row" /\ \A v \in Workers \ {w} : job'[v] = job[v]
      BY <2>3 DEF Go, IInv, TypeOK, JobsOK, Jobs
    <3>3. /\ o \in objects /\ \A n \in Md5s : o \notin Named(n)
          /\ \A v \in Workers \ {w} : job[v].pc \in Handling => job[v].obj # o
      BY <2>1 DEF IInv, FilesSafe, FreshUpload, Handling
    <3>4. \A n \in Md5s : Named(n)' \subseteq objects'
      BY <1>30, <3>1, <3>3 DEF UploadInsertInfo, fdfs, IInv, FilesSafe, NoDanglingRow, Named
    <3>5. NoDanglingRow'
      BY <3>4 DEF NoDanglingRow, Named
    <3>6. ObjectsApart'
      BY <3>1, <3>3 DEF IInv, FilesSafe, ObjectsApart
    <3>7. FreshUpload'
      <4>. SUFFICES ASSUME NEW v \in Workers \ {w}, At(v, "up_info")
                    PROVE  /\ job[v].obj \in objects'
                           /\ \A n \in Md5s : job[v].obj \notin Named(n)'
                           /\ \A x \in Workers \ {v, w} :
                                job[x].pc \in Handling => job[x].obj # job[v].obj
        BY <3>2 DEF FreshUpload, At, Handling
      <4>1. job[v].obj # o
        BY <3>3 DEF At, Handling
      <4>. QED
        BY <1>30, <3>1, <4>1 DEF UploadInsertInfo, IInv, FilesSafe, FreshUpload, Handling
    <3>8. DoomedFile'
      <4>1. \A v \in Workers \ {w} : At(v, "de_info") \/ At(v, "de_object") => job[v].obj # o
        BY <3>3 DEF At, Handling
      <4>2. \A v \in Workers : At(v, "de_info")' \/ At(v, "de_object")' => v # w
        BY <3>2 DEF At
      <4>. QED
        BY <3>1, <3>2, <4>1, <4>2 DEF IInv, FilesSafe, DoomedFile, At, Key
    <3>. QED
      BY <3>5, <3>6, <3>7, <3>8 DEF FilesSafe
  <2>. QED
    BY <1>30, <2>1, <2>2, <2>3 DEF UploadInsertInfo
\* The file read is named by rows of this md5 only.
<1>31. ASSUME NEW w \in Workers, DeleteReadFileId(w) PROVE FilesSafe'
  <2>1. PICK m \in Md5s : At(w, "de_fileid") /\ m = Md5Of(Key(w))
    BY <1>31, KeyTyped DEF DeleteReadFileId, IInv, TypeOK, At
  <2>2. /\ \A n \in Md5s : Named(n)' = Named(n) /\ Named(n) \subseteq objects
        /\ objects' = objects /\ 0 \notin objects
    BY <1>31 DEF DeleteReadFileId, Named, IInv, FilesSafe, NoDanglingRow, TypeOK, TablesOK
  <2>3. PICK o : Hold(w, "de_info", o) /\ (o = 0 \/ o \in Named(m))
    BY <1>31, <2>1 DEF DeleteReadFileId, Named
  <2>4. /\ job'[w].pc = "de_info" /\ job'[w].obj = o /\ job'[w].key = job[w].key
        /\ \A v \in Workers \ {w} : job'[v] = job[v]
    BY <2>3 DEF Hold, IInv, TypeOK, JobsOK, Jobs
  <2>5. NoDanglingRow' /\ ObjectsApart'
    BY <1>31, <2>2 DEF DeleteReadFileId, IInv, FilesSafe, NoDanglingRow, ObjectsApart
  <2>6. FreshUpload'
    <3>1. \A v \in Workers : At(v, "up_info") => job[v].obj # o
      BY <2>1, <2>2, <2>3 DEF IInv, FilesSafe, FreshUpload
    <3>. QED
      BY <2>2, <2>4, <3>1 DEF IInv, FilesSafe, FreshUpload, At
  <2>7. DoomedFile'
    <3>1. \A n \in Md5s : n # m => o \notin Named(n)
      BY <2>1, <2>2, <2>3 DEF IInv, FilesSafe, ObjectsApart
    <3>2. Md5Of(Key(w))' = m
      BY <2>1, <2>4 DEF Md5Of, Key
    <3>. QED
      BY <2>2, <2>4, <3>1, <3>2 DEF IInv, FilesSafe, DoomedFile, At, Key
  <2>. QED
    BY <2>5, <2>6, <2>7 DEF FilesSafe
\* Afterwards no row names the file.
<1>32. ASSUME NEW w \in Workers, DeleteInfo(w) PROVE FilesSafe'
  <2>1. PICK m \in Md5s : At(w, "de_info") /\ m = Md5Of(Key(w))
    BY <1>32, KeyTyped DEF DeleteInfo, IInv, TypeOK, At
  <2>2. Named(m)' = {} /\ (\A n \in Md5s \ {m} : Named(n)' = Named(n)) /\ objects' = objects
    BY <1>32, <2>1 DEF DeleteInfo, Named, IInv, TypeOK, TablesOK
  <2>3. /\ job'[w].pc = "de_object" /\ job'[w].obj = job[w].obj
        /\ \A v \in Workers \ {w} : job'[v] = job[v]
    BY <1>32 DEF DeleteInfo, Go, IInv, TypeOK, JobsOK, Jobs
  <2>4. \A n \in Md5s : Named(n)' \subseteq objects'
    BY <2>2 DEF IInv, FilesSafe, NoDanglingRow, Named
  <2>5. NoDanglingRow' /\ ObjectsApart'
    BY <2>2, <2>4 DEF IInv, FilesSafe, NoDanglingRow, ObjectsApart, Named
  <2>6. FreshUpload'
    BY <2>1, <2>2, <2>3 DEF IInv, FilesSafe, FreshUpload, At
  <2>7. DoomedFile'
    BY <2>1, <2>2, <2>3 DEF IInv, FilesSafe, DoomedFile, At, Key
  <2>. QED
    BY <2>5, <2>6, <2>7 DEF FilesSafe
\* No row and no upload loses its file.
<1>33. ASSUME NEW w \in Workers, DeleteObject(w) PROVE FilesSafe'
  <2>1. At(w, "de_object") /\ objects' = objects \ {job[w].obj}
    BY <1>33 DEF DeleteObject
  <2>2. \A n \in Md5s : Named(n)' = Named(n) /\ job[w].obj \notin Named(n)
    BY <1>33, <2>1 DEF DeleteObject, Named, IInv, FilesSafe, DoomedFile
  <2>3. job'[w].pc = "idle" /\ \A v \in Workers \ {w} : job'[v] = job[v]
    BY <1>33 DEF DeleteObject, Finish, Idle, IInv, TypeOK, JobsOK, Jobs
  <2>4. \A n \in Md5s : Named(n)' \subseteq objects'
    BY <2>1, <2>2 DEF IInv, FilesSafe, NoDanglingRow, Named
  <2>5. NoDanglingRow' /\ ObjectsApart'
    BY <2>2, <2>4 DEF IInv, FilesSafe, NoDanglingRow, ObjectsApart, Named
  <2>6. FreshUpload'
    BY <2>1, <2>2, <2>3 DEF IInv, FilesSafe, FreshUpload, At
  <2>7. DoomedFile'
    BY <2>2, <2>3 DEF IInv, FilesSafe, DoomedFile, At, Key
  <2>. QED
    BY <2>5, <2>6, <2>7 DEF FilesSafe
<1>34. ASSUME NEW w \in Workers, StatementFails(w) PROVE FilesSafe'
  <2>1. objects' = objects /\ \A m \in Md5s : Named(m)' = Named(m)
    BY <1>34 DEF StatementFails, Named
  <2>2. ASSUME job[w].pc \in DOMAIN GoesOn PROVE GoesOn[job[w].pc] \notin Handling
    BY <2>2 DEF GoesOn, Handling
  <2>. QED
    BY <1>34, <2>1, <2>2, SafeFinish, SafeGo DEF StatementFails
<1>35. ASSUME NEW w \in Workers, NEW op \in DOMAIN First, NEW k \in Keys, Request(w, op, k)
       PROVE FilesSafe'
  <2>1. First[op] \notin Handling
    BY DEF First, Handling
  <2>2. job'[w].pc = First[op] /\ \A v \in Workers \ {w} : job'[v] = job[v]
    BY <1>35 DEF Request, IInv, TypeOK, JobsOK
  <2>. QED
    BY <1>35, <2>1, <2>2, Elsewhere DEF Request, Named
<1>36. CASE Crash
  BY <1>36 DEF Crash, Idle, IInv, FilesSafe, NoDanglingRow, ObjectsApart, FreshUpload,
              DoomedFile, Named, At, Key
<1>37. CASE UNCHANGED vars
  BY <1>37 DEF vars, IInv, FilesSafe, NoDanglingRow, ObjectsApart, FreshUpload,
              DoomedFile, Named, At, Key
<1>. QED
  BY <1>1, <1>2, <1>3, <1>4, <1>5, <1>6, <1>7, <1>8, <1>9, <1>10, <1>11, <1>12, <1>13, <1>14, <1>15, <1>16, <1>17, <1>18, <1>19, <1>20, <1>21, <1>22, <1>23, <1>24, <1>25, <1>26, <1>27, <1>28, <1>29, <1>30, <1>31, <1>32, <1>33, <1>34, <1>35, <1>36, <1>37 DEF Next, Step, Upload, Md5, Save, Delete, Share, Cancel

THEOREM InitIInv == Init => IInv
  BY FileServiceAssumption
     DEF Init, IInv, TypeOK, TablesOK, JobsOK, Jobs, FilesSafe, NoDanglingRow, ObjectsApart,
         FreshUpload, DoomedFile, Named, At, Key, Idle, Labels

\* The inductive invariant holds in every state.
THEOREM CatalogueInvariant == Spec => []IInv
<1>1. IInv /\ [Next]_vars => IInv'
  BY TypeStep, SafeStep DEF IInv
<1>. QED
  BY InitIInv, <1>1, PTL DEF Spec

\* However many workers serve however many overlapping requests, whatever
\* statements fail and wherever the process dies, whether or not md5 is a key:
\* a row of file_info names a file that FastDFS has.
THEOREM CatalogueNoDanglingRow == Spec => []NoDanglingRow
  BY CatalogueInvariant, PTL DEF IInv, FilesSafe

-----------------------------------------------------------------------------
(* Reference counts, where requests about one file do not overlap and it has *)
(* one row of file_info.  Then a handler has the file to itself, and what is *)
(* inductive says, for each place in a handler, how the count it read and    *)
(* the count in the row compare with the number of users' rows.              *)

Held(w) == Md5Of(Key(w))

Alone ==
  ~world.overlap =>
    \A v, w \in Workers : ~At(v, "idle") /\ ~At(w, "idle") /\ Held(v) = Held(w) => v = w

\* The count has been raised and the entry is not there yet, or the entry is
\* gone and the count is not lowered yet.
Owing      == {"up_row", "md5_row", "sv_row", "de_count", "de_dec"}
\* The count in hand is that of the row.
Counted    == {"md5_owner", "md5_inc", "sv_inc", "de_dec"}
\* Where the count in hand may become that of the row, and is enough.
Restoring  == {"md5_row", "md5_restore"}
\* What is being deleted is listed.
Listed     == {"de_zset", "de_hash", "de_share", "de_rows"}
\* Nobody lists what is being discarded.
Discarding == {"de_fileid", "de_info", "de_object"}
Uploading  == {"up_store", "up_info"}

Covered(m) ==
  /\ Owners(m) > 0 => HasInfo(m)
  /\ \A r, s \in file_info[m] : r = s
  /\ \A r \in file_info[m] : Owners(m) <= r.count

\* A handler of entry k at l, with count c in hand.
CountsAt(k, l, c) ==
  LET m == Md5Of(k) IN
  /\ l \in Owing => HasInfo(m) /\ \A r \in file_info[m] : Owners(m) < r.count
  /\ l \in Counted => HasInfo(m) /\ \A r \in file_info[m] : r.count = c
  /\ l \in Restoring => Owners(m) <= c
  /\ l \in Listed => Rows(k) > 0
  /\ l \in Discarding => Owners(m) = 0
  /\ l \in Uploading => world.unique \/ ~HasInfo(m)

CountsOf(w) == CountsAt(Key(w), job[w].pc, job[w].count)

Finite   == \A m \in Md5s : IsFiniteSet(Entries(m))
Counts   == (\A m \in Md5s : Covered(m)) /\ \A w \in Workers : CountsOf(w)
CountInv == Finite /\ Alone /\ (Regular => Counts)

-----------------------------------------------------------------------------
(* Rows of users *)

LEMMA EntriesAre ==
  ASSUME NEW m
  PROVE  \A e : e \in Entries(m) <=> \E k \in Keys : \E i \in 1..Rows(k) : Md5Of(k) = m /\ e = <<k, i>>
BY DEF Entries

LEMMA RowsTyped ==
  ASSUME TablesOK, NEW k \in Keys
  PROVE  Rows(k) \in Nat
BY DEF TablesOK, Rows

LEMMA OwnersTyped ==
  ASSUME Finite, NEW m \in Md5s
  PROVE  Owners(m) \in Nat
BY FS_CardinalityType DEF Finite, Owners

\* Who has no row is no owner.
LEMMA NoOwners ==
  ASSUME TablesOK, Finite, NEW m \in Md5s, Owners(m) = 0
  PROVE  \A k \in Keys : Md5Of(k) = m => Rows(k) = 0
<1>. SUFFICES ASSUME NEW k \in Keys, Md5Of(k) = m, Rows(k) # 0 PROVE FALSE
  OBVIOUS
<1>1. 1 \in 1..Rows(k)
  BY RowsTyped
<1>2. <<k, 1>> \in Entries(m)
  BY <1>1, EntriesAre
<1>. QED  BY <1>2, FS_EmptySet DEF Finite, Owners

LEMMA SameEntries ==
  ASSUME NEW m, \A k \in Keys : Md5Of(k) = m => Rows(k)' = Rows(k)
  PROVE  Entries(m)' = Entries(m) /\ Owners(m)' = Owners(m)
<1>1. Entries(m)' = Entries(m)
  BY DEF Entries
<1>. QED  BY <1>1 DEF Owners

\* An inserted row makes one owner more.
LEMMA InsertOwner ==
  ASSUME TablesOK, Finite, NEW k \in Keys, Md5Of(k) \in Md5s, InsertOwn(k)
  PROVE  /\ Rows(k)' = Rows(k) + 1
         /\ \A j \in Keys \ {k} : Rows(j)' = Rows(j)
         /\ IsFiniteSet(Entries(Md5Of(k))') /\ Owners(Md5Of(k))' = Owners(Md5Of(k)) + 1
<1>. DEFINE m == Md5Of(k)
            e == <<k, Rows(k) + 1>>
<1>1. Rows(k)' = Rows(k) + 1 /\ Rows(k) \in Nat
  BY RowsTyped DEF TablesOK, InsertOwn, Rows
<1>2. \A j \in Keys \ {k} : Rows(j)' = Rows(j)
  BY DEF TablesOK, InsertOwn, Rows
<1>3. e \notin Entries(m)
  BY <1>1, EntriesAre
<1>4. Entries(m)' = Entries(m) \cup {e}
  <2>1. ASSUME NEW x \in Entries(m)' PROVE x \in Entries(m) \cup {e}
    <3>1. PICK j \in Keys : \E i \in 1..Rows(j)' : Md5Of(j) = m /\ x = <<j, i>>
      BY <2>1, EntriesAre DEF Entries
    <3>2. PICK i \in 1..Rows(j)' : Md5Of(j) = m /\ x = <<j, i>>
      BY <3>1
    <3>3. CASE j = k /\ i = Rows(k) + 1
      BY <3>2, <3>3
    <3>4. CASE ~(j = k /\ i = Rows(k) + 1)
      <4>1. i \in 1..Rows(j)
        BY <1>1, <1>2, <3>2, <3>4
      <4>. QED  BY <3>2, <4>1, EntriesAre
    <3>. QED  BY <3>3, <3>4
  <2>2. ASSUME NEW x \in Entries(m) PROVE x \in Entries(m)'
    <3>0. PICK j \in Keys : \E i \in 1..Rows(j) : Md5Of(j) = m /\ x = <<j, i>>
      BY <2>2, EntriesAre
    <3>1. PICK i \in 1..Rows(j) : Md5Of(j) = m /\ x = <<j, i>>
      BY <3>0
    <3>2. i \in 1..Rows(j)'
      BY <1>1, <1>2, <3>1, RowsTyped
    <3>. QED  BY <3>1, <3>2 DEF Entries
  <2>3. e \in Entries(m)'
    <3>1. Rows(k) + 1 \in 1..Rows(k)'
      BY <1>1
    <3>. QED  BY <3>1 DEF Entries
  <2>. QED  BY <2>1, <2>2, <2>3
<1>5. IsFiniteSet(Entries(m)) /\ Owners(m) = Cardinality(Entries(m)) /\ Owners(m)' = Cardinality(Entries(m)')
  BY DEF Finite, Owners
<1>6. IsFiniteSet(Entries(m)') /\ Owners(m)' = Owners(m) + 1
  BY <1>3, <1>4, <1>5, FS_AddElement
<1>. QED  BY <1>1, <1>2, <1>6

\* Deleting a user's rows makes at least one owner less, if there were any, and
\* exactly one if there was one.
LEMMA DeleteOwner ==
  ASSUME TablesOK, Finite, NEW k \in Keys, Md5Of(k) \in Md5s,
         own' = [own EXCEPT ![k] = [s \in {0, 1} |-> 0]]
  PROVE  /\ Rows(k)' = 0
         /\ \A j \in Keys \ {k} : Rows(j)' = Rows(j)
         /\ IsFiniteSet(Entries(Md5Of(k))')
         /\ Rows(k) > 0 => Owners(Md5Of(k))' < Owners(Md5Of(k)) /\ Owners(Md5Of(k))' \in Nat
         /\ Rows(k) = 1 => Owners(Md5Of(k))' + 1 = Owners(Md5Of(k))
<1>. DEFINE m == Md5Of(k)
<1>1. Rows(k)' = 0 /\ Rows(k) \in Nat
  BY RowsTyped DEF TablesOK, Rows
<1>2. \A j \in Keys \ {k} : Rows(j)' = Rows(j)
  BY DEF TablesOK, Rows
<1>3. \A x : x \in Entries(m)' <=> x \in Entries(m) /\ ~\E i \in 1..Rows(k) : x = <<k, i>>
  <2>. TAKE x
  <2>1. ASSUME x \in Entries(m)' PROVE x \in Entries(m) /\ ~\E i \in 1..Rows(k) : x = <<k, i>>
    <3>1. PICK j \in Keys : \E i \in 1..Rows(j)' : Md5Of(j) = m /\ x = <<j, i>>
      BY <2>1 DEF Entries
    <3>2. PICK i \in 1..Rows(j)' : Md5Of(j) = m /\ x = <<j, i>>
      BY <3>1
    <3>3. j # k
      BY <1>1, <3>2
    <3>. QED  BY <1>2, <3>2, <3>3, EntriesAre
  <2>2. ASSUME x \in Entries(m), ~\E i \in 1..Rows(k) : x = <<k, i>> PROVE x \in Entries(m)'
    <3>0. PICK j \in Keys : \E i \in 1..Rows(j) : Md5Of(j) = m /\ x = <<j, i>>
      BY <2>2, EntriesAre
    <3>1. PICK i \in 1..Rows(j) : Md5Of(j) = m /\ x = <<j, i>>
      BY <3>0
    <3>2. j # k
      BY <2>2, <3>1
    <3>3. i \in 1..Rows(j)'
      BY <1>2, <3>1, <3>2
    <3>. QED  BY <3>1, <3>3 DEF Entries
  <2>. QED  BY <2>1, <2>2
<1>4. IsFiniteSet(Entries(m)) /\ Owners(m) = Cardinality(Entries(m)) /\ Owners(m)' = Cardinality(Entries(m)')
  BY DEF Finite, Owners
<1>5. IsFiniteSet(Entries(m)') /\ Owners(m)' \in Nat
  <2>1. Entries(m)' \subseteq Entries(m)
    BY <1>3
  <2>. QED  BY <1>4, <2>1, FS_Subset, FS_CardinalityType
<1>6. ASSUME Rows(k) > 0
      PROVE  /\ <<k, 1>> \in Entries(m) /\ Entries(m)' \subseteq Entries(m) \ {<<k, 1>>}
             /\ IsFiniteSet(Entries(m) \ {<<k, 1>>})
             /\ Cardinality(Entries(m) \ {<<k, 1>>}) = Owners(m) - 1
  <2>1. 1 \in 1..Rows(k)
    BY <1>1, <1>6
  <2>2. <<k, 1>> \in Entries(m)
    BY <2>1, EntriesAre
  <2>3. Entries(m)' \subseteq Entries(m) \ {<<k, 1>>}
    BY <1>3, <2>1
  <2>. QED  BY <1>4, <2>2, <2>3, FS_RemoveElement
<1>7. Owners(m) \in Nat
  BY <1>4, FS_CardinalityType
<1>8. ASSUME Rows(k) > 0 PROVE Owners(m)' < Owners(m)
  <2>1. Cardinality(Entries(m)') <= Cardinality(Entries(m) \ {<<k, 1>>})
    BY <1>6, <1>8, FS_Subset
  <2>. QED  BY <1>4, <1>5, <1>6, <1>7, <1>8, <2>1
<1>9. ASSUME Rows(k) = 1 PROVE Owners(m)' + 1 = Owners(m)
  <2>1. Entries(m)' = Entries(m) \ {<<k, 1>>}
    BY <1>3, <1>9
  <2>. QED  BY <1>4, <1>6, <1>7, <1>9, <2>1
<1>. QED  BY <1>1, <1>2, <1>5, <1>8, <1>9

-----------------------------------------------------------------------------
(* What a step of a handler reaches *)

Serves(w) == \/ Upload(w) \/ Md5(w) \/ Save(w) \/ Delete(w) \/ Share(w) \/ Cancel(w)
             \/ StatementFails(w)

\* The handler goes on with its request, or has ended it.
Onward(w, l, c, o) ==
  /\ job'[w].pc = l /\ job'[w].key = job[w].key
  /\ job'[w].count = c /\ job'[w].obj = o
  /\ \A v \in Workers \ {w} : job'[v] = job[v]

Ended(w) == job'[w].pc = "idle" /\ \A v \in Workers \ {w} : job'[v] = job[v]

LEMMA GoOnward ==
  ASSUME JobsOK, NEW w \in Workers, NEW l, Go(w, l)
  PROVE  Onward(w, l, job[w].count, job[w].obj)
BY DEF JobsOK, Jobs, Go, Onward

LEMMA KeepOnward ==
  ASSUME JobsOK, NEW w \in Workers, NEW l, NEW c, Keep(w, l, c)
  PROVE  Onward(w, l, c, job[w].obj)
BY DEF JobsOK, Jobs, Keep, Onward

LEMMA HoldOnward ==
  ASSUME JobsOK, NEW w \in Workers, NEW l, NEW o, Hold(w, l, o)
  PROVE  Onward(w, l, job[w].count, o)
BY DEF JobsOK, Jobs, Hold, Onward

LEMMA FinishEnds ==
  ASSUME JobsOK, NEW w \in Workers, Finish(w)
  PROVE  Ended(w)
BY DEF JobsOK, Finish, Ended, Idle

\* A row of file_info of which only the count changes.
LEMMA SetCountRows ==
  ASSUME TablesOK, NEW m \in Md5s, NEW c \in Nat, SetCount(m, c)
  PROVE  /\ HasInfo(m)' <=> HasInfo(m)
         /\ \A r \in file_info'[m] : r.count = c /\ \E s \in file_info[m] : r = [s EXCEPT !.count = c] /\ r.obj = s.obj
         /\ \A n \in Md5s \ {m} : file_info'[n] = file_info[n]
<1>1. file_info'[m] = {[r EXCEPT !.count = c] : r \in file_info[m]}
  BY DEF TablesOK, SetCount
<1>2. \A s \in file_info[m] : [s EXCEPT !.count = c].count = c /\ [s EXCEPT !.count = c].obj = s.obj
  BY RowTyped
<1>3. \A n \in Md5s \ {m} : file_info'[n] = file_info[n]
  BY DEF TablesOK, SetCount
<1>. QED  BY <1>1, <1>2, <1>3 DEF HasInfo

\* A handler changes rows of its own file only.
Frame(w) ==
  /\ ~At(w, "idle") /\ world' = world
  /\ Ended(w) \/ \E l, c, o : Onward(w, l, c, o)
  /\ \A n \in Md5s \ {Held(w)} : file_info'[n] = file_info[n]
  /\ \A k \in Keys : Md5Of(k) # Held(w) => Rows(k)' = Rows(k)

LEMMA RowsOf ==
  ASSUME TablesOK, NEW k \in Keys, NEW x, own' = [own EXCEPT ![k] = x]
  PROVE  \A j \in Keys \ {k} : Rows(j)' = Rows(j)
BY DEF TablesOK, Rows

LEMMA MarkedRows ==
  ASSUME TablesOK, NEW k \in Keys, NEW s \in {0, 1}, MarkShared(k, s)
  PROVE  \A j \in Keys : Rows(j)' = Rows(j)
<1>1. own'[k] = [t \in {0, 1} |-> IF t = s THEN Rows(k) ELSE 0]
  BY DEF TablesOK, MarkShared
<1>2. Rows(k)' = Rows(k)
  BY <1>1, RowsTyped DEF Rows
<1>3. \A j \in Keys \ {k} : own'[j] = own[j]
  BY DEF TablesOK, MarkShared
<1>. QED  BY <1>2, <1>3 DEF Rows

LEMMA Framed == ASSUME TypeOK, NEW w \in Workers, Serves(w) PROVE Frame(w)
<1>1. ~At(w, "idle")
  BY DEF Serves, Upload, Md5, Save, Delete, Share, Cancel, UploadStore, UploadInsertInfo,
     UploadInsertRow, Md5ReadCount, Md5CheckOwner, Md5Increment, Md5InsertRow, Md5CountUser,
     Md5Restore, SaveCheckOwner, SaveReadCount, SaveIncrement, SaveInsertRow, DeleteReadStatus,
     DeleteZrem, DeleteHdel, DeleteShareRows, DeleteRows, DeleteReadCount, DeleteDecrement,
     DeleteReadFileId, DeleteInfo, DeleteObject, ShareZsetExit, ShareReadRows, ShareMark,
     ShareInsertRow, ShareZadd, ShareHset, CancelMark, CancelRows, CancelZrem, CancelHdel,
     StatementFails, GivesUp, GoesOn, At
<1>2. world' = world
  BY DEF Serves, Upload, Md5, Save, Delete, Share, Cancel, UploadStore, UploadInsertInfo,
     UploadInsertRow, Md5ReadCount, Md5CheckOwner, Md5Increment, Md5InsertRow, Md5CountUser,
     Md5Restore, SaveCheckOwner, SaveReadCount, SaveIncrement, SaveInsertRow, DeleteReadStatus,
     DeleteZrem, DeleteHdel, DeleteShareRows, DeleteRows, DeleteReadCount, DeleteDecrement,
     DeleteReadFileId, DeleteInfo, DeleteObject, ShareZsetExit, ShareReadRows, ShareMark,
     ShareInsertRow, ShareZadd, ShareHset, CancelMark, CancelRows, CancelZrem, CancelHdel,
     StatementFails, budget
<1>3. Finish(w) \/ (\E l : Go(w, l)) \/ (\E l, c : Keep(w, l, c)) \/ (\E l, o : Hold(w, l, o))
  BY DEF Serves, Upload, Md5, Save, Delete, Share, Cancel, UploadStore, UploadInsertInfo,
     UploadInsertRow, Md5ReadCount, Md5CheckOwner, Md5Increment, Md5InsertRow, Md5CountUser,
     Md5Restore, SaveCheckOwner, SaveReadCount, SaveIncrement, SaveInsertRow, DeleteReadStatus,
     DeleteZrem, DeleteHdel, DeleteShareRows, DeleteRows, DeleteReadCount, DeleteDecrement,
     DeleteReadFileId, DeleteInfo, DeleteObject, ShareZsetExit, ShareReadRows, ShareMark,
     ShareInsertRow, ShareZadd, ShareHset, CancelMark, CancelRows, CancelZrem, CancelHdel,
     StatementFails, ReadCount
<1>4. file_info' = file_info \/ \E x : file_info' = [file_info EXCEPT ![Held(w)] = x]
  BY DEF Serves, Upload, Md5, Save, Delete, Share, Cancel, UploadStore, UploadInsertInfo,
     UploadInsertRow, Md5ReadCount, Md5CheckOwner, Md5Increment, Md5InsertRow, Md5CountUser,
     Md5Restore, SaveCheckOwner, SaveReadCount, SaveIncrement, SaveInsertRow, DeleteReadStatus,
     DeleteZrem, DeleteHdel, DeleteShareRows, DeleteRows, DeleteReadCount, DeleteDecrement,
     DeleteReadFileId, DeleteInfo, DeleteObject, ShareZsetExit, ShareReadRows, ShareMark,
     ShareInsertRow, ShareZadd, ShareHset, CancelMark, CancelRows, CancelZrem, CancelHdel,
     StatementFails, db, SetCount, Held
<1>5. own' = own \/ \E x : own' = [own EXCEPT ![Key(w)] = x]
  BY DEF Serves, Upload, Md5, Save, Delete, Share, Cancel, UploadStore, UploadInsertInfo,
     UploadInsertRow, Md5ReadCount, Md5CheckOwner, Md5Increment, Md5InsertRow, Md5CountUser,
     Md5Restore, SaveCheckOwner, SaveReadCount, SaveIncrement, SaveInsertRow, DeleteReadStatus,
     DeleteZrem, DeleteHdel, DeleteShareRows, DeleteRows, DeleteReadCount, DeleteDecrement,
     DeleteReadFileId, DeleteInfo, DeleteObject, ShareZsetExit, ShareReadRows, ShareMark,
     ShareInsertRow, ShareZadd, ShareHset, CancelMark, CancelRows, CancelZrem, CancelHdel,
     StatementFails, db, InsertOwn, MarkShared
<1>6. Key(w) \in Keys /\ TablesOK /\ JobsOK
  BY <1>1, KeyTyped DEF TypeOK
<1>7. Ended(w) \/ \E l, c, o : Onward(w, l, c, o)
  BY <1>3, <1>6, FinishEnds, GoOnward, KeepOnward, HoldOnward
<1>8. \A n \in Md5s \ {Held(w)} : file_info'[n] = file_info[n]
  BY <1>4, <1>6 DEF TablesOK
<1>9. \A k \in Keys : Md5Of(k) # Held(w) => Rows(k)' = Rows(k)
  <2>1. CASE own' = own
    BY <2>1 DEF Rows
  <2>2. CASE \E x : own' = [own EXCEPT ![Key(w)] = x]
    BY <1>6, <2>2, RowsOf DEF Held
  <2>. QED  BY <1>5, <2>1, <2>2
<1>. QED  BY <1>1, <1>2, <1>7, <1>8, <1>9 DEF Frame

-----------------------------------------------------------------------------
(* The counts are kept *)

LEMMA FiniteStep == ASSUME TypeOK, Finite, [Next]_vars PROVE Finite'
<1>1. ASSUME NEW w \in Workers, Serves(w) PROVE Finite'
  <2>1. Frame(w) /\ Key(w) \in Keys /\ Held(w) \in Md5s
    BY <1>1, Framed, KeyTyped DEF Frame, TypeOK, Held
  <2>2. CASE InsertOwn(Key(w))
    BY <2>1, <2>2, InsertOwner, SameEntries DEF Frame, Finite, TypeOK, Held
  <2>3. CASE own' = [own EXCEPT ![Key(w)] = [s \in {0, 1} |-> 0]]
    BY <2>1, <2>3, DeleteOwner, SameEntries DEF Frame, Finite, TypeOK, Held
  <2>4. CASE \A k \in Keys : Rows(k)' = Rows(k)
    BY <2>4, SameEntries DEF Finite
  <2>5. \/ own' = own \/ (\E s \in {0, 1} : MarkShared(Key(w), s)) \/ InsertOwn(Key(w))
        \/ own' = [own EXCEPT ![Key(w)] = [s \in {0, 1} |-> 0]]
    BY <1>1 DEF Serves, Upload, Md5, Save, Delete, Share, Cancel, UploadStore, UploadInsertInfo,
       UploadInsertRow, Md5ReadCount, Md5CheckOwner, Md5Increment, Md5InsertRow, Md5CountUser,
       Md5Restore, SaveCheckOwner, SaveReadCount, SaveIncrement, SaveInsertRow, DeleteReadStatus,
       DeleteZrem, DeleteHdel, DeleteShareRows, DeleteRows, DeleteReadCount, DeleteDecrement,
       DeleteReadFileId, DeleteInfo, DeleteObject, ShareZsetExit, ShareReadRows, ShareMark,
       ShareInsertRow, ShareZadd, ShareHset, CancelMark, CancelRows, CancelZrem, CancelHdel,
       StatementFails, db
  <2>6. own' = own \/ (\E s \in {0, 1} : MarkShared(Key(w), s)) => \A k \in Keys : Rows(k)' = Rows(k)
    BY <2>1, MarkedRows DEF Rows, TypeOK
  <2>. QED  BY <2>2, <2>3, <2>4, <2>5, <2>6
<1>2. ASSUME own' = own PROVE Finite'
  BY <1>2, SameEntries DEF Finite, Rows
<1>3. ASSUME ~\E w \in Workers : Serves(w) PROVE own' = own
  BY <1>3 DEF Next, Step, Serves, Request, Crash, vars, db
<1>. QED  BY <1>1, <1>2, <1>3

LEMMA AloneStep == ASSUME TypeOK, Alone, [Next]_vars PROVE Alone'
<1>1. ASSUME NEW w \in Workers, Serves(w) PROVE Alone'
  BY <1>1, Framed DEF Frame, Ended, Onward, Alone, At, Held, Key
<1>2. ASSUME NEW w \in Workers, NEW op \in DOMAIN First, NEW k \in Keys, Request(w, op, k) PROVE Alone'
  <2>1. world' = world /\ At(w, "idle") /\ (~world.overlap => Md5Of(k) \notin Busy)
    BY <1>2 DEF Request, budget
  <2>2. job'[w].key = k /\ \A v \in Workers \ {w} : job'[v] = job[v]
    BY <1>2 DEF Request, TypeOK, JobsOK
  <2>. QED  BY <2>1, <2>2 DEF Alone, At, Held, Key, Busy
<1>3. CASE Crash
  BY <1>3 DEF Crash, Alone, At, Idle
<1>4. CASE UNCHANGED vars
  BY <1>4 DEF vars, budget, Alone, At, Held, Key
<1>. QED  BY <1>1, <1>2, <1>3, <1>4 DEF Next, Step, Serves

\* It is enough to look at the file and at the handler of the step.
LEMMA LocalCounts ==
  ASSUME TypeOK, Alone, Regular, Counts, NEW w \in Workers, Frame(w), NEW m \in Md5s, m = Held(w),
         Covered(m)', Ended(w) \/ CountsOf(w)'
  PROVE  Counts'
<1>1. \A n \in Md5s \ {m} : /\ file_info'[n] = file_info[n] /\ Owners(n)' = Owners(n)
                            /\ HasInfo(n)' = HasInfo(n)
  BY SameEntries DEF Frame, HasInfo
<1>2. \A n \in Md5s : Covered(n)'
  <2>. SUFFICES ASSUME NEW n \in Md5s, n # m PROVE Covered(n)'
    OBVIOUS
  <2>. QED  BY <1>1 DEF Counts, Covered
<1>3. ASSUME NEW v \in Workers PROVE CountsOf(v)'
  <2>1. CASE v = w /\ Ended(w)
    BY <2>1 DEF Ended, CountsOf, CountsAt, Owing, Counted, Restoring, Listed, Discarding, Uploading
  <2>2. CASE v # w /\ At(v, "idle")
    <3>1. job'[v].pc = "idle"
      BY <2>2 DEF Frame, Ended, Onward, At
    <3>. QED  BY <3>1 DEF CountsOf, CountsAt, Owing, Counted, Restoring, Listed, Discarding, Uploading
  <2>3. CASE v # w /\ ~At(v, "idle")
    <3>1. Held(v) \in Md5s \ {m} /\ Key(v) \in Keys
      BY <2>3, KeyTyped DEF TypeOK, Alone, Regular, Frame, Held
    <3>2. job'[v] = job[v] /\ world' = world
      BY <2>3 DEF Frame, Ended, Onward
    <3>3. Held(v)' = Held(v) /\ Key(v)' = Key(v)
      BY <3>2 DEF Held, Key
    <3>4. Rows(Key(v))' = Rows(Key(v))
      <4>. DEFINE k == Key(v)
      <4>1. k \in Keys /\ Md5Of(k) # Held(w) /\ Key(v)' = k
        BY <3>1, <3>3 DEF Held
      <4>2. Rows(k)' = Rows(k)
        BY <4>1 DEF Frame
      <4>. QED  BY <4>1, <4>2 DEF Rows
    <3>5. Owners(Held(v))' = Owners(Held(v)) /\ file_info'[Held(v)] = file_info[Held(v)]
      <4>1. PICK n \in Md5s : n = Held(v) /\ n # m
        BY <3>1
      <4>2. Entries(n)' = Entries(n)
        BY <4>1, SameEntries DEF Frame
      <4>. QED  BY <1>1, <3>3, <4>1, <4>2 DEF Owners, Entries
    <3>6. CountsOf(v)
      BY DEF Counts
    <3>. QED  BY <3>2, <3>3, <3>4, <3>5, <3>6 DEF CountsOf, CountsAt, HasInfo, Held
  <2>. QED  BY <2>1, <2>2, <2>3
<1>. QED  BY <1>2, <1>3 DEF Counts

\* A step that leaves the rows of file_info and of users keeps the counts if what
\* it goes on with holds already.
LEMMA Untouched ==
  ASSUME TypeOK, Alone, Regular, Counts, NEW w \in Workers, Serves(w),
         file_info' = file_info, \A k \in Keys : Rows(k)' = Rows(k),
         Ended(w) \/ \E l, c, o : Onward(w, l, c, o) /\ CountsAt(Key(w), l, c)
  PROVE  Counts'
<1>1. Frame(w)
  BY Framed
<1>2. PICK k \in Keys, m \in Md5s : k = Key(w) /\ m = Held(w) /\ m = Md5Of(k)
  BY <1>1, KeyTyped DEF Frame, TypeOK, Held
<1>3. Owners(m)' = Owners(m) /\ Rows(k)' = Rows(k) /\ world' = world
  BY <1>1, SameEntries DEF Frame
<1>4. Covered(m)'
  BY <1>3 DEF Counts, Covered, HasInfo
<1>5. ASSUME NEW l, NEW c, NEW o, Onward(w, l, c, o), CountsAt(k, l, c) PROVE CountsOf(w)'
  <2>1. CountsAt(k, l, c)'
    <3>1. Owners(Md5Of(k))' = Owners(Md5Of(k)) /\ HasInfo(Md5Of(k))' = HasInfo(Md5Of(k))
      BY <1>2, <1>3 DEF HasInfo
    <3>. QED  BY <1>3, <1>5, <3>1 DEF CountsAt
  <2>2. job'[w].pc = l /\ job'[w].key = k /\ job'[w].count = c
    BY <1>2, <1>5 DEF Onward, Key
  <2>. QED  BY <2>1, <2>2 DEF CountsOf, Key, CountsAt, HasInfo, Owners, Entries, Rows
<1>. QED  BY <1>1, <1>2, <1>4, <1>5, LocalCounts

\* A place where nothing is promised.
Plain == {"md5_count", "md5_user", "sv_owner", "sv_count", "de_status", "sh_zset", "sh_rows", "sh_status",
          "sh_row", "sh_zadd", "sh_hset", "ca_status", "ca_rows", "ca_zset", "ca_hash"}

LEMMA PlainPromise == \A k, c : \A l \in Plain : CountsAt(k, l, c)
BY DEF Plain, CountsAt, Owing, Counted, Restoring, Listed, Discarding, Uploading

\* Handlers that read.
LEMMA CountsRead ==
  ASSUME TypeOK, Finite, Alone, Regular, Counts, NEW w \in Workers,
         \/ UploadStore(w) \/ Md5ReadCount(w) \/ Md5CheckOwner(w) \/ SaveCheckOwner(w) \/ SaveReadCount(w)
         \/ DeleteReadStatus(w) \/ DeleteReadCount(w) \/ DeleteReadFileId(w)
  PROVE  Counts'
<1>1. Serves(w) /\ file_info' = file_info /\ \A k \in Keys : Rows(k)' = Rows(k)
  BY DEF Serves, Upload, Md5, Save, Delete, db, Rows, UploadStore, Md5ReadCount, Md5CheckOwner,
     SaveCheckOwner, SaveReadCount, DeleteReadStatus, DeleteReadCount, DeleteReadFileId
<1>2. PICK k \in Keys, m \in Md5s : k = Key(w) /\ m = Md5Of(k)
  BY <1>1, Framed, KeyTyped DEF Frame, TypeOK
<1>. DEFINE c == job[w].count
<1>3. Covered(m) /\ CountsAt(k, job[w].pc, c) /\ JobsOK /\ TablesOK /\ Owners(m) \in Nat
  BY <1>2, OwnersTyped DEF Counts, CountsOf, TypeOK
<1>4. ASSUME NEW l, Go(w, l), CountsAt(k, l, c) PROVE Counts'
  BY <1>1, <1>2, <1>3, <1>4, GoOnward, Untouched
<1>5. ASSUME NEW l, NEW r \in file_info[m], Keep(w, l, r.count), CountsAt(k, l, r.count) PROVE Counts'
  BY <1>1, <1>2, <1>3, <1>5, KeepOnward, Untouched
<1>6. ASSUME NEW l, NEW o, Hold(w, l, o), CountsAt(k, l, c) PROVE Counts'
  BY <1>1, <1>2, <1>3, <1>6, HoldOnward, Untouched
<1>7. ASSUME Finish(w) PROVE Counts'
  BY <1>1, <1>3, <1>7, FinishEnds, Untouched
<1>8. \A r \in file_info[m] : HasInfo(m) /\ \A s \in file_info[m] : s.count = r.count
  BY <1>3 DEF Covered, HasInfo
<1>. HIDE DEF c
<1>10. CASE UploadStore(w)
  <2>1. CountsAt(k, "up_info", c)
    BY <1>3, <1>10 DEF UploadStore, At, CountsAt, Owing, Counted, Restoring, Listed, Discarding, Uploading
  <2>. QED  BY <1>6, <1>10, <2>1 DEF UploadStore
<1>11. CASE Md5ReadCount(w)
  <2>1. \A r \in file_info[m] : CountsAt(k, "md5_owner", r.count)
    BY <1>2, <1>8 DEF CountsAt, Owing, Counted, Restoring, Listed, Discarding, Uploading
  <2>. QED  BY <1>2, <1>5, <1>7, <1>11, <2>1 DEF Md5ReadCount, ReadCount
<1>12. CASE Md5CheckOwner(w)
  <2>1. CountsAt(k, "md5_inc", c)
    BY <1>3, <1>12 DEF Md5CheckOwner, At, CountsAt, Owing, Counted, Restoring, Listed, Discarding, Uploading
  <2>. QED  BY <1>4, <1>7, <1>12, <2>1 DEF Md5CheckOwner
<1>13. CASE SaveCheckOwner(w)
  BY <1>4, <1>7, <1>13, PlainPromise DEF SaveCheckOwner, Plain
<1>14. CASE SaveReadCount(w)
  <2>1. \A r \in file_info[m] : CountsAt(k, "sv_inc", r.count)
    BY <1>2, <1>8 DEF CountsAt, Owing, Counted, Restoring, Listed, Discarding, Uploading
  <2>. QED  BY <1>2, <1>5, <1>7, <1>14, <2>1 DEF SaveReadCount, ReadCount
<1>15. CASE DeleteReadStatus(w)
  <2>1. own[k][0] \in Nat /\ own[k][1] \in Nat
    BY <1>3 DEF TablesOK
  <2>2. Rows(k) > 0 => CountsAt(k, "de_zset", c) /\ CountsAt(k, "de_rows", c)
    BY DEF CountsAt, Owing, Counted, Restoring, Listed, Discarding, Uploading
  <2>3. own[k][1] > 0 \/ own[k][0] > 0 => Rows(k) > 0
    BY <2>1 DEF Rows
  <2>. QED  BY <1>2, <1>4, <1>7, <1>15, <2>2, <2>3 DEF DeleteReadStatus
<1>16. CASE DeleteReadCount(w)
  <2>1. /\ HasInfo(m) /\ \A r \in file_info[m] : Owners(m) < r.count
    BY <1>2, <1>3, <1>16 DEF DeleteReadCount, At, CountsAt, Owing
  <2>2. \A r \in file_info[m] : r.count > 0
    BY <1>3, <2>1, RowTyped
  <2>3. \A r \in file_info[m] : CountsAt(k, "de_dec", r.count)
    BY <1>2, <1>8, <2>1 DEF CountsAt, Owing, Counted, Restoring, Listed, Discarding, Uploading
  <2>. QED  BY <1>2, <1>5, <1>7, <1>16, <2>2, <2>3 DEF DeleteReadCount, ReadCount
<1>17. CASE DeleteReadFileId(w)
  <2>1. CountsAt(k, "de_info", c)
    BY <1>3, <1>17 DEF DeleteReadFileId, At, CountsAt, Owing, Counted, Restoring, Listed, Discarding, Uploading
  <2>. QED  BY <1>6, <1>17, <2>1 DEF DeleteReadFileId
<1>. QED  BY <1>10, <1>11, <1>12, <1>13, <1>14, <1>15, <1>16, <1>17

\* Handlers that write, but neither file_info nor how many rows a user has.
LEMMA CountsElsewhere ==
  ASSUME TypeOK, Alone, Regular, Counts, NEW w \in Workers,
         \/ Md5CountUser(w) \/ DeleteZrem(w) \/ DeleteHdel(w) \/ DeleteShareRows(w) \/ DeleteObject(w)
         \/ Share(w) \/ Cancel(w) \/ StatementFails(w)
  PROVE  Counts'
<1>1. Serves(w) /\ file_info' = file_info
  BY DEF Serves, Upload, Md5, Save, Delete, Share, Cancel, db, Md5CountUser, DeleteZrem, DeleteHdel,
     DeleteShareRows, DeleteObject, ShareZsetExit, ShareReadRows, ShareMark,
     ShareInsertRow, ShareZadd, ShareHset, CancelMark, CancelRows, CancelZrem, CancelHdel, StatementFails
<1>2. PICK k \in Keys, m \in Md5s : k = Key(w) /\ m = Md5Of(k)
  BY <1>1, Framed, KeyTyped DEF Frame, TypeOK
<1>3. \A j \in Keys : Rows(j)' = Rows(j)
  <2>1. own' = own \/ (\E s \in {0, 1} : MarkShared(k, s))
    BY <1>2 DEF db, Share, Cancel, Md5CountUser, DeleteZrem, DeleteHdel, DeleteShareRows, DeleteObject,
       ShareZsetExit, ShareReadRows, ShareMark, ShareInsertRow, ShareZadd, ShareHset, CancelMark,
       CancelRows, CancelZrem, CancelHdel, StatementFails
  <2>. QED  BY <2>1, MarkedRows DEF Rows, TypeOK
<1>. DEFINE c == job[w].count
<1>4. CountsAt(k, job[w].pc, c) /\ JobsOK
  BY <1>2 DEF Counts, CountsOf, TypeOK
<1>5. ASSUME NEW l, Go(w, l), CountsAt(k, l, c) PROVE Counts'
  BY <1>1, <1>2, <1>3, <1>4, <1>5, GoOnward, Untouched
<1>6. ASSUME Finish(w) PROVE Counts'
  BY <1>1, <1>3, <1>4, <1>6, FinishEnds, Untouched
<1>7. ASSUME NEW l \in Plain, Go(w, l) PROVE Counts'
  BY <1>5, <1>7, PlainPromise
<1>8. ASSUME NEW l, Go(w, l), job[w].pc \in Listed, l \in Listed PROVE Counts'
  <2>1. CountsAt(k, l, c)
    BY <1>4, <1>8 DEF CountsAt, Owing, Counted, Restoring, Listed, Discarding, Uploading
  <2>. QED  BY <1>5, <1>8, <2>1
<1>. HIDE DEF c
<1>10. CASE Md5CountUser(w) \/ DeleteObject(w) \/ ShareHset(w) \/ CancelHdel(w)
  BY <1>6, <1>10 DEF Md5CountUser, DeleteObject, ShareHset, CancelHdel
<1>11. CASE DeleteZrem(w) \/ DeleteHdel(w) \/ DeleteShareRows(w)
  BY <1>8, <1>11 DEF DeleteZrem, DeleteHdel, DeleteShareRows, At, Listed
<1>12. CASE ShareZsetExit(w) \/ ShareReadRows(w) \/ ShareMark(w) \/ ShareInsertRow(w) \/ ShareZadd(w)
  BY <1>6, <1>7, <1>12 DEF ShareZsetExit, ShareReadRows, ShareMark, ShareInsertRow, ShareZadd, Plain
<1>13. CASE CancelMark(w) \/ CancelRows(w) \/ CancelZrem(w)
  BY <1>7, <1>13 DEF CancelMark, CancelRows, CancelZrem, Plain
<1>14. CASE StatementFails(w)
  <2>1. CASE Finish(w)
    BY <1>6, <2>1
  <2>2. CASE job[w].pc \in DOMAIN GoesOn /\ Go(w, GoesOn[job[w].pc])
    <3>1. CASE job[w].pc = "md5_owner"
      <4>1. CountsAt(k, "md5_inc", c) /\ Go(w, "md5_inc")
        BY <1>4, <2>2, <3>1 DEF GoesOn, CountsAt, Owing, Counted, Restoring, Listed, Discarding, Uploading
      <4>. QED  BY <1>5, <4>1
    <3>2. CASE job[w].pc = "md5_row"
      <4>1. CountsAt(k, "md5_restore", c) /\ Go(w, "md5_restore")
        BY <1>4, <2>2, <3>2 DEF GoesOn, CountsAt, Owing, Counted, Restoring, Listed, Discarding, Uploading
      <4>. QED  BY <1>5, <4>1
    <3>3. CASE job[w].pc \in {"de_zset", "de_hash"}
      BY <1>8, <2>2, <3>3 DEF GoesOn, Listed
    <3>4. CASE job[w].pc \notin {"md5_owner", "md5_row", "de_zset", "de_hash"}
      BY <1>7, <2>2, <3>4 DEF GoesOn, Plain
    <3>. QED  BY <3>1, <3>2, <3>3, <3>4
  <2>. QED  BY <1>14, <2>1, <2>2 DEF StatementFails
<1>. QED  BY <1>10, <1>11, <1>12, <1>13, <1>14 DEF Share, Cancel

\* Handlers that write file_info or rows of users.
LEMMA Rewritten ==
  ASSUME TypeOK, Alone, Regular, Counts, NEW w \in Workers, Serves(w),
         NEW k \in Keys, k = Key(w), NEW c, c = job[w].count, Covered(Md5Of(k))',
         Ended(w) \/ \E l, o : Onward(w, l, c, o) /\ CountsAt(k, l, c)'
  PROVE  Counts'
<1>1. Frame(w)
  BY Framed
<1>2. PICK m \in Md5s : m = Held(w) /\ m = Md5Of(k)
  BY <1>1, KeyTyped DEF Frame, TypeOK, Held
<1>4. Covered(m)'
  BY <1>2 DEF Covered, Owners, Entries, HasInfo
<1>5. ASSUME NEW l, NEW o, Onward(w, l, c, o), CountsAt(k, l, c)' PROVE CountsOf(w)'
  <2>1. job'[w].pc = l /\ job'[w].key = k /\ job'[w].count = c
    BY <1>5 DEF Onward, Key
  <2>. QED  BY <1>5, <2>1 DEF CountsOf, Key, CountsAt, HasInfo, Owners, Entries, Rows
<1>. QED  BY <1>1, <1>2, <1>4, <1>5, LocalCounts

LEMMA CountsInfo ==
  ASSUME TypeOK, Finite, Alone, Regular, Counts, NEW w \in Workers,
         \/ UploadInsertInfo(w) \/ Md5Increment(w) \/ Md5Restore(w) \/ SaveIncrement(w)
         \/ DeleteDecrement(w) \/ DeleteInfo(w)
  PROVE  Counts'
<1>1. Serves(w) /\ own' = own
  BY DEF Serves, Upload, Md5, Save, Delete, UploadInsertInfo, Md5Increment, Md5Restore, SaveIncrement,
     DeleteDecrement, DeleteInfo
<1>2. PICK k \in Keys, m \in Md5s, c \in Nat : k = Key(w) /\ m = Md5Of(k) /\ c = job[w].count
  BY <1>1, Framed, KeyTyped DEF Frame, TypeOK, Jobs
<1>3. Covered(m) /\ CountsAt(k, job[w].pc, c) /\ JobsOK /\ TablesOK /\ Owners(m) \in Nat
  BY <1>2, OwnersTyped DEF Counts, CountsOf, TypeOK
<1>4. Owners(m)' = Owners(m) /\ world' = world
  BY <1>1, Framed, SameEntries DEF Rows, Frame
<1>5. ASSUME NEW l, Go(w, l), CountsAt(k, l, c)', Covered(m)' PROVE Counts'
  <2>1. Covered(Md5Of(k))'
    BY <1>2, <1>5
  <2>. QED  BY <1>1, <1>2, <1>3, <1>5, <2>1, GoOnward, Rewritten
<1>6. ASSUME Finish(w), Covered(m)' PROVE Counts'
  <2>1. Covered(Md5Of(k))'
    BY <1>2, <1>6
  <2>. QED  BY <1>1, <1>2, <1>3, <1>6, <2>1, FinishEnds, Rewritten
<1>7. /\ HasInfo(Md5Of(k))' <=> HasInfo(m)'
      /\ HasInfo(m)' <=> file_info'[m] # {}
      /\ Owners(Md5Of(k))' = Owners(m)
  BY <1>2, <1>4 DEF HasInfo
\* The new count covers the owners.
<1>8. ASSUME NEW n \in Nat, SetCount(m, n), Owners(m) <= n
      PROVE  /\ Covered(m)' /\ (HasInfo(m)' <=> HasInfo(m))
             /\ \A r \in file_info'[m] : r.count = n
  <2>1. /\ HasInfo(m)' <=> HasInfo(m)
        /\ \A r \in file_info'[m] : r.count = n /\ \E s \in file_info[m] : r = [s EXCEPT !.count = n]
    BY <1>3, <1>8, SetCountRows
  <2>2. \A r, s \in file_info'[m] : r = s
    BY <1>3, <2>1 DEF Covered
  <2>. QED  BY <1>3, <1>4, <1>8, <2>1, <2>2 DEF Covered
<1>10. CASE UploadInsertInfo(w)
  <2>1. job[w].pc = "up_info" /\ (world.unique \/ ~HasInfo(m))
    BY <1>2, <1>3, <1>10 DEF UploadInsertInfo, At, CountsAt, Uploading
  <2>2. CASE Finish(w) /\ UNCHANGED file_info
    <3>1. Covered(m)'
      BY <1>3, <1>4, <2>2 DEF Covered, HasInfo
    <3>. QED  BY <1>6, <2>2, <3>1
  <2>3. CASE /\ ~(world.unique /\ HasInfo(m)) /\ Go(w, "up_row")
             /\ file_info' = [file_info EXCEPT ![m] = @ \cup {[count |-> 1, obj |-> job[w].obj]}]
    <3>1. file_info'[m] = {[count |-> 1, obj |-> job[w].obj]} /\ ~HasInfo(m)
      BY <1>3, <2>1, <2>3 DEF TablesOK, HasInfo
    <3>2. Owners(m) = 0
      BY <1>3, <3>1 DEF Covered
    <3>3. \A r \in file_info'[m] : r.count = 1
      BY <3>1
    <3>4. Covered(m)' /\ HasInfo(m)'
      BY <1>4, <3>1, <3>2, <3>3 DEF Covered, HasInfo
    <3>5. CountsAt(k, "up_row", c)'
      BY <1>2, <1>7, <3>2, <3>3, <3>4 DEF CountsAt, Owing, Counted, Restoring, Listed, Discarding, Uploading
    <3>. QED  BY <1>5, <2>3, <3>4, <3>5
  <2>. QED  BY <1>2, <1>10, <2>2, <2>3 DEF UploadInsertInfo
<1>11. ASSUME NEW l \in {"md5_row", "sv_row"}, job[w].pc \in Counted, SetCount(m, c + 1), Go(w, l)
       PROVE  Counts'
  <2>1. HasInfo(m) /\ \A r \in file_info[m] : r.count = c
    BY <1>2, <1>3, <1>11 DEF CountsAt
  <2>2. Owners(m) <= c
    BY <1>3, <2>1 DEF Covered, HasInfo
  <2>3. Covered(m)' /\ HasInfo(m)' /\ \A r \in file_info'[m] : r.count = c + 1
    BY <1>3, <1>8, <1>11, <2>1, <2>2
  <2>4. CountsAt(k, l, c)'
    BY <1>2, <1>3, <1>7, <1>11, <2>2, <2>3 DEF CountsAt, Owing, Counted, Restoring, Listed, Discarding, Uploading
  <2>. QED  BY <1>5, <1>11, <2>3, <2>4
<1>12. CASE Md5Increment(w)
  BY <1>2, <1>11, <1>12 DEF Md5Increment, At, Counted
<1>13. CASE SaveIncrement(w)
  <2>1. CASE UNCHANGED file_info /\ Finish(w)
    <3>1. Covered(m)'
      BY <1>3, <1>4, <2>1 DEF Covered, HasInfo
    <3>. QED  BY <1>6, <2>1, <3>1
  <2>. QED  BY <1>2, <1>11, <1>13, <2>1 DEF SaveIncrement, At, Counted
<1>14. CASE Md5Restore(w)
  <2>1. Owners(m) <= c
    BY <1>2, <1>3, <1>14 DEF Md5Restore, At, CountsAt, Restoring
  <2>. QED  BY <1>2, <1>6, <1>8, <1>14, <2>1 DEF Md5Restore
<1>15. CASE DeleteDecrement(w)
  <2>1. /\ HasInfo(m) /\ \A r \in file_info[m] : r.count = c /\ Owners(m) < r.count
    BY <1>2, <1>3, <1>15 DEF DeleteDecrement, At, CountsAt, Owing, Counted
  <2>2. c - 1 \in Nat /\ Owners(m) <= c - 1
    BY <1>3, <2>1 DEF HasInfo
  <2>3. CASE UNCHANGED file_info /\ Finish(w)
    <3>1. Covered(m)'
      BY <1>3, <1>4, <2>3 DEF Covered, HasInfo
    <3>. QED  BY <1>6, <2>3, <3>1
  <2>4. CASE SetCount(m, c - 1) /\ c - 1 = 0 /\ Go(w, "de_fileid")
    <3>1. CountsAt(k, "de_fileid", c)'
      BY <1>2, <1>3, <1>7, <2>2, <2>4 DEF CountsAt, Owing, Counted, Restoring, Listed, Discarding, Uploading
    <3>. QED  BY <1>5, <1>8, <2>2, <2>4, <3>1
  <2>5. CASE SetCount(m, c - 1) /\ Finish(w)
    BY <1>6, <1>8, <2>2, <2>5
  <2>. QED  BY <1>2, <1>15, <2>3, <2>4, <2>5 DEF DeleteDecrement
<1>16. CASE DeleteInfo(w)
  <2>1. file_info'[m] = {} /\ Owners(m) = 0
    BY <1>2, <1>3, <1>16 DEF DeleteInfo, At, CountsAt, Discarding, TablesOK
  <2>2. Covered(m)'
    BY <1>4, <2>1 DEF Covered
  <2>3. CountsAt(k, "de_object", c)'
    BY <1>2, <1>7, <2>1 DEF CountsAt, Owing, Counted, Restoring, Listed, Discarding, Uploading
  <2>. QED  BY <1>5, <1>16, <2>2, <2>3 DEF DeleteInfo
<1>. QED  BY <1>10, <1>12, <1>13, <1>14, <1>15, <1>16

LEMMA CountsRows ==
  ASSUME TypeOK, Finite, Alone, Regular, Counts, NEW w \in Workers,
         UploadInsertRow(w) \/ Md5InsertRow(w) \/ SaveInsertRow(w) \/ DeleteRows(w)
  PROVE  Counts'
<1>1. Serves(w) /\ file_info' = file_info
  BY DEF Serves, Upload, Md5, Save, Delete, UploadInsertRow, Md5InsertRow, SaveInsertRow, DeleteRows
<1>2. PICK k \in Keys, m \in Md5s, c \in Nat : k = Key(w) /\ m = Md5Of(k) /\ c = job[w].count
  BY <1>1, Framed, KeyTyped DEF Frame, TypeOK, Jobs
<1>3. Covered(m) /\ CountsAt(k, job[w].pc, c) /\ JobsOK /\ TablesOK /\ Owners(m) \in Nat
  BY <1>2, OwnersTyped DEF Counts, CountsOf, TypeOK
<1>5. ASSUME NEW l, Go(w, l), CountsAt(k, l, c)', Covered(m)' PROVE Counts'
  <2>1. Covered(Md5Of(k))'
    BY <1>2, <1>5
  <2>. QED  BY <1>1, <1>2, <1>3, <1>5, <2>1, GoOnward, Rewritten
<1>6. ASSUME Finish(w), Covered(m)' PROVE Counts'
  <2>1. Covered(Md5Of(k))'
    BY <1>2, <1>6
  <2>. QED  BY <1>1, <1>2, <1>3, <1>6, <2>1, FinishEnds, Rewritten
<1>7. HasInfo(m)' = HasInfo(m)
  BY <1>1 DEF HasInfo
<1>8. CASE UploadInsertRow(w) \/ Md5InsertRow(w) \/ SaveInsertRow(w)
  <2>1. HasInfo(m) /\ \A r \in file_info[m] : Owners(m) < r.count
    BY <1>2, <1>3, <1>8 DEF UploadInsertRow, Md5InsertRow, SaveInsertRow, At, CountsAt, Owing
  <2>2. InsertOwn(k) /\ (Finish(w) \/ Go(w, "md5_user"))
    BY <1>2, <1>8 DEF UploadInsertRow, Md5InsertRow, SaveInsertRow
  <2>3. Owners(m)' = Owners(m) + 1
    BY <1>2, <1>3, <2>2, InsertOwner
  <2>4. \A r \in file_info[m] : r.count \in Nat
    BY <1>3, RowTyped
  <2>5. Covered(m)'
    BY <1>1, <1>3, <1>7, <2>1, <2>3, <2>4 DEF Covered
  <2>6. CountsAt(k, "md5_user", c)'
    BY DEF CountsAt, Owing, Counted, Restoring, Listed, Discarding, Uploading
  <2>. QED  BY <1>5, <1>6, <2>2, <2>5, <2>6
<1>9. CASE DeleteRows(w)
  <2>1. Rows(k) > 0
    BY <1>2, <1>3, <1>9 DEF DeleteRows, At, CountsAt, Listed
  <2>2. Owners(m)' < Owners(m) /\ Owners(m)' \in Nat
    BY <1>2, <1>3, <1>9, <2>1, DeleteOwner DEF DeleteRows
  <2>3. HasInfo(m) /\ \A r \in file_info[m] : r.count \in Nat /\ Owners(m)' < r.count
    BY <1>3, <2>2, RowTyped DEF Covered
  <2>4. Covered(m)'
    BY <1>1, <1>3, <1>7, <2>3, <2>2 DEF Covered
  <2>5. CountsAt(k, "de_count", c)'
    BY <1>1, <1>2, <1>7, <2>3 DEF CountsAt, Owing, Counted, Restoring, Listed, Discarding, Uploading
  <2>. QED  BY <1>5, <1>9, <2>4, <2>5 DEF DeleteRows
<1>. QED  BY <1>8, <1>9

LEMMA CountsStep ==
  ASSUME TypeOK, Finite, Alone, Regular => Counts, Regular', [Next]_vars
  PROVE  Counts'
<1>1. Regular
  BY DEF Regular, Next, Step, Request, Crash, vars, budget, Upload, Md5, Save, Delete, Share, Cancel, UploadStore, UploadInsertInfo,
     UploadInsertRow, Md5ReadCount, Md5CheckOwner, Md5Increment, Md5InsertRow, Md5CountUser,
     Md5Restore, SaveCheckOwner, SaveReadCount, SaveIncrement, SaveInsertRow, DeleteReadStatus,
     DeleteZrem, DeleteHdel, DeleteShareRows, DeleteRows, DeleteReadCount, DeleteDecrement,
     DeleteReadFileId, DeleteInfo, DeleteObject, ShareZsetExit, ShareReadRows, ShareMark,
     ShareInsertRow, ShareZadd, ShareHset, CancelMark, CancelRows, CancelZrem, CancelHdel,
     StatementFails
<1>2. ASSUME NEW w \in Workers, Serves(w) PROVE Counts'
  BY <1>1, <1>2, CountsRead, CountsElsewhere, CountsInfo, CountsRows DEF Serves, Upload, Md5, Save, Delete
<1>3. ASSUME NEW w \in Workers, NEW op \in DOMAIN First, NEW k \in Keys, Request(w, op, k) PROVE Counts'
  <2>1. world' = world /\ file_info' = file_info /\ own' = own
    BY <1>3 DEF Request, db
  <2>2. \A m \in Md5s : Owners(m)' = Owners(m) /\ HasInfo(m)' = HasInfo(m) /\ Covered(m)'
    BY <1>1, <2>1, SameEntries DEF Counts, Covered, Rows, HasInfo
  <2>3. /\ job'[w].key = k /\ job'[w].pc = First[op] /\ \A v \in Workers \ {w} : job'[v] = job[v]
    BY <1>3 DEF Request, TypeOK, JobsOK
  <2>4. ASSUME NEW v \in Workers PROVE CountsOf(v)'
    <3>1. CASE v # w
      <4>1. PICK x, l, c : x = Key(v) /\ l = job[v].pc /\ c = job[v].count
        OBVIOUS
      <4>2. CountsAt(x, l, c)
        BY <1>1, <4>1 DEF Counts, CountsOf
      <4>3. CountsAt(x, l, c)'
        BY <2>1, <4>2 DEF CountsAt, HasInfo, Owners, Entries, Rows
      <4>. QED  BY <2>3, <3>1, <4>1, <4>3 DEF CountsOf, CountsAt, Key, HasInfo, Owners, Entries, Rows
    <3>2. CASE v = w
      <4>1. op = "upload" => world.unique \/ ~HasInfo(Md5Of(k))
        BY <1>1, <1>3 DEF Request, Regular, Sensible
      <4>2. First[op] \in Plain \cup {"up_store"} /\ (First[op] = "up_store" => op = "upload")
        BY DEF First, Plain
      <4>3. HasInfo(Md5Of(k))' = HasInfo(Md5Of(k)) /\ world' = world
        BY <2>1 DEF HasInfo
      <4>4. \A c : CountsAt(k, First[op], c)'
        BY <4>1, <4>2, <4>3 DEF CountsAt, Plain, Owing, Counted, Restoring, Listed, Discarding, Uploading
      <4>. QED  BY <2>3, <3>2, <4>4 DEF CountsOf, CountsAt, Key, HasInfo, Owners, Entries, Rows
    <3>. QED  BY <3>1, <3>2
  <2>. QED  BY <2>2, <2>4 DEF Counts
<1>4. CASE Crash
  <2>1. file_info' = file_info /\ own' = own /\ \A w \in Workers : job'[w].pc = "idle"
    BY <1>4 DEF Crash, db, Idle
  <2>2. \A m \in Md5s : Covered(m)'
    BY <1>1, <2>1, SameEntries DEF Counts, Covered, Rows, HasInfo
  <2>3. \A w \in Workers : CountsOf(w)'
    BY <2>1 DEF CountsOf, CountsAt, Owing, Counted, Restoring, Listed, Discarding, Uploading
  <2>. QED  BY <2>2, <2>3 DEF Counts
<1>5. CASE UNCHANGED vars
  <2>1. file_info' = file_info /\ own' = own /\ job' = job /\ world' = world
    BY <1>5 DEF vars, db, budget
  <2>2. \A m \in Md5s : Covered(m)'
    BY <1>1, <2>1, SameEntries DEF Counts, Covered, Rows, HasInfo
  <2>3. ASSUME NEW w \in Workers PROVE CountsOf(w)'
    <3>1. CountsOf(w)
      BY <1>1 DEF Counts
    <3>. QED  BY <2>1, <3>1 DEF CountsOf, CountsAt, HasInfo, Owners, Entries, Rows, Key
  <2>. QED  BY <2>2, <2>3 DEF Counts
<1>. QED  BY <1>2, <1>3, <1>4, <1>5 DEF Next, Step, Serves

LEMMA InitCounts == Init => CountInv
<1>. SUFFICES ASSUME Init PROVE CountInv
  OBVIOUS
<1>1. \A w \in Workers : job[w].pc = "idle"
  BY DEF Init, Idle
<1>2. \A k \in Keys : Rows(k) = 0
  BY DEF Init, Rows
<1>3. \A m \in Md5s : Entries(m) = {} /\ ~HasInfo(m) /\ file_info[m] = {}
  BY <1>2, EntriesAre DEF Init, HasInfo
<1>4. \A m \in Md5s : IsFiniteSet(Entries(m)) /\ Owners(m) = 0
  BY <1>3, FS_EmptySet DEF Owners
<1>5. Finite /\ Alone
  BY <1>1, <1>4 DEF Finite, Alone, At
<1>6. Counts
  BY <1>1, <1>3, <1>4 DEF Counts, Covered, CountsOf, CountsAt, Owing, Counted, Restoring, Listed,
     Discarding, Uploading
<1>. QED  BY <1>5, <1>6 DEF CountInv

LEMMA CountInvariant == Spec => [](IInv /\ CountInv)
<1>1. IInv /\ CountInv /\ [Next]_vars => CountInv'
  BY FiniteStep, AloneStep, CountsStep DEF IInv, CountInv
<1>. QED  BY InitCounts, <1>1, CatalogueInvariant, PTL DEF Spec

\* Tables and handlers keep their types, a handler stays at its labels, and a
\* count about to be lowered is positive.
THEOREM CatalogueTypes == Spec => []TypeOK
BY CatalogueInvariant, PTL DEF IInv

\* The reference count of a listed file is at least the number of rows that list
\* it, where requests about one file do not overlap and it has one row: whatever
\* statements fail and wherever the process dies.
THEOREM CatalogueCountsCover == Spec => []CountCoversOwners
<1>1. IInv /\ CountInv => CountCoversOwners
  <2>. SUFFICES ASSUME IInv, CountInv, Regular, NEW m \in Md5s, Owners(m) > 0
                PROVE  \E r \in file_info[m] : Owners(m) <= r.count
    BY DEF CountCoversOwners
  <2>1. Covered(m)
    BY DEF CountInv, Counts
  <2>. QED  BY <2>1 DEF Covered, HasInfo
<1>. QED  BY <1>1, CountInvariant, PTL

-----------------------------------------------------------------------------
(* The catalogue implements RefCatalog *)

\* By NoDanglingRow what can be downloaded is what has a row.
LEMMA StoredIs ==
  ASSUME NoDanglingRow
  PROVE  {m \in Md5s : \E r \in file_info[m] : r.obj \in objects} = {m \in Md5s : HasInfo(m)}
BY DEF NoDanglingRow, HasInfo

LEMMA CatalogueInitMaps == Init => RC!Init
<1>. SUFFICES ASSUME Init PROVE RC!Init
  OBVIOUS
<1>1. \A k \in Keys : Rows(k) = 0
  BY DEF Init, Rows
<1>. QED  BY <1>1 DEF Init, RC!Init

\* What happens to one entry and to one file is a step of RefCatalog each.
LEMMA CatalogueStepMaps ==
  ASSUME IInv, CountInv, IInv', CountInv', [Next]_vars
  PROVE  RC!Next \/ UNCHANGED RC!cvars
<1>. DEFINE listed == IF Regular THEN {k \in Keys : Rows(k) > 0} ELSE {}
            stored == {m \in Md5s : \E r \in file_info[m] : r.obj \in objects}
<1>1. /\ stored = {m \in Md5s : HasInfo(m)}
      /\ stored' = {m \in Md5s : HasInfo(m)'}
  BY StoredIs DEF IInv, FilesSafe, NoDanglingRow, HasInfo
<1>2. ASSUME NEW w \in Workers, Serves(w) PROVE RC!Next \/ (listed' = listed /\ stored' = stored)
  <2>1. PICK k \in Keys, m \in Md5s : k = Key(w) /\ m = Md5Of(k)
    BY <1>2, Framed, KeyTyped DEF Frame, IInv, TypeOK
  <2>f. /\ \A n \in Md5s \ {m} : HasInfo(n)' = HasInfo(n)
        /\ (Regular' <=> Regular)
    BY <1>2, <2>1, Framed DEF IInv, Frame, HasInfo, Held, Regular
  <2>2. CASE file_info' = file_info /\ \A j \in Keys : Rows(j)' = Rows(j)
    BY <1>1, <2>f, <2>2 DEF HasInfo
  <2>3. CASE \/ UploadInsertInfo(w) \/ Md5Increment(w) \/ Md5Restore(w) \/ SaveIncrement(w)
             \/ DeleteDecrement(w)
    <3>1. own' = own /\ listed' = listed
      BY <2>f, <2>3 DEF UploadInsertInfo, Md5Increment, Md5Restore, SaveIncrement, DeleteDecrement, Rows
    <3>2. HasInfo(m)' \/ ~HasInfo(m)
      <4>1. file_info' = file_info => HasInfo(m)' = HasInfo(m)
        BY DEF HasInfo
      <4>2. UploadInsertInfo(w) => HasInfo(m)' \/ file_info' = file_info
        BY <2>1 DEF UploadInsertInfo, HasInfo, IInv, TypeOK, TablesOK
      <4>3. job[w].count \in Nat /\ (DeleteDecrement(w) => job[w].count - 1 \in Nat)
        BY <1>2, Framed DEF IInv, TypeOK, JobsOK, Jobs, Frame, DeleteDecrement
      <4>4. (\E c \in Nat : SetCount(m, c)) => (HasInfo(m)' <=> HasInfo(m))
        BY SetCountRows DEF IInv, TypeOK
      <4>5. \/ UploadInsertInfo(w) \/ file_info' = file_info \/ (\E c \in Nat : SetCount(m, c))
        BY <2>1, <2>3, <4>3 DEF Md5Increment, Md5Restore, SaveIncrement, DeleteDecrement
      <4>. QED  BY <4>1, <4>2, <4>4, <4>5
    <3>3. CASE HasInfo(m)' /\ ~HasInfo(m)
      <4>1. m \notin stored /\ stored' = stored \cup {m}
        BY <1>1, <2>f, <3>3
      <4>2. RC!Store(m)
        BY <3>1, <4>1 DEF RC!Store
      <4>. QED  BY <4>2 DEF RC!Next
    <3>4. CASE HasInfo(m)' <=> HasInfo(m)
      <4>1. stored' = stored
        BY <1>1, <2>f, <3>4
      <4>. QED  BY <3>1, <4>1
    <3>. QED  BY <3>2, <3>3, <3>4
  <2>4. CASE UploadInsertRow(w) \/ Md5InsertRow(w) \/ SaveInsertRow(w)
    <3>1. stored' = stored /\ InsertOwn(k)
      BY <1>1, <2>1, <2>4 DEF UploadInsertRow, Md5InsertRow, SaveInsertRow, HasInfo
    <3>2. CASE ~Regular
      BY <2>f, <3>1, <3>2
    <3>3. CASE Regular
      <4>1. CountsAt(k, job[w].pc, job[w].count)
        BY <2>1, <3>3 DEF CountInv, Counts, CountsOf
      <4>2. Md5Of(k) \in stored
        BY <1>1, <2>1, <2>4, <4>1 DEF UploadInsertRow, Md5InsertRow, SaveInsertRow, At, CountsAt, Owing
      <4>3. Rows(k)' > 0 /\ \A j \in Keys \ {k} : Rows(j)' = Rows(j)
        BY <2>1, <3>1, InsertOwner, RowsTyped DEF CountInv, IInv, TypeOK
      <4>4. listed' = listed \cup {k}
        BY <2>f, <3>3, <4>3
      <4>5. RC!List(k)
        BY <3>1, <4>2, <4>4 DEF RC!List
      <4>. QED  BY <4>5 DEF RC!Next
    <3>. QED  BY <3>2, <3>3
  <2>5. CASE DeleteRows(w)
    <3>1. stored' = stored
      BY <1>1, <2>5 DEF DeleteRows, HasInfo
    <3>2. Rows(k)' = 0 /\ \A j \in Keys \ {k} : Rows(j)' = Rows(j)
      BY <2>1, <2>5, DeleteOwner DEF DeleteRows, CountInv, IInv, TypeOK
    <3>3. listed' = listed \ {k}
      BY <2>f, <3>2
    <3>4. RC!Unlist(k)
      BY <3>1, <3>3 DEF RC!Unlist
    <3>. QED  BY <3>4 DEF RC!Next
  <2>6. CASE DeleteInfo(w)
    <3>1. listed' = listed
      BY <2>f, <2>6 DEF DeleteInfo, Rows
    <3>2. stored' = stored \ {m}
      <4>1. ~HasInfo(m)'
        BY <2>1, <2>6 DEF DeleteInfo, HasInfo, IInv, TypeOK, TablesOK
      <4>. QED  BY <1>1, <2>f, <4>1
    <3>3. \A j \in listed : Md5Of(j) # m
      <4>1. CASE Regular
        <5>1. CountsAt(k, job[w].pc, job[w].count)
          BY <2>1, <4>1 DEF CountInv, Counts, CountsOf
        <5>2. Owners(m) = 0
          BY <2>1, <2>6, <5>1 DEF DeleteInfo, At, CountsAt, Discarding
        <5>3. \A j \in Keys : Md5Of(j) = m => Rows(j) = 0
          BY <5>2, NoOwners DEF CountInv, IInv, TypeOK
        <5>. QED  BY <5>3
      <4>. QED  BY <4>1
    <3>4. RC!Discard(m)
      BY <3>1, <3>2, <3>3 DEF RC!Discard
    <3>. QED  BY <3>4 DEF RC!Next
  <2>7. CASE \/ UploadStore(w) \/ Md5ReadCount(w) \/ Md5CheckOwner(w) \/ SaveCheckOwner(w) \/ SaveReadCount(w)
             \/ DeleteReadStatus(w) \/ DeleteReadCount(w) \/ DeleteReadFileId(w)
             \/ Md5CountUser(w) \/ DeleteZrem(w) \/ DeleteHdel(w) \/ DeleteShareRows(w) \/ DeleteObject(w)
             \/ Share(w) \/ Cancel(w) \/ StatementFails(w)
    <3>1. file_info' = file_info /\ (own' = own \/ (\E s \in {0, 1} : MarkShared(k, s)))
      BY <2>1, <2>7 DEF db, Share, Cancel, UploadStore, Md5ReadCount, Md5CheckOwner,
         SaveCheckOwner, SaveReadCount, DeleteReadStatus, DeleteReadCount, DeleteReadFileId,
         Md5CountUser, DeleteZrem, DeleteHdel, DeleteShareRows, DeleteObject,
         ShareZsetExit, ShareReadRows, ShareMark, ShareInsertRow, ShareZadd, ShareHset, CancelMark,
         CancelRows, CancelZrem, CancelHdel, StatementFails
    <3>. QED  BY <2>2, <3>1, MarkedRows DEF Rows, IInv, TypeOK
  <2>. QED  BY <1>2, <2>3, <2>4, <2>5, <2>6, <2>7 DEF Serves, Upload, Md5, Save, Delete
<1>3. ASSUME UNCHANGED <<file_info, own, objects, world>> PROVE listed' = listed /\ stored' = stored
  BY <1>3 DEF Regular, Rows
<1>4. ASSUME ~\E w \in Workers : Serves(w) PROVE UNCHANGED <<file_info, own, objects, world>>
  BY <1>4 DEF Next, Step, Serves, Request, Crash, vars, db, fdfs, budget
<1>. QED  BY <1>2, <1>3, <1>4 DEF RC!cvars

\* While requests about one file do not overlap and it has one row, every step
\* of the handlers is one of RefCatalog or changes nothing it sees: a file that
\* is listed can be downloaded, and is discarded only when nobody lists it.
THEOREM CatalogueImplements == Spec => ImplementsRefCatalog
<1>1. IInv /\ CountInv /\ (IInv /\ CountInv)' /\ [Next]_vars => [RC!Next]_RC!cvars
  BY CatalogueStepMaps
<1>. QED  BY CatalogueInitMaps, <1>1, CountInvariant, PTL DEF Spec, ImplementsRefCatalog, RC!Spec

-----------------------------------------------------------------------------
(* Without failures, and with the requests the web client sends, the counts *)
(* are exact and no file is left behind.                                    *)

\* The entry to be added is not there.
Unlisted == {"up_row", "md5_inc", "md5_row", "sv_count", "sv_inc", "sv_row"}

\* A handler of entry k at l, with file o in hand.
ExactAt(k, l, o) ==
  LET m == Md5Of(k) IN
  /\ l \in Owing => \A r \in file_info[m] : r.count = Owners(m) + 1
  /\ l \in Unlisted => Rows(k) = 0
  /\ l \in Uploading => ~HasInfo(m)
  /\ l = "de_info" => \A r \in file_info[m] : r.obj = o
  /\ l = "de_object" => ~HasInfo(m)
  /\ l # "md5_restore"

ExactOf(w) == ExactAt(Key(w), job[w].pc, job[w].obj)

\* No handler is where the count and the rows of users differ.
Between == Owing \cup Discarding
Settled(m) ==
  \A w \in Workers : ~At(w, "idle") /\ Held(w) = m => job[w].pc \notin Between

ExactRows(m) == \A r \in file_info[m] : r.count = Owners(m) /\ Owners(m) > 0

\* A file is in a row or with the handler that stores or removes it.
Accounted(o) ==
  \/ \E m \in Md5s : o \in Named(m)
  \/ \E w \in Workers : job[w].pc \in {"up_info", "de_object"} /\ job[w].obj = o

ExactCounts ==
  /\ \A m \in Md5s : Settled(m) => ExactRows(m)
  /\ \A k \in Keys : Rows(k) <= 1
  /\ \A w \in Workers : ExactOf(w)

ExactInv == Calm => ExactCounts /\ \A o \in objects : Accounted(o)

LEMMA CalmIsRegular == Calm => Regular
BY DEF Calm, Regular

\* The handler has its file to itself.
LEMMA SettledBy ==
  ASSUME Alone, Calm, ExactCounts, NEW w \in Workers, ~At(w, "idle"), job[w].pc \notin Between,
         NEW m \in Md5s, m = Held(w)
  PROVE  ExactRows(m)
BY DEF Alone, Calm, ExactCounts, Settled

LEMMA LocalExact ==
  ASSUME TypeOK, Alone, Calm, ExactCounts, NEW w \in Workers, Frame(w),
         NEW k \in Keys, NEW m \in Md5s, k = Key(w), m = Held(w), m = Md5Of(k),
         \A j \in Keys : Rows(j)' <= 1,
         \/ Ended(w) /\ ExactRows(m)'
         \/ \E l, c, o : Onward(w, l, c, o) /\ ExactAt(k, l, o)' /\ (l \in Between \/ ExactRows(m)')
  PROVE  ExactCounts'
<1>1. \A n \in Md5s \ {m} : /\ file_info'[n] = file_info[n] /\ Owners(n)' = Owners(n)
                            /\ Entries(n)' = Entries(n) /\ HasInfo(n)' = HasInfo(n)
  BY SameEntries DEF Frame, HasInfo
<1>2. \A v \in Workers \ {w} : job'[v] = job[v]
  BY DEF Frame, Ended, Onward
<1>3. ASSUME NEW n \in Md5s, Settled(n)' PROVE ExactRows(n)'
  <2>1. CASE n # m
    <3>1. Settled(n)
      BY <1>2, <1>3, <2>1 DEF Settled, At, Held, Key
    <3>2. ExactRows(n)
      BY <3>1 DEF ExactCounts
    <3>. QED  BY <1>1, <2>1, <3>2 DEF ExactRows
  <2>2. CASE n = m /\ ~ExactRows(m)'
    <3>1. PICK l, c, o : Onward(w, l, c, o) /\ l \in Between
      BY <2>2
    <3>2. job'[w].pc = l /\ job'[w].key = k /\ l # "idle"
      BY <3>1 DEF Onward, Key, Between, Owing, Discarding
    <3>. QED  BY <1>3, <2>2, <3>1, <3>2 DEF Settled, At, Held, Key
  <2>. QED  BY <2>1, <2>2
<1>4. ASSUME NEW v \in Workers PROVE ExactOf(v)'
  <2>1. CASE job'[v].pc = "idle"
    BY <2>1 DEF ExactOf, ExactAt, Owing, Unlisted, Uploading
  <2>2. CASE v = w /\ ~Ended(w)
    <3>1. PICK l, c, o : Onward(w, l, c, o) /\ ExactAt(k, l, o)'
      BY <2>2
    <3>2. job'[v].pc = l /\ job'[v].key = k /\ job'[v].obj = o
      BY <2>2, <3>1 DEF Onward, Key
    <3>. QED  BY <3>1, <3>2 DEF ExactOf, ExactAt, Key, HasInfo, Owners, Entries, Rows
  <2>3. CASE v # w /\ job'[v].pc # "idle"
    <3>1. job'[v] = job[v] /\ ~At(v, "idle")
      BY <1>2, <2>3 DEF At
    <3>2. PICK x \in Keys, n \in Md5s : x = Key(v) /\ n = Md5Of(x) /\ n # m
      BY <2>3, <3>1, KeyTyped DEF TypeOK, Alone, Calm, Frame, Held
    <3>3. Rows(x)' = Rows(x)
      BY <3>2 DEF Frame
    <3>4. ExactAt(x, job[v].pc, job[v].obj)
      BY <3>2 DEF ExactCounts, ExactOf
    <3>5. PICK l, o : l = job[v].pc /\ o = job[v].obj
      OBVIOUS
    <3>6. Owners(Md5Of(x))' = Owners(Md5Of(x)) /\ HasInfo(Md5Of(x))' = HasInfo(Md5Of(x))
          /\ file_info'[Md5Of(x)] = file_info[Md5Of(x)]
      BY <1>1, <3>2
    <3>7. ExactAt(x, l, o)'
      BY <3>3, <3>4, <3>5, <3>6 DEF ExactAt
    <3>. QED  BY <3>1, <3>2, <3>5, <3>7 DEF ExactOf, ExactAt, Key, HasInfo, Owners, Entries, Rows
  <2>. QED  BY <2>1, <2>2, <2>3 DEF Ended
<1>. QED  BY <1>3, <1>4 DEF ExactCounts

\* A step that leaves the rows of file_info and of users.
LEMMA ExactUntouched ==
  ASSUME TypeOK, Alone, Calm, ExactCounts, NEW w \in Workers, Serves(w),
         file_info' = file_info, \A j \in Keys : Rows(j)' = Rows(j),
         NEW k \in Keys, NEW m \in Md5s, k = Key(w), m = Md5Of(k),
         \/ Ended(w) /\ ExactRows(m)
         \/ \E l, c, o : Onward(w, l, c, o) /\ ExactAt(k, l, o) /\ (l \in Between \/ ExactRows(m))
  PROVE  ExactCounts'
<1>1. Frame(w) /\ m = Held(w)
  BY Framed DEF Held
<1>2. Owners(m)' = Owners(m) /\ HasInfo(m)' = HasInfo(m)
  BY SameEntries DEF HasInfo
<1>3. ExactRows(m)' <=> ExactRows(m)
  BY <1>2 DEF ExactRows
<1>4. ASSUME NEW l, NEW o, ExactAt(k, l, o) PROVE ExactAt(k, l, o)'
  <2>1. Owners(Md5Of(k))' = Owners(Md5Of(k)) /\ HasInfo(Md5Of(k))' = HasInfo(Md5Of(k))
    BY <1>2
  <2>. QED  BY <1>4, <2>1 DEF ExactAt
<1>5. \A j \in Keys : Rows(j)' <= 1
  BY DEF ExactCounts
<1>6. CASE Ended(w) /\ ExactRows(m)
  BY <1>1, <1>3, <1>5, <1>6, LocalExact
<1>7. ASSUME NEW l, NEW c, NEW o, Onward(w, l, c, o), ExactAt(k, l, o), l \in Between \/ ExactRows(m)
      PROVE  ExactCounts'
  BY <1>1, <1>3, <1>4, <1>5, <1>7, LocalExact
<1>. QED  BY <1>6, <1>7

\* Handlers that leave file_info and how many rows a user has.
LEMMA ExactElsewhere ==
  ASSUME TypeOK, Finite, Alone, Calm, Counts, ExactCounts, NEW w \in Workers,
         \/ UploadStore(w) \/ Md5ReadCount(w) \/ Md5CheckOwner(w) \/ SaveCheckOwner(w) \/ SaveReadCount(w)
         \/ DeleteReadStatus(w) \/ DeleteReadCount(w) \/ DeleteReadFileId(w)
         \/ Md5CountUser(w) \/ DeleteZrem(w) \/ DeleteHdel(w) \/ DeleteShareRows(w) \/ DeleteObject(w)
         \/ Share(w) \/ Cancel(w)
  PROVE  ExactCounts'
<1>1. Serves(w) /\ file_info' = file_info
  BY DEF Serves, Upload, Md5, Save, Delete, Share, Cancel, db, UploadStore, Md5ReadCount, Md5CheckOwner,
     SaveCheckOwner, SaveReadCount, DeleteReadStatus, DeleteReadCount, DeleteReadFileId,
     Md5CountUser, DeleteZrem, DeleteHdel, DeleteShareRows, DeleteObject,
     ShareZsetExit, ShareReadRows, ShareMark, ShareInsertRow, ShareZadd, ShareHset, CancelMark,
     CancelRows, CancelZrem, CancelHdel
<1>2. PICK k \in Keys, m \in Md5s : k = Key(w) /\ m = Md5Of(k)
  BY <1>1, Framed, KeyTyped DEF Frame, TypeOK
<1>3. \A j \in Keys : Rows(j)' = Rows(j)
  <2>1. own' = own \/ (\E s \in {0, 1} : MarkShared(k, s))
    BY <1>2 DEF db, Share, Cancel, UploadStore, Md5ReadCount, Md5CheckOwner,
       SaveCheckOwner, SaveReadCount, DeleteReadStatus, DeleteReadCount, DeleteReadFileId,
       Md5CountUser, DeleteZrem, DeleteHdel, DeleteShareRows, DeleteObject,
       ShareZsetExit, ShareReadRows, ShareMark, ShareInsertRow, ShareZadd, ShareHset, CancelMark,
       CancelRows, CancelZrem, CancelHdel
  <2>. QED  BY <2>1, MarkedRows DEF Rows, TypeOK
<1>. DEFINE c == job[w].count
            o == job[w].obj
<1>4. /\ Covered(m) /\ CountsAt(k, job[w].pc, c) /\ ExactAt(k, job[w].pc, o) /\ JobsOK /\ TablesOK
      /\ Owners(m) \in Nat /\ Rows(k) \in Nat
  BY <1>2, OwnersTyped, RowsTyped DEF Counts, CountsOf, ExactCounts, ExactOf, TypeOK
<1>5. job[w].pc \notin Between => ExactRows(m)
  BY <1>1, <1>2, Framed, SettledBy DEF Frame, Held
<1>6. ASSUME NEW l, Go(w, l), ExactAt(k, l, o), l \in Between \/ ExactRows(m) PROVE ExactCounts'
  BY <1>1, <1>2, <1>3, <1>4, <1>6, GoOnward, ExactUntouched
<1>7. ASSUME NEW l, NEW n, Keep(w, l, n), ExactAt(k, l, o), l \in Between \/ ExactRows(m) PROVE ExactCounts'
  BY <1>1, <1>2, <1>3, <1>4, <1>7, KeepOnward, ExactUntouched
<1>8. ASSUME NEW l, NEW q, Hold(w, l, q), ExactAt(k, l, q), l \in Between \/ ExactRows(m) PROVE ExactCounts'
  BY <1>1, <1>2, <1>3, <1>4, <1>8, HoldOnward, ExactUntouched
<1>9. ASSUME Finish(w), ExactRows(m) PROVE ExactCounts'
  BY <1>1, <1>2, <1>3, <1>4, <1>9, FinishEnds, ExactUntouched
\* Most places promise nothing.
<1>10. \A l : l \notin Owing \cup Unlisted \cup Uploading \cup {"de_info", "de_object", "md5_restore"}
              => ExactAt(k, l, o)
  BY DEF ExactAt
<1>. HIDE DEF c, o
<1>11. CASE UploadStore(w)
  <2>1. ~HasInfo(m) /\ job[w].pc \notin Between
    BY <1>2, <1>4, <1>11 DEF UploadStore, At, ExactAt, Uploading, Between, Owing, Discarding
  <2>2. ExactAt(k, "up_info", made + 1)
    BY <1>2, <2>1 DEF ExactAt, Owing, Unlisted, Uploading
  <2>. QED  BY <1>5, <1>8, <1>11, <2>1, <2>2 DEF UploadStore
<1>12. CASE Md5ReadCount(w)
  <2>1. ExactRows(m)
    BY <1>5, <1>12 DEF Md5ReadCount, At, Between, Owing, Discarding
  <2>2. ExactAt(k, "md5_owner", o)
    BY <1>10 DEF Owing, Unlisted, Uploading
  <2>. QED  BY <1>7, <1>9, <1>12, <2>1, <2>2 DEF Md5ReadCount, ReadCount
<1>13. CASE Md5CheckOwner(w)
  <2>1. ExactRows(m)
    BY <1>5, <1>13 DEF Md5CheckOwner, At, Between, Owing, Discarding
  <2>2. Rows(k) = 0 => ExactAt(k, "md5_inc", o)
    BY DEF ExactAt, Owing, Unlisted, Uploading
  <2>. QED  BY <1>2, <1>4, <1>6, <1>9, <1>13, <2>1, <2>2 DEF Md5CheckOwner
<1>14. CASE SaveCheckOwner(w)
  <2>1. ExactRows(m)
    BY <1>5, <1>14 DEF SaveCheckOwner, At, Between, Owing, Discarding
  <2>2. Rows(k) = 0 => ExactAt(k, "sv_count", o)
    BY DEF ExactAt, Owing, Unlisted, Uploading
  <2>. QED  BY <1>2, <1>4, <1>6, <1>9, <1>14, <2>1, <2>2 DEF SaveCheckOwner
<1>15. CASE SaveReadCount(w)
  <2>1. ExactRows(m)
    BY <1>5, <1>15 DEF SaveReadCount, At, Between, Owing, Discarding
  <2>2. ExactAt(k, "sv_inc", o)
    BY <1>4, <1>15 DEF SaveReadCount, At, ExactAt, Owing, Unlisted, Uploading
  <2>. QED  BY <1>7, <1>9, <1>15, <2>1, <2>2 DEF SaveReadCount, ReadCount
<1>16. CASE DeleteReadStatus(w)
  <2>1. ExactRows(m)
    BY <1>5, <1>16 DEF DeleteReadStatus, At, Between, Owing, Discarding
  <2>2. ExactAt(k, "de_zset", o) /\ ExactAt(k, "de_rows", o)
    BY <1>10 DEF Owing, Unlisted, Uploading
  <2>. QED  BY <1>6, <1>9, <1>16, <2>1, <2>2 DEF DeleteReadStatus
<1>17. CASE DeleteReadCount(w)
  <2>1. /\ HasInfo(m) /\ \A r \in file_info[m] : Owners(m) < r.count
    BY <1>2, <1>4, <1>17 DEF DeleteReadCount, At, CountsAt, Owing
  <2>2. \A r \in file_info[m] : r.count > 0
    BY <1>4, <2>1, RowTyped
  <2>3. ExactAt(k, "de_dec", o) /\ "de_dec" \in Between
    BY <1>4, <1>17 DEF DeleteReadCount, At, ExactAt, Owing, Unlisted, Uploading, Between
  <2>. QED  BY <1>2, <1>7, <1>17, <2>1, <2>2, <2>3 DEF DeleteReadCount, ReadCount
<1>18. CASE DeleteReadFileId(w)
  <2>1. \A q : (\A r \in file_info[m] : r.obj = q) => ExactAt(k, "de_info", q)
    BY <1>2 DEF ExactAt, Owing, Unlisted, Uploading
  <2>2. "de_info" \in Between
    BY DEF Between, Discarding
  <2>3. PICK q : Hold(w, "de_info", q) /\ \A r \in file_info[m] : r.obj = q
    BY <1>2, <1>4, <1>18 DEF DeleteReadFileId, Covered
  <2>. QED  BY <1>8, <2>1, <2>2, <2>3
<1>19. CASE DeleteObject(w)
  <2>1. ExactRows(m)
    BY <1>2, <1>4, <1>19 DEF DeleteObject, At, ExactAt, ExactRows, HasInfo
  <2>. QED  BY <1>9, <1>19, <2>1 DEF DeleteObject
<1>20. CASE \/ Md5CountUser(w) \/ DeleteZrem(w) \/ DeleteHdel(w) \/ DeleteShareRows(w)
            \/ Share(w) \/ Cancel(w)
  <2>1. ExactRows(m)
    BY <1>5, <1>20 DEF Md5CountUser, DeleteZrem, DeleteHdel, DeleteShareRows, Share, Cancel,
       ShareZsetExit, ShareReadRows, ShareMark, ShareInsertRow, ShareZadd, ShareHset, CancelMark,
       CancelRows, CancelZrem, CancelHdel, At, Between, Owing, Discarding
  <2>2. \A l \in Plain \cup Listed : l # "sv_count" => ExactAt(k, l, o)
    BY <1>10 DEF Plain, Listed, Owing, Unlisted, Uploading
  <2>3. Finish(w) \/ \E l \in Plain \cup Listed : l # "sv_count" /\ Go(w, l)
    BY <1>20 DEF Md5CountUser, DeleteZrem, DeleteHdel, DeleteShareRows, Share, Cancel,
       ShareZsetExit, ShareReadRows, ShareMark, ShareInsertRow, ShareZadd, ShareHset, CancelMark,
       CancelRows, CancelZrem, CancelHdel, Plain, Listed
  <2>. QED  BY <1>6, <1>9, <2>1, <2>2, <2>3
<1>. QED  BY <1>11, <1>12, <1>13, <1>14, <1>15, <1>16, <1>17, <1>18, <1>19, <1>20

\* Handlers that write file_info.
LEMMA ExactInfo ==
  ASSUME TypeOK, Finite, Alone, Calm, Counts, ExactCounts, NEW w \in Workers,
         \/ UploadInsertInfo(w) \/ Md5Increment(w) \/ Md5Restore(w) \/ SaveIncrement(w)
         \/ DeleteDecrement(w) \/ DeleteInfo(w)
  PROVE  ExactCounts'
<1>1. Serves(w) /\ own' = own
  BY DEF Serves, Upload, Md5, Save, Delete, UploadInsertInfo, Md5Increment, Md5Restore, SaveIncrement,
     DeleteDecrement, DeleteInfo
<1>2. PICK k \in Keys, m \in Md5s, c \in Nat, o \in {job[w].obj} :
             k = Key(w) /\ m = Md5Of(k) /\ c = job[w].count /\ o = job[w].obj
  BY <1>1, Framed, KeyTyped DEF Frame, TypeOK, Jobs
<1>3. /\ Covered(m) /\ CountsAt(k, job[w].pc, c) /\ ExactAt(k, job[w].pc, o) /\ JobsOK /\ TablesOK
      /\ Owners(m) \in Nat /\ Rows(k) \in Nat
  BY <1>2, OwnersTyped, RowsTyped DEF Counts, CountsOf, ExactCounts, ExactOf, TypeOK
<1>4. /\ Frame(w) /\ m = Held(w) /\ Owners(m)' = Owners(m) /\ Rows(k)' = Rows(k)
      /\ Owners(Md5Of(k))' = Owners(m)
      /\ HasInfo(Md5Of(k))' <=> file_info'[m] # {}
      /\ \A j \in Keys : Rows(j)' <= 1
  BY <1>1, <1>2, Framed, SameEntries DEF Rows, Held, HasInfo, ExactCounts
<1>5. job[w].pc \notin Between => ExactRows(m)
  BY <1>2, <1>4, SettledBy DEF Frame
<1>6. ASSUME NEW l, Go(w, l), ExactAt(k, l, o)', l \in Between PROVE ExactCounts'
  BY <1>2, <1>3, <1>4, <1>6, GoOnward, LocalExact
<1>7. ASSUME NEW l, Go(w, l), ExactAt(k, l, o)', ExactRows(m)' PROVE ExactCounts'
  BY <1>2, <1>3, <1>4, <1>7, GoOnward, LocalExact
<1>8. ASSUME Finish(w), ExactRows(m)' PROVE ExactCounts'
  BY <1>2, <1>3, <1>4, <1>8, FinishEnds, LocalExact
<1>10. CASE UploadInsertInfo(w)
  <2>1. file_info[m] = {} /\ ~HasInfo(m) /\ Owners(m) = 0
    BY <1>2, <1>3, <1>10 DEF UploadInsertInfo, At, ExactAt, Uploading, HasInfo, Covered
  <2>2. Rows(k) = 0
    BY <1>2, <1>3, <2>1, NoOwners
  <2>3. file_info'[m] = {[count |-> 1, obj |-> o]} /\ Go(w, "up_row")
    BY <1>2, <1>3, <1>10, <2>1 DEF UploadInsertInfo, TablesOK
  <2>4. \A r \in file_info'[m] : r.count = 1
    BY <2>3
  <2>5. ExactAt(k, "up_row", o)'
    BY <1>2, <1>4, <2>1, <2>2, <2>4 DEF ExactAt, Owing, Unlisted, Uploading
  <2>6. "up_row" \in Between
    BY DEF Between, Owing
  <2>. QED  BY <1>6, <2>3, <2>5, <2>6
<1>11. ASSUME NEW l \in {"md5_row", "sv_row"}, job[w].pc \in {"md5_inc", "sv_inc"}, SetCount(m, c + 1), Go(w, l)
       PROVE  ExactCounts'
  <2>1. \A r \in file_info[m] : r.count = c
    BY <1>2, <1>3, <1>11 DEF CountsAt, Counted
  <2>2. HasInfo(m) /\ c = Owners(m)
    BY <1>2, <1>3, <1>5, <1>11, <2>1 DEF CountsAt, Counted, ExactRows, HasInfo, Between, Owing, Discarding
  <2>3. \A r \in file_info'[m] : r.count = c + 1
    BY <1>3, <1>11, SetCountRows
  <2>4. Rows(k) = 0
    BY <1>3, <1>11 DEF ExactAt, Unlisted
  <2>5. ExactAt(k, l, o)' /\ l \in Between
    BY <1>2, <1>4, <1>11, <2>2, <2>3, <2>4 DEF ExactAt, Owing, Unlisted, Uploading, Between
  <2>. QED  BY <1>6, <1>11, <2>5
<1>12. CASE Md5Increment(w)
  BY <1>2, <1>11, <1>12 DEF Md5Increment, At
<1>13. CASE SaveIncrement(w)
  <2>1. CASE UNCHANGED file_info /\ Finish(w)
    <3>1. ExactRows(m)
      BY <1>5, <1>13 DEF SaveIncrement, At, Between, Owing, Discarding
    <3>2. ExactRows(m)'
      BY <1>4, <2>1, <3>1 DEF ExactRows
    <3>. QED  BY <1>8, <2>1, <3>2
  <2>. QED  BY <1>2, <1>11, <1>13, <2>1 DEF SaveIncrement, At
<1>14. CASE Md5Restore(w)
  BY <1>3, <1>14 DEF Md5Restore, At, ExactAt
<1>15. CASE DeleteDecrement(w)
  <2>1. HasInfo(m) /\ \A r \in file_info[m] : r.count = c /\ r.count = Owners(m) + 1
    BY <1>2, <1>3, <1>15 DEF DeleteDecrement, At, CountsAt, ExactAt, Owing, Counted
  <2>2. c = Owners(m) + 1 /\ c - 1 = Owners(m) /\ c - 1 \in Nat
    BY <1>3, <2>1 DEF HasInfo
  <2>3. Changes(m, c - 1)
    BY <1>3, <2>1, <2>2 DEF HasInfo, Changes
  <2>4. SetCount(m, c - 1) /\ IF c - 1 = 0 THEN Go(w, "de_fileid") ELSE Finish(w)
    BY <1>2, <1>15, <2>3 DEF DeleteDecrement
  <2>5. \A r \in file_info'[m] : r.count = c - 1
    BY <1>3, <2>2, <2>4, SetCountRows
  <2>6. CASE c - 1 = 0
    <3>1. ExactAt(k, "de_fileid", o)' /\ "de_fileid" \in Between
      BY DEF ExactAt, Owing, Unlisted, Uploading, Between, Discarding
    <3>. QED  BY <1>6, <2>4, <2>6, <3>1
  <2>7. CASE c - 1 # 0
    <3>1. ExactRows(m)'
      BY <1>3, <1>4, <2>2, <2>5, <2>7 DEF ExactRows
    <3>. QED  BY <1>8, <2>4, <2>7, <3>1
  <2>. QED  BY <2>6, <2>7
<1>16. CASE DeleteInfo(w)
  <2>1. file_info'[m] = {} /\ Go(w, "de_object")
    BY <1>2, <1>3, <1>16 DEF DeleteInfo, TablesOK
  <2>2. ExactAt(k, "de_object", o)' /\ "de_object" \in Between
    BY <1>4, <2>1 DEF ExactAt, Owing, Unlisted, Uploading, Between, Discarding
  <2>. QED  BY <1>6, <2>1, <2>2
<1>. QED  BY <1>10, <1>12, <1>13, <1>14, <1>15, <1>16

\* Handlers that write rows of users.
LEMMA ExactUserRows ==
  ASSUME TypeOK, Finite, Alone, Calm, Counts, ExactCounts, NEW w \in Workers,
         UploadInsertRow(w) \/ Md5InsertRow(w) \/ SaveInsertRow(w) \/ DeleteRows(w)
  PROVE  ExactCounts'
<1>1. Serves(w) /\ file_info' = file_info
  BY DEF Serves, Upload, Md5, Save, Delete, UploadInsertRow, Md5InsertRow, SaveInsertRow, DeleteRows
<1>2. PICK k \in Keys, m \in Md5s, o \in {job[w].obj} : k = Key(w) /\ m = Md5Of(k) /\ o = job[w].obj
  BY <1>1, Framed, KeyTyped DEF Frame, TypeOK, Jobs
<1>3. /\ Covered(m) /\ CountsAt(k, job[w].pc, job[w].count) /\ ExactAt(k, job[w].pc, o) /\ JobsOK /\ TablesOK
      /\ Owners(m) \in Nat /\ Rows(k) \in Nat /\ Rows(k) <= 1
  BY <1>2, OwnersTyped, RowsTyped DEF Counts, CountsOf, ExactCounts, ExactOf, TypeOK
<1>4. Frame(w) /\ m = Held(w)
  BY <1>1, <1>2, Framed DEF Held
<1>5. ASSUME NEW l, Go(w, l), ExactAt(k, l, o)', l \in Between \/ ExactRows(m)', \A j \in Keys : Rows(j)' <= 1
      PROVE  ExactCounts'
  BY <1>2, <1>3, <1>4, <1>5, GoOnward, LocalExact
<1>6. ASSUME Finish(w), ExactRows(m)', \A j \in Keys : Rows(j)' <= 1 PROVE ExactCounts'
  BY <1>2, <1>3, <1>4, <1>6, FinishEnds, LocalExact
<1>7. CASE UploadInsertRow(w) \/ Md5InsertRow(w) \/ SaveInsertRow(w)
  <2>1. Rows(k) = 0 /\ \A r \in file_info[m] : r.count = Owners(m) + 1
    BY <1>2, <1>3, <1>7 DEF UploadInsertRow, Md5InsertRow, SaveInsertRow, At, ExactAt, Owing, Unlisted
  <2>2. InsertOwn(k) /\ (Finish(w) \/ Go(w, "md5_user"))
    BY <1>2, <1>7 DEF UploadInsertRow, Md5InsertRow, SaveInsertRow
  <2>3. /\ Owners(m)' = Owners(m) + 1 /\ Rows(k)' = Rows(k) + 1
        /\ \A j \in Keys \ {k} : Rows(j)' = Rows(j)
    BY <1>2, <1>3, <2>2, InsertOwner
  <2>4. \A j \in Keys : Rows(j)' <= 1
    BY <2>1, <2>3 DEF ExactCounts
  <2>5. ExactRows(m)'
    BY <1>1, <1>3, <2>1, <2>3 DEF ExactRows
  <2>6. ExactAt(k, "md5_user", o)'
    BY DEF ExactAt, Owing, Unlisted, Uploading
  <2>. QED  BY <1>5, <1>6, <2>2, <2>4, <2>5, <2>6
<1>8. CASE DeleteRows(w)
  <2>1. Rows(k) = 1
    BY <1>2, <1>3, <1>8 DEF DeleteRows, At, CountsAt, Listed
  <2>2. /\ Owners(m)' + 1 = Owners(m) /\ Owners(m)' \in Nat /\ Rows(k)' = 0
        /\ \A j \in Keys \ {k} : Rows(j)' = Rows(j)
    <3>1. own' = [own EXCEPT ![k] = [s \in {0, 1} |-> 0]] /\ Rows(k) > 0
      BY <1>2, <1>8, <2>1 DEF DeleteRows
    <3>2. Owners(m)' \in Nat /\ Owners(m)' + 1 = Owners(m) /\ Rows(k)' = 0
      BY <1>2, <1>3, <2>1, <3>1, DeleteOwner
    <3>3. \A j \in Keys \ {k} : Rows(j)' = Rows(j)
      BY <1>2, <1>3, <3>1, DeleteOwner
    <3>. QED  BY <2>1, <3>2, <3>3
  <2>3. ExactRows(m)
    BY <1>2, <1>4, <1>8, SettledBy DEF DeleteRows, At, Between, Owing, Discarding
  <2>4. \A r \in file_info'[m] : r.count = Owners(m)' + 1
    BY <1>1, <2>2, <2>3 DEF ExactRows
  <2>5. \A j \in Keys : Rows(j)' <= 1
    BY <2>2 DEF ExactCounts
  <2>6. ExactAt(k, "de_count", o)' /\ "de_count" \in Between
    <3>1. Owners(Md5Of(k))' = Owners(m)'
      BY <1>2
    <3>. QED  BY <1>2, <2>4, <3>1 DEF ExactAt, Owing, Unlisted, Uploading, Between
  <2>. QED  BY <1>2, <1>5, <1>8, <2>5, <2>6 DEF DeleteRows
<1>. QED  BY <1>7, <1>8

LEMMA ExactRequest ==
  ASSUME TypeOK, Finite, Alone, Calm, Counts, ExactCounts,
         NEW w \in Workers, NEW op \in DOMAIN First, NEW k \in Keys, Request(w, op, k)
  PROVE  ExactCounts'
<1>1. /\ file_info' = file_info /\ own' = own /\ job'[w].key = k /\ job'[w].pc = First[op]
      /\ \A v \in Workers \ {w} : job'[v] = job[v]
      /\ At(w, "idle") /\ Sensible(op, k)
  BY DEF Request, db, TypeOK, JobsOK, Calm
<1>2. PICK m \in Md5s : m = Md5Of(k)
  BY DEF Keys, Md5Of
<1>3. /\ \A j \in Keys : Rows(j)' = Rows(j)
      /\ \A n : HasInfo(n)' = HasInfo(n)
  BY <1>1 DEF Rows, HasInfo
<1>4. \A n : Owners(n)' = Owners(n)
  BY <1>3, SameEntries
<1>5. \A n \in Md5s : ExactRows(n)' <=> ExactRows(n)
  BY <1>1, <1>4 DEF ExactRows
<1>6. \A n \in Md5s : Settled(n)' => Settled(n)
  BY <1>1 DEF Settled, At, Held, Key
<1>7. \A x, l, o : ExactAt(x, l, o) => ExactAt(x, l, o)'
  <2>. SUFFICES ASSUME NEW x, NEW l, NEW o, ExactAt(x, l, o) PROVE ExactAt(x, l, o)'
    OBVIOUS
  <2>1. Owners(Md5Of(x))' = Owners(Md5Of(x)) /\ HasInfo(Md5Of(x))' = HasInfo(Md5Of(x)) /\ Rows(x)' = Rows(x)
    BY <1>1, <1>3, <1>4 DEF Rows
  <2>. QED  BY <1>1, <2>1 DEF ExactAt
<1>8. \A o : ExactAt(k, First[op], o)
  <2>1. op = "upload" => ~HasInfo(m)
    BY <1>1, <1>2 DEF Sensible
  <2>. QED  BY <1>2, <2>1 DEF ExactAt, First, Owing, Unlisted, Uploading
<1>9. ASSUME NEW v \in Workers PROVE ExactOf(v)'
  <2>1. PICK x, l, o : x = job'[v].key /\ l = job'[v].pc /\ o = job'[v].obj /\ ExactAt(x, l, o)
    BY <1>1, <1>8 DEF ExactCounts, ExactOf, Key
  <2>2. ExactAt(x, l, o)'
    BY <1>7, <2>1
  <2>. QED  BY <2>1, <2>2 DEF ExactOf, ExactAt, Key, HasInfo, Owners, Entries, Rows
<1>. QED  BY <1>3, <1>5, <1>6, <1>9 DEF ExactCounts

\* While nothing fails and nothing overlaps, a step serves a request, accepts
\* one, or does nothing.
LEMMA CalmStep ==
  ASSUME TypeOK, Calm', [Next]_vars
  PROVE  /\ Calm
         /\ \/ \E w \in Workers : Serves(w) /\ ~StatementFails(w)
            \/ \E w \in Workers, op \in DOMAIN First, k \in Keys : Request(w, op, k)
            \/ UNCHANGED vars
<1>1. world' = world
  BY Framed DEF Frame, Next, Step, Serves, Request, Crash, vars, budget
<1>2. faults' = faults \/ faults' = faults + 1
  BY DEF Next, Step, Serves, Request, Crash, vars, budget, Upload, Md5, Save, Delete, Share, Cancel,
     UploadStore, UploadInsertInfo,
     UploadInsertRow, Md5ReadCount, Md5CheckOwner, Md5Increment, Md5InsertRow, Md5CountUser,
     Md5Restore, SaveCheckOwner, SaveReadCount, SaveIncrement, SaveInsertRow, DeleteReadStatus,
     DeleteZrem, DeleteHdel, DeleteShareRows, DeleteRows, DeleteReadCount, DeleteDecrement,
     DeleteReadFileId, DeleteInfo, DeleteObject, ShareZsetExit, ShareReadRows, ShareMark,
     ShareInsertRow, ShareZadd, ShareHset, CancelMark, CancelRows, CancelZrem, CancelHdel,
     StatementFails
<1>3. faults' = 0 /\ faults \in Nat
  BY DEF Calm, TypeOK, TablesOK
<1>4. faults = 0 /\ faults' # faults + 1
  BY <1>2, <1>3
<1>5. Calm
  BY <1>1, <1>4 DEF Calm
<1>6. ~Crash /\ \A w \in Workers : ~StatementFails(w)
  BY <1>4 DEF Crash, StatementFails
<1>. QED  BY <1>5, <1>6 DEF Next, Step, Serves

LEMMA ExactStep ==
  ASSUME TypeOK, CountInv, Calm => ExactCounts, Calm', [Next]_vars
  PROVE  ExactCounts'
<1>1. Calm /\ Finite /\ Alone /\ Counts /\ ExactCounts
  BY CalmStep, CalmIsRegular DEF CountInv
<1>2. ASSUME NEW w \in Workers, Serves(w), ~StatementFails(w) PROVE ExactCounts'
  <2>1. CASE Upload(w)
    BY <1>1, <2>1, ExactElsewhere, ExactInfo, ExactUserRows DEF Upload
  <2>2. CASE Md5(w)
    BY <1>1, <2>2, ExactElsewhere, ExactInfo, ExactUserRows DEF Md5
  <2>3. CASE Save(w)
    BY <1>1, <2>3, ExactElsewhere, ExactInfo, ExactUserRows DEF Save
  <2>4. CASE Delete(w)
    BY <1>1, <2>4, ExactElsewhere, ExactInfo, ExactUserRows DEF Delete
  <2>5. CASE Share(w) \/ Cancel(w)
    BY <1>1, <2>5, ExactElsewhere
  <2>. QED  BY <1>2, <2>1, <2>2, <2>3, <2>4, <2>5 DEF Serves
<1>3. ASSUME NEW w \in Workers, NEW op \in DOMAIN First, NEW k \in Keys, Request(w, op, k) PROVE ExactCounts'
  BY <1>1, <1>3, ExactRequest
<1>4. CASE UNCHANGED vars
  <2>1. file_info' = file_info /\ own' = own /\ job' = job
    BY <1>4 DEF vars, db
  <2>. QED
    BY <1>1, <2>1 DEF ExactCounts, Settled, ExactRows, ExactOf, ExactAt, At, Held, Key, HasInfo, Owners, Entries, Rows
<1>. QED  BY <1>2, <1>3, <1>4, CalmStep

\* Everybody's files, when the step leaves the rows and is not with a file.
LEMMA AccountedStill ==
  ASSUME NEW w \in Workers, \A v \in Workers \ {w} : job'[v] = job[v],
         \A m \in Md5s : Named(m)' = Named(m),
         NEW o, Accounted(o), job[w].pc \notin {"up_info", "de_object"} \/ job[w].obj # o
  PROVE  Accounted(o)'
BY DEF Accounted

LEMMA ObjectsStep ==
  ASSUME TypeOK, Alone, Calm, ExactCounts, NEW w \in Workers, Serves(w), ~StatementFails(w),
         \A o \in objects : Accounted(o)
  PROVE  \A o \in objects' : Accounted(o)'
<1>1. /\ \A v \in Workers \ {w} : job'[v] = job[v]
      /\ Key(w) \in Keys /\ TablesOK /\ JobsOK
  BY Framed, KeyTyped DEF Frame, Ended, Onward, TypeOK
<1>2. PICK k \in Keys, m \in Md5s, h \in {job[w].obj} : k = Key(w) /\ m = Md5Of(k) /\ h = job[w].obj
  BY <1>1 DEF Keys, Md5Of
<1>3. ExactAt(k, job[w].pc, h)
  BY <1>2 DEF ExactCounts, ExactOf
<1>4. CASE UploadStore(w)
  <2>1. PICK x : x = made + 1
    OBVIOUS
  <2>2. /\ objects' = objects \cup {x} /\ \A n \in Md5s : Named(n)' = Named(n)
        /\ job'[w].pc = "up_info" /\ job'[w].obj = x /\ job[w].pc = "up_store"
    BY <1>1, <1>4, <2>1, HoldOnward DEF UploadStore, db, Named, At, Onward
  <2>3. Accounted(x)'
    BY <2>2 DEF Accounted
  <2>4. \A o \in objects : Accounted(o)'
    BY <1>1, <2>2, AccountedStill
  <2>. QED  BY <2>2, <2>3, <2>4
<1>5. CASE UploadInsertInfo(w)
  <2>1. /\ objects' = objects /\ file_info[m] = {} /\ ~HasInfo(m)
        /\ file_info' = [file_info EXCEPT ![m] = @ \cup {[count |-> 1, obj |-> h]}]
    BY <1>2, <1>3, <1>5 DEF UploadInsertInfo, fdfs, At, ExactAt, Uploading, HasInfo
  <2>2. /\ [count |-> 1, obj |-> h] \in file_info'[m] /\ [count |-> 1, obj |-> h].obj = h
        /\ \A n \in Md5s : file_info[n] \subseteq file_info'[n]
    BY <1>1, <2>1 DEF TablesOK
  <2>3. h \in Named(m)' /\ \A n \in Md5s : Named(n) \subseteq Named(n)'
    BY <2>2 DEF Named
  <2>. QED  BY <1>1, <1>2, <2>1, <2>3 DEF Accounted
<1>6. CASE DeleteInfo(w)
  <2>1. /\ objects' = objects /\ file_info' = [file_info EXCEPT ![m] = {}]
        /\ \A r \in file_info[m] : r.obj = h
        /\ job[w].pc = "de_info"
    BY <1>2, <1>3, <1>6 DEF DeleteInfo, fdfs, At, ExactAt
  <2>2. job'[w].pc = "de_object" /\ job'[w].obj = h
    BY <1>1, <1>2, <1>6, GoOnward DEF DeleteInfo, Onward
  <2>3. \A o \in Named(m) : o = h
    BY <2>1 DEF Named
  <2>4. \A n \in Md5s \ {m} : Named(n)' = Named(n)
    BY <1>1, <2>1 DEF Named, TablesOK
  <2>. QED  BY <1>1, <2>1, <2>2, <2>3, <2>4 DEF Accounted
<1>7. CASE DeleteObject(w)
  <2>1. objects' = objects \ {h} /\ \A n \in Md5s : Named(n)' = Named(n)
    BY <1>2, <1>7 DEF DeleteObject, db, Named
  <2>. QED  BY <1>1, <1>2, <2>1, AccountedStill
<1>8. CASE ~(UploadStore(w) \/ UploadInsertInfo(w) \/ DeleteInfo(w) \/ DeleteObject(w))
  <2>1. objects' = objects /\ job[w].pc \notin {"up_info", "de_object"}
    BY <1>8 DEF Serves, Upload, Md5, Save, Delete, Share, Cancel, fdfs, At,
     UploadInsertRow, Md5ReadCount, Md5CheckOwner, Md5Increment, Md5InsertRow, Md5CountUser,
     Md5Restore, SaveCheckOwner, SaveReadCount, SaveIncrement, SaveInsertRow, DeleteReadStatus,
     DeleteZrem, DeleteHdel, DeleteShareRows, DeleteRows, DeleteReadCount, DeleteDecrement,
     DeleteReadFileId, ShareZsetExit, ShareReadRows, ShareMark,
     ShareInsertRow, ShareZadd, ShareHset, CancelMark, CancelRows, CancelZrem, CancelHdel
  <2>2. file_info' = file_info \/ \E c : SetCount(m, c)
    BY <1>2, <1>8 DEF Serves, Upload, Md5, Save, Delete, Share, Cancel, db,
     UploadInsertRow, Md5ReadCount, Md5CheckOwner, Md5Increment, Md5InsertRow, Md5CountUser,
     Md5Restore, SaveCheckOwner, SaveReadCount, SaveIncrement, SaveInsertRow, DeleteReadStatus,
     DeleteZrem, DeleteHdel, DeleteShareRows, DeleteRows, DeleteReadCount, DeleteDecrement,
     DeleteReadFileId, ShareZsetExit, ShareReadRows, ShareMark,
     ShareInsertRow, ShareZadd, ShareHset, CancelMark, CancelRows, CancelZrem, CancelHdel
  <2>3. \A n \in Md5s : Named(n)' = Named(n)
    BY <1>1, <2>2, SetCountNames DEF Named
  <2>. QED  BY <1>1, <2>1, <2>3, AccountedStill
<1>. QED  BY <1>4, <1>5, <1>6, <1>7, <1>8

-----------------------------------------------------------------------------
(* Shared by one user at a time *)

Sharing == {"sh_status", "sh_row"}

\* Who is about to share found that nobody does.
ShareFree(w) ==
  job[w].pc \in Sharing => \A u \in Users : share[<<u, Key(w)[2], Key(w)[3]>>] = 0

SharerInv == Calm => SingleSharer /\ \A w \in Workers : ShareFree(w)

LEMMA SharerServes ==
  ASSUME TypeOK, Alone, Calm, SharerInv, NEW w \in Workers, Serves(w), ~StatementFails(w)
  PROVE  SingleSharer' /\ \A v \in Workers : ShareFree(v)'
<1>1. /\ \A v \in Workers \ {w} : job'[v] = job[v]
      /\ Key(w) \in Keys /\ ~At(w, "idle")
      /\ Ended(w) \/ \E l, c, o : Onward(w, l, c, o)
  BY Framed, KeyTyped DEF Frame, Ended, Onward, TypeOK
<1>2. PICK u \in Users, m \in Md5s, n \in Names, k \in Keys :
             k = Key(w) /\ k = <<u, m, n>> /\ k[1] = u /\ k[2] = m /\ k[3] = n
  BY <1>1 DEF Keys
<1>3. \A v \in Workers \ {w} : ShareFree(v)
  BY DEF SharerInv
<1>4. SingleSharer /\ ShareFree(w) /\ share \in [Keys -> Nat]
  BY DEF SharerInv, TypeOK, TablesOK
<1>5. CASE ShareInsertRow(w)
  <2>1. share' = [share EXCEPT ![k] = share[k] + 1] /\ job[w].pc = "sh_row"
    BY <1>2, <1>5 DEF ShareInsertRow, At
  <2>2. \A x \in Users : share[<<x, m, n>>] = 0
    BY <1>2, <1>4, <2>1 DEF ShareFree, Sharing
  <2>3. share[k] = 0 /\ share'[k] = 1 /\ \A j \in Keys \ {k} : share'[j] = share[j]
    BY <1>2, <1>4, <2>1, <2>2
  <2>4. \A j \in Keys : FileId(j) = FileId(k) => share[j] = 0
    BY <1>2, <2>2 DEF Keys, FileId
  <2>5. \A i, j \in Keys : share'[i] > 0 /\ share'[j] > 0 /\ FileId(i) = FileId(j) => i = j /\ share'[j] = 1
    <3>. SUFFICES ASSUME NEW i \in Keys, NEW j \in Keys, share'[i] > 0, share'[j] > 0, FileId(i) = FileId(j)
                  PROVE  i = j /\ share'[j] = 1
      OBVIOUS
    <3>1. CASE i # k /\ j # k
      BY <1>4, <2>3, <3>1 DEF SingleSharer
    <3>2. CASE i = k \/ j = k
      <4>1. i = k
        BY <2>3, <2>4, <3>2
      <4>2. j = k
        BY <2>3, <2>4, <3>2
      <4>. QED  BY <2>3, <4>1, <4>2
    <3>. QED  BY <3>1, <3>2
  <2>6. SingleSharer'
    BY <2>5 DEF SingleSharer
  <2>7. job'[w].pc = "sh_zadd"
    BY <1>5, GoOnward DEF ShareInsertRow, Onward, TypeOK
  <2>8. ShareFree(w)'
    BY <2>7 DEF ShareFree, Sharing
  <2>9. ASSUME NEW v \in Workers \ {w} PROVE ShareFree(v)'
    <3>. SUFFICES ASSUME job[v].pc \in Sharing, NEW x \in Users
                  PROVE  share'[<<x, Key(v)[2], Key(v)[3]>>] = 0
      BY <1>1 DEF ShareFree, Key
    <3>1. Key(v) \in Keys /\ Md5Of(Key(v)) # m /\ ~At(v, "idle")
      BY <1>1, <1>2, KeyTyped DEF Alone, Calm, TypeOK, Sharing, At, Held, Md5Of
    <3>2. <<x, Key(v)[2], Key(v)[3]>> \in Keys /\ <<x, Key(v)[2], Key(v)[3]>> # k
      BY <1>2, <3>1 DEF Keys, Md5Of
    <3>3. share[<<x, Key(v)[2], Key(v)[3]>>] = 0
      BY <1>3 DEF ShareFree
    <3>. QED  BY <2>3, <3>2, <3>3
  <2>. QED  BY <2>6, <2>8, <2>9
<1>6. CASE DeleteShareRows(w) \/ CancelRows(w)
  <2>1. share' = [share EXCEPT ![k] = 0] /\ (Go(w, "de_rows") \/ Go(w, "ca_zset"))
    BY <1>2, <1>6 DEF DeleteShareRows, CancelRows
  <2>2. share'[k] = 0 /\ \A j \in Keys \ {k} : share'[j] = share[j]
    BY <1>4, <2>1
  <2>3. SingleSharer'
    BY <1>4, <2>2 DEF SingleSharer, Calm
  <2>4. job'[w].pc \in {"de_rows", "ca_zset"}
    BY <2>1, GoOnward DEF Onward, TypeOK
  <2>5. ShareFree(w)'
    BY <2>4 DEF ShareFree, Sharing
  <2>6. ASSUME NEW v \in Workers \ {w} PROVE ShareFree(v)'
    <3>. SUFFICES ASSUME job[v].pc \in Sharing, NEW x \in Users
                  PROVE  share'[<<x, Key(v)[2], Key(v)[3]>>] = 0
      BY <1>1 DEF ShareFree, Key
    <3>1. Key(v) \in Keys
      BY KeyTyped DEF TypeOK, Sharing, At
    <3>2. <<x, Key(v)[2], Key(v)[3]>> \in Keys
      BY <3>1 DEF Keys
    <3>3. share[<<x, Key(v)[2], Key(v)[3]>>] = 0
      BY <1>3 DEF ShareFree
    <3>. QED  BY <2>2, <3>2, <3>3
  <2>. QED  BY <2>3, <2>5, <2>6
<1>7. CASE ~(ShareInsertRow(w) \/ DeleteShareRows(w) \/ CancelRows(w))
  <2>1. share' = share
    BY <1>7 DEF Serves, Upload, Md5, Save, Delete, Share, Cancel, db, UploadStore, UploadInsertInfo,
     UploadInsertRow, Md5ReadCount, Md5CheckOwner, Md5Increment, Md5InsertRow, Md5CountUser,
     Md5Restore, SaveCheckOwner, SaveReadCount, SaveIncrement, SaveInsertRow, DeleteReadStatus,
     DeleteZrem, DeleteHdel, DeleteRows, DeleteReadCount, DeleteDecrement,
     DeleteReadFileId, DeleteInfo, DeleteObject, ShareZsetExit, ShareReadRows, ShareMark,
     ShareZadd, ShareHset, CancelMark, CancelZrem, CancelHdel
  <2>2. SingleSharer'
    BY <1>4, <2>1 DEF SingleSharer
  <2>3. \A v \in Workers \ {w} : ShareFree(v)'
    BY <1>1, <1>3, <2>1 DEF ShareFree, Key
  <2>4. CASE ShareReadRows(w)
    <3>1. job'[w].pc \in Sharing => \A x \in Users : share[<<x, m, n>>] = 0
      <4>. SUFFICES ASSUME \E x \in Users : share[<<x, m, n>>] > 0 PROVE job'[w].pc \notin Sharing
        BY <1>2, <1>4 DEF Keys
      <4>1. Go(w, "sh_zadd")
        BY <1>2, <2>4 DEF ShareReadRows
      <4>. QED  BY <4>1, GoOnward DEF Onward, TypeOK, Sharing
    <3>2. job'[w].key = k
      BY <1>2, <2>4, GoOnward DEF ShareReadRows, Onward, TypeOK, Key
    <3>. QED  BY <1>2, <2>1, <2>2, <2>3, <3>1, <3>2 DEF ShareFree, Key
  <2>5. CASE ShareMark(w)
    <3>1. job[w].pc = "sh_status" /\ job'[w].key = k
      BY <1>2, <2>5, GoOnward DEF ShareMark, Onward, TypeOK, Key, At
    <3>. QED  BY <1>2, <1>4, <2>1, <2>2, <2>3, <3>1 DEF ShareFree, Key, Sharing
  <2>6. CASE ~(ShareReadRows(w) \/ ShareMark(w))
    <3>1. \/ Finish(w) \/ (\E l : l \notin Sharing /\ Go(w, l)) \/ (\E l, c : l \notin Sharing /\ Keep(w, l, c))
          \/ (\E l, o : l \notin Sharing /\ Hold(w, l, o))
      BY <1>7, <2>6 DEF Serves, Upload, Md5, Save, Delete, Share, Cancel, Sharing, UploadStore, UploadInsertInfo,
       UploadInsertRow, Md5ReadCount, Md5CheckOwner, Md5Increment, Md5InsertRow, Md5CountUser,
       Md5Restore, SaveCheckOwner, SaveReadCount, SaveIncrement, SaveInsertRow, DeleteReadStatus,
       DeleteZrem, DeleteHdel, DeleteRows, DeleteReadCount, DeleteDecrement,
       DeleteReadFileId, DeleteInfo, DeleteObject, ShareZsetExit,
       ShareZadd, ShareHset, CancelMark, CancelZrem, CancelHdel, ReadCount
    <3>2. job'[w].pc \notin Sharing
      BY <3>1, FinishEnds, GoOnward, KeepOnward, HoldOnward DEF Ended, Onward, TypeOK, Sharing
    <3>. QED  BY <2>2, <2>3, <3>2 DEF ShareFree
  <2>. QED  BY <2>4, <2>5, <2>6
<1>. QED  BY <1>5, <1>6, <1>7

-----------------------------------------------------------------------------
(* Between requests *)

\* What is inductive while nothing fails and nothing overlaps.
CalmInv == ExactInv /\ SharerInv

LEMMA InitCalm == Init => CalmInv
<1>. SUFFICES ASSUME Init PROVE CalmInv
  OBVIOUS
<1>1. \A w \in Workers : job[w].pc = "idle"
  BY DEF Init, Idle
<1>2. \A k \in Keys : Rows(k) = 0 /\ share[k] = 0
  BY DEF Init, Rows
<1>3. objects = {} /\ \A m \in Md5s : file_info[m] = {}
  BY DEF Init
<1>4. ExactCounts
  BY <1>1, <1>2, <1>3 DEF ExactCounts, ExactRows, ExactOf, ExactAt, Owing, Unlisted, Uploading
<1>5. SingleSharer /\ \A w \in Workers : ShareFree(w)
  BY <1>1, <1>2 DEF SingleSharer, ShareFree, Sharing
<1>. QED  BY <1>3, <1>4, <1>5 DEF CalmInv, ExactInv, SharerInv

LEMMA CalmInvStep ==
  ASSUME IInv, CountInv, CalmInv, [Next]_vars
  PROVE  CalmInv'
<1>. SUFFICES ASSUME Calm'
              PROVE  /\ ExactCounts' /\ (\A o \in objects : Accounted(o))'
                     /\ SingleSharer' /\ (\A w \in Workers : ShareFree(w))'
  BY DEF CalmInv, ExactInv, SharerInv
<1>1. TypeOK /\ Calm /\ Alone /\ ExactCounts /\ SharerInv /\ SingleSharer
      /\ (\A w \in Workers : ShareFree(w)) /\ \A o \in objects : Accounted(o)
  BY CalmStep DEF IInv, CountInv, CalmInv, ExactInv, SharerInv
<1>2. ExactCounts'
  BY <1>1, ExactStep
<1>3. ASSUME NEW w \in Workers, Serves(w), ~StatementFails(w)
      PROVE  /\ (\A o \in objects : Accounted(o))'
             /\ SingleSharer' /\ (\A v \in Workers : ShareFree(v))'
  BY <1>1, <1>3, ObjectsStep, SharerServes
<1>4. ASSUME NEW w \in Workers, NEW op \in DOMAIN First, NEW k \in Keys, Request(w, op, k)
      PROVE  /\ (\A o \in objects : Accounted(o))'
             /\ SingleSharer' /\ (\A v \in Workers : ShareFree(v))'
  <2>1. /\ file_info' = file_info /\ share' = share /\ objects' = objects
        /\ \A v \in Workers \ {w} : job'[v] = job[v]
        /\ job[w].pc = "idle" /\ job'[w].pc = First[op]
    BY <1>1, <1>4 DEF Request, db, fdfs, TypeOK, JobsOK, At
  <2>2. (\A o \in objects : Accounted(o))'
    BY <1>1, <2>1 DEF Accounted, Named
  <2>3. \A v \in Workers \ {w} : ShareFree(v)'
    BY <1>1, <2>1 DEF ShareFree, Key
  <2>4. ShareFree(w)'
    BY <2>1 DEF ShareFree, Sharing, First
  <2>. QED  BY <1>1, <2>1, <2>2, <2>3, <2>4 DEF SingleSharer
<1>5. CASE UNCHANGED vars
  <2>1. file_info' = file_info /\ share' = share /\ objects' = objects /\ job' = job
    BY <1>5 DEF vars, db, fdfs
  <2>. QED  BY <1>1, <1>2, <2>1 DEF Accounted, Named, SingleSharer, ShareFree, Key
<1>. QED  BY <1>2, <1>3, <1>4, <1>5, CalmStep DEF IInv

LEMMA CalmInvariant == Spec => [](IInv /\ CountInv /\ CalmInv)
<1>1. IInv /\ CountInv /\ CalmInv /\ [Next]_vars => CalmInv'
  BY CalmInvStep
<1>. QED  BY InitCalm, <1>1, CountInvariant, PTL DEF Spec

\* When no request is in flight, the reference count of each file is the number
\* of rows that list it, if no statement has failed, the process has not died,
\* and the requests about one file came one after the other.
THEOREM CatalogueCountsExact == Spec => []RefCountsOwners
<1>1. CalmInv => RefCountsOwners
  BY DEF CalmInv, ExactInv, ExactCounts, ExactRows, Settled, Quiet, At, RefCountsOwners, CountIsOwners
<1>. QED  BY <1>1, CalmInvariant, PTL

\* Then FastDFS holds the files that somebody lists, and no other.
THEOREM CatalogueNothingOrphaned == Spec => []NothingOrphaned
<1>1. IInv /\ CalmInv => NothingOrphaned
  <2>. SUFFICES ASSUME IInv, CalmInv, Calm, Quiet
                PROVE  objects = UNION {Named(m) : m \in {n \in Md5s : Owners(n) > 0}}
    BY DEF NothingOrphaned, Named
  <2>1. ASSUME NEW m \in Md5s, file_info[m] # {} PROVE Owners(m) > 0
    BY <2>1 DEF CalmInv, ExactInv, ExactCounts, ExactRows, Settled, Quiet
  <2>2. ASSUME NEW o \in objects PROVE \E m \in Md5s : Owners(m) > 0 /\ o \in Named(m)
    <3>1. PICK m \in Md5s : o \in Named(m)
      BY <2>2 DEF CalmInv, ExactInv, Accounted, Quiet, At
    <3>. QED  BY <2>1, <3>1 DEF Named
  <2>3. \A m \in Md5s : Named(m) \subseteq objects
    BY DEF IInv, FilesSafe, NoDanglingRow, Named
  <2>. QED  BY <2>2, <2>3
<1>. QED  BY <1>1, CalmInvariant, PTL

\* Two users never share the same file at once, nor one user twice, if nothing
\* failed and the requests about one file came one after the other.
THEOREM CatalogueSingleSharer == Spec => []SingleSharer
<1>1. CalmInv => SingleSharer
  BY DEF CalmInv, SharerInv, SingleSharer
<1>. QED  BY <1>1, CalmInvariant, PTL
=============================================================================
