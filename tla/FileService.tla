---------------------------- MODULE FileService ----------------------------
(***************************************************************************)
(* The handlers that change the file catalogue: ApiUpload, ApiMd5 (instant *)
(* upload), ApiDealfile (share, del) and ApiDealsharefile (cancel, save).  *)
(* A worker is an event loop thread running one handler; each action is    *)
(* one statement sent to MySQL (autocommit, no transaction is ever opened),*)
(* one redis command or one FastDFS command, since that is where handlers  *)
(* of different threads interleave.  StatementFails is such a call         *)
(* returning an error, Crash the process dying, which the handlers also    *)
(* bring about by dereferencing the NULL result of a failed query.         *)
(***************************************************************************)
EXTENDS Naturals, FiniteSets

CONSTANTS
  Workers,      \* event loop threads
  Users, Md5s, Names,
  Worlds        \* the environments considered; a behaviour has one of them:
                \*   unique   md5 is a key of file_info (the schema is not in src)
                \*   overlap  requests about the same md5 may run at the same time
                \*   polite   requests are those the web client sends (see Sensible)
                \*   about    the files the requests are about
                \*   requests, faults
                \*            bounds: requests served, failed statements and crashes

ASSUME FileServiceAssumption ==
  Worlds \subseteq [unique : BOOLEAN, overlap : BOOLEAN, polite : BOOLEAN,
                    about : SUBSET Md5s, requests : Nat, faults : Nat]

VARIABLES
  file_info,   \* table: an md5's rows, reference count and FastDFS file_id
  own,         \* table user_file_list: rows of an entry, by shared_status
  share,       \* table share_file_list: rows of an entry
  zset,        \* members of FILE_PUBLIC_ZSET
  hash,        \* fields of FILE_NAME_HASH
  user_count,  \* counters FILE_USER_COUNT + user
  objects,     \* files in FastDFS
  made,        \* FastDFS file_ids given out so far: 1..made
  job,         \* job[w]: the request worker w is serving
  requests, faults,
  world        \* chosen once

db      == <<file_info, own, share>>
redis   == <<zset, hash, user_count>>
fdfs    == <<objects, made>>
budget  == <<requests, faults, world>>
vars    == <<db, redis, fdfs, job, budget>>

Keys      == Users \X Md5s \X Names
Md5Of(k)  == k[2]
FileId(k) == <<k[2], k[3]>>          \* md5 followed by file name
FileIds   == Md5s \X Names

HasInfo(m) == file_info[m] # {}
Rows(k)    == own[k][0] + own[k][1]
Idle       == [pc |-> "idle", key |-> <<>>, count |-> 0, obj |-> 0]

Key(w)    == job[w].key
At(w, l)  == job[w].pc = l
Go(w, l)  == job' = [job EXCEPT ![w].pc = l]
Finish(w) == job' = [job EXCEPT ![w] = Idle]
Keep(w, l, c) == job' = [job EXCEPT ![w].pc = l, ![w].count = c]
Hold(w, l, o) == job' = [job EXCEPT ![w].pc = l, ![w].obj = o]

Init ==
  /\ file_info = [m \in Md5s |-> {}]
  /\ own = [k \in Keys |-> [s \in {0, 1} |-> 0]]
  /\ share = [k \in Keys |-> 0]
  /\ zset = {} /\ hash = {} /\ user_count = [u \in Users |-> 0]
  /\ objects = {} /\ made = 0
  /\ job = [w \in Workers |-> Idle]
  /\ requests = 0 /\ faults = 0 /\ world \in Worlds

-----------------------------------------------------------------------------
(* Requests *)

First == [upload |-> "up_store", md5 |-> "md5_count", save |-> "sv_owner",
          del |-> "de_status", share |-> "sh_zset", cancel |-> "ca_status"]

\* The web client uploads only after the instant upload has found nothing,
\* shares and unshares what is listed as the user's own, saves what is shared.
Sensible(op, k) ==
  CASE op = "upload" -> ~HasInfo(Md5Of(k))
    [] op = "share"  -> Rows(k) > 0
    [] op = "cancel" -> own[k][1] > 0
    [] op = "save"   -> \E u \in Users : share[<<u, k[2], k[3]>>] > 0
    [] OTHER         -> TRUE

\* The md5s being served.
Busy == {Md5Of(Key(w)) : w \in {v \in Workers : ~At(v, "idle")}}

\* Users, Md5s and Names may hold the empty string: share and del go on after a
\* request that does not decode, with the fields found until then and the others
\* empty, as if the client had asked for a file of that name; cancel, save and the
\* uploads answer an error instead.
Request(w, op, k) ==
  /\ At(w, "idle")
  /\ requests < world.requests
  /\ Md5Of(k) \in world.about
  /\ world.polite => Sensible(op, k)
  /\ ~world.overlap => Md5Of(k) \notin Busy
  /\ job' = [job EXCEPT ![w] = [pc |-> First[op], key |-> k, count |-> 0, obj |-> 0]]
  /\ requests' = requests + 1
  /\ UNCHANGED <<db, redis, fdfs, faults, world>>

-----------------------------------------------------------------------------
(* Statements several handlers use *)

\* update file_info set count = c where md5 = m
SetCount(m, c) ==
  file_info' = [file_info EXCEPT ![m] = {[r EXCEPT !.count = c] : r \in @}]

\* ExecuteUpdate counts the rows that change and fails when none does: they are
\* gone, or already have that value.  ExecutePassQuery does not look.
Changes(m, c) == \E r \in file_info[m] : r.count # c

\* select count: the first row there is; the handler stops when there is none
\* and goes on to some, or to none when the count is 0.
ReadCount(w, some, none) ==
  LET m == Md5Of(Key(w)) IN
  \/ ~HasInfo(m) /\ Finish(w)
  \/ \E r \in file_info[m] :
       Keep(w, IF r.count > 0 THEN some ELSE none, r.count)

\* insert into user_file_list, shared_status 0: no key forbids a second row.
InsertOwn(k) == own' = [own EXCEPT ![k][0] = @ + 1]

MarkShared(k, s) ==
  own' = [own EXCEPT ![k] = [t \in {0, 1} |-> IF t = s THEN Rows(k) ELSE 0]]

-----------------------------------------------------------------------------
(* ApiUpload *)

\* fdfs_upload_file stores the file under a file_id of its own.
UploadStore(w) ==
  /\ At(w, "up_store")
  /\ made' = made + 1
  /\ objects' = objects \cup {made + 1}
  /\ Hold(w, "up_info", made + 1)
  /\ UNCHANGED <<db, redis, budget>>

\* A second row for the md5 is refused only if md5 is a key.
UploadInsertInfo(w) ==
  LET m == Md5Of(Key(w))
      refused == world.unique /\ HasInfo(m)
  IN
  /\ At(w, "up_info")
  /\ \/ refused /\ Finish(w) /\ UNCHANGED file_info
     \/ /\ ~refused
        /\ file_info' = [file_info EXCEPT ![m] =
                           @ \cup {[count |-> 1, obj |-> job[w].obj]}]
        /\ Go(w, "up_row")
  /\ UNCHANGED <<own, share, redis, fdfs, budget>>

UploadInsertRow(w) ==
  /\ At(w, "up_row")
  /\ InsertOwn(Key(w))
  /\ Finish(w)
  /\ UNCHANGED <<file_info, share, redis, fdfs, budget>>

-----------------------------------------------------------------------------
(* handleDealMd5 *)

Md5ReadCount(w) ==
  /\ At(w, "md5_count")
  /\ ReadCount(w, "md5_owner", "md5_owner")
  /\ UNCHANGED <<db, redis, fdfs, budget>>

Md5CheckOwner(w) ==
  /\ At(w, "md5_owner")
  /\ IF Rows(Key(w)) > 0 THEN Finish(w) ELSE Go(w, "md5_inc")
  /\ UNCHANGED <<db, redis, fdfs, budget>>

\* Mutant: the count is written back as it was read.
Md5Increment_Same(w) ==
  /\ At(w, "md5_inc")
  /\ SetCount(Md5Of(Key(w)), job[w].count)
  /\ Go(w, "md5_row")
  /\ UNCHANGED <<own, share, redis, fdfs, budget>>

Md5Increment(w) ==
  /\ At(w, "md5_inc")
  /\ SetCount(Md5Of(Key(w)), job[w].count + 1)
  /\ Go(w, "md5_row")
  /\ UNCHANGED <<own, share, redis, fdfs, budget>>

Md5InsertRow(w) ==
  /\ At(w, "md5_row")
  /\ InsertOwn(Key(w))
  /\ Go(w, "md5_user")
  /\ UNCHANGED <<file_info, share, redis, fdfs, budget>>

\* INCR FILE_USER_COUNT + user: no other handler touches the counter.
Md5CountUser(w) ==
  /\ At(w, "md5_user")
  /\ user_count' = [user_count EXCEPT ![Key(w)[1]] = @ + 1]
  /\ Finish(w)
  /\ UNCHANGED <<db, zset, hash, fdfs, budget>>

\* Reached from md5_row when the insert failed: the count read is put back.
Md5Restore(w) ==
  /\ At(w, "md5_restore")
  /\ SetCount(Md5Of(Key(w)), job[w].count)
  /\ Finish(w)
  /\ UNCHANGED <<own, share, redis, fdfs, budget>>

-----------------------------------------------------------------------------
(* handleSaveFile *)

SaveCheckOwner(w) ==
  /\ At(w, "sv_owner")
  /\ IF Rows(Key(w)) > 0 THEN Finish(w) ELSE Go(w, "sv_count")
  /\ UNCHANGED <<db, redis, fdfs, budget>>

SaveReadCount(w) ==
  /\ At(w, "sv_count")
  /\ ReadCount(w, "sv_inc", "sv_inc")
  /\ UNCHANGED <<db, redis, fdfs, budget>>

SaveIncrement(w) ==
  LET m == Md5Of(Key(w))
      c == job[w].count + 1
  IN
  /\ At(w, "sv_inc")
  /\ \/ Changes(m, c) /\ SetCount(m, c) /\ Go(w, "sv_row")
     \/ ~Changes(m, c) /\ Finish(w) /\ UNCHANGED file_info
  /\ UNCHANGED <<own, share, redis, fdfs, budget>>

SaveInsertRow(w) ==
  /\ At(w, "sv_row")
  /\ InsertOwn(Key(w))
  /\ Finish(w)
  /\ UNCHANGED <<file_info, share, redis, fdfs, budget>>

-----------------------------------------------------------------------------
(* handleDeleteFile *)

\* Mutant: an entry the user does not have is deleted too.
DeleteReadStatus_Unchecked(w) ==
  LET k == Key(w) IN
  /\ At(w, "de_status")
  /\ IF own[k][1] > 0 THEN Go(w, "de_zset") ELSE Go(w, "de_rows")
  /\ UNCHANGED <<db, redis, fdfs, budget>>

\* The status is that of the first row the query returns.
DeleteReadStatus(w) ==
  LET k == Key(w) IN
  /\ At(w, "de_status")
  /\ \/ Rows(k) = 0 /\ Finish(w)
     \/ own[k][1] > 0 /\ Go(w, "de_zset")
     \/ own[k][0] > 0 /\ Go(w, "de_rows")
  /\ UNCHANGED <<db, redis, fdfs, budget>>

DeleteZrem(w) ==
  /\ At(w, "de_zset")
  /\ zset' = zset \ {FileId(Key(w))}
  /\ Go(w, "de_hash")
  /\ UNCHANGED <<db, hash, user_count, fdfs, budget>>

DeleteHdel(w) ==
  /\ At(w, "de_hash")
  /\ hash' = hash \ {FileId(Key(w))}
  /\ Go(w, "de_share")
  /\ UNCHANGED <<db, zset, user_count, fdfs, budget>>

DeleteShareRows(w) ==
  /\ At(w, "de_share")
  /\ share' = [share EXCEPT ![Key(w)] = 0]
  /\ Go(w, "de_rows")
  /\ UNCHANGED <<file_info, own, redis, fdfs, budget>>

DeleteRows(w) ==
  /\ At(w, "de_rows")
  /\ own' = [own EXCEPT ![Key(w)] = [s \in {0, 1} |-> 0]]
  /\ Go(w, "de_count")
  /\ UNCHANGED <<file_info, share, redis, fdfs, budget>>

\* Mutant: a count that is already 0 is lowered too.
DeleteReadCount_BelowZero(w) ==
  /\ At(w, "de_count")
  /\ ReadCount(w, "de_dec", "de_dec")
  /\ UNCHANGED <<db, redis, fdfs, budget>>

DeleteReadCount(w) ==
  /\ At(w, "de_count")
  /\ ReadCount(w, "de_dec", "de_fileid")
  /\ UNCHANGED <<db, redis, fdfs, budget>>

\* Mutant: the file goes while one user is left.
DeleteDecrement_AtOne(w) ==
  LET m == Md5Of(Key(w))
      c == job[w].count - 1
  IN
  /\ At(w, "de_dec")
  /\ \/ ~Changes(m, c) /\ Finish(w) /\ UNCHANGED file_info
     \/ /\ Changes(m, c)
        /\ SetCount(m, c)
        /\ IF c <= 1 THEN Go(w, "de_fileid") ELSE Finish(w)
  /\ UNCHANGED <<own, share, redis, fdfs, budget>>

\* The file itself goes when the new count is 0.
DeleteDecrement(w) ==
  LET m == Md5Of(Key(w))
      c == job[w].count - 1
  IN
  /\ At(w, "de_dec")
  /\ \/ ~Changes(m, c) /\ Finish(w) /\ UNCHANGED file_info
     \/ /\ Changes(m, c)
        /\ SetCount(m, c)
        /\ IF c = 0 THEN Go(w, "de_fileid") ELSE Finish(w)
  /\ UNCHANGED <<own, share, redis, fdfs, budget>>

\* Without a row the file_id stays empty (0).
DeleteReadFileId(w) ==
  LET found == {r.obj : r \in file_info[Md5Of(Key(w))]} IN
  /\ At(w, "de_fileid")
  /\ \/ found = {} /\ Hold(w, "de_info", 0)
     \/ \E o \in found : Hold(w, "de_info", o)
  /\ UNCHANGED <<db, redis, fdfs, budget>>

\* Mutant: the file is removed before its row.
DeleteInfo_FileFirst(w) ==
  /\ At(w, "de_info")
  /\ objects' = objects \ {job[w].obj}
  /\ Go(w, "de_object")
  /\ UNCHANGED <<db, redis, made, budget>>

\* Mutant: the row goes, the file stays.
DeleteInfo_KeepsFile(w) ==
  /\ At(w, "de_info")
  /\ file_info' = [file_info EXCEPT ![Md5Of(Key(w))] = {}]
  /\ Finish(w)
  /\ UNCHANGED <<own, share, redis, fdfs, budget>>

DeleteInfo(w) ==
  /\ At(w, "de_info")
  /\ file_info' = [file_info EXCEPT ![Md5Of(Key(w))] = {}]
  /\ Go(w, "de_object")
  /\ UNCHANGED <<own, share, redis, fdfs, budget>>

DeleteObject(w) ==
  /\ At(w, "de_object")
  /\ objects' = objects \ {job[w].obj}
  /\ Finish(w)
  /\ UNCHANGED <<db, redis, made, budget>>

-----------------------------------------------------------------------------
(* handleShareFile *)

\* ZLEXCOUNT is exact only while all scores are equal: a member may be missed.
ShareZsetExit(w) ==
  /\ At(w, "sh_zset")
  /\ \/ FileId(Key(w)) \in zset /\ Finish(w)
     \/ Go(w, "sh_rows")
  /\ UNCHANGED <<db, redis, fdfs, budget>>

\* Mutant: only the user's own row is looked for.
ShareReadRows_OwnOnly(w) ==
  /\ At(w, "sh_rows")
  /\ IF share[Key(w)] > 0 THEN Go(w, "sh_zadd") ELSE Go(w, "sh_status")
  /\ UNCHANGED <<db, redis, fdfs, budget>>

\* Anybody's row: redis is repaired from it and the request refused.
ShareReadRows(w) ==
  /\ At(w, "sh_rows")
  /\ IF \E u \in Users : share[<<u, Key(w)[2], Key(w)[3]>>] > 0
     THEN Go(w, "sh_zadd")
     ELSE Go(w, "sh_status")
  /\ UNCHANGED <<db, redis, fdfs, budget>>

ShareMark(w) ==
  /\ At(w, "sh_status")
  /\ MarkShared(Key(w), 1)
  /\ Go(w, "sh_row")
  /\ UNCHANGED <<file_info, share, redis, fdfs, budget>>

ShareInsertRow(w) ==
  /\ At(w, "sh_row")
  /\ share' = [share EXCEPT ![Key(w)] = @ + 1]
  /\ Go(w, "sh_zadd")
  /\ UNCHANGED <<file_info, own, redis, fdfs, budget>>

ShareZadd(w) ==
  /\ At(w, "sh_zadd")
  /\ zset' = zset \cup {FileId(Key(w))}
  /\ Go(w, "sh_hset")
  /\ UNCHANGED <<db, hash, user_count, fdfs, budget>>

ShareHset(w) ==
  /\ At(w, "sh_hset")
  /\ hash' = hash \cup {FileId(Key(w))}
  /\ Finish(w)
  /\ UNCHANGED <<db, zset, user_count, fdfs, budget>>

-----------------------------------------------------------------------------
(* handleCancelShareFile *)

CancelMark(w) ==
  /\ At(w, "ca_status")
  /\ MarkShared(Key(w), 0)
  /\ Go(w, "ca_rows")
  /\ UNCHANGED <<file_info, share, redis, fdfs, budget>>

CancelRows(w) ==
  /\ At(w, "ca_rows")
  /\ share' = [share EXCEPT ![Key(w)] = 0]
  /\ Go(w, "ca_zset")
  /\ UNCHANGED <<file_info, own, redis, fdfs, budget>>

CancelZrem(w) ==
  /\ At(w, "ca_zset")
  /\ zset' = zset \ {FileId(Key(w))}
  /\ Go(w, "ca_hash")
  /\ UNCHANGED <<db, hash, user_count, fdfs, budget>>

CancelHdel(w) ==
  /\ At(w, "ca_hash")
  /\ hash' = hash \ {FileId(Key(w))}
  /\ Finish(w)
  /\ UNCHANGED <<db, zset, user_count, fdfs, budget>>

-----------------------------------------------------------------------------
(* Failures *)

\* Where a handler ends, and where it goes on, when its statement fails.  A
\* failed select at a label of neither list is a NULL result set which the
\* handler dereferences: Crash.
GivesUp ==
  {"up_store", "up_info", "up_row", "md5_inc", "md5_user", "md5_restore",
   "sv_inc", "sv_row", "de_share", "de_rows", "de_dec", "de_info", "de_object",
   "sh_status", "sh_row", "sh_hset", "ca_status", "ca_rows", "ca_zset", "ca_hash"}

GoesOn ==
  [md5_owner |-> "md5_inc", md5_row |-> "md5_restore", sv_owner |-> "sv_count",
   de_zset |-> "de_hash", de_hash |-> "de_share",
   sh_zset |-> "sh_rows", sh_rows |-> "sh_status", sh_zadd |-> "sh_hset"]

StatementFails(w) ==
  /\ faults < world.faults
  /\ faults' = faults + 1
  /\ \/ job[w].pc \in GivesUp /\ Finish(w)
     \/ job[w].pc \in DOMAIN GoesOn /\ Go(w, GoesOn[job[w].pc])
  /\ UNCHANGED <<db, redis, fdfs, requests, world>>

\* The process dies and is started again: every request in flight is lost.
Crash ==
  /\ faults < world.faults
  /\ faults' = faults + 1
  /\ \E w \in Workers : ~At(w, "idle")
  /\ job' = [w \in Workers |-> Idle]
  /\ UNCHANGED <<db, redis, fdfs, requests, world>>

-----------------------------------------------------------------------------
Upload(w) == UploadStore(w) \/ UploadInsertInfo(w) \/ UploadInsertRow(w)
Md5(w)    == \/ Md5ReadCount(w) \/ Md5CheckOwner(w) \/ Md5Increment(w)
             \/ Md5InsertRow(w) \/ Md5CountUser(w) \/ Md5Restore(w)
Save(w)   == \/ SaveCheckOwner(w) \/ SaveReadCount(w) \/ SaveIncrement(w)
             \/ SaveInsertRow(w)
Delete(w) == \/ DeleteReadStatus(w) \/ DeleteZrem(w) \/ DeleteHdel(w)
             \/ DeleteShareRows(w) \/ DeleteRows(w) \/ DeleteReadCount(w)
             \/ DeleteDecrement(w) \/ DeleteReadFileId(w) \/ DeleteInfo(w)
             \/ DeleteObject(w)
Share(w)  == \/ ShareZsetExit(w) \/ ShareReadRows(w) \/ ShareMark(w)
             \/ ShareInsertRow(w) \/ ShareZadd(w) \/ ShareHset(w)
Cancel(w) == CancelMark(w) \/ CancelRows(w) \/ CancelZrem(w) \/ CancelHdel(w)

Step(w) ==
  \/ \E op \in DOMAIN First, k \in Keys : Request(w, op, k)
  \/ Upload(w) \/ Md5(w) \/ Save(w) \/ Delete(w) \/ Share(w) \/ Cancel(w)
  \/ StatementFails(w)

Next == (\E w \in Workers : Step(w)) \/ Crash

Spec == Init /\ [][Next]_vars

-----------------------------------------------------------------------------
(* Properties *)

Labels ==
  {"idle", "up_store", "up_info", "up_row",
   "md5_count", "md5_owner", "md5_inc", "md5_row", "md5_user", "md5_restore",
   "sv_owner", "sv_count", "sv_inc", "sv_row",
   "de_status", "de_zset", "de_hash", "de_share", "de_rows", "de_count",
   "de_dec", "de_fileid", "de_info", "de_object",
   "sh_zset", "sh_rows", "sh_status", "sh_row", "sh_zadd", "sh_hset",
   "ca_status", "ca_rows", "ca_zset", "ca_hash"}

Jobs == [pc : Labels, key : Keys \cup {<<>>}, count : Nat, obj : 0..made]

\* Every variable has its type, and a count about to be lowered is not 0.
TablesOK ==
  /\ file_info \in [Md5s -> SUBSET [count : Nat, obj : 0..made]]
  /\ own \in [Keys -> [{0, 1} -> Nat]]
  /\ share \in [Keys -> Nat]
  /\ zset \subseteq FileIds /\ hash \subseteq FileIds
  /\ user_count \in [Users -> Nat]
  /\ made \in Nat /\ objects \subseteq 1..made
  /\ requests \in Nat /\ faults \in Nat /\ world \in Worlds

JobsOK ==
  /\ job \in [Workers -> Jobs]
  /\ \A w \in Workers :
       /\ At(w, "idle") \/ Key(w) \in Keys
       /\ At(w, "de_dec") => job[w].count > 0

TypeOK == TablesOK /\ JobsOK

\* A row of file_info always names a file that is in FastDFS, whatever handlers
\* overlap, whatever fails and wherever the process dies: the file is stored
\* before its row, the row deleted before its file.
NoDanglingRow ==
  \A m \in Md5s : \A r \in file_info[m] : r.obj \in objects

\* The inductive invariant behind it.
Named(m) == {r.obj : r \in file_info[m]}

ObjectsApart == \A m, n \in Md5s : m # n => Named(m) \cap Named(n) = {}

\* The file being uploaded is named by no row and by no other handler.
FreshUpload ==
  \A w \in Workers : At(w, "up_info") =>
    /\ job[w].obj \in objects
    /\ \A m \in Md5s : job[w].obj \notin Named(m)
    /\ \A v \in Workers \ {w} :
         job[v].pc \in {"up_info", "de_info", "de_object"} => job[v].obj # job[w].obj

\* The file being discarded is named by the rows to be deleted, then by none.
DoomedFile ==
  \A w \in Workers, m \in Md5s :
    /\ At(w, "de_info") /\ m # Md5Of(Key(w)) => job[w].obj \notin Named(m)
    /\ At(w, "de_object") => job[w].obj \notin Named(m)

FilesSafe == NoDanglingRow /\ ObjectsApart /\ FreshUpload /\ DoomedFile

IInv == TypeOK /\ FilesSafe

\* The rows users have of a file: those of each entry are numbered.
Entries(m) == UNION {{k} \X (1..Rows(k)) : k \in {k \in Keys : Md5Of(k) = m}}
Owners(m)  == Cardinality(Entries(m))

\* Requests about one file do not overlap, and no file has two rows in file_info:
\* md5 is a key, or nobody uploads what the instant upload would have found.
Regular == ~world.overlap /\ (world.unique \/ world.polite)

\* The reference count never falls below the number of users' entries, so no
\* listed file is discarded: the count is raised before an entry is added and
\* lowered after it is removed, and whatever fails leaves it too high.  Claimed
\* where requests about one file do not overlap and a file has one row.
CountCoversOwners ==
  Regular =>
    \A m \in Md5s : Owners(m) > 0 => \E r \in file_info[m] : Owners(m) <= r.count

\* The catalogue implements its promise, that a listed file can be downloaded,
\* in the same circumstances; in others it is only asked to store and discard
\* files one by one.
RC == INSTANCE RefCatalog
        WITH listed <- IF Regular THEN {k \in Keys : Rows(k) > 0} ELSE {},
             stored <- {m \in Md5s : \E r \in file_info[m] : r.obj \in objects}
ImplementsRefCatalog == RC!Spec

\* No request is in flight, none has failed and none overlapped another about
\* its file.
Quiet == \A w \in Workers : At(w, "idle")
Calm  == world.polite /\ ~world.overlap /\ faults = 0

\* Between requests, the count is the number of entries users have of the file.
CountIsOwners ==
  Quiet => \A m \in Md5s : \A r \in file_info[m] : r.count = Owners(m)
RefCountsOwners == Calm => CountIsOwners

\* Between requests, FastDFS holds exactly the files that are listed.
NothingOrphaned ==
  Calm /\ Quiet => objects = UNION {{r.obj : r \in file_info[m]} :
                              m \in {n \in Md5s : Owners(n) > 0}}

\* A file is shared by one user at a time: who comes second is told so.
SingleSharer ==
  Calm => \A j, k \in Keys :
    share[j] > 0 /\ share[k] > 0 /\ FileId(j) = FileId(k) => j = k /\ share[k] = 1
=============================================================================
