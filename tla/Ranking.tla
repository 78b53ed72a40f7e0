------------------------------ MODULE Ranking ------------------------------
(***************************************************************************)
(* The download ranking: rows of share_file_list in MySQL with their page  *)
(* views, and their mirror in redis, the sorted set FILE_PUBLIC_ZSET with  *)
(* scores and the hash FILE_NAME_HASH with names.  Share, cancel, del and  *)
(* page views change both, one statement or command at a time, and the     *)
(* ranking listing compares their sizes and starts redis anew when they    *)
(* differ.  An action is one statement or command of one worker, as in     *)
(* FileService; what the handlers do to files and counts is there, what    *)
(* they do to the ranking is here.                                         *)
(***************************************************************************)
EXTENDS Naturals, FiniteSets, Functions

CONSTANTS
  Workers,      \* event loop threads
  Users, Files, \* a file is an md5 with a name, and so a member of the zset
  Modes,        \* the environments considered: TRUE is calm, FALSE is not
  MaxRequests,  \* bound: requests served
  MaxFaults     \* bound: failed statements and crashes, when not calm

ASSUME RankingAssumption ==
  /\ Modes \subseteq BOOLEAN
  /\ MaxRequests \in Nat
  /\ MaxFaults \in Nat

VARIABLES
  calm,     \* nothing fails and requests that disturb each other do not overlap
  rows,     \* table share_file_list
  marked,   \* entries of user_file_list whose shared_status is 1
  score,    \* FILE_PUBLIC_ZSET: a function from its members
  names,    \* fields of FILE_NAME_HASH
  job,      \* job[w]: the request worker w is serving
  ids,      \* rows inserted so far
  views,    \* history: page views of each file written to MySQL
  requests, faults

mysql  == <<rows, marked, ids, views>>
redis  == <<score, names>>
budget == <<requests, faults>>
vars   == <<calm, mysql, redis, job, budget>>

Members   == DOMAIN score
RowsOf(f) == {r \in rows : r.file = f}
Shared    == {r.file : r \in rows}

Nobody == "nobody"

Requests ==
  [op : {"share", "cancel", "del"}, user : Users, file : Files]
    \cup [op : {"view"}, user : {Nobody}, file : Files]
    \cup [op : {"list"}, user : {Nobody}, file : {Nobody}]

NoRequest == [op |-> "none", user |-> Nobody, file |-> Nobody]
Idle      == [pc |-> "idle", req |-> NoRequest, n |-> 0, page |-> {}]

At(w, l)      == job[w].pc = l
Op(w)         == job[w].req.op
User(w)       == job[w].req.user
File(w)       == job[w].req.file
Go(w, l)      == job' = [job EXCEPT ![w].pc = l]
Keep(w, l, n) == job' = [job EXCEPT ![w].pc = l, ![w].n = n]

\* Mutant: what the request has read is kept.
Finish_Keeps(w) == job' = [job EXCEPT ![w].pc = "idle"]

Finish(w) == job' = [job EXCEPT ![w] = Idle]

Init ==
  /\ calm \in Modes
  /\ rows = {} /\ marked = {} /\ ids = 0 /\ views = [f \in Files |-> 0]
  /\ score = <<>> /\ names = {}
  /\ job = [w \in Workers |-> Idle]
  /\ requests = 0 /\ faults = 0

-----------------------------------------------------------------------------
(* Requests *)

First == [share |-> "sh_zset", cancel |-> "ca_status", del |-> "de_status",
          view |-> "vw_read", list |-> "ls_count"]

\* The client cancels only what is marked as shared.
Sensible(q) == q.op = "cancel" => <<q.user, q.file>> \in marked

\* Two requests disturb each other: they are about one file, or one is a
\* listing and the other changes what is shared.
Disturbs(q, r) ==
  \/ q.op # "list" /\ r.op # "list" /\ q.file = r.file
  \/ q.op = "list" /\ r.op \in {"share", "cancel", "del"}
  \/ r.op = "list" /\ q.op \in {"share", "cancel", "del"}

\* A share or del that does not decode goes on with empty fields: Requests may
\* hold a file and a user of that name.
Request(w, q) ==
  /\ At(w, "idle")
  /\ requests < MaxRequests
  /\ Sensible(q)
  /\ calm => \A v \in Workers : ~At(v, "idle") => ~Disturbs(q, job[v].req)
  /\ job' = [job EXCEPT ![w] = [pc |-> First[q.op], req |-> q, n |-> 0, page |-> {}]]
  /\ requests' = requests + 1
  /\ UNCHANGED <<calm, mysql, redis, faults>>

-----------------------------------------------------------------------------
(* Commands several handlers use *)

\* ZLEXCOUNT z [f [f counts f when all scores are equal; when they are not,
\* redis does not say what it returns: a member may be missed or its
\* neighbours counted with it (2 stands for more than one).
ZsetExit(f) ==
  IF f \notin Members THEN {0}
  ELSE IF \A g \in Members : score[g] = score[f] THEN {1} ELSE {0, 1, 2}

ZsetAdd(f, n) == score' = [g \in Members \cup {f} |-> IF g = f THEN n ELSE score[g]]

\* ZINCRBY adds a member that is not there.
ZsetIncr(f) == ZsetAdd(f, IF f \in Members THEN score[f] + 1 ELSE 1)

ZsetZrem(f) == score' = Restrict(score, Members \ {f})

-----------------------------------------------------------------------------
(* handleShareFile *)

\* Only 1 means that the file is shared.
ShareZsetExit(w) ==
  /\ At(w, "sh_zset")
  /\ \E n \in ZsetExit(File(w)) : IF n = 1 THEN Finish(w) ELSE Go(w, "sh_rows")
  /\ UNCHANGED <<calm, mysql, redis, budget>>

\* Shared all the same: redis gets the member again, with score 0.
ShareReadRows(w) ==
  /\ At(w, "sh_rows")
  /\ Go(w, IF RowsOf(File(w)) # {} THEN "sh_zadd" ELSE "sh_status")
  /\ UNCHANGED <<calm, mysql, redis, budget>>

\* The file is taken to be in the user's list (again) when it is shared.
ShareMark(w) ==
  /\ At(w, "sh_status")
  /\ marked' = marked \cup {<<User(w), File(w)>>}
  /\ Go(w, "sh_row")
  /\ UNCHANGED <<calm, rows, ids, views, redis, budget>>

ShareInsertRow(w) ==
  /\ At(w, "sh_row")
  /\ ids' = ids + 1
  /\ rows' = rows \cup {[id |-> ids + 1, user |-> User(w), file |-> File(w), pv |-> 0]}
  /\ Go(w, "sh_zadd")
  /\ UNCHANGED <<calm, marked, views, redis, budget>>

ShareZadd(w) ==
  /\ At(w, "sh_zadd")
  /\ ZsetAdd(File(w), 0)
  /\ Go(w, "sh_hset")
  /\ UNCHANGED <<calm, mysql, names, budget>>

ShareHset(w) ==
  /\ At(w, "sh_hset")
  /\ names' = names \cup {File(w)}
  /\ Finish(w)
  /\ UNCHANGED <<calm, mysql, score, budget>>

-----------------------------------------------------------------------------
(* handleCancelShareFile and the part of handleDeleteFile about shares *)

DropRows(w) == rows' = {r \in rows : ~(r.user = User(w) /\ r.file = File(w))}
Unmark(w)   == marked' = marked \ {<<User(w), File(w)>>}

CancelMark(w) ==
  /\ At(w, "ca_status")
  /\ Unmark(w)
  /\ Go(w, "ca_rows")
  /\ UNCHANGED <<calm, rows, ids, views, redis, budget>>

CancelRows(w) ==
  /\ At(w, "ca_rows")
  /\ DropRows(w)
  /\ Go(w, "ca_zset")
  /\ UNCHANGED <<calm, marked, ids, views, redis, budget>>

\* Mutant: the member stays.
CancelZrem_KeepsMember(w) ==
  /\ At(w, "ca_zset")
  /\ Go(w, "ca_hash")
  /\ UNCHANGED <<calm, mysql, redis, budget>>

CancelZrem(w) ==
  /\ At(w, "ca_zset")
  /\ ZsetZrem(File(w))
  /\ Go(w, "ca_hash")
  /\ UNCHANGED <<calm, mysql, names, budget>>

CancelHdel(w) ==
  /\ At(w, "ca_hash")
  /\ names' = names \ {File(w)}
  /\ Finish(w)
  /\ UNCHANGED <<calm, mysql, score, budget>>

\* Mutant: not asked whether this user shares the file.
DeleteReadStatus_Unchecked(w) ==
  /\ At(w, "de_status")
  /\ Go(w, "de_zset")
  /\ UNCHANGED <<calm, mysql, redis, budget>>

DeleteReadStatus(w) ==
  /\ At(w, "de_status")
  /\ Go(w, IF <<User(w), File(w)>> \in marked THEN "de_zset" ELSE "de_rows")
  /\ UNCHANGED <<calm, mysql, redis, budget>>

DeleteZrem(w) ==
  /\ At(w, "de_zset")
  /\ ZsetZrem(File(w))
  /\ Go(w, "de_hash")
  /\ UNCHANGED <<calm, mysql, names, budget>>

DeleteHdel(w) ==
  /\ At(w, "de_hash")
  /\ names' = names \ {File(w)}
  /\ Go(w, "de_share")
  /\ UNCHANGED <<calm, mysql, score, budget>>

DeleteShareRows(w) ==
  /\ At(w, "de_share")
  /\ DropRows(w)
  /\ Go(w, "de_rows")
  /\ UNCHANGED <<calm, marked, ids, views, redis, budget>>

\* The user's entry goes, and its mark with it.
DeleteRows(w) ==
  /\ At(w, "de_rows")
  /\ Unmark(w)
  /\ Finish(w)
  /\ UNCHANGED <<calm, rows, ids, views, redis, budget>>

-----------------------------------------------------------------------------
(* handlePvFile of api_deal_sharefiles.cc: a page view of a shared file *)

ViewRead(w) ==
  /\ At(w, "vw_read")
  /\ \/ RowsOf(File(w)) = {} /\ Finish(w)
     \/ \E r \in RowsOf(File(w)) : Keep(w, "vw_write", r.pv)
  /\ UNCHANGED <<calm, mysql, redis, budget>>

\* Mutant: pv has been raised when it was read, and is raised again.
ViewWrite_Twice(w) ==
  /\ At(w, "vw_write")
  /\ rows' = {IF r.file = File(w) THEN [r EXCEPT !.pv = job[w].n + 2] ELSE r : r \in rows}
  /\ views' = [views EXCEPT ![File(w)] = @ + 1]
  /\ Go(w, "vw_exists")
  /\ UNCHANGED <<calm, marked, ids, redis, budget>>

\* All rows of the file get the value read from one of them plus 1; that no
\* row is left is not an error.
ViewWrite(w) ==
  /\ At(w, "vw_write")
  /\ rows' = {IF r.file = File(w) THEN [r EXCEPT !.pv = job[w].n + 1] ELSE r : r \in rows}
  /\ views' = [views EXCEPT ![File(w)] = @ + 1]
  /\ Go(w, "vw_exists")
  /\ UNCHANGED <<calm, marked, ids, redis, budget>>

\* Neither 0 nor 1: nothing is done in redis.
ViewZsetExit(w) ==
  /\ At(w, "vw_exists")
  /\ \E n \in ZsetExit(File(w)) :
       CASE n = 0 -> Go(w, "vw_zadd")
         [] n = 1 -> Go(w, "vw_incr")
         [] OTHER -> Finish(w)
  /\ UNCHANGED <<calm, mysql, redis, budget>>

\* Mutant: the member is added and incremented.
ViewZadd_AndIncr(w) ==
  /\ At(w, "vw_zadd")
  /\ ZsetAdd(File(w), job[w].n + 1)
  /\ Go(w, "vw_incr")
  /\ UNCHANGED <<calm, mysql, names, budget>>

ViewZadd(w) ==
  /\ At(w, "vw_zadd")
  /\ ZsetAdd(File(w), job[w].n + 1)
  /\ Go(w, "vw_hset")
  /\ UNCHANGED <<calm, mysql, names, budget>>

ViewHset(w) ==
  /\ At(w, "vw_hset")
  /\ names' = names \cup {File(w)}
  /\ Finish(w)
  /\ UNCHANGED <<calm, mysql, score, budget>>

\* The reply, the new score, is compared with "OK": the handler takes it for a
\* failure, but the score has been raised.
ViewIncr(w) ==
  /\ At(w, "vw_incr")
  /\ ZsetIncr(File(w))
  /\ Finish(w)
  /\ UNCHANGED <<calm, mysql, names, budget>>

-----------------------------------------------------------------------------
(* handleGetRankingFilelist *)

\* handleGetSharefilesCount
ListCount(w) ==
  /\ At(w, "ls_count")
  /\ Keep(w, "ls_card", Cardinality(rows))
  /\ UNCHANGED <<calm, mysql, redis, budget>>

ListZcard(w) ==
  /\ At(w, "ls_card")
  /\ Go(w, IF Cardinality(Members) # job[w].n THEN "ls_delz" ELSE "ls_range")
  /\ UNCHANGED <<calm, mysql, redis, budget>>

ListDelZset(w) ==
  /\ At(w, "ls_delz")
  /\ score' = <<>>
  /\ Go(w, "ls_delh")
  /\ UNCHANGED <<calm, mysql, names, budget>>

ListDelHash(w) ==
  /\ At(w, "ls_delh")
  /\ names' = {}
  /\ Go(w, "ls_import")
  /\ UNCHANGED <<calm, mysql, score, budget>>

\* "order by desc" names no column: MySQL refuses the statement, so there is
\* nothing to import and the listing fails.
ListImport(w) ==
  /\ At(w, "ls_import")
  /\ Finish(w)
  /\ UNCHANGED <<calm, mysql, redis, budget>>

\* ZREVRANGE: a page of the members.
ListRange(w) ==
  /\ At(w, "ls_range")
  /\ \E p \in SUBSET Members : job' = [job EXCEPT ![w].pc = "ls_name", ![w].page = p]
  /\ UNCHANGED <<calm, mysql, redis, budget>>

\* HGET, then ZSCORE of each member; one that is gone fails the listing.
ListName(w) ==
  /\ At(w, "ls_name")
  /\ \/ job[w].page = {} /\ Finish(w)
     \/ \E f \in job[w].page \ names : Finish(w)
     \/ \E f \in job[w].page \cap names :
          job' = [job EXCEPT ![w].pc = "ls_score", ![w].req.file = f]
  /\ UNCHANGED <<calm, mysql, redis, budget>>

ListScore(w) ==
  /\ At(w, "ls_score")
  /\ IF File(w) \in Members
     THEN job' = [job EXCEPT ![w].pc = "ls_name", ![w].page = @ \ {File(w)}]
     ELSE Finish(w)
  /\ UNCHANGED <<calm, mysql, redis, budget>>

-----------------------------------------------------------------------------
(* Failures *)

\* Where a handler goes on when its statement or command fails; anywhere else
\* it ends, except that the failure of DeleteReadStatus ends the process.
GoesOn ==
  [sh_zset |-> "sh_rows", sh_rows |-> "sh_status", sh_zadd |-> "sh_hset",
   de_zset |-> "de_hash", de_hash |-> "de_share", vw_zadd |-> "vw_hset",
   ls_delz |-> "ls_delh", ls_delh |-> "ls_import"]

StatementFails(w) ==
  /\ ~calm /\ faults < MaxFaults
  /\ ~At(w, "idle") /\ ~At(w, "de_status")
  /\ faults' = faults + 1
  /\ IF job[w].pc \in DOMAIN GoesOn THEN Go(w, GoesOn[job[w].pc]) ELSE Finish(w)
  /\ UNCHANGED <<calm, mysql, redis, requests>>

Crash ==
  /\ ~calm /\ faults < MaxFaults
  /\ \E w \in Workers : ~At(w, "idle")
  /\ faults' = faults + 1
  /\ job' = [w \in Workers |-> Idle]
  /\ UNCHANGED <<calm, mysql, redis, requests>>

-----------------------------------------------------------------------------
Share(w)  == \/ ShareZsetExit(w) \/ ShareReadRows(w) \/ ShareMark(w)
             \/ ShareInsertRow(w) \/ ShareZadd(w) \/ ShareHset(w)
Cancel(w) == CancelMark(w) \/ CancelRows(w) \/ CancelZrem(w) \/ CancelHdel(w)
Delete(w) == \/ DeleteReadStatus(w) \/ DeleteZrem(w) \/ DeleteHdel(w)
             \/ DeleteShareRows(w) \/ DeleteRows(w)
View(w)   == \/ ViewRead(w) \/ ViewWrite(w) \/ ViewZsetExit(w) \/ ViewZadd(w)
             \/ ViewHset(w) \/ ViewIncr(w)
List(w)   == \/ ListCount(w) \/ ListZcard(w) \/ ListDelZset(w) \/ ListDelHash(w)
             \/ ListImport(w) \/ ListRange(w) \/ ListName(w) \/ ListScore(w)

Next ==
  \/ \E w \in Workers :
       \/ \E q \in Requests : Request(w, q)
       \/ Share(w) \/ Cancel(w) \/ Delete(w) \/ View(w) \/ List(w)
       \/ StatementFails(w)
  \/ Crash

Spec == Init /\ [][Next]_vars

-----------------------------------------------------------------------------
(* Properties *)

\* Where the handler of a request may be.
LabelsOf ==
  [none   |-> {"idle"},
   share  |-> {"sh_zset", "sh_rows", "sh_status", "sh_row", "sh_zadd", "sh_hset"},
   cancel |-> {"ca_status", "ca_rows", "ca_zset", "ca_hash"},
   del    |-> {"de_status", "de_zset", "de_hash", "de_share", "de_rows"},
   view   |-> {"vw_read", "vw_write", "vw_exists", "vw_zadd", "vw_hset", "vw_incr"},
   list   |-> {"ls_count", "ls_card", "ls_delz", "ls_delh", "ls_import", "ls_range",
               "ls_name", "ls_score"}]

DataOK ==
  /\ calm \in BOOLEAN /\ ids \in Nat /\ views \in [Files -> Nat]
  /\ IsFiniteSet(rows)
  /\ rows \subseteq [id : 1..ids, user : Users, file : Files, pv : Nat]
  /\ marked \subseteq Users \X Files
  /\ Members \subseteq Files /\ score \in [Members -> Nat]
  /\ names \subseteq Files
  /\ requests \in 0..MaxRequests /\ faults \in 0..MaxFaults

Jobs ==
  [pc : UNION {LabelsOf[o] : o \in DOMAIN LabelsOf},
   req : [op : DOMAIN LabelsOf, user : Users \cup {Nobody}, file : Files \cup {Nobody}],
   n : Nat, page : SUBSET Files]

JobOK ==
  /\ job \in [Workers -> Jobs]
  /\ \A w \in Workers :
       /\ job[w].pc \in LabelsOf[Op(w)]
       /\ At(w, "idle") => job[w].n = 0 /\ job[w].page = {}
       /\ Op(w) \in {"share", "cancel", "del"} => User(w) \in Users
       /\ Op(w) \notin {"none", "list"} => File(w) \in Files

\* Every variable has its type, and a worker is inside the handler of its request.
TypeOK == DataOK /\ JobOK

Changes(w)   == Op(w) \notin {"none", "list"}
Untouched(f) == \A w \in Workers : Changes(w) => File(w) # f

\* In calm, a file no request is about is shared in all four places or in none:
\* its row, the mark of its owner, the member of the zset, the name in the hash.
RankingAgrees ==
  calm => \A f \in Files : Untouched(f) =>
            /\ (f \in Members) = (f \in Shared) /\ (f \in names) = (f \in Shared)
            /\ {r.user : r \in RowsOf(f)} = {u \in Users : <<u, f>> \in marked}

\* In calm, the ranking shows no more page views than MySQL has counted,
\* whatever ZLEXCOUNT answers (it may show fewer).
ScoreNotAhead ==
  calm => \A f \in Files : Untouched(f) =>
            \A r \in RowsOf(f) : f \in Members => score[f] <= r.pv

\* In calm, a listing never starts redis anew and never meets a member without
\* name or score, even while files are viewed.
ListingSucceeds ==
  calm => \A w \in Workers :
            /\ ~At(w, "ls_delz")
            /\ job[w].page \subseteq names \cap Members

\* A page view is counted in MySQL at most once, whatever overlaps or fails and
\* wherever the process dies (it may be lost).
ViewsCountedOnce == \A r \in rows : r.pv <= views[r.file]

\* The inductive invariant behind it: nor is a value read for the update ahead.
ReadNotAhead == \A w \in Workers : At(w, "vw_write") => job[w].n <= views[File(w)]

IInv == TypeOK /\ ViewsCountedOnce /\ ReadNotAhead

\* A listing that has deleted what is in redis leaves it synchronised with MySQL:
\* after its import every shared file is a member.
RebuildRestores ==
  [][\A w \in Workers :
       At(w, "ls_import") /\ ~At(w, "ls_import")' => Shared \subseteq DOMAIN score']_vars
=============================================================================
