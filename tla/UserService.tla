---------------------------- MODULE UserService ----------------------------
(***************************************************************************)
(* What a user does apart from files in the catalogue: registration,       *)
(* sessions, the list of own files and its page views, and pictures shared *)
(* by a key.  As in FileService a worker is an event loop thread, a step   *)
(* one statement or command, which may fail, and the process may die and   *)
(* be started again.  A request to share a picture that does not decode    *)
(* goes on with empty fields.                                              *)
(***************************************************************************)
EXTENDS Integers, FiniteSets

CONSTANTS
  Workers,     \* event loop threads
  Users,       \* user names
  Nobody,      \* the empty user name, which may be one of them
  Keys,        \* numbers of tokens, and keys of pictures
  Worlds       \* which of the following may happen: see World

\* unique    user_name is a key of user_info
\* overlap   registrations of one name may overlap
\* settled   the users are registered, have a session and a file from before
\* about     the operations asked for, and "expire"
\* requests, faults, restarts   bounds: requests, failed statements, restarts
World == [unique : BOOLEAN, overlap : BOOLEAN, settled : BOOLEAN, about : SUBSET STRING,
          requests : Nat, faults : Nat, restarts : Nat]

ASSUME UserServiceAssumption == Worlds \subseteq World /\ 1 \in Keys

VARIABLES
  world,       \* member of Worlds
  accounts,    \* accounts[u]: rows of user_info with that name
  tokens,      \* redis pool token: pairs <<n, u>>, the n-th token of u, while stored
  files,       \* files[u]: pv of the row of user_file_list of u, or -1
  pictures,    \* rows of share_picture_list; equal rows are always treated alike
  worker,      \* worker[w]: the request w carries out and the place in it
  requests, faults, restarts,
  granted,     \* history: tokens answered and the users they were answered to
  forgotten,   \* history: tokens that expired or could not be stored
  told,        \* history: users told that they are registered
  unprepared,  \* history: users whose insertion could not be prepared
  shown,       \* history: pairs <<u, k>>, answered to u as shared and not cancelled
  browses,     \* history: browses[k]: page views of key k that were written
  views        \* history: views[u]: page views of the file of u that were written

database == <<accounts, files, pictures>>
budget   == <<requests, faults, restarts>>
history  == <<granted, forgotten, told, unprepared, shown, browses, views>>
usersVars == <<world, database, tokens, worker, budget, history>>

Ops  == {"register", "login", "share", "browse", "pictures", "cancel", "count", "list", "view"}
Idle == [op |-> "none", at |-> "idle", user |-> Nobody, key |-> 1, seen |-> 0]

Settled == {u \in Users \ {Nobody} : world.settled}

Init ==
  /\ world \in Worlds
  /\ accounts = [u \in Users |-> IF u \in Settled THEN 1 ELSE 0]
  /\ files = [u \in Users |-> IF u \in Settled THEN 0 ELSE -1]
  /\ tokens = {<<1, u>> : u \in Settled}
  /\ pictures = {} /\ shown = {}
  /\ worker = [w \in Workers |-> Idle]
  /\ requests = 0 /\ faults = 0 /\ restarts = 0
  /\ granted = tokens /\ forgotten = {} /\ told = {} /\ unprepared = {}
  /\ browses = [k \in Keys |-> 0] /\ views = [u \in Users |-> 0]

At(w, l)   == worker[w].at = l
Goto(w, l) == worker' = [worker EXCEPT ![w].at = l]
Done(w)    == worker' = [worker EXCEPT ![w] = Idle]
User(w)    == worker[w].user
Key(w)     == worker[w].key

\* A statement or command that fails.
Fails == faults < world.faults /\ faults' = faults + 1
Works == UNCHANGED faults

-----------------------------------------------------------------------------
(* Requests *)

First(op) ==
  CASE op = "register" -> "reg_select"
    [] op = "login"    -> "login_select"
    [] op = "share"    -> "verify"
    [] op = "browse"   -> "browse_read"
    [] op = "pictures" -> "pict_count"
    [] op = "cancel"   -> "cancel"
    [] op \in {"count", "list"} -> "verify"
    [] op = "view"     -> "view_read"

\* key is a token, a key of a picture, or not used.
Request(w, op, u, k) ==
  /\ At(w, "idle") /\ op \in world.about
  /\ requests < world.requests /\ requests' = requests + 1
  /\ op = "register" /\ ~world.overlap =>
       \A v \in Workers : ~(worker[v].op = "register" /\ User(v) = u)
  /\ op \in {"share", "browse", "cancel", "count", "list"} \/ k = 1
  /\ worker' = [worker EXCEPT ![w] =
       [op |-> op, at |-> First(op), user |-> u, key |-> k, seen |-> 0]]
  /\ UNCHANGED <<world, database, tokens, faults, restarts, history>>

Stays == UNCHANGED <<world, requests, restarts>>
-----------------------------------------------------------------------------
(* registerUser *)

\* Mutant: the answer to the query is not looked at.
RegSelect_Blind(w) ==
  /\ At(w, "reg_select")
  /\ Works /\ Goto(w, "reg_prepare")
  /\ UNCHANGED <<database, tokens, history>> /\ Stays

\* A query that fails is taken for one without rows.
RegSelect(w) ==
  /\ At(w, "reg_select")
  /\ \/ Works /\ IF accounts[User(w)] > 0 THEN Done(w) ELSE Goto(w, "reg_prepare")
     \/ Fails /\ Goto(w, "reg_prepare")
  /\ UNCHANGED <<database, tokens, history>> /\ Stays

\* When the statement cannot be prepared ret keeps its 0: the user is told that
\* the registration has succeeded.
RegPrepare(w) ==
  /\ At(w, "reg_prepare")
  /\ \/ /\ Works /\ Goto(w, "reg_insert") /\ UNCHANGED <<told, unprepared>>
     \/ /\ Fails /\ Done(w)
        /\ told' = told \cup {User(w)} /\ unprepared' = unprepared \cup {User(w)}
  /\ UNCHANGED <<database, tokens, granted, forgotten, shown, browses, views>> /\ Stays

\* Mutant: the result of the insertion is not looked at.
RegInsert_Blind(w) ==
  /\ At(w, "reg_insert")
  /\ \/ Works /\ accounts' = [accounts EXCEPT ![User(w)] = @ + 1]
     \/ Fails /\ UNCHANGED accounts
  /\ told' = told \cup {User(w)} /\ Done(w)
  /\ UNCHANGED <<files, pictures, tokens, granted, forgotten, unprepared, shown, browses, views>>
  /\ Stays

RegInsert(w) ==
  LET u == User(w)
  IN /\ At(w, "reg_insert") /\ Done(w)
     /\ \/ /\ world.unique => accounts[u] = 0
           /\ Works /\ accounts' = [accounts EXCEPT ![u] = @ + 1] /\ told' = told \cup {u}
        \/ /\ Fails \/ (Works /\ world.unique /\ accounts[u] > 0)
           /\ UNCHANGED <<accounts, told>>
     /\ UNCHANGED <<files, pictures, tokens, granted, forgotten, unprepared, shown, browses, views>>
     /\ Stays

-----------------------------------------------------------------------------
(* ApiLoginUser: verifyUserPassword and setToken *)

LoginSelect(w) ==
  /\ At(w, "login_select")
  /\ \/ \* the row is there and so is the right password
        /\ accounts[User(w)] > 0 /\ Works /\ Goto(w, "login_token")
     \/ \* no row, or another password
        /\ Works /\ Done(w)
     \/ Fails /\ Done(w)
  /\ UNCHANGED <<database, tokens, history>> /\ Stays

TokenFor(u) == <<Cardinality({t \in granted : t[2] = u}) + 1, u>>

\* Mutant: the token is stored under the name of the user.
LoginToken_ByUser(w) ==
  /\ At(w, "login_token")
  /\ Works /\ tokens' = {t \in tokens : t[2] # User(w)} \cup {TokenFor(User(w))}
  /\ granted' = granted \cup {TokenFor(User(w))} /\ Done(w)
  /\ UNCHANGED <<database, forgotten, told, unprepared, shown, browses, views>> /\ Stays

\* The result of SetEx is not looked at: the token is answered either way.
LoginToken(w) ==
  LET t == TokenFor(User(w))
  IN /\ At(w, "login_token")
     /\ \/ Works /\ tokens' = tokens \cup {t} /\ UNCHANGED forgotten
        \/ Fails /\ UNCHANGED tokens /\ forgotten' = forgotten \cup {t}
     /\ granted' = granted \cup {t} /\ Done(w)
     /\ UNCHANGED <<database, told, unprepared, shown, browses, views>> /\ Stays

\* A day has passed.
Expire(t) ==
  /\ "expire" \in world.about /\ t \in tokens
  /\ tokens' = tokens \ {t} /\ forgotten' = forgotten \cup {t}
  /\ UNCHANGED <<world, database, worker, budget, granted, told, unprepared, shown, browses, views>>

-----------------------------------------------------------------------------
(* VerifyToken, and what the three operations it guards do next *)

\* Random characters: any key, also one that a picture has already.  rand() is not
\* seeded and not synchronised, so a process repeats the keys of the one before,
\* and two threads may draw the same.
RandomString == Keys

\* What a GET of the token of w may yield: w's own name while the token is stored,
\* or the empty string; or another name, when the token is somebody else's.
StoredNames(w) ==
  {IF <<Key(w), User(w)>> \in tokens THEN User(w) ELSE Nobody}
    \cup {t[2] : t \in {t \in tokens : t[2] # User(w)}}

\* The stored name is compared with the one in the request.  A GET that fails
\* yields the empty string, and so does a token that is not known: a request
\* without a user name is accepted with it.
Verify(w) ==
  /\ At(w, "verify")
  /\ \/ /\ (Works /\ User(w) \in StoredNames(w)) \/ (Fails /\ User(w) = Nobody)
        /\ IF worker[w].op = "share"
           THEN \E k \in RandomString :
                  worker' = [worker EXCEPT ![w].at = "share_insert", ![w].key = k]
           ELSE Goto(w, "files_count")
     \/ \* another name, or no connection
        /\ Fails \/ (Works /\ \E name \in StoredNames(w) : name # User(w))
        /\ Done(w)
  /\ UNCHANGED <<database, tokens, history>> /\ Stays

-----------------------------------------------------------------------------
(* ApiMyfiles and the page view of an own file *)

\* A failed count is answered as a success with total 0 (count), or ends list.
FilesCount(w) ==
  /\ At(w, "files_count")
  /\ \/ /\ Works
        /\ IF worker[w].op = "list" /\ files[User(w)] >= 0 THEN Goto(w, "files_rows") ELSE Done(w)
     \/ Fails /\ Done(w)
  /\ UNCHANGED <<database, tokens, history>> /\ Stays

\* A failed query leaves the answer empty.
FilesRows(w) ==
  /\ At(w, "files_rows")
  /\ (Works \/ Fails) /\ Done(w)
  /\ UNCHANGED <<database, tokens, history>> /\ Stays

\* Uploads and deletions of the catalogue.
FileChanges(u) ==
  /\ "view" \in world.about
  /\ files' = [files EXCEPT ![u] = IF @ = -1 THEN 0 ELSE -1]
  /\ UNCHANGED <<world, accounts, pictures, tokens, worker, budget, history>>

ViewRead(w) ==
  LET pv == files[User(w)]
  IN /\ At(w, "view_read")
     /\ \/ /\ Works /\ pv >= 0
           /\ worker' = [worker EXCEPT ![w].at = "view_write", ![w].seen = pv]
        \/ (Fails \/ (Works /\ pv = -1)) /\ Done(w)
     /\ UNCHANGED <<database, tokens, history>> /\ Stays

\* An update that changes no row is a failure, which only the answer shows.
ViewWrite(w) ==
  LET u == User(w)
      changes == files[u] \notin {-1, worker[w].seen + 1}
  IN /\ At(w, "view_write") /\ Done(w)
     /\ \/ /\ Works /\ changes
           /\ files' = [files EXCEPT ![u] = worker[w].seen + 1]
           /\ views' = [views EXCEPT ![u] = @ + 1]
        \/ (Fails \/ (Works /\ ~changes)) /\ UNCHANGED <<files, views>>
     /\ UNCHANGED <<accounts, pictures, tokens, granted, forgotten, told, unprepared, shown, browses>>
     /\ Stays

-----------------------------------------------------------------------------
(* ApiSharePicture *)

\* The handler ends without the return statement it needs: the process may die
\* there, which Restart allows after any step.
ShareInsert(w) ==
  /\ At(w, "share_insert") /\ Done(w)
  /\ \/ Fails /\ UNCHANGED <<pictures, shown>>
     \/ /\ Works
        /\ pictures' = pictures \cup {[user |-> User(w), key |-> Key(w), pv |-> 0]}
        /\ shown' = shown \cup {<<User(w), Key(w)>>}
  /\ UNCHANGED <<accounts, files, tokens, granted, forgotten, told, unprepared, browses, views>>
  /\ Stays

With(k) == {p \in pictures : p.key = k}

\* The first row with the key, in whatever order the server has them.
BrowseRead(w) ==
  /\ At(w, "browse_read")
  /\ \/ \E p \in With(Key(w)) :
          /\ Works
          /\ worker' = [worker EXCEPT ![w].at = "browse_url", ![w].seen = p.pv]
     \/ (Fails \/ (Works /\ With(Key(w)) = {})) /\ Done(w)
  /\ UNCHANGED <<database, tokens, history>> /\ Stays

\* The file may have left file_info meanwhile.
BrowseUrl(w) ==
  /\ At(w, "browse_url")
  /\ \/ Works /\ (Goto(w, "browse_write") \/ Done(w))
     \/ Fails /\ Done(w)
  /\ UNCHANGED <<database, tokens, history>> /\ Stays

\* Mutant: the update is sent again after its answer was lost.
BrowseWrite_Again(w) ==
  LET k == Key(w)
  IN /\ At(w, "browse_write") /\ Done(w) /\ Works
     /\ pictures' = {[p EXCEPT !.pv = IF p.key = k THEN p.pv + 2 ELSE p.pv] : p \in pictures}
     /\ browses' = [browses EXCEPT ![k] = @ + 1]
     /\ UNCHANGED <<accounts, files, tokens, granted, forgotten, told, unprepared, shown, views>>
     /\ Stays

\* The update is by key: it changes every row that has it.
BrowseWrite(w) ==
  LET k == Key(w)
      n == worker[w].seen + 1
      changes == \E p \in With(k) : p.pv # n
  IN /\ At(w, "browse_write") /\ Done(w)
     /\ \/ /\ Works /\ changes
           /\ pictures' = (pictures \ With(k)) \cup {[p EXCEPT !.pv = n] : p \in With(k)}
           /\ browses' = [browses EXCEPT ![k] = @ + 1]
        \/ (Fails \/ (Works /\ ~changes)) /\ UNCHANGED <<pictures, browses>>
     /\ UNCHANGED <<accounts, files, tokens, granted, forgotten, told, unprepared, shown, views>>
     /\ Stays

\* The total is that of the rows of user_file_list; without any the pictures are
\* not looked for.
PicturesCount(w) ==
  /\ At(w, "pict_count")
  /\ \/ Works /\ IF files[User(w)] >= 0 THEN Goto(w, "pict_rows") ELSE Done(w)
     \/ Fails /\ Done(w)
  /\ UNCHANGED <<database, tokens, history>> /\ Stays

PicturesRows(w) ==
  /\ At(w, "pict_rows")
  /\ (Works \/ Fails) /\ Done(w)
  /\ UNCHANGED <<database, tokens, history>> /\ Stays

\* Mutant: the row is looked for by its key alone.
CancelPicture_ByKey(w) ==
  /\ At(w, "cancel") /\ Done(w) /\ Works
  /\ pictures' = pictures \ With(Key(w)) /\ shown' = shown \ {<<User(w), Key(w)>>}
  /\ UNCHANGED <<accounts, files, tokens, granted, forgotten, told, unprepared, browses, views>>
  /\ Stays

\* Deleting nothing is a success.  The token of the request is not verified.
CancelPicture(w) ==
  /\ At(w, "cancel") /\ Done(w)
  /\ \/ /\ Works /\ shown' = shown \ {<<User(w), Key(w)>>}
        /\ pictures' = {p \in pictures : p.user # User(w) \/ p.key # Key(w)}
     \/ Fails /\ UNCHANGED <<pictures, shown>>
  /\ UNCHANGED <<accounts, files, tokens, granted, forgotten, told, unprepared, browses, views>>
  /\ Stays

-----------------------------------------------------------------------------
(* The process dies and is started again; what workers were doing is lost. *)

Restart ==
  /\ restarts < world.restarts /\ restarts' = restarts + 1
  /\ worker' = [w \in Workers |-> Idle]
  /\ UNCHANGED <<world, database, tokens, requests, faults, history>>

Registers(w) == RegSelect(w) \/ RegPrepare(w) \/ RegInsert(w)
LogsIn(w)    == LoginSelect(w) \/ LoginToken(w)
Lists(w)     == FilesCount(w) \/ FilesRows(w) \/ ViewRead(w) \/ ViewWrite(w)
Pictures(w)  == ShareInsert(w) \/ BrowseRead(w) \/ BrowseUrl(w) \/ BrowseWrite(w)
                \/ PicturesCount(w) \/ PicturesRows(w) \/ CancelPicture(w)

Next ==
  \/ \E w \in Workers, op \in Ops, u \in Users, k \in Keys : Request(w, op, u, k)
  \/ \E w \in Workers : Registers(w) \/ LogsIn(w) \/ Verify(w) \/ Lists(w) \/ Pictures(w)
  \/ \E t \in tokens : Expire(t)
  \/ \E u \in Users : FileChanges(u)
  \/ Restart

Spec == Init /\ [][Next]_usersVars

-----------------------------------------------------------------------------
(* Properties *)

\* Where the handler of a request may be.
Places ==
  [none     |-> {"idle"},
   register |-> {"reg_select", "reg_prepare", "reg_insert"},
   login    |-> {"login_select", "login_token"},
   share    |-> {"verify", "share_insert"},
   browse   |-> {"browse_read", "browse_url", "browse_write"},
   pictures |-> {"pict_count", "pict_rows"},
   cancel   |-> {"cancel"},
   count    |-> {"verify", "files_count"},
   list     |-> {"verify", "files_count", "files_rows"},
   view     |-> {"view_read", "view_write"}]

DataOK ==
  /\ world \in Worlds
  /\ requests \in 0..world.requests /\ faults \in 0..world.faults /\ restarts \in 0..world.restarts
  /\ accounts \in [Users -> Nat] /\ files \in [Users -> Nat \cup {-1}]
  /\ pictures \subseteq [user : Users, key : Keys, pv : Nat] /\ shown \subseteq Users \X Keys
  /\ tokens \subseteq granted /\ told \subseteq Users /\ unprepared \subseteq Users
  /\ browses \in [Keys -> Nat] /\ views \in [Users -> Nat]

Jobs ==
  [op : DOMAIN Places, at : UNION {Places[o] : o \in DOMAIN Places},
   user : Users \cup {Nobody}, key : Keys, seen : Nat]

WorkersOK ==
  /\ worker \in [Workers -> Jobs]
  /\ \A w \in Workers :
       /\ worker[w].at \in Places[worker[w].op]
       /\ worker[w].op # "none" => User(w) \in Users /\ Key(w) \in Keys

\* Every variable has its type, a worker is inside the handler of its request, and
\* only tokens that were answered are accepted.
TypeOK == DataOK /\ WorkersOK

\* A name has one row of user_info, if there is a key or if registrations of a
\* name do not overlap and no query fails: a query that fails is taken for one
\* that found nobody.
OneAccountPerName ==
  world.unique \/ (~world.overlap /\ faults = 0) => \A u \in Users : accounts[u] <= 1

\* Who was told to be registered is, unless the insertion could not be prepared,
\* which registerUser reports as a success; whatever failed or was cut short.
ToldIsRegistered == \A u \in told \ unprepared : accounts[u] > 0

\* However often a user logs in, each token answered keeps being accepted until it
\* expires, across restarts, unless redis refused to store it.
EverySessionHolds == granted \ forgotten \subseteq tokens

\* A picture that was answered as shared keeps its row until its user cancels it:
\* whatever statement failed, whichever pictures with the same key were shared,
\* browsed or cancelled by others meanwhile, and across restarts.
SharedStaysFound == \A s \in shown : \E p \in pictures : p.user = s[1] /\ p.key = s[2]

\* pv never exceeds the page views written, of a picture or of a user's file,
\* although each reads it by one statement and writes it by another, rows are
\* deleted in between and keys are drawn twice.
PageViewsCountedOnce ==
  /\ \A p \in pictures : p.pv <= browses[p.key]
  /\ \A u \in Users : files[u] <= views[u]
=============================================================================
