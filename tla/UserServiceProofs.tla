------------------------- MODULE UserServiceProofs -------------------------
(***************************************************************************)
(* Accounts, sessions, shared pictures and page views, for any workers,    *)
(* users, requests, faults and restarts.  Handlers read by one statement   *)
(* and write by another, so each invariant also says what a worker between *)
(* the two may rely on: that nobody else registers the name, that the      *)
(* value read is not ahead of the views.                                   *)
(***************************************************************************)
EXTENDS UserService, TLAPS

-----------------------------------------------------------------------------
(* What is inductive *)

\* Between the query and the insertion nobody else registers the name, unless
\* registrations overlap, and there is no row, unless the query failed.
OneRegistration ==
  ~world.overlap =>
    \A v, w \in Workers :
      worker[v].op = "register" /\ worker[w].op = "register" /\ User(v) = User(w) => v = w

Vacant ==
  ~world.overlap /\ faults = 0 =>
    \A w \in Workers : worker[w].at \in {"reg_prepare", "reg_insert"} => accounts[User(w)] = 0

AccountsInv == OneAccountPerName /\ OneRegistration /\ Vacant

\* A page view that was read and is not written yet is not ahead of those written.
SeenNotAhead ==
  \A w \in Workers :
    /\ worker[w].at \in {"browse_url", "browse_write"} => worker[w].seen <= browses[Key(w)]
    /\ At(w, "view_write") => worker[w].seen <= views[User(w)]

ViewsInv == PageViewsCountedOnce /\ SeenNotAhead

IInv ==
  /\ TypeOK
  /\ AccountsInv /\ ToldIsRegistered /\ EverySessionHolds /\ SharedStaysFound /\ ViewsInv

-----------------------------------------------------------------------------
(* What a step does to the worker that takes it *)

AllPlaces == UNION {Places[o] : o \in DOMAIN Places}

\* w goes on with its request: at l, with key k, having read n.
Moved(w, l, k, n) ==
  /\ worker' \in [Workers -> Jobs]
  /\ worker'[w].op = worker[w].op /\ worker'[w].at = l /\ worker'[w].user = worker[w].user
  /\ worker'[w].key = k /\ worker'[w].seen = n
  /\ \A v \in Workers \ {w} : worker'[v] = worker[v]

LEMMA PlacesFacts ==
  /\ DOMAIN Places = Ops \cup {"none"}
  /\ Places["none"] = {"idle"}
  /\ \A o \in Ops : "idle" \notin Places[o]
  /\ \A o \in DOMAIN Places :
       /\ Places[o] \cap {"reg_select", "reg_prepare", "reg_insert"} # {} => o = "register"
       /\ "share_insert" \in Places[o] => o = "share"
       /\ Places[o] \cap {"browse_read", "browse_url", "browse_write"} # {} => o = "browse"
       /\ Places[o] \cap {"view_read", "view_write"} # {} => o = "view"
BY DEF Places, Ops

\* The fields of a worker.
LEMMA Fields ==
  ASSUME WorkersOK, NEW w \in Workers
  PROVE  /\ worker[w] = [op |-> worker[w].op, at |-> worker[w].at, user |-> User(w),
                         key |-> Key(w), seen |-> worker[w].seen]
         /\ worker[w].op \in DOMAIN Places /\ worker[w].at \in Places[worker[w].op]
         /\ worker[w].seen \in Nat
         /\ ~At(w, "idle") => worker[w].op \in Ops /\ User(w) \in Users /\ Key(w) \in Keys
<1>1. worker[w] \in Jobs
  BY DEF WorkersOK
<1>2. worker[w].op \in DOMAIN Places /\ worker[w].at \in Places[worker[w].op]
  BY <1>1 DEF WorkersOK, Jobs
<1>3. ~At(w, "idle") => worker[w].op # "none" /\ User(w) \in Users /\ Key(w) \in Keys
  BY <1>2, PlacesFacts DEF WorkersOK, At
<1>. QED  BY <1>1, <1>2, <1>3, PlacesFacts DEF Jobs, User, Key

LEMMA JobMoves ==
  ASSUME WorkersOK, NEW w \in Workers, NEW j \in Jobs, worker' = [worker EXCEPT ![w] = j],
         j.op = worker[w].op, j.user = worker[w].user
  PROVE  Moved(w, j.at, j.key, j.seen)
BY DEF WorkersOK, Moved

LEMMA GotoMoves ==
  ASSUME WorkersOK, NEW w \in Workers, NEW l \in AllPlaces, Goto(w, l)
  PROVE  Moved(w, l, Key(w), worker[w].seen)
<1>. DEFINE j == [worker[w] EXCEPT !.at = l]
<1>1. worker[w] \in Jobs /\ worker' = [worker EXCEPT ![w] = j]
  BY DEF WorkersOK, Goto
<1>2. j \in Jobs
  BY <1>1 DEF Jobs, AllPlaces
<1>3. j.op = worker[w].op /\ j.user = worker[w].user /\ j.at = l /\ j.key = Key(w) /\ j.seen = worker[w].seen
  BY <1>1 DEF Jobs, Key
<1>. HIDE DEF j
<1>. QED  BY <1>1, <1>2, <1>3, JobMoves

LEMMA ReadMoves ==
  ASSUME WorkersOK, NEW w \in Workers, NEW l \in AllPlaces, NEW n \in Nat,
         worker' = [worker EXCEPT ![w].at = l, ![w].seen = n]
  PROVE  Moved(w, l, Key(w), n)
<1>. DEFINE j == [worker[w] EXCEPT !.at = l, !.seen = n]
<1>1. worker[w] \in Jobs /\ worker' = [worker EXCEPT ![w] = j]
  BY DEF WorkersOK
<1>2. j \in Jobs
  BY <1>1 DEF Jobs, AllPlaces
<1>3. j.op = worker[w].op /\ j.user = worker[w].user /\ j.at = l /\ j.key = Key(w) /\ j.seen = n
  BY <1>1 DEF Jobs, Key
<1>. HIDE DEF j
<1>. QED  BY <1>1, <1>2, <1>3, JobMoves

LEMMA DrawMoves ==
  ASSUME WorkersOK, NEW w \in Workers, NEW l \in AllPlaces, NEW k \in Keys,
         worker' = [worker EXCEPT ![w].at = l, ![w].key = k]
  PROVE  Moved(w, l, k, worker[w].seen)
<1>. DEFINE j == [worker[w] EXCEPT !.at = l, !.key = k]
<1>1. worker[w] \in Jobs /\ worker' = [worker EXCEPT ![w] = j]
  BY DEF WorkersOK
<1>2. j \in Jobs
  BY <1>1 DEF Jobs, AllPlaces
<1>3. j.op = worker[w].op /\ j.user = worker[w].user /\ j.at = l /\ j.key = k /\ j.seen = worker[w].seen
  BY <1>1 DEF Jobs
<1>. HIDE DEF j
<1>. QED  BY <1>1, <1>2, <1>3, JobMoves

LEMMA AfterDone ==
  ASSUME WorkersOK, NEW w \in Workers, Done(w)
  PROVE  /\ worker'[w] = Idle /\ worker'[w].op = "none" /\ worker'[w].at = "idle"
         /\ \A v \in Workers \ {w} : worker'[v] = worker[v]
BY DEF WorkersOK, Done, Idle

LEMMA MovedTyped ==
  ASSUME WorkersOK, NEW w \in Workers, ~At(w, "idle"), NEW l \in Places[worker[w].op],
         NEW k \in Keys, NEW n \in Nat, Moved(w, l, k, n)
  PROVE  WorkersOK'
BY Fields, PlacesFacts DEF WorkersOK, Moved, User, Key

LEMMA DoneTyped ==
  ASSUME WorkersOK, NEW w \in Workers, Done(w)
  PROVE  WorkersOK'
<1>1. Idle \in Jobs
  BY UserServiceAssumption DEF Jobs, Idle, Places
<1>2. worker' \in [Workers -> Jobs]
  BY <1>1 DEF WorkersOK, Done
<1>. QED  BY <1>2, AfterDone, PlacesFacts DEF WorkersOK, User, Key

-----------------------------------------------------------------------------
(* The steps of requests *)

StepsOn(w) == Registers(w) \/ LogsIn(w) \/ Verify(w) \/ Lists(w) \/ Pictures(w)

\* A step ends the request or goes on with it inside its handler.
LEMMA StepMoves ==
  ASSUME DataOK, WorkersOK, NEW w \in Workers, StepsOn(w)
  PROVE  /\ ~At(w, "idle")
         /\ \/ Done(w)
            \/ \E l \in Places[worker[w].op], k \in Keys, n \in Nat :
                 Moved(w, l, k, n)
<1>. DEFINE Moves(l) == \E k \in Keys, n \in Nat : Moved(w, l, k, n)
            op == worker[w].op
<1>f. /\ op \in DOMAIN Places /\ worker[w].at \in Places[op] /\ worker[w].seen \in Nat
      /\ ~At(w, "idle") => User(w) \in Users /\ Key(w) \in Keys
  BY Fields
<1>g. ASSUME ~At(w, "idle"), NEW l \in Places[op], Goto(w, l) PROVE Moves(l)
  <2>1. l \in AllPlaces
    BY <1>f DEF AllPlaces
  <2>. QED  BY <1>f, <1>g, <2>1, GotoMoves
<1>h. ASSUME NEW l \in Places[op], Moves(l), ~At(w, "idle")
      PROVE  \E m \in Places[op], k \in Keys, n \in Nat : Moved(w, m, k, n)
  BY <1>h
<1>p. \A o \in DOMAIN Places :
        /\ "reg_select" \in Places[o] \/ "reg_prepare" \in Places[o] => {"reg_prepare", "reg_insert"} \subseteq Places[o]
        /\ "login_select" \in Places[o] => "login_token" \in Places[o]
        /\ "verify" \in Places[o] /\ o # "share" => "files_count" \in Places[o]
        /\ "files_count" \in Places[o] /\ o = "list" => "files_rows" \in Places[o]
        /\ "view_read" \in Places[o] => "view_write" \in Places[o]
        /\ "browse_read" \in Places[o] \/ "browse_url" \in Places[o] => {"browse_url", "browse_write"} \subseteq Places[o]
        /\ "pict_count" \in Places[o] => "pict_rows" \in Places[o]
  BY DEF Places
<1>. HIDE DEF Moves
<1>1. CASE RegSelect(w)
  <2>1. ~At(w, "idle")
    BY <1>1 DEF RegSelect, At
  <2>2. Done(w) \/ Goto(w, "reg_prepare")
    BY <1>1 DEF RegSelect
  <2>3. "reg_prepare" \in Places[op]
    BY <1>1, <1>f, <1>p DEF RegSelect, At
  <2>. QED  BY <2>1, <2>2, <2>3, <1>g, <1>h
<1>2. CASE RegPrepare(w)
  <2>1. ~At(w, "idle")
    BY <1>2 DEF RegPrepare, At
  <2>2. Done(w) \/ Goto(w, "reg_insert")
    BY <1>2 DEF RegPrepare
  <2>3. "reg_insert" \in Places[op]
    BY <1>2, <1>f, <1>p DEF RegPrepare, At
  <2>. QED  BY <2>1, <2>2, <2>3, <1>g, <1>h
<1>3. CASE RegInsert(w)
  <2>1. ~At(w, "idle")
    BY <1>3 DEF RegInsert, At
  <2>. QED  BY <1>3, <2>1 DEF RegInsert
<1>4. CASE LoginSelect(w)
  <2>1. ~At(w, "idle")
    BY <1>4 DEF LoginSelect, At
  <2>2. Done(w) \/ Goto(w, "login_token")
    BY <1>4 DEF LoginSelect
  <2>3. "login_token" \in Places[op]
    BY <1>4, <1>f, <1>p DEF LoginSelect, At
  <2>. QED  BY <2>1, <2>2, <2>3, <1>g, <1>h
<1>5. CASE LoginToken(w)
  <2>1. ~At(w, "idle")
    BY <1>5 DEF LoginToken, At
  <2>. QED  BY <1>5, <2>1 DEF LoginToken
<1>6. CASE FilesCount(w)
  <2>1. ~At(w, "idle")
    BY <1>6 DEF FilesCount, At
  <2>2. Done(w) \/ Goto(w, "files_rows")
    BY <1>6 DEF FilesCount
  <2>3. Done(w) \/ "files_rows" \in Places[op]
    BY <1>6, <1>f, <1>p DEF FilesCount, At
  <2>. QED  BY <2>1, <2>2, <2>3, <1>g, <1>h
<1>7. CASE FilesRows(w)
  <2>1. ~At(w, "idle")
    BY <1>7 DEF FilesRows, At
  <2>. QED  BY <1>7, <2>1 DEF FilesRows
<1>8. CASE ViewWrite(w)
  <2>1. ~At(w, "idle")
    BY <1>8 DEF ViewWrite, At
  <2>. QED  BY <1>8, <2>1 DEF ViewWrite
<1>9. CASE ShareInsert(w)
  <2>1. ~At(w, "idle")
    BY <1>9 DEF ShareInsert, At
  <2>. QED  BY <1>9, <2>1 DEF ShareInsert
<1>10. CASE BrowseUrl(w)
  <2>1. ~At(w, "idle")
    BY <1>10 DEF BrowseUrl, At
  <2>2. Done(w) \/ Goto(w, "browse_write")
    BY <1>10 DEF BrowseUrl
  <2>3. "browse_write" \in Places[op]
    BY <1>10, <1>f, <1>p DEF BrowseUrl, At
  <2>. QED  BY <2>1, <2>2, <2>3, <1>g, <1>h
<1>11. CASE BrowseWrite(w)
  <2>1. ~At(w, "idle")
    BY <1>11 DEF BrowseWrite, At
  <2>. QED  BY <1>11, <2>1 DEF BrowseWrite
<1>12. CASE PicturesCount(w)
  <2>1. ~At(w, "idle")
    BY <1>12 DEF PicturesCount, At
  <2>2. Done(w) \/ Goto(w, "pict_rows")
    BY <1>12 DEF PicturesCount
  <2>3. "pict_rows" \in Places[op]
    BY <1>12, <1>f, <1>p DEF PicturesCount, At
  <2>. QED  BY <2>1, <2>2, <2>3, <1>g, <1>h
<1>13. CASE PicturesRows(w)
  <2>1. ~At(w, "idle")
    BY <1>13 DEF PicturesRows, At
  <2>. QED  BY <1>13, <2>1 DEF PicturesRows
<1>14. CASE CancelPicture(w)
  <2>1. ~At(w, "idle")
    BY <1>14 DEF CancelPicture, At
  <2>. QED  BY <1>14, <2>1 DEF CancelPicture
<1>15. CASE Verify(w)
  <2>1. ~At(w, "idle")
    BY <1>15 DEF Verify, At
  <2>2. CASE Done(w)
    BY <2>1, <2>2
  <2>3. CASE op # "share" /\ ~Done(w)
    <3>1. "files_count" \in Places[op] /\ Goto(w, "files_count")
      BY <1>15, <1>f, <1>p, <2>3 DEF Verify, At
    <3>. QED  BY <2>1, <3>1, <1>g, <1>h
  <2>4. CASE op = "share" /\ ~Done(w)
    <3>1. PICK k \in Keys : worker' = [worker EXCEPT ![w].at = "share_insert", ![w].key = k]
      BY <1>15, <2>4 DEF Verify, RandomString
    <3>2. "share_insert" \in Places[op] /\ "share_insert" \in AllPlaces
      BY <2>4 DEF Places, AllPlaces
    <3>3. Moves("share_insert")
      BY <1>f, <3>1, <3>2, DrawMoves DEF Moves
    <3>. QED  BY <2>1, <3>2, <3>3, <1>h
  <2>. QED  BY <2>2, <2>3, <2>4
<1>16. CASE ViewRead(w)
  <2>1. ~At(w, "idle") /\ "view_write" \in Places[op]
    BY <1>16, <1>f, <1>p DEF ViewRead, At
  <2>2. CASE Done(w)
    BY <2>1, <2>2
  <2>3. CASE files[User(w)] >= 0 /\ worker' = [worker EXCEPT ![w].at = "view_write", ![w].seen = files[User(w)]]
    <3>1. files[User(w)] \in Nat
      BY <2>1, <2>3, <1>f DEF DataOK
    <3>2. Moves("view_write")
      BY <1>f, <2>1, <2>3, <3>1, ReadMoves DEF Moves, AllPlaces
    <3>. QED  BY <2>1, <3>2, <1>h
  <2>. QED  BY <1>16, <2>2, <2>3 DEF ViewRead
<1>17. CASE BrowseRead(w)
  <2>1. ~At(w, "idle") /\ "browse_url" \in Places[op]
    BY <1>17, <1>f, <1>p DEF BrowseRead, At
  <2>2. CASE Done(w)
    BY <2>1, <2>2
  <2>3. ASSUME NEW p \in pictures, worker' = [worker EXCEPT ![w].at = "browse_url", ![w].seen = p.pv]
        PROVE  Moves("browse_url")
    <3>1. p.pv \in Nat
      BY DEF DataOK
    <3>. QED  BY <1>f, <2>1, <2>3, <3>1, ReadMoves DEF Moves, AllPlaces
  <2>. QED  BY <1>17, <2>1, <2>2, <2>3, <1>h DEF BrowseRead, With
<1>. QED
  BY <1>1, <1>2, <1>3, <1>4, <1>5, <1>6, <1>7, <1>8, <1>9, <1>10, <1>11, <1>12, <1>13, <1>14,
     <1>15, <1>16, <1>17 DEF StepsOn, Registers, LogsIn, Lists, Pictures

\* A request begins at the first place of its handler.
LEMMA RequestMoves ==
  ASSUME WorkersOK, NEW w \in Workers, NEW op \in Ops, NEW u \in Users, NEW k \in Keys,
         Request(w, op, u, k)
  PROVE  /\ At(w, "idle") /\ WorkersOK'
         /\ worker'[w].op = op /\ worker'[w].at = First(op) /\ worker'[w].user = u
         /\ \A v \in Workers \ {w} : worker'[v] = worker[v]
<1>. DEFINE j == [op |-> op, at |-> First(op), user |-> u, key |-> k, seen |-> 0]
<1>1. First(op) \in Places[op] /\ op \in DOMAIN Places
  BY DEF First, Ops, Places
<1>2. j \in Jobs
  BY <1>1 DEF Jobs
<1>3. worker' = [worker EXCEPT ![w] = j] /\ At(w, "idle")
  BY DEF Request
<1>4. worker' \in [Workers -> Jobs] /\ worker'[w] = j /\ \A v \in Workers \ {w} : worker'[v] = worker[v]
  BY <1>2, <1>3 DEF WorkersOK
<1>. QED  BY <1>1, <1>3, <1>4 DEF WorkersOK, User, Key

\* A worker at none of the places after the first was not idle before.
LEMMA FirstPlaces ==
  \A op \in Ops : First(op) \in {"reg_select", "login_select", "verify", "browse_read",
                                 "pict_count", "cancel", "view_read"}
BY DEF First, Ops

LEMMA WorkersStep == ASSUME DataOK, WorkersOK, [Next]_usersVars PROVE WorkersOK'
<1>1. ASSUME NEW w \in Workers, NEW op \in Ops, NEW u \in Users, NEW k \in Keys, Request(w, op, u, k)
      PROVE  WorkersOK'
  BY <1>1, RequestMoves
<1>2. ASSUME NEW w \in Workers, StepsOn(w)
      PROVE  WorkersOK'
  <2>1. CASE Done(w)
    BY <2>1, DoneTyped
  <2>2. CASE ~Done(w)
    BY <1>2, <2>2, StepMoves, MovedTyped
  <2>. QED  BY <2>1, <2>2
<1>3. CASE UNCHANGED worker
  BY <1>3 DEF WorkersOK, User, Key
<1>4. CASE Restart
  <2>1. Idle \in Jobs
    BY UserServiceAssumption DEF Jobs, Idle, Places
  <2>2. worker' \in [Workers -> Jobs] /\ \A w \in Workers : worker'[w] = Idle
    BY <1>4, <2>1 DEF Restart
  <2>3. Idle.op = "none" /\ Idle.at = "idle"
    BY DEF Idle
  <2>. QED  BY <2>2, <2>3, PlacesFacts DEF WorkersOK
<1>5. ASSUME NEW t \in tokens, Expire(t) PROVE UNCHANGED worker
  BY <1>5 DEF Expire
<1>6. ASSUME NEW u \in Users, FileChanges(u) PROVE UNCHANGED worker
  BY <1>6 DEF FileChanges
<1>. QED  BY <1>1, <1>2, <1>3, <1>4, <1>5, <1>6 DEF Next, StepsOn, usersVars

-----------------------------------------------------------------------------
(* Types of the data *)

LEMMA BudgetTyped ==
  ASSUME DataOK
  PROVE  /\ world.requests \in Nat /\ world.faults \in Nat /\ world.restarts \in Nat
         /\ requests \in Nat /\ faults \in Nat /\ restarts \in Nat
         /\ Fails \/ Works => faults' \in 0..world.faults
<1>1. world.requests \in Nat /\ world.faults \in Nat /\ world.restarts \in Nat
  BY UserServiceAssumption DEF DataOK, World
<1>2. requests \in 0..world.requests /\ faults \in 0..world.faults /\ restarts \in 0..world.restarts
  BY DEF DataOK
<1>. QED  BY <1>1, <1>2 DEF Fails, Works

\* A page view of a picture sets pv of the rows with its key.
LEMMA PicturesTyped ==
  ASSUME DataOK, NEW k, NEW n \in Nat
  PROVE  (pictures \ With(k)) \cup {[p EXCEPT !.pv = n] : p \in With(k)}
           \subseteq [user : Users, key : Keys, pv : Nat]
BY DEF DataOK, With

LEMMA DataStep == ASSUME DataOK, WorkersOK, [Next]_usersVars PROVE DataOK'
<1>. DEFINE Rest == UNCHANGED <<world, requests, restarts>> /\ (Fails \/ Works)
<1>b. /\ world.requests \in Nat /\ world.faults \in Nat /\ world.restarts \in Nat
      /\ requests \in Nat /\ faults \in Nat /\ restarts \in Nat
      /\ Rest => world' \in Worlds /\ requests' \in 0..world'.requests
                 /\ faults' \in 0..world'.faults /\ restarts' \in 0..world'.restarts
  BY BudgetTyped DEF DataOK
<1>. DEFINE Bounds == /\ world \in Worlds /\ requests \in 0..world.requests
                      /\ faults \in 0..world.faults /\ restarts \in 0..world.restarts
<1>u. ASSUME NEW w \in Workers, ~At(w, "idle")
      PROVE  User(w) \in Users /\ Key(w) \in Keys /\ worker[w].seen \in Nat
  BY <1>u, Fields
<1>1. ASSUME NEW w \in Workers, NEW op \in Ops, NEW u \in Users, NEW k \in Keys, Request(w, op, u, k)
      PROVE  DataOK'
  <2>1. requests' \in 0..world.requests
    BY <1>b, <1>1 DEF Request
  <2>. QED  BY <1>1, <2>1 DEF DataOK, Request, database, history
<1>2. ASSUME NEW w \in Workers, RegPrepare(w) PROVE DataOK'
  <2>1. Bounds' /\ User(w) \in Users
    BY <1>b, <1>u, <1>2 DEF RegPrepare, Stays, At
  <2>. QED  BY <1>2, <2>1 DEF DataOK, RegPrepare, database, history
<1>3. ASSUME NEW w \in Workers, RegInsert(w) PROVE DataOK'
  <2>1. Bounds' /\ User(w) \in Users
    BY <1>b, <1>u, <1>3 DEF RegInsert, Stays, At
  <2>2. accounts' \in [Users -> Nat] /\ told' \subseteq Users
    BY <1>3, <2>1 DEF RegInsert, DataOK
  <2>. QED  BY <1>3, <2>1, <2>2 DEF DataOK, RegInsert
<1>4. ASSUME NEW w \in Workers, LoginToken(w) PROVE DataOK'
  <2>1. Bounds'
    BY <1>b, <1>4 DEF LoginToken, Stays
  <2>2. tokens' \subseteq granted'
    BY <1>4 DEF LoginToken, DataOK
  <2>. QED  BY <1>4, <2>1, <2>2 DEF DataOK, LoginToken, database
<1>5. ASSUME NEW w \in Workers, Verify(w) PROVE DataOK'
  <2>1. Bounds'
    BY <1>b, <1>5 DEF Verify, Stays
  <2>. QED  BY <1>5, <2>1 DEF DataOK, Verify, database, history
<1>6. ASSUME NEW w \in Workers, ViewWrite(w) PROVE DataOK'
  <2>1. Bounds' /\ User(w) \in Users /\ worker[w].seen \in Nat
    BY <1>b, <1>u, <1>6 DEF ViewWrite, Stays, At
  <2>2. files' \in [Users -> Nat \cup {-1}] /\ views' \in [Users -> Nat]
    BY <1>6, <2>1 DEF ViewWrite, DataOK
  <2>. QED  BY <1>6, <2>1, <2>2 DEF DataOK, ViewWrite
<1>7. ASSUME NEW w \in Workers, ShareInsert(w) PROVE DataOK'
  <2>1. Bounds' /\ User(w) \in Users /\ Key(w) \in Keys
    BY <1>b, <1>u, <1>7 DEF ShareInsert, Stays, At
  <2>2. pictures' \subseteq [user : Users, key : Keys, pv : Nat]
    BY <1>7, <1>b, <2>1 DEF ShareInsert, DataOK
  <2>3. shown' \subseteq Users \X Keys
    BY <1>7, <2>1 DEF ShareInsert, DataOK
  <2>. QED  BY <1>7, <2>1, <2>2, <2>3 DEF DataOK, ShareInsert
<1>8. ASSUME NEW w \in Workers, BrowseWrite(w) PROVE DataOK'
  <2>1. Bounds' /\ Key(w) \in Keys /\ worker[w].seen + 1 \in Nat
    BY <1>b, <1>u, <1>8 DEF BrowseWrite, Stays, At
  <2>2. pictures' \subseteq [user : Users, key : Keys, pv : Nat]
    <3>1. pictures \subseteq [user : Users, key : Keys, pv : Nat]
      BY DEF DataOK
    <3>. QED  BY <1>8, <2>1, <3>1, PicturesTyped DEF BrowseWrite
  <2>3. browses' \in [Keys -> Nat]
    BY <1>8, <2>1 DEF BrowseWrite, DataOK
  <2>. QED  BY <1>8, <2>1, <2>2, <2>3 DEF DataOK, BrowseWrite
<1>9. ASSUME NEW w \in Workers, CancelPicture(w) PROVE DataOK'
  <2>1. Bounds'
    BY <1>b, <1>9 DEF CancelPicture, Stays
  <2>2. pictures' \subseteq pictures /\ shown' \subseteq shown
    BY <1>9 DEF CancelPicture
  <2>. QED  BY <1>9, <2>1, <2>2 DEF DataOK, CancelPicture
<1>10. ASSUME NEW w \in Workers,
              RegSelect(w) \/ LoginSelect(w) \/ FilesCount(w) \/ FilesRows(w) \/ ViewRead(w) \/ BrowseRead(w)
              \/ BrowseUrl(w) \/ PicturesCount(w) \/ PicturesRows(w)
       PROVE  DataOK'
  <2>1. UNCHANGED <<database, tokens, history>> /\ Rest
    BY <1>10 DEF RegSelect, LoginSelect, FilesCount, FilesRows, ViewRead, BrowseRead, BrowseUrl,
       PicturesCount, PicturesRows, Stays
  <2>2. Bounds'
    BY <1>b, <2>1
  <2>. QED  BY <2>1, <2>2 DEF DataOK, database, history
<1>11. ASSUME NEW t \in tokens, Expire(t) PROVE DataOK'
  <2>1. Bounds'
    BY <1>11 DEF Expire, budget, DataOK
  <2>. QED  BY <1>11, <2>1 DEF DataOK, Expire, database
<1>12. ASSUME NEW u \in Users, FileChanges(u) PROVE DataOK'
  <2>1. Bounds'
    BY <1>12 DEF FileChanges, budget, DataOK
  <2>2. files' \in [Users -> Nat \cup {-1}]
    BY <1>12 DEF FileChanges, DataOK
  <2>. QED  BY <1>12, <2>1, <2>2 DEF DataOK, FileChanges, history
<1>13. CASE Restart
  <2>1. Bounds'
    BY <1>b, <1>13 DEF Restart, DataOK
  <2>. QED  BY <1>13, <2>1 DEF DataOK, Restart, database, history
<1>14. CASE UNCHANGED usersVars
  BY <1>14 DEF DataOK, usersVars, database, budget, history
<1>. QED
  BY <1>1, <1>2, <1>3, <1>4, <1>5, <1>6, <1>7, <1>8, <1>9, <1>10, <1>11, <1>12, <1>13, <1>14
  DEF Next, Registers, LogsIn, Lists, Pictures

-----------------------------------------------------------------------------
(* Sessions *)

LEMMA SessionsStep == ASSUME EverySessionHolds, [Next]_usersVars PROVE EverySessionHolds'
<1>1. ASSUME NEW w \in Workers, LoginToken(w) PROVE EverySessionHolds'
  BY <1>1 DEF LoginToken, EverySessionHolds
<1>2. ASSUME NEW t \in tokens, Expire(t) PROVE EverySessionHolds'
  BY <1>2 DEF Expire, EverySessionHolds
<1>3. ASSUME UNCHANGED <<granted, forgotten, tokens>> PROVE EverySessionHolds'
  BY <1>3 DEF EverySessionHolds
<1>4. ASSUME NEW w \in Workers, StepsOn(w), ~LoginToken(w) PROVE UNCHANGED <<granted, forgotten, tokens>>
  BY <1>4 DEF StepsOn, Registers, LogsIn, Lists, Pictures, RegSelect, RegPrepare, RegInsert, LoginSelect,
     Verify, FilesCount, FilesRows, ViewRead, ViewWrite, ShareInsert, BrowseRead, BrowseUrl,
     BrowseWrite, PicturesCount, PicturesRows, CancelPicture, history
<1>5. ASSUME NEW w \in Workers, NEW op \in Ops, NEW u \in Users, NEW k \in Keys, Request(w, op, u, k)
      PROVE  UNCHANGED <<granted, forgotten, tokens>>
  BY <1>5 DEF Request, history
<1>6. ASSUME NEW u \in Users, FileChanges(u) PROVE UNCHANGED <<granted, forgotten, tokens>>
  BY <1>6 DEF FileChanges, history
<1>7. CASE Restart
  BY <1>3, <1>7 DEF Restart, history
<1>8. CASE UNCHANGED usersVars
  BY <1>3, <1>8 DEF usersVars, history
<1>. QED
  BY <1>1, <1>2, <1>3, <1>4, <1>5, <1>6, <1>7, <1>8 DEF Next, StepsOn

-----------------------------------------------------------------------------
(* Accounts *)

\* What the steps that are not about accounts leave alone.
LEMMA NotAccounts ==
  ASSUME NEW w \in Workers, StepsOn(w), ~RegInsert(w)
  PROVE  /\ UNCHANGED <<accounts, world>>
         /\ RegPrepare(w) \/ UNCHANGED <<told, unprepared>>
BY DEF StepsOn, Registers, LogsIn, Lists, Pictures, RegSelect, RegPrepare, LoginSelect,
   LoginToken, Verify, FilesCount, FilesRows, ViewRead, ViewWrite, ShareInsert, BrowseRead, BrowseUrl,
   BrowseWrite, PicturesCount, PicturesRows, CancelPicture, history, database, Stays

\* Rows of user_info are only added, one at a time.
LEMMA AccountsGrow ==
  ASSUME DataOK, WorkersOK, NEW w \in Workers, RegInsert(w)
  PROVE  /\ User(w) \in Users /\ world' = world
         /\ \/ /\ accounts'[User(w)] = accounts[User(w)] + 1 /\ told' = told \cup {User(w)}
               /\ \A u \in Users \ {User(w)} : accounts'[u] = accounts[u]
               /\ world.unique => accounts[User(w)] = 0
            \/ UNCHANGED <<accounts, told>>
         /\ unprepared' = unprepared
<1>1. User(w) \in Users
  BY Fields DEF RegInsert, At
<1>. QED  BY <1>1 DEF RegInsert, DataOK, Stays

LEMMA ToldStep == ASSUME DataOK, WorkersOK, ToldIsRegistered, [Next]_usersVars PROVE ToldIsRegistered'
<1>1. \A u \in Users : accounts[u] \in Nat
  BY DEF DataOK
<1>2. told \subseteq Users
  BY DEF DataOK
<1>3. ASSUME NEW w \in Workers, RegInsert(w) PROVE ToldIsRegistered'
  BY <1>1, <1>2, <1>3, AccountsGrow DEF ToldIsRegistered
<1>4. ASSUME NEW w \in Workers, RegPrepare(w) PROVE ToldIsRegistered'
  BY <1>4 DEF RegPrepare, ToldIsRegistered, database
<1>5. ASSUME UNCHANGED <<accounts, told, unprepared>> PROVE ToldIsRegistered'
  BY <1>5 DEF ToldIsRegistered
<1>6. ASSUME NEW w \in Workers, StepsOn(w) PROVE ToldIsRegistered'
  BY <1>3, <1>4, <1>5, <1>6, NotAccounts
<1>7. ASSUME ~\E w \in Workers : StepsOn(w) PROVE UNCHANGED <<accounts, told, unprepared>>
  BY <1>7 DEF Next, StepsOn, Request, Expire, FileChanges, Restart, usersVars, database, history
<1>. QED  BY <1>5, <1>6, <1>7

LEMMA OneRegistrationStep ==
  ASSUME DataOK, WorkersOK, OneRegistration, [Next]_usersVars
  PROVE  OneRegistration'
<1>1. ASSUME NEW w \in Workers, NEW op \in Ops, NEW u \in Users, NEW k \in Keys, Request(w, op, u, k)
      PROVE  OneRegistration'
  <2>1. world' = world
    BY <1>1 DEF Request
  <2>2. op = "register" /\ ~world.overlap => \A v \in Workers : ~(worker[v].op = "register" /\ User(v) = u)
    BY <1>1 DEF Request
  <2>. QED  BY <1>1, <2>1, <2>2, RequestMoves DEF OneRegistration, User
<1>2. ASSUME NEW w \in Workers, StepsOn(w) PROVE OneRegistration'
  <2>1. world' = world
    BY <1>2, NotAccounts DEF RegInsert, Stays
  <2>2. /\ worker'[w].op = "none" \/ (worker'[w].op = worker[w].op /\ worker'[w].user = worker[w].user)
        /\ \A v \in Workers \ {w} : worker'[v] = worker[v]
    BY <1>2, StepMoves, AfterDone DEF Moved
  <2>. QED  BY <2>1, <2>2 DEF OneRegistration, User
<1>3. ASSUME UNCHANGED <<worker, world>> PROVE OneRegistration'
  BY <1>3 DEF OneRegistration, User
<1>4. CASE Restart
  <2>1. \A w \in Workers : worker'[w].op = "none"
    BY <1>4 DEF Restart, Idle
  <2>. QED  BY <2>1 DEF OneRegistration
<1>5. ASSUME NEW t \in tokens, Expire(t) PROVE UNCHANGED <<worker, world>>
  BY <1>5 DEF Expire
<1>6. ASSUME NEW u \in Users, FileChanges(u) PROVE UNCHANGED <<worker, world>>
  BY <1>6 DEF FileChanges
<1>7. CASE UNCHANGED usersVars
  BY <1>3, <1>7 DEF usersVars
<1>. QED  BY <1>1, <1>2, <1>3, <1>4, <1>5, <1>6, <1>7 DEF Next, StepsOn

\* Faults are counted, and the environment stays.
LEMMA FaultsGrow ==
  ASSUME DataOK, [Next]_usersVars
  PROVE  world' = world /\ faults \in Nat /\ (faults' = faults \/ faults' = faults + 1)
<1>1. ASSUME NEW w \in Workers, StepsOn(w) PROVE world' = world /\ (faults' = faults \/ faults' = faults + 1)
  BY <1>1 DEF StepsOn, Registers, LogsIn, Lists, Pictures, RegSelect, RegPrepare, RegInsert, LoginSelect,
     LoginToken, Verify, FilesCount, FilesRows, ViewRead, ViewWrite, ShareInsert, BrowseRead, BrowseUrl,
     BrowseWrite, PicturesCount, PicturesRows, CancelPicture, Stays, Fails, Works
<1>2. ASSUME ~\E w \in Workers : StepsOn(w) PROVE world' = world /\ faults' = faults
  BY <1>2 DEF Next, StepsOn, Request, Expire, FileChanges, Restart, usersVars, budget
<1>. QED  BY <1>1, <1>2, BudgetTyped

\* Only the query and the preparation lead to the insertion.
LEMMA Registering ==
  ASSUME DataOK, WorkersOK, NEW w \in Workers, StepsOn(w),
         worker'[w].at \in {"reg_prepare", "reg_insert"}
  PROVE  /\ (RegSelect(w) /\ Goto(w, "reg_prepare")) \/ RegPrepare(w)
         /\ worker'[w].user = worker[w].user
<1>1. /\ worker[w].op \in DOMAIN Places /\ worker[w].at \in Places[worker[w].op]
      /\ worker'[w].op = worker[w].op /\ worker'[w].user = worker[w].user
      /\ worker'[w].at \in Places[worker[w].op]
  BY StepMoves, AfterDone, Fields DEF Moved
<1>2. worker[w].at \in {"reg_select", "reg_prepare", "reg_insert"}
  <2>1. worker[w].op = "register"
    BY <1>1, PlacesFacts
  <2>. QED  BY <1>1, <2>1 DEF Places
<1>3. RegSelect(w) \/ RegPrepare(w) \/ RegInsert(w)
  BY <1>2 DEF StepsOn, Registers, LogsIn, Lists, Pictures, LoginSelect,
     LoginToken, Verify, FilesCount, FilesRows, ViewRead, ViewWrite, ShareInsert, BrowseRead, BrowseUrl,
     BrowseWrite, PicturesCount, PicturesRows, CancelPicture, At
<1>4. ~Done(w)
  BY AfterDone
<1>. QED  BY <1>1, <1>3, <1>4 DEF RegSelect, RegInsert

LEMMA VacantStep ==
  ASSUME DataOK, WorkersOK, OneRegistration, Vacant, [Next]_usersVars
  PROVE  Vacant'
<1>. SUFFICES ASSUME ~world.overlap, faults' = 0,
                     NEW v \in Workers, worker'[v].at \in {"reg_prepare", "reg_insert"}
              PROVE  accounts'[worker'[v].user] = 0
  BY FaultsGrow DEF Vacant, User
<1>0. /\ faults = 0 /\ (Fails => FALSE)
      /\ \A w \in Workers : worker[w].at \in {"reg_prepare", "reg_insert"} => accounts[worker[w].user] = 0
  BY FaultsGrow DEF Vacant, Fails, User
<1>1. ASSUME NEW w \in Workers, NEW op \in Ops, NEW u \in Users, NEW k \in Keys, Request(w, op, u, k)
      PROVE  accounts'[worker'[v].user] = 0
  <2>1. v # w /\ worker'[v] = worker[v]
    BY <1>1, RequestMoves, FirstPlaces
  <2>. QED  BY <1>0, <1>1, <2>1 DEF Request, database
<1>2. ASSUME NEW w \in Workers, StepsOn(w)
      PROVE  accounts'[worker'[v].user] = 0
  <2>1. \A x \in Workers \ {w} : worker'[x] = worker[x]
    BY <1>2, StepMoves, AfterDone DEF Moved
  <2>2. CASE v = w
    <3>1. CASE RegSelect(w) /\ Goto(w, "reg_prepare")
      <4>1. worker'[w].user = User(w) /\ User(w) \in Users /\ accounts[User(w)] \in Nat
        BY <1>2, <2>2, <3>1, Registering, Fields DEF RegSelect, At, User, DataOK
      <4>2. ~Done(w)
        BY <2>2, AfterDone
      <4>3. accounts' = accounts /\ ~(accounts[User(w)] > 0)
        BY <1>0, <3>1, <4>2 DEF RegSelect, database
      <4>. QED  BY <2>2, <4>1, <4>3
    <3>2. CASE RegPrepare(w)
      BY <1>0, <1>2, <2>2, <3>2, Registering DEF RegPrepare, At, database
    <3>. QED  BY <1>2, <2>2, <3>1, <3>2, Registering
  <2>3. CASE v # w
    <3>1. worker'[v] = worker[v] /\ accounts[worker[v].user] = 0
      BY <1>0, <2>1, <2>3
    <3>2. CASE RegInsert(w)
      <4>1. worker[v].op = "register" /\ worker[w].op = "register"
        BY <3>1, <3>2, Fields, PlacesFacts, ZenonT(60) DEF RegInsert, At
      <4>2. User(v) # User(w) /\ User(v) \in Users
        BY <2>3, <3>1, <4>1, Fields DEF OneRegistration, At
      <4>. QED  BY <3>1, <3>2, <4>2, AccountsGrow DEF User
    <3>3. CASE ~RegInsert(w)
      BY <1>2, <3>1, <3>3, NotAccounts
    <3>. QED  BY <3>2, <3>3
  <2>. QED  BY <2>2, <2>3
<1>3. ASSUME UNCHANGED <<worker, accounts>> PROVE accounts'[worker'[v].user] = 0
  BY <1>0, <1>3
<1>4. CASE Restart
  BY <1>4 DEF Restart, Idle
<1>5. ASSUME NEW t \in tokens, Expire(t) PROVE UNCHANGED <<worker, accounts>>
  BY <1>5 DEF Expire, database
<1>6. ASSUME NEW u \in Users, FileChanges(u) PROVE UNCHANGED <<worker, accounts>>
  BY <1>6 DEF FileChanges
<1>7. CASE UNCHANGED usersVars
  BY <1>3, <1>7 DEF usersVars, database
<1>. QED  BY <1>1, <1>2, <1>3, <1>4, <1>5, <1>6, <1>7 DEF Next, StepsOn

LEMMA OneAccountStep ==
  ASSUME DataOK, WorkersOK, OneAccountPerName, Vacant, [Next]_usersVars
  PROVE  OneAccountPerName'
<1>1. \A u \in Users : accounts[u] \in Nat
  BY DEF DataOK
<1>2. world' = world /\ (faults' = 0 => faults = 0)
  BY FaultsGrow
<1>3. ASSUME NEW w \in Workers, RegInsert(w) PROVE OneAccountPerName'
  <2>1. ~world.unique /\ ~world.overlap /\ faults = 0 => accounts[User(w)] = 0
    BY <1>3 DEF Vacant, RegInsert, At
  <2>. QED  BY <1>1, <1>2, <1>3, <2>1, AccountsGrow DEF OneAccountPerName
<1>4. ASSUME accounts' = accounts PROVE OneAccountPerName'
  BY <1>2, <1>4 DEF OneAccountPerName
<1>5. ASSUME NEW w \in Workers, StepsOn(w) PROVE OneAccountPerName'
  BY <1>3, <1>4, <1>5, NotAccounts
<1>6. ASSUME ~\E w \in Workers : StepsOn(w) PROVE accounts' = accounts
  BY <1>6 DEF Next, StepsOn, Request, Expire, FileChanges, Restart, usersVars, database
<1>. QED  BY <1>4, <1>5, <1>6

-----------------------------------------------------------------------------
(* Shared pictures *)

\* What the steps that are not about pictures leave alone.
LEMMA NotPictures ==
  ASSUME NEW w \in Workers, StepsOn(w), ~ShareInsert(w), ~BrowseWrite(w), ~CancelPicture(w)
  PROVE  UNCHANGED <<pictures, shown, browses>>
BY DEF StepsOn, Registers, LogsIn, Lists, Pictures, RegSelect, RegPrepare, RegInsert, LoginSelect,
   LoginToken, Verify, FilesCount, FilesRows, ViewRead, ViewWrite, BrowseRead, BrowseUrl,
   PicturesCount, PicturesRows, history, database, Stays

LEMMA NoRequestNoPictures ==
  ASSUME [Next]_usersVars, ~\E w \in Workers : StepsOn(w)
  PROVE  UNCHANGED <<pictures, shown, browses>>
BY DEF Next, StepsOn, Request, Expire, FileChanges, Restart, usersVars, database, history

\* A page view leaves every row but for its pv.
LEMMA RowsViewed ==
  ASSUME DataOK, NEW w \in Workers, BrowseWrite(w), pictures' # pictures, NEW q \in pictures'
  PROVE  \E p \in pictures : /\ p.key = q.key
                             /\ \/ p.key # Key(w) /\ q = p
                                \/ p.key = Key(w) /\ q = [p EXCEPT !.pv = worker[w].seen + 1]
                                   /\ q.pv = worker[w].seen + 1
<1>1. pictures' = (pictures \ With(Key(w)))
                    \cup {[p EXCEPT !.pv = worker[w].seen + 1] : p \in With(Key(w))}
  BY DEF BrowseWrite
<1>2. CASE q \in pictures \ With(Key(w))
  BY <1>2 DEF With
<1>3. ASSUME NEW p \in With(Key(w)), q = [p EXCEPT !.pv = worker[w].seen + 1]
      PROVE  p \in pictures /\ p.key = q.key /\ p.key = Key(w) /\ q.pv = worker[w].seen + 1
  BY <1>3 DEF With, DataOK
<1>. QED  BY <1>1, <1>2, <1>3

\* A page view keeps a row with the same user and key for every row.
LEMMA RowsKept ==
  ASSUME DataOK, NEW w \in Workers, BrowseWrite(w), NEW p \in pictures
  PROVE  \E q \in pictures' : q.user = p.user /\ q.key = p.key
<1>1. CASE pictures' = pictures
  BY <1>1
<1>2. CASE pictures' = (pictures \ With(Key(w)))
                         \cup {[r EXCEPT !.pv = worker[w].seen + 1] : r \in With(Key(w))}
  <2>1. CASE p \in With(Key(w))
    <3>. DEFINE q == [p EXCEPT !.pv = worker[w].seen + 1]
    <3>1. q \in pictures' /\ q.user = p.user /\ q.key = p.key
      BY <1>2, <2>1 DEF DataOK
    <3>. QED  BY <3>1
  <2>2. CASE p \notin With(Key(w))
    BY <1>2, <2>2
  <2>. QED  BY <2>1, <2>2
<1>. QED  BY <1>1, <1>2 DEF BrowseWrite

\* A row is only taken away by its own user's cancelling it, which takes back
\* what that user was told.
LEMMA SharedStep ==
  ASSUME DataOK, WorkersOK, SharedStaysFound, [Next]_usersVars
  PROVE  SharedStaysFound'
<1>1. ASSUME NEW w \in Workers, ShareInsert(w) PROVE SharedStaysFound'
  <2>1. CASE UNCHANGED <<pictures, shown>>
    BY <2>1 DEF SharedStaysFound
  <2>2. CASE /\ pictures' = pictures \cup {[user |-> User(w), key |-> Key(w), pv |-> 0]}
             /\ shown' = shown \cup {<<User(w), Key(w)>>}
    <3>. DEFINE new == [user |-> User(w), key |-> Key(w), pv |-> 0]
    <3>1. new \in pictures' /\ new.user = User(w) /\ new.key = Key(w)
      BY <2>2
    <3>2. ASSUME NEW s \in shown' PROVE \E p \in pictures' : p.user = s[1] /\ p.key = s[2]
      <4>1. CASE s \in shown
        BY <2>2, <4>1 DEF SharedStaysFound
      <4>2. CASE s = <<User(w), Key(w)>>
        BY <3>1, <4>2
      <4>. QED  BY <2>2, <3>2, <4>1, <4>2
    <3>. QED  BY <3>2 DEF SharedStaysFound
  <2>. QED  BY <1>1, <2>1, <2>2 DEF ShareInsert
<1>2. ASSUME NEW w \in Workers, BrowseWrite(w) PROVE SharedStaysFound'
  <2>1. shown' = shown
    BY <1>2 DEF BrowseWrite
  <2>2. ASSUME NEW s \in shown PROVE \E q \in pictures' : q.user = s[1] /\ q.key = s[2]
    <3>1. PICK p \in pictures : p.user = s[1] /\ p.key = s[2]
      BY DEF SharedStaysFound
    <3>. QED  BY <1>2, <3>1, RowsKept
  <2>. QED  BY <2>1, <2>2 DEF SharedStaysFound
<1>3. ASSUME NEW w \in Workers, CancelPicture(w) PROVE SharedStaysFound'
  <2>1. CASE UNCHANGED <<pictures, shown>>
    BY <2>1 DEF SharedStaysFound
  <2>2. CASE /\ shown' = shown \ {<<User(w), Key(w)>>}
             /\ pictures' = {p \in pictures : p.user # User(w) \/ p.key # Key(w)}
    <3>1. ASSUME NEW s \in shown' PROVE \E p \in pictures' : p.user = s[1] /\ p.key = s[2]
      <4>1. s \in shown /\ s \in Users \X Keys /\ s # <<User(w), Key(w)>>
        BY <2>2, <3>1 DEF DataOK
      <4>2. PICK p \in pictures : p.user = s[1] /\ p.key = s[2]
        BY <4>1 DEF SharedStaysFound
      <4>3. s[1] # User(w) \/ s[2] # Key(w)
        BY <4>1
      <4>. QED  BY <2>2, <4>2, <4>3
    <3>. QED  BY <3>1 DEF SharedStaysFound
  <2>. QED  BY <1>3, <2>1, <2>2 DEF CancelPicture
<1>4. ASSUME UNCHANGED <<pictures, shown>> PROVE SharedStaysFound'
  BY <1>4 DEF SharedStaysFound
<1>5. CASE \E w \in Workers : StepsOn(w)
  BY <1>1, <1>2, <1>3, <1>4, <1>5, NotPictures
<1>6. CASE ~\E w \in Workers : StepsOn(w)
  BY <1>4, <1>6, NoRequestNoPictures
<1>. QED  BY <1>5, <1>6

-----------------------------------------------------------------------------
(* Page views *)

\* What the steps that write no page view leave alone.
LEMMA NotViews ==
  ASSUME NEW w \in Workers, StepsOn(w)
  PROVE  /\ BrowseWrite(w) \/ browses' = browses
         /\ ViewWrite(w) \/ (files' = files /\ views' = views)
<1>1. Registers(w) \/ LogsIn(w) \/ Verify(w) => browses' = browses /\ files' = files /\ views' = views
  BY DEF Registers, LogsIn, RegSelect, RegPrepare, RegInsert, LoginSelect, LoginToken, Verify,
     history, database
<1>2. Lists(w) => browses' = browses /\ (ViewWrite(w) \/ (files' = files /\ views' = views))
  BY DEF Lists, FilesCount, FilesRows, ViewRead, ViewWrite, history, database
<1>3. Pictures(w) => files' = files /\ views' = views /\ (BrowseWrite(w) \/ browses' = browses)
  BY DEF Pictures, ShareInsert, BrowseRead, BrowseUrl, BrowseWrite, PicturesCount, PicturesRows,
     CancelPicture, history, database
<1>. QED  BY <1>1, <1>2, <1>3 DEF StepsOn

\* The counts of page views only grow.
LEMMA ViewsGrow ==
  ASSUME DataOK, WorkersOK, [Next]_usersVars
  PROVE  /\ \A k \in Keys : browses[k] \in Nat /\ browses'[k] \in Nat /\ browses[k] <= browses'[k]
         /\ \A u \in Users : views[u] \in Nat /\ views'[u] \in Nat /\ views[u] <= views'[u]
<1>1. /\ \A k \in Keys : browses[k] \in Nat
      /\ \A u \in Users : views[u] \in Nat
  BY DEF DataOK
<1>2. ASSUME NEW w \in Workers, BrowseWrite(w)
      PROVE  \A k \in Keys : browses'[k] = browses[k] \/ browses'[k] = browses[k] + 1
  BY <1>2 DEF BrowseWrite, DataOK
<1>3. ASSUME NEW w \in Workers, ViewWrite(w)
      PROVE  \A u \in Users : views'[u] = views[u] \/ views'[u] = views[u] + 1
  BY <1>3 DEF ViewWrite, DataOK
<1>4. CASE \E w \in Workers : StepsOn(w)
  <2>. PICK w \in Workers : StepsOn(w)
    BY <1>4
  <2>1. \A k \in Keys : browses'[k] = browses[k] \/ browses'[k] = browses[k] + 1
    BY <1>2, NotViews
  <2>2. \A u \in Users : views'[u] = views[u] \/ views'[u] = views[u] + 1
    BY <1>3, NotViews
  <2>. QED  BY <1>1, <2>1, <2>2
<1>5. CASE ~\E w \in Workers : StepsOn(w)
  <2>1. browses' = browses /\ views' = views
    BY <1>5 DEF Next, StepsOn, Request, Expire, FileChanges, Restart, usersVars, history
  <2>. QED  BY <1>1, <2>1
<1>. QED  BY <1>4, <1>5

\* The value written back is the one that was read, or one that is not ahead.
LEMMA SeenStep ==
  ASSUME DataOK, WorkersOK, ViewsInv, [Next]_usersVars
  PROVE  SeenNotAhead'
<1>. SUFFICES ASSUME NEW v \in Workers
              PROVE  /\ worker'[v].at \in {"browse_url", "browse_write"} => worker'[v].seen <= browses'[worker'[v].key]
                     /\ worker'[v].at = "view_write" => worker'[v].seen <= views'[worker'[v].user]
  BY DEF SeenNotAhead, At, User, Key
<1>0. /\ worker[v].at \in {"browse_url", "browse_write"} =>
           worker[v].key \in Keys /\ worker[v].seen <= browses[worker[v].key]
      /\ worker[v].at = "view_write" => worker[v].user \in Users /\ worker[v].seen <= views[worker[v].user]
      /\ worker[v].seen \in Nat
  BY Fields DEF ViewsInv, SeenNotAhead, At, User, Key
\* A worker that stays where it was.
<1>s. ASSUME worker'[v] = worker[v]
             \/ (worker'[v].seen = worker[v].seen /\ worker'[v].key = worker[v].key
                 /\ worker[v].at = "browse_url" /\ worker'[v].at = "browse_write")
      PROVE  /\ worker'[v].at \in {"browse_url", "browse_write"} => worker'[v].seen <= browses'[worker'[v].key]
             /\ worker'[v].at = "view_write" => worker'[v].seen <= views'[worker'[v].user]
  BY <1>0, <1>s, ViewsGrow
<1>1. ASSUME NEW w \in Workers, StepsOn(w), v = w, ~Done(w)
      PROVE  /\ worker'[v].at \in {"browse_url", "browse_write"} => worker'[v].seen <= browses'[worker'[v].key]
             /\ worker'[v].at = "view_write" => worker'[v].seen <= views'[worker'[v].user]
  <2>1. PICK l \in Places[worker[w].op], k \in Keys, n \in Nat : Moved(w, l, k, n)
    BY <1>1, StepMoves
  <2>f. worker[w].op \in DOMAIN Places /\ worker[w].at \in Places[worker[w].op]
    BY Fields
  <2>2. worker'[w].at = l
    BY <2>1 DEF Moved
  <2>3. CASE l \in {"browse_url", "browse_write"}
    <3>1. worker[w].at \in {"browse_read", "browse_url", "browse_write"}
      <4>1. worker[w].op = "browse"
        BY <2>3, <2>f, PlacesFacts
      <4>. QED  BY <2>f, <4>1 DEF Places
    <3>2. BrowseRead(w) \/ BrowseUrl(w)
      BY <1>1, <3>1 DEF StepsOn, Registers, LogsIn, Lists, Pictures, RegSelect, RegPrepare, RegInsert,
         LoginSelect, LoginToken, Verify, FilesCount, FilesRows, ViewRead, ViewWrite, ShareInsert,
         BrowseWrite, PicturesCount, PicturesRows, CancelPicture, At
    <3>3. CASE BrowseUrl(w)
      <4>1. Goto(w, "browse_write") /\ worker[w].at = "browse_url" /\ "browse_write" \in AllPlaces
        BY <1>1, <3>3 DEF BrowseUrl, At, AllPlaces, Places
      <4>2. Moved(w, "browse_write", Key(w), worker[w].seen)
        BY <4>1, GotoMoves
      <4>3. worker'[v].seen = worker[v].seen /\ worker'[v].key = worker[v].key /\ worker'[v].at = "browse_write"
        BY <1>1, <4>2 DEF Moved, Key
      <4>. QED  BY <1>1, <1>s, <4>1, <4>3
    <3>4. CASE BrowseRead(w)
      <4>1. PICK p \in With(Key(w)) : worker' = [worker EXCEPT ![w].at = "browse_url", ![w].seen = p.pv]
        BY <1>1, <3>4 DEF BrowseRead
      <4>2. /\ p \in pictures /\ p.pv \in Nat /\ p.key = Key(w) /\ Key(w) \in Keys
            /\ "browse_url" \in AllPlaces /\ p.pv <= browses[p.key]
        BY <3>4 DEF With, DataOK, AllPlaces, Places, ViewsInv, PageViewsCountedOnce
      <4>3. Moved(w, "browse_url", Key(w), p.pv)
        BY <4>1, <4>2, ReadMoves
      <4>4. browses' = browses
        BY <3>4 DEF BrowseRead, history
      <4>5. worker'[v].seen = p.pv /\ worker'[v].key = Key(w) /\ worker'[v].at = "browse_url"
        BY <1>1, <4>3 DEF Moved
      <4>. QED  BY <4>2, <4>4, <4>5
    <3>. QED  BY <3>2, <3>3, <3>4
  <2>4. CASE l = "view_write"
    <3>1. worker[w].at \in {"view_read", "view_write"}
      <4>1. worker[w].op = "view"
        BY <2>4, <2>f, PlacesFacts
      <4>. QED  BY <2>f, <4>1 DEF Places
    <3>2. ViewRead(w)
      BY <1>1, <3>1 DEF StepsOn, Registers, LogsIn, Lists, Pictures, RegSelect, RegPrepare, RegInsert,
         LoginSelect, LoginToken, Verify, FilesCount, FilesRows, ViewWrite, ShareInsert, BrowseRead,
         BrowseUrl, BrowseWrite, PicturesCount, PicturesRows, CancelPicture, At
    <3>3. /\ files[User(w)] \in Nat /\ User(w) \in Users /\ "view_write" \in AllPlaces
          /\ worker' = [worker EXCEPT ![w].at = "view_write", ![w].seen = files[User(w)]]
      <4>1. At(w, "view_read") /\ ~At(w, "idle")
        BY <3>2 DEF ViewRead, At
      <4>2. User(w) \in Users /\ files[User(w)] \in Nat \cup {-1}
        BY <4>1, Fields DEF DataOK
      <4>3. /\ files[User(w)] >= 0
            /\ worker' = [worker EXCEPT ![w].at = "view_write", ![w].seen = files[User(w)]]
        BY <1>1, <3>2 DEF ViewRead
      <4>4. "view_write" \in AllPlaces
        BY DEF AllPlaces, Places
      <4>. QED  BY <4>2, <4>3, <4>4
    <3>4. Moved(w, "view_write", Key(w), files[User(w)])
      BY <3>3, ReadMoves
    <3>5. views' = views /\ files[User(w)] <= views[User(w)]
      BY <3>2, <3>3 DEF ViewRead, history, ViewsInv, PageViewsCountedOnce
    <3>6. worker'[v].seen = files[User(w)] /\ worker'[v].user = User(w) /\ worker'[v].at = "view_write"
      BY <1>1, <3>4 DEF Moved, User
    <3>. QED  BY <3>5, <3>6
  <2>. QED  BY <1>1, <2>2, <2>3, <2>4
<1>2. ASSUME NEW w \in Workers, StepsOn(w)
      PROVE  /\ worker'[v].at \in {"browse_url", "browse_write"} => worker'[v].seen <= browses'[worker'[v].key]
             /\ worker'[v].at = "view_write" => worker'[v].seen <= views'[worker'[v].user]
  <2>1. CASE v # w
    BY <1>2, <1>s, <2>1, StepMoves, AfterDone DEF Moved
  <2>2. CASE v = w /\ Done(w)
    BY <2>2, AfterDone
  <2>. QED  BY <1>1, <1>2, <2>1, <2>2
<1>3. ASSUME NEW w \in Workers, NEW op \in Ops, NEW u \in Users, NEW k \in Keys, Request(w, op, u, k)
      PROVE  worker'[v] = worker[v] \/ worker'[v].at \notin {"browse_url", "browse_write", "view_write"}
  BY <1>3, RequestMoves, FirstPlaces
<1>4. CASE Restart
  BY <1>4 DEF Restart, Idle
<1>5. ASSUME NEW t \in tokens, Expire(t) PROVE worker' = worker
  BY <1>5 DEF Expire
<1>6. ASSUME NEW u \in Users, FileChanges(u) PROVE worker' = worker
  BY <1>6 DEF FileChanges
<1>7. CASE UNCHANGED usersVars
  BY <1>s, <1>7 DEF usersVars
<1>. QED  BY <1>s, <1>2, <1>3, <1>4, <1>5, <1>6, <1>7 DEF Next, StepsOn

LEMMA PagesStep ==
  ASSUME DataOK, WorkersOK, ViewsInv, [Next]_usersVars
  PROVE  PageViewsCountedOnce'
<1>0. /\ \A p \in pictures : p.key \in Keys /\ p.pv \in Nat /\ p.pv <= browses[p.key]
      /\ \A u \in Users : files[u] \in Nat \cup {-1} /\ files[u] <= views[u]
  BY DEF DataOK, ViewsInv, PageViewsCountedOnce
<1>1. \A q \in pictures' : q.pv <= browses'[q.key]
  <2>1. ASSUME NEW w \in Workers, ShareInsert(w), NEW q \in pictures' PROVE q.pv <= browses'[q.key]
    <3>1. browses' = browses /\ Key(w) \in Keys
      BY <2>1, Fields DEF ShareInsert, At
    <3>2. q \in pictures \/ q = [user |-> User(w), key |-> Key(w), pv |-> 0]
      BY <2>1 DEF ShareInsert
    <3>3. q \in pictures \/ (q.pv = 0 /\ q.key = Key(w))
      BY <3>2
    <3>. QED  BY <1>0, <3>1, <3>3, ViewsGrow
  <2>2. ASSUME NEW w \in Workers, BrowseWrite(w), NEW q \in pictures' PROVE q.pv <= browses'[q.key]
    <3>1. CASE pictures' = pictures
      BY <1>0, <3>1, ViewsGrow
    <3>2. CASE pictures' # pictures
      <4>1. browses' = [browses EXCEPT ![Key(w)] = @ + 1] /\ Key(w) \in Keys
            /\ worker[w].seen \in Nat /\ worker[w].seen <= browses[Key(w)]
        BY <2>2, <3>2, Fields DEF BrowseWrite, At, ViewsInv, SeenNotAhead
      <4>2. PICK p \in pictures : /\ p.key = q.key
                                  /\ \/ p.key # Key(w) /\ q = p
                                     \/ p.key = Key(w) /\ q.pv = worker[w].seen + 1
        BY <2>2, <3>2, RowsViewed
      <4>3. browses'[Key(w)] = browses[Key(w)] + 1 /\ browses[Key(w)] \in Nat
        BY <4>1 DEF DataOK
      <4>4. CASE p.key # Key(w) /\ q = p
        BY <1>0, <4>4, ViewsGrow
      <4>5. CASE p.key = Key(w) /\ q.pv = worker[w].seen + 1
        BY <4>1, <4>2, <4>3, <4>5
      <4>. QED  BY <4>2, <4>4, <4>5
    <3>. QED  BY <3>1, <3>2
  <2>3. ASSUME pictures' \subseteq pictures PROVE \A q \in pictures' : q.pv <= browses'[q.key]
    BY <1>0, <2>3, ViewsGrow
  <2>4. ASSUME NEW w \in Workers, CancelPicture(w) PROVE pictures' \subseteq pictures
    BY <2>4 DEF CancelPicture
  <2>5. CASE \E w \in Workers : StepsOn(w)
    BY <2>1, <2>2, <2>3, <2>4, <2>5, NotPictures
  <2>6. CASE ~\E w \in Workers : StepsOn(w)
    <3>1. pictures' = pictures
      BY <2>6, NoRequestNoPictures
    <3>. QED  BY <2>3, <3>1
  <2>. QED  BY <2>5, <2>6
<1>2. \A u \in Users : files'[u] <= views'[u]
  <2>1. ASSUME NEW w \in Workers, ViewWrite(w), NEW u \in Users PROVE files'[u] <= views'[u]
    <3>1. User(w) \in Users /\ worker[w].seen \in Nat /\ worker[w].seen <= views[User(w)]
      BY <2>1, Fields DEF ViewWrite, At, ViewsInv, SeenNotAhead
    <3>2. CASE UNCHANGED <<files, views>>
      BY <1>0, <3>2
    <3>3. CASE files' = [files EXCEPT ![User(w)] = worker[w].seen + 1] /\ views' = [views EXCEPT ![User(w)] = @ + 1]
      <4>1. CASE u = User(w)
        <5>1. files'[u] = worker[w].seen + 1 /\ views'[u] = views[u] + 1 /\ views[u] \in Nat
          BY <3>1, <3>3, <4>1 DEF DataOK
        <5>. QED  BY <3>1, <4>1, <5>1
      <4>2. CASE u # User(w)
        BY <1>0, <3>3, <4>2 DEF DataOK
      <4>. QED  BY <4>1, <4>2
    <3>. QED  BY <2>1, <3>2, <3>3 DEF ViewWrite
  <2>2. ASSUME UNCHANGED <<files, views>> PROVE \A u \in Users : files'[u] <= views'[u]
    BY <1>0, <2>2
  <2>3. ASSUME NEW v \in Users, FileChanges(v), NEW u \in Users PROVE files'[u] <= views'[u]
    <3>1. views' = views /\ views[u] \in Nat
      BY <2>3, ViewsGrow DEF FileChanges, history
    <3>2. files'[u] = files[u] \/ files'[u] \in {0, -1}
      BY <2>3 DEF FileChanges, DataOK
    <3>. QED  BY <1>0, <3>1, <3>2
  <2>4. ASSUME ~\E w \in Workers : StepsOn(w), ~\E v \in Users : FileChanges(v) PROVE UNCHANGED <<files, views>>
    BY <2>4 DEF Next, StepsOn, Request, Expire, Restart, usersVars, database, history
  <2>. QED  BY <2>1, <2>2, <2>3, <2>4, NotViews
<1>. QED  BY <1>1, <1>2 DEF PageViewsCountedOnce

-----------------------------------------------------------------------------
(* What is proved *)

LEMMA InitInv == Init => IInv
<1>. SUFFICES ASSUME Init PROVE IInv
  OBVIOUS
<1>i. /\ \A w \in Workers : worker[w] = Idle
      /\ Idle.op = "none" /\ Idle.at = "idle"
  BY DEF Init, Idle
<1>w. world \in Worlds /\ world.requests \in Nat /\ world.faults \in Nat /\ world.restarts \in Nat
  BY UserServiceAssumption DEF Init, World
<1>1. DataOK
  BY <1>w DEF Init, DataOK
<1>2. WorkersOK
  <2>1. Idle \in Jobs
    BY UserServiceAssumption DEF Jobs, Idle, Places
  <2>2. worker \in [Workers -> Jobs]
    BY <2>1 DEF Init
  <2>. QED  BY <1>i, <2>2, PlacesFacts DEF WorkersOK
<1>4. AccountsInv
  BY <1>i DEF Init, AccountsInv, OneAccountPerName, OneRegistration, Vacant
<1>5. ToldIsRegistered /\ EverySessionHolds
  BY DEF Init, ToldIsRegistered, EverySessionHolds
<1>6. SharedStaysFound
  BY DEF Init, SharedStaysFound
<1>7. ViewsInv
  BY <1>i DEF Init, ViewsInv, PageViewsCountedOnce, SeenNotAhead, At
<1>. QED  BY <1>1, <1>2, <1>4, <1>5, <1>6, <1>7 DEF IInv, TypeOK

LEMMA StepInv == IInv /\ [Next]_usersVars => IInv'
<1>. SUFFICES ASSUME IInv, [Next]_usersVars PROVE IInv'
  OBVIOUS
<1>1. DataOK /\ WorkersOK
  BY DEF IInv, TypeOK
<1>2. DataOK' /\ WorkersOK'
  BY <1>1, DataStep, WorkersStep
<1>3. AccountsInv'
  BY <1>1, OneAccountStep, OneRegistrationStep, VacantStep DEF IInv, AccountsInv
<1>4. ToldIsRegistered' /\ EverySessionHolds'
  BY <1>1, ToldStep, SessionsStep DEF IInv
<1>5. SharedStaysFound'
  BY <1>1, SharedStep DEF IInv
<1>6. ViewsInv'
  BY <1>1, SeenStep, PagesStep DEF IInv, ViewsInv
<1>. QED  BY <1>2, <1>3, <1>4, <1>5, <1>6 DEF IInv, TypeOK

LEMMA Invariance == Spec => []IInv
BY InitInv, StepInv, PTL DEF Spec

\* The variables keep their types, a worker stays within the handler of its
\* request, and only tokens that were answered are accepted.
THEOREM UserServiceTypes == Spec => []TypeOK
<1>1. IInv => TypeOK
  BY DEF IInv
<1>. QED  BY <1>1, Invariance, PTL

\* registerUser asks for the name and inserts it by another statement.  With a
\* unique key a name still has one row, however registrations overlap, fail or are
\* cut short; without one, if registrations of a name do not overlap and no query
\* failed.
THEOREM OneAccount == Spec => []OneAccountPerName
<1>1. IInv => OneAccountPerName
  BY DEF IInv, AccountsInv
<1>. QED  BY <1>1, Invariance, PTL

\* Whoever was told to be registered has a row, however registrations overlap or
\* are cut short; nothing is said of a user whose insertion could not be prepared,
\* which registerUser answers as a success without a row.
THEOREM ToldAreRegistered == Spec => []ToldIsRegistered
<1>1. IInv => ToldIsRegistered
  BY DEF IInv
<1>. QED  BY <1>1, Invariance, PTL

\* A later login takes no session away: every token that was answered is accepted,
\* until it expires; nothing is said of a token that redis refused to store, which
\* setToken answers all the same.
THEOREM SessionsHold == Spec => []EverySessionHolds
<1>1. IInv => EverySessionHolds
  BY DEF IInv
<1>. QED  BY <1>1, Invariance, PTL

\* A picture that was answered as shared has a row of its user under its key until
\* that user cancels it, although keys repeat, page views write every row with a
\* key, statements fail and the process dies.
THEOREM SharedPicturesStay == Spec => []SharedStaysFound
<1>1. IInv => SharedStaysFound
  BY DEF IInv
<1>. QED  BY <1>1, Invariance, PTL

\* A page view read by one statement and written by another may be lost, but none
\* is counted twice, for pictures and for files.
THEOREM PageViewsOnce == Spec => []PageViewsCountedOnce
<1>1. IInv => PageViewsCountedOnce
  BY DEF IInv, ViewsInv
<1>. QED  BY <1>1, Invariance, PTL
=============================================================================
