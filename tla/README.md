# tc-src: models and proofs

`tc-src` is the back end of a picture and file hosting service: an HTTP server
on muduo's event loops whose handlers keep users, a deduplicated catalogue of
files, shares, a download ranking and shared pictures in MySQL and redis, and
the files themselves in FastDFS. This directory models the parts of it that
interact, checks the models with TLC and proves with TLAPS what can be proved
for every size.

## 1. The system

### Components, their state and their operations

| Component | Source | State | Operations |
|---|---|---|---|
| HTTP server | `main.cc` | `s_http_map` (number to `CHttpconn`), `conn_uuid_generator_`, the number kept in each connection's context | `onConnection` (open, close), `onMessage` |
| HTTP connection | `http_conn.cc` | the muduo input buffer, never emptied | `OnRead`: parse, dispatch on the URL, send |
| Message reader | `http_parser_wrapper.cc`, `http_parser.cc` | state, flags, length and counter of one parse; URL and body | `ParseHttpContent` and its callbacks |
| MySQL pool | `mysql/db_pool.cc` (`CDBPool`) | `free_list_`, `db_cur_conn_cnt_`, `abort_request_`, a mutex, a condition variable | `Init`, `GetDBConn`, `RelDBConn`; a destructor that nothing runs |
| redis pool | `redis/cache_pool.cc` (`CachePool`) | the same | the same |
| Pool managers | `CDBManager`, `CacheManager` | pools by name: `tuchuang_master`, `tuchuang_slave`, `token`, `ranking_list` | `GetDBConn`, `GetCacheConn` without a deadline; `AutoRelDBCon`, `AutoRelCacheCon` give back |
| MySQL connection | `CDBConn`, `CResultSet`, `CPrepareStatement` | `mysql_`, a session on the server | `Init`, `ExecuteCreate`, `ExecuteDrop`, `ExecuteQuery`, `ExecuteUpdate`, `ExecutePassQuery`, `StartTransaction`, `Commit`, `Rollback` |
| redis connection | `CacheConn` | `context_`, `last_connect_time_` | `Init` (reconnects at most once a second), one method per command |
| File catalogue | `api_upload.cc`, `api_md5.cc`, `api_dealfile.cc`, `api_deal_sharefiles.cc` | tables `file_info`, `user_file_list`, `share_file_list`; redis `FILE_PUBLIC_ZSET`, `FILE_NAME_HASH`, `FILE_USER_COUNT`; files in FastDFS | upload, instant upload (md5), save, delete, share, cancel |
| Listings and page views | `api_sharefiles.cc`, `api_myfiles.cc`, `handlePvFile` twice | `pv` columns, scores of `FILE_PUBLIC_ZSET` | count, list, ranking (with a rebuild of redis), page view |
| Shared pictures | `api_sharepicture.cc` | table `share_picture_list` | share, browse, list, cancel |
| Users and sessions | `api_register.cc`, `api_login.cc`, `api_common.cc` (`VerifyToken`) | table `user_info`, tokens in redis | register, login, verify |
| Upload pipeline | `api_upload.cc` | child processes, pipes, the temporary file | `fork`, `exec`, `read`, `wait` |
| Start of the process | `main.cc`, `base/config_file_reader.cc`, `CDBManager::Init`, `CacheManager::Init` | `config_map_`, the pools by name | read the file, open a pool for each listed instance |
| Text helpers | `base/util.cc`, `api_common.cc` | none but the state of `rand()` | `CStrExplode`, `RandomString`, `QueryParseKeyValue`, `GetFileSuffix`, `TrimSpace` |
| Libraries | `redis/hiredis.c` and its parts, muduo, `mysql.h` | | vendored or external |

### How they interact

muduo gives each accepted connection to one of four event loops
(`main.cc:141`); a loop runs the callbacks of its connections one after another
and the handler inside the callback, so a handler that sleeps in a pool stops
its loop. The loops share `s_http_map` and the generator without a lock, the
pools under one mutex each, and the tables, keys and files through statements
and commands that are atomic one by one: no handler opens a transaction. A
handler runs a fixed sequence of them, some in MySQL, some in redis, some in
FastDFS, and returns early when one fails.

### What is hard about it

* callbacks of different loops between the accesses to the map and the generator;
* threads asleep in a pool, woken, overtaken or timed out, and threads that hold a
  connection of one pool while they wait for one of another;
* handlers about the same file whose statements interleave: values read by one
  statement and written back by a later one;
* a statement that fails or a process that dies between two steps, with a
  record in MySQL and its counterpart in redis or FastDFS missing;
* connections that are lost: before a statement, or after the server has carried
  it out; a reconnection that is tried once a second, or never;
* child processes that belong to all threads, pipes whose write ends are
  inherited by the children of other threads, a child that could not `exec`;
* a request that comes in any number of segments, with one byte changed.

`PROJECT.json` lists these hazards at their lines, each with the properties
that watch it or the reason why none does.

### What makes each component correct

* A pool: connections are exclusive and conserved, never more than the maximum;
  a notification is never lost, and nobody sleeps beside a free connection.
* The handlers together: they do not sleep for good, and connections come back.
* The server: an answer goes to the connection that asked.
* The message reader: a handler runs when its request is complete and not
  before, with the URL and body that were sent; its own assertions hold.
* The catalogue: what a user lists can be downloaded; the reference count, the
  stored files and the four records of a share agree when nothing is in flight.
* Listings and page views: the ranking in redis is the one in MySQL; `pv` never
  counts a view twice.
* Users and sessions: one account to a name, nobody is told to be registered who
  is not, a token that login has returned can be verified until it expires.
* Shared pictures: what was answered as shared is there until its user cancels it,
  although keys are drawn twice.
* A redis connection: it is good again once redis is; a MySQL connection: a
  transaction, if anybody opened one, is carried out whole or not at all, and what
  is reported as failed although it happened is not followed by anything built on it.
* The upload pipeline: every upload ends, every child is collected.
* The start: the server accepts connections only as it is configured.

## 2. Modules

| Module | Models | Abstract specification | Proofs |
|---|---|---|---|
| `ConnPool` | `CDBPool` and `CachePool`, but for their destructors | `ResourcePool` | `ConnPoolProofs` |
| `PoolClients` | which connections each handler takes and gives back, four pools | | `PoolClientsProofs` |
| `HttpServer` | `HttpServer`, `s_http_map`, `CHttpconn::OnRead` | | `HttpServerProofs` |
| `HttpParser` | `CHttpParserWrapper` and the requests `http_parser` reads, byte by byte | | `HttpParserProofs` |
| `FileService` | the six handlers of the catalogue | `RefCatalog` | `FileServiceProofs` |
| `Ranking` | the download ranking: what share, cancel, del and page views do to it, and its listing | | `RankingProofs` |
| `UserService` | registration, sessions, own files and their page views, shared pictures | | `UserServiceProofs` |
| `UploadPipeline` | `fork`, pipes, `exec`, `read` and `wait` behind an upload; the shell behind a removal | | `EdgesProofs` |
| `CacheConnection` | `CacheConn`: reconnection, and every command with and without a reply | | `EdgesProofs` |
| `DbConnection` | `CDBConn`, `CPrepareStatement`: sessions lost, ping, statements, transactions | | `EdgesProofs` |
| `Startup` | the configuration file, `CStrExplode`, both managers' `Init`, `main` up to `start()` | | `EdgesProofs` |

The modules `MC...` give the constants their values for TLC; `MCEdges` puts five
modules into one run. A definition named `Name_What` stands before `Name` and is
`Name` with one plausible mistake (a *mutant*): `PROJECT.json` names, for each
property, a mutant that breaks it.

**ConnPool.** One action is one critical section of the pool's mutex. `GetFree`,
`GetNew`, `GetNewFails` and `GetWaits` are the ways through
`GetDBConn` up to the wait; `waiters` are the threads asleep in `wait` or
`wait_for`, `woken` those whose wait has ended but which do not have the mutex
yet; `ResumeTakes`, `ResumeWaits` and `ResumeTimesOut` are the ways on from there.
`Wakes` is a spurious wake-up or a passed deadline. `RelDBConn` notifies one waiter.
Opening a connection happens inside the critical section, as in the code.
`abort_request_` is set by the destructor only, and nothing runs that: no code
deletes a `CDBPool`, and `CDBManager::~CDBManager` (`db_pool.cc:485`) is empty. So
the flag is false throughout, and its tests are not in the model.

**PoolClients.** One level up, a pool is a set of connections and a handler is
its *plan*: the list of its acquisitions, and of the releases that happen
before its end because a function it called returns. `Acquire` is enabled only
while a connection is free. When the plan is done, `Unwind` gives back what is
held, the last connection first, like the destructors of `AutoRelDBCon` and
`AutoRelCacheCon`; `registerUser` has none, so what it holds is `lost`.

**HttpServer.** The steps of the callbacks that touch the generator or the map
are one action each: `Connect` takes the number, `Insert` enters the map,
`Disconnect` lowers the generator, `Erase` removes the entry, `Message` looks
it up, `ReadPart`, `ReadAll` and `ReadAllDies` are the rest of `onMessage`.
`LoopBusy` keeps two callbacks of one loop apart. A request is one segment or
several; `got` says how much of it is in the buffer. `shared` remembers that two open
connections have had one number.

**HttpParser.** The parser is a record, each of its states a function from the
record and a byte to the record; `http_parser_execute` is one turn of the loop.
A word the code compares letter by letter (a method, a version, a name or value
it knows) is one byte, a blank is `"SP"`, digits are four, and `"BIN"` stands for the
bytes that may not occur in a URL (`parse_url_char` refuses them). `OnRead` parses the whole buffer anew
with each segment, so its result is a function of the bytes that have arrived:
`ByteArrives` lets a segment end after any of them. `Encode` writes requests as
clients do, `BytesOf` changes one byte of them. `IsRequest` says what is assumed of a
request that is sent unchanged: a path of bytes that may stand in one (no `"BIN"`), a body framed as
long as it is (`Denote`: the digits of a length denote a number below the mark for no
length at each of their prefixes), and headers within `MaxHeader`. `sane` is the conjunction of the
assertions in the states met so far; `marks` are the marks (`header_field_mark` and
its three companions) that a segment which ended here would leave set, of which the
assertion after the loop allows one. `Marked` is what a state sets, `Delivered` what
its callbacks clear.

**FileService.** One action is one statement, redis command or FastDFS command,
with the assignment of the handler's locals that follows it. `job[w].pc` is the
place in the handler, `count` and `obj` the locals that survive a step.
`StatementFails` is the error path of the statement a worker is at, `Crash` the
death of the process: queries whose `NULL` result is dereferenced end that way,
too. MySQL's `affected rows` is modelled because `ExecuteUpdate` reports failure
when no row changes. A behaviour lives in one `world`, which says whether
requests about one file overlap, whether clients are polite (`Sensible`),
whether `md5` is a key of `file_info` (the repository has no schema), which files
requests are about and how many requests and faults there are. Properties claim
what they claim of the worlds in which it is true: `Regular` ones, where requests
about one file do not overlap and a file has one row (because `md5` is a key, or
because nobody uploads what the instant upload would have found), and calm ones,
where besides nothing fails.

**Ranking.** Again one action is one statement or command. The state is what
makes up the ranking: the rows of `share_file_list` with their `pv`, the marks in
`user_file_list`, `FILE_PUBLIC_ZSET` with its scores and `FILE_NAME_HASH`. Share,
cancel and del occur a second time here, reduced to what they do to these four,
because `FileService` has no scores and no listing. Some of the code's
peculiarities decide what can be said:

* `CacheConn::ZsetExit` asks `ZLEXCOUNT`, which redis defines only for members of
  equal score. For a member the model allows 1 when all scores are equal and 0, 1
  or more otherwise (`ZsetExit`); share and view act on the answer.
* A share that finds the file in MySQL adds the member again with score 0; the page
  views shown fall back although `pv` does not.
* `ZsetIncr` compares the new score with `"OK"`: the handler always takes the
  increment for a failure, but the increment has happened.
* The rebuild in `handleGetRankingFilelist` sorts `order by desc`, which names no
  column; MySQL refuses it, so `ListImport` ends the listing with redis empty.

`calm` is chosen once, in `Init`. In calm nothing fails and two requests overlap
only if neither disturbs the other (`Disturbs`): requests about one file do, and a
listing with what changes the set of shared files. Views overlap with listings,
also of the file the listing is at. The properties about agreement are claimed in
calm, `ViewsCountedOnce` everywhere.

**UserService.** The handlers that are about a user rather than about the
catalogue, statement by statement, with worlds as in `FileService`.
`RegSelect`, `RegPrepare` and `RegInsert` are a registration: the check, the
prepared statement and its insertion; a statement that cannot be prepared leaves
`ret` at 0, so the user is told of a success (`unprepared`). `LoginToken` stores the
token in redis and ignores whether that worked (`forgotten`). `RandomString` is any
key, one that is in use included: `rand()` is never seeded, so a process draws what
the one before (`Restart`) drew, and two threads may draw the same. One of the users
is `Nobody`, the empty name: ApiSharePicture goes on after a request that does not
decode, with empty fields, and `VerifyToken` compares the empty answer of redis to an
unknown token with the empty name and accepts it (`StoredNames`, `Verify`). `BrowseRead`, `BrowseUrl` and `BrowseWrite` are one page
view of a picture, `ViewRead` and `ViewWrite` one of a file.

**UploadPipeline.** `Pipe`, `Fork`, `Close`, `Reads`, `Wait` are the system calls
of `uploadFileToFastDfs` and `getFullUrlByFileid`, in the threads of process 0.
`kid[k].holds` are the write ends a child inherited: all that were open at the time
of its fork, those of other threads among them; the child of a copy of the server
gets those that the copy was born with, too (`Inherits`). A read sees the end of the file
only when nobody holds its write end. `wait(NULL)` collects any zombie of the
process, also the shell of a `system()`. `ExecFails` makes the child a
copy of the server that goes on with the request of its parent. Three histories count
what the threads of the server (not its copies) do to the balance of forks and waits:
`unwaited`, a function that returned before its `wait`; `stolen`, the shell of another
thread's `system()` that was collected; `extra`, a `wait` whose own `fork` had failed
and which collected somebody else's child.

**CacheConnection.** `Call` takes a command, `InitHasContext`, `InitThrottled`,
`InitConnect` and `InitGreets` are the ways through `CacheConn::Init`, and the
commands fall into kinds by what they do without a reply: drop the context, keep
it, or use the reply nevertheless (`CommandDies`).

**DbConnection.** A statement is `Execute`, `Ping`, for prepared ones `Prepare`,
then `ServerExecutes` and `Answered`, with `SessionLost` between any two. `did` says
that the server has carried the statement out, `said` what its caller was told.
`work` is what the session sees, `table` what others see. The transactions are those
of the class: no handler calls `StartTransaction`, `Commit` or `Rollback`.

**Startup.** `LoadLine` is a round of the loop in `_LoadFile`; a file is a sequence
of entries with blanks, a comment sign before them or a remark behind
them, written out by `Line` and read by `ParseLine`. `IsEntry` says what an entry is: a
name without `=` and `#` and a value without `#`, neither with a blank at its ends.
`OpenPool`, `NotConfigured` and `Unreachable` are one round of the loop in
`CacheManager::Init` or `CDBManager::Init`, with all the settings that each needs
(`Settings`); a pool keeps them as it was opened with them. `UploadInit` is
`ApiUploadInit` between the two managers, whose settings nobody checks: a missing one
is assigned to a string, which ends the process. `CDBManager::Init` logs the settings
before it looks whether they are there; the log prints a `NULL` as text. `Explode` and
`ItemCnt` are `CStrExplode`: after an empty name in a list the items that were counted
are more than those that were stored, and `Item` and `Dies` are what a wild pointer may
lead to: a name that some line of the file is about, or the death of the process.

## 3. Runs

| Run | Instance | What it shows |
|---|---|---|
| `conn_pool` | 4 threads, 1 to 2 connections | everything `ConnPool` promises, its refinement of `ResourcePool`, and the liveness of its wake-ups |
| `pool_clients` | 2 threads, all handlers, 2 or 3 slave connections, 1 of each other pool | threads sleep for good only over `tuchuang_slave`, never when it has more connections than there are threads; some handler always ends |
| `pool_clients_register` | 1 or more registrations | *violation*: `registerUser` loses its connection |
| `http_server` | 3 connections, 4 loops, 4 numbers, 2 segments | entries belong to open connections; answers stay within a number; as long as no two open connections have had one number, each client is sent its own answer |
| `http_number_reuse` | the same | *violation*: an open connection without an entry of its own |
| `catalogue` | 2 workers, 2 users, three worlds: overlapping (4 requests, 1 fault), failing (6 requests, 2 faults), apart (2 files, 5 requests) | a row of `file_info` always names a stored file; where requests about one file do not overlap and a file has one row, the count covers the owners and `RefCatalog` is implemented; without faults counts, files and shares agree between requests |
| `catalogue_refcount_race` | 2 workers, 1 file, 3 requests | *violation*: a lost increment of the reference count |
| `ranking` | 2 workers, 2 users, 2 files, 4 requests; 1 fault when not calm | in calm the four places agree and listings succeed; a view is never counted twice |
| `ranking_rebuild` | the same, 3 requests, no fault, not calm | *violation*: the rebuild leaves the ranking empty |
| `users` | 2 workers, a user and the empty name, 2 keys; worlds with and without a key of `user_info`, overlap, 1 fault, a restart | one account to a name under the conditions that need it; sessions last; a shared picture stays until it is cancelled; views are never counted twice |
| `edges` | five modules, see below | redis and MySQL connections, upload pipeline, message reader, start |
| `db_reconnect` | `DbConnection`, 2 losses | *violation*: `mysql_ping` does not reconnect |

`edges` explores a disjoint sum: `part` is chosen in the initial state, only the
component it names moves, and the others rest in one initial state. The five share no
state and no step, so the run is the five explorations one after another, and
each property is about one of them; a property of a component at rest holds
of its initial state.

The five violations are disagreements between the code and what its
comments say; `PROJECT.json` quotes the comments under `findings`.

### Why the bounds are enough

* `ConnPool`: with four threads and two connections two threads can sleep while
  two hold; a release, an overtaking call and a time-out can fall
  between any two steps. `HoldLimit = 2` lets a thread hold the whole pool.
* `PoolClients`: a cycle of waiting needs two threads. One connection per pool is
  the tightest pool a handler can run with; `tuchuang_slave` has 2 (as many as
  threads, where the deadlock exists) or 3 (one more, where it does not).
* `HttpServer`: two connections share a number only after a third has closed.
  The numbers wrap at 4, more than there are connections, as 2^32 is more than a
  server has open. Two segments are a whole request and one more, or a split one.
* `Ranking`: two files are the least with differing scores, which make `ZLEXCOUNT`
  inexact; four requests share both, view one and then share, cancel, list or view
  again, so every answer of `ZLEXCOUNT` meets every handler that asks.
* `FileService`: every race the handlers have is between two of them. Six
  requests upload, share, save, cancel and delete a file, and upload it again; two
  faults let an error path fail in turn.
* `UserService`: two registrations of one name, a login of each user and an expiry;
  or two shared pictures, the second after a restart or with the key of the first, and
  two requests that look at them or cancel one; or two page views of a file and the
  listings. Two keys are enough for a pair that repeats and one that does not.
* `CacheConnection`, `DbConnection`: `MaxOutages = 2` and `MaxLosses = 2`: the link
  breaks while redis is gone or comes back between two commands; a lost session
  is not replaced, so a second loss needs a new connection and nothing new
  follows a third.
* `UploadPipeline`: two threads and two uploads or removals at once, two children
  at a time, two failing system calls: two threads fork, inherit each other's
  pipes and collect each other's children; a copy of the server exists beside both.
  The second failure is needed: only a failed `fork` followed by a failed `read` makes a
  thread wait that has no child (`extra`).
* `HttpParser`: seven requests (no body, a length, chunks; kept alive or
  closed; a length of two digits), alone or followed by another one, and each of
  them with each of its bytes replaced by each of eleven others: 1691 streams. With
  `Width = 4` a length overflows at two digits; `MaxHeader = 40` is crossed by
  changed requests but by none as it is written.
* `Startup`: 55 files with one or two instances of each kind, one listed twice, lists
  with an empty name before, between or after the others, settings missing or given
  twice, lines in comment, and every set of hosts that answer.

All runs but `conn_pool` may end (requests, connections, bytes and faults are bounded,
threads may sleep for good, the process may die), so they do not check for
deadlock; `conn_pool` does.

### Fairness

* `ConnPool!FairSpec`: weak fairness of `Resume(t)`. A notified thread
  gets the mutex in the end, since nobody keeps it. Nothing is assumed of
  calls and releases.
* `PoolClients!FairSpec`: weak fairness of each thread's own steps. A handler that
  can go on does. Which sleeper gets a connection is not assumed fair, since
  `notify_one` and overtaking calls are not; so the property is that *some* handler
  ends (`SomeRequestEnds`), not each one.
* `CacheFairness`, a premise of `RedisHeals`: a command that was begun comes to its
  end (hiredis has a time-out of a second), time goes on, somebody starts redis
  again, and handlers go on asking for commands that check their reply (strong
  fairness, because a connection is not always free for one). Nothing is
  assumed of the network.
* `PipeFairness`, a premise of `UploadsEnd`: threads are scheduled, and the tools and
  shells come to their end. Nothing makes `fdfs_upload_file` end but itself: the
  code has no time-out for it.
* `HttpServer`, `FileService`, `Ranking` and `UserService` have no liveness property:
  clients and faults decide.

## 4. Proofs

All theorems hold for any values of the constants that satisfy the named
assumptions (finite sets of threads, natural numbers as bounds, pools of at
least one connection, a length in which a digit is not already the mark for
no length, requests as `IsRequest` has them in `StreamsAssumption`, files whose lines are
as `IsEntry` has them in `FilesAssumption`).

What a recursive function computes for inputs of any length is proved here by
hand: the library's induction theorems take an operator as a parameter, which the
provers cannot instantiate, so each induction is an argument about the least element of
a set of numbers (`Least` in `EdgesProofs`), or is carried by the steps of the
system, whose invariant says what has been computed so far.

**ConnPoolProofs.** `IInv` = `TypeOK`, `Exclusive`, `Conserved`, `NoLostWakeup`,
`WaitersFaceFullPool`. The heart is `NoLostWakeup`: while somebody sleeps,
`Len(free_list) <= Cardinality(woken)`. A release adds one to both sides; a
woken thread that takes a connection lowers both; a call that overtakes
lowers the left; a thread that goes back to sleep or times out found the list
empty. `WaitersFaceFullPool` is needed because a call opens a new connection
instead of waiting. From it follow `SleepMeansExhausted` and,
step by step, `ImplementsResourcePool`.

**PoolClientsProofs.** `IInv` adds to `TypeOK` that what a thread holds follows
from where it is in its plan (`StackFollowsPlan`). A sleeping thread therefore
holds only what `MayWait` allows: nothing of `token`, `ranking_list` only while it
waits for `tuchuang_slave`, `tuchuang_master` only while it waits for a redis
pool, and at most one connection of `tuchuang_slave`. Following the
waits ends in `tuchuang_slave`, where all connections are with sleepers
(`PoolClientsStuckOnlyNested`); each sleeper has at most one, so there are not more
connections than threads (`PoolClientsEnoughSlaves`, by counting).

**HttpServerProofs.** `EntryIsLive` is inductive with the types. For
`SameNumberAnswers` the invariant adds `LookedUp` (what `onMessage` found has the
number of the connection it was found for) and `AnsweredNumbered` (only
connections that have a number were answered): numbers never change, so what
is true at the look-up is true at the answer. `ReadInv` says that a buffer nothing of
which has been read is not shut. `OwnInv` holds until two open connections have had one
number: then no erase has removed the entry of another connection, so the map leads from
the number of each open connection to itself (`OwnEntry`), and a request that came whole is
answered as it is read and only then (`OwnAnswers`).

**HttpParserProofs.** `ParserAssertionsHold` needs what a state may rely on: `Knows`
says that the states of a chunked body have the flag, that a body that is
being read has a length left, that a chunk size is never the mark for no length,
and that no value is read under a name whose values are matched. `ParserInv` adds
that the counter is 0 whenever a chunk size begins, which the states before
see to by turns (`HeadersDone`, `ChunkDataDone`). `MarksInv` says of each state which
mark it may be in (`MarkOf`): at most one, because a mark is set by the state that
begins a field, a value, a URL or a body and delivered by the byte that ends it. One
lemma per state, for any byte; so nothing is assumed of what arrives, and TLC's streams are not needed.

`RequestsAreWhole` (`WholeRequests`, for requests of any length) rests on `RequestInv`: besides
`ParserInv` it says where the parser is after `i` bytes of a request (`RequestAt`), part by
part in the order they are sent: the request line (`LineAt`), the `Connection` line
(`ClosingAt`), the line that frames the body (`FramingAt`, with what the digits read so far
denote in `SoFar`), the empty line, a body with a length (`IdentityAt`), chunks
(`ChunksAt`), the last chunk (`LastChunkAt`). Each of them gives the whole record: URL and
body read so far, flags, length, counter. Every byte of a part has a lemma that it leads on
in that part or into the next; the positions of the parts in `Encode` are lemmas
about concatenations. After the last byte `DoneAt` holds and any bytes may follow:
`ExecuteAdds` says that a byte only adds to the URL, the body and the number of
complete requests, and `OverStays` that nothing is added after a request that closes
the connection or an error.

**FileServiceProofs.** Three inductive invariants, each resting on the one before.
`IInv`, in every world: a handler's hands hold files `NoDanglingRow` needs to know about:
`FreshUpload` (the file being uploaded is in no row and with no other
handler), `DoomedFile` (the file being removed is in no row that stays) and
`ObjectsApart` (rows of two md5s name different files). `CountInv`, in regular worlds:
a file has one handler at a time (`Alone`), so for each place in a handler one can say
how the count it has read, the count in the row and the number of users' rows
compare (`CountsAt`): a handler that owes an entry or has just removed one has the
count too high by it, one that discards a file has found that nobody lists it, one that
uploads found no row. From it follow `CountCoversOwners` and, step by step,
`ImplementsRefCatalog`: the step that removes a file is the abstract `Discard` because
nobody lists the file, every other one stores, lists, unlists or stutters. `Regular`
has its second half because of this proof: where `md5` is no key and an impolite client
uploads a file that is there already, there are two rows of it that each count one
owner, deleting one entry removes both (`DeleteInfo`), and neither property holds; the
worlds TLC explores include none of that kind. `CalmInv`, when besides nothing fails: "too high by" becomes
"exactly" (`ExactAt`), a file is in a row or with the handler that stores or removes it
(`Accounted`), and who is about to share found nobody who does (`ShareFree`); with
no request in flight that is `RefCountsOwners` and `NothingOrphaned`, and at any
time `SingleSharer`.

**RankingProofs.** `RankingTyped` is the type invariant; its second half says that a
worker is at a label of the handler of its own request, from which every action
knows that its user and file are there. `ViewsCountedOnce` says that no row's `pv`
exceeds the views of its file. `pv` is written from a value read earlier, so the
invariant adds `ReadNotAhead`: a value read and not written yet is not ahead of the
views either. Views only grow, so a value stays good however long it waits; it is
the write that adds one on both sides.

In calm, `CalmInv` gives `RankingAgrees`, `ScoreNotAhead` and `ListingSucceeds`. Row, mark,
member and name agree about a file no request is about (`Settled`); while one is, they
differ by what it has done so far, so `Promise` says for each place in a handler how
far that is. A view changes `pv` before the score, a share the mark before the row, del
the ranking before the row. `Apart` (no two requests disturb each other) makes it enough to
look at the file of the request that moves (`LocalAgreement`): every other file is as
it was (`SameFile`). `OneRow` is needed because a view writes one value to all rows of a
file. A listing is promised as many members as it has counted rows, and names for the
whole page (`Listing`); a view adds neither. The scores are where `ZLEXCOUNT` could
mislead: whatever it answers of a member, a share that takes it for absent sets the
score back to 0 and a view sets it to no more than `pv`, and `Scored` asks only that
redis is not ahead. The proof
also corrected the model: `Disturbs` had compared the file a listing happens to be at,
which kept views of that file from starting.

**UserServiceProofs.** A handler reads by one statement and writes by another, so each
part of `IInv` says besides its property what a worker between the two relies on. Accounts:
without overlap one worker registers a name (`OneRegistration`), and between its query and
its insertion the name has no row unless the query failed (`Vacant`); with the key the
insertion itself refuses. `ToldIsRegistered` and `EverySessionHolds` are inductive with the
types, since answers come after the statement they report. Each of these three is proved
with its condition: `OneAccount` wants the key, or no overlap and no failed query;
`ToldAreRegistered` leaves out users whose insertion could not be prepared, `SessionsHold`
the tokens that expired or that redis did not store, because there the code does answer
what is not so. Shared pictures: a row goes only by the cancellation of its own user, which
takes back the promise, too (`SharedStep`), and a page view leaves user and key of every
row (`RowsKept`), so it does not matter that keys repeat. Page views: `SeenNotAhead`, the
argument of `ReadNotAhead` once more, for pictures and for a user's files.

**EdgesProofs.** Of `CacheConnection`: `AttemptIsNoted`, a connection tried in this second
has its time noted, also if it failed.

Of `DbConnection`, both results rest on a lost session never being replaced on
the same `CDBConn`. `DoubtIsFinal`: a statement in doubt has outlived its session, and
`Connect` is behind the connection. `TxnIsOpen`: while the session lives, a transaction
the caller has started is one for the server, until the server has carried out
the commit or rollback whose answer is on its way.

Of `UploadPipeline`: `ChildrenAccounted` is an equation between cardinalities that needs
`Parentage` to be inductive: a thread has a child only between `fork` and `wait`, so
a second `fork` forgets none; and a shell belongs to the one thread that is in
`system()` for it, so collecting it robs one thread exactly once. Each step changes
one element of one set, or a set and a history. The first attempt at the proof failed for
a good reason: `getFullUrlByFileid` does not ask whether `fork` failed, and when
its `read` fails, too, its `wait(NULL)` collects the child of another thread. Two failures
are needed for that and the run had one; now the history `extra` counts it and the
run has two.

Of `Startup`: `StartsAsConfigured` (`ServesAsConfigured`) says of every file and of all hosts
that each pool is opened with the settings a reader of the file would take for its name, and
uploads get theirs; and where no list has an empty name (`ListsWhole`), that what serves is
exactly what is listed and that the process ends only for a reason (`Lacks`). Of a list
with an empty name nothing more can be said: which name a wild pointer leads to is anybody's
guess. The steps are these. What is written is what is read: `LineParsed`, by taking the line
apart at its first `#` and its first `=` and the blanks off both sides. What the lines read so
far have put into `config_map_`: `ConfigInv`, the first value of each name and no other names; a
later line changes nothing because `map::insert` keeps what is there. What a list
names: `ListNames`, the texts that `CStrExplode` cuts out of a list without empty names are
exactly those between commas, by induction over the list (`ListCuts`: after `i` characters the
cuts are the commas among them, in order), and `ListItems`, they are as many as are counted.
`PoolsInv` then says for each stage of `main` that the pools have the settings of the file
(`HonestInv`), whatever the lists, and without empty names which they are (`OpenedInv`):
those of the first `instance - 1` names of the list it is at. An instance listed twice has one
pool, since its name has one set of settings.

### Only model-checked

* Liveness, which is outside the prover's reach: `FreeIsTaken`, `SomeRequestEnds`,
  `RedisHeals`, `UploadsEnd`.

Every safety property a passing run checks, the two refinements among them, is a
theorem; the runs check them on small instances, where a mutant of each is caught.

## 5. Limits of the models, and what is not modelled

* Two accesses to the `std::map` at the same moment tear the tree; `HttpServer`
  takes each access as one step.
* In `FileService`, `Ranking` and `UserService` a statement that fails has no effect. One
  whose answer is lost has happened although the handler thinks otherwise; that
  is in `DbConnection`, which shows that the handler's later statements on that
  connection then fail, too, as after a `Crash` that leaves the process alive.
* `FILE_USER_COUNT` (`redis_keys.h:39`, the number of a user's files) is raised by
  the instant upload only (`api_md5.cc:146`), so after the first ordinary upload it is
  not the number of files. `FileService` keeps it as the code does; no property is
  claimed of it.
* A redis command without a reply ends the process in the zset commands and
  elsewhere fails (`CacheConnection`); `Ranking` and `FileService` have both (`Crash`,
  `StatementFails`) at every command.
* `Ranking` takes a file to be in the user's list when it is shared, and a user to
  cancel only what is marked as shared.
* `PoolClients` opens every connection it asks for; a pool that returns `NULL`
  ends most handlers with a crash.
* The destructors of `CDBPool` and `CachePool` are run by nothing in the program. Were
  one run while threads sleep in the pool, they would wake to a mutex, a condition variable
  and a list that are gone; nothing is modelled or claimed of that.
* `OneAttemptASecond` is about one `CacheConn`. A pool that grows makes new ones, which
  connect at once.
* Claimed without overlap only, so saying nothing of the races at these places:
  `RankingAgrees`, `ScoreNotAhead` and `ListingSucceeds` (calm), `NothingOrphaned`,
  `SingleSharer`, `RefCountsOwners` (calm worlds). The models do reach the states that the
  races lead to; `RebuildRestores` and `CountIsOwners` are two that are refuted.
* Accounted for, not excluded: `ChildrenAccounted` counts the children that were stolen from
  another thread or never waited for; `RedisHeals` leaves out a process that died of a
  reply it did not get.
* Two rows of `share_picture_list` may have one key; which of them a browse shows is the
  server's choice (`BrowseRead`). `PageViewsCountedOnce` counts per key, so pictures with one
  key share their bound, as they share the update.
* `HttpParser`: responses, `CONNECT` and URLs with a host, bodies that end with
  the connection, and `http_parser_parse_url` are not reached by the program's requests.
  `MoreDigits` computes a length as the code does, an overflow that yields a larger number
  included; `WholeRequests` speaks of requests whose length fits. The reading of single
  letters within a word the parser knows is left out.
* `Startup`: `fgets` cuts a line after 255 characters and the name of a setting after 63;
  lines and names are taken to be shorter. The three readings of the file are taken to be of
  one file. `SetConfigValue` and `_WriteFIle` are called by nothing.
* `UploadPipeline`: cutting the multipart form into its fields is one step that
  succeeds or fails, since all its error paths end the same way. Without one of
  the tools the copies of the server are followed, and nothing is claimed.
* JSON decoders and encoders keep no state: a request is a record with its fields, or
  refused. Two handlers go on after a request that does not decode, with the fields they
  have, empty ones at worst: `ApiDealfile` (`api_dealfile.cc:327`), whose empty user, md5 and
  name are values like any other (sets of users and files may have them as members), and
  `ApiSharePicture` (`api_sharepicture.cc:365`), where the empty name matters to `VerifyToken`
  (`Nobody` in `UserService`).
  `QueryParseKeyValue`, `GetFileSuffix`, `MemFind` and `ReplaceMark` cut texts
  that only select a branch, or are used by nothing. Logging is left out.
* hiredis, muduo and the MySQL client are external; `async.c` and `dict.c` are
  not used by the program.

## 6. What could follow

1. `DbConnection` composed with `FileService`: a third outcome of a statement
   (done, but reported as failed), for the handlers that go on with a new connection.
2. `HttpParser`: the requests that are changed in one byte. What is assumed of a request in
   `IsRequest` names what the clients of the program send; which of the other
   streams end in an error, and at which byte, is checked by no property.
3. A failed instant upload that restores a count read earlier (`md5_restore`) under
   overlap: how far the count can be off, as a bound in the number of requests.
