---------------------------- MODULE EdgesProofs ----------------------------
(***************************************************************************)
(* What is proved of the components at the edges of the server, which      *)
(* share no state: CacheConnection, for any number of outages,             *)
(* DbConnection, for any number of sessions lost, UploadPipeline, for any  *)
(* number of threads, children and failures, and Startup, for any          *)
(* configuration file and any hosts.                                       *)
(***************************************************************************)
EXTENDS CacheConnection, DbConnection, UploadPipeline, Startup, FiniteSetTheorems,
        FunctionTheorems, SequenceTheorems, WellFoundedInduction, TLAPS

-----------------------------------------------------------------------------
(* CacheConn: a connection is tried at most once a second, whatever commands  *)
(* come and whatever fails.                                                   *)

\* A connection tried in this second has been noted, also if it failed.
AttemptIsNoted == attempts \in {0, 1} /\ (attempts = 1 => same_second = TRUE)

LEMMA CacheInitEstablishes == CacheInit => AttemptIsNoted
BY DEF CacheInit, AttemptIsNoted

LEMMA CacheNextPreserves == AttemptIsNoted /\ [CacheNext]_cacheVars => AttemptIsNoted'
<1>. SUFFICES ASSUME AttemptIsNoted, [CacheNext]_cacheVars PROVE AttemptIsNoted'
  OBVIOUS
<1>1. CASE InitConnect
  BY <1>1 DEF InitConnect, AttemptIsNoted
<1>2. CASE NextSecond
  BY <1>2 DEF NextSecond, AttemptIsNoted
<1>3. CASE UNCHANGED cacheTime
  BY <1>3 DEF cacheTime, AttemptIsNoted
<1>4. CASE Asks(Commands) \/ LinkBreaks \/ RedisStops \/ RedisStarts
  BY <1>4, <1>3 DEF Asks, Call, LinkBreaks, RedisStops, RedisStarts
<1>5. CASE CacheWorks
  BY <1>5, <1>1, <1>3 DEF CacheWorks, InitHasContext, InitThrottled, InitGreets, CommandReplied,
     CommandDropsContext, CommandKeepsContext, CommandDies
<1>. QED  BY <1>2, <1>3, <1>4, <1>5 DEF CacheNext, cacheVars

\* A command returns a value or its error value and leaves the connection free.
LEMMA ReturnTyped ==
  ASSUME CacheTypeOK, NEW v \in {"value", "error"}, Return(v)
  PROVE  /\ at' = "idle" /\ answer' \in {"none", "value", "error"} /\ call' \in Commands \cup {"none"}
BY DEF Return, CacheTypeOK

LEMMA CacheTypePreserved == CacheTypeOK /\ [CacheNext]_cacheVars => CacheTypeOK'
<1>. SUFFICES ASSUME CacheTypeOK, [CacheNext]_cacheVars PROVE CacheTypeOK'
  OBVIOUS
<1>. USE CacheConnectionAssumption DEF CacheTypeOK
<1>1. ASSUME NEW c \in Commands, Call(c)
      PROVE  CacheTypeOK'
  BY <1>1 DEF Call, cacheTime, cacheNet
<1>2. CASE InitHasContext
  BY <1>2 DEF InitHasContext, Goto, cacheTime, cacheNet
<1>3. CASE InitThrottled
  BY <1>3, ReturnTyped DEF InitThrottled, cacheTime, cacheNet
<1>4. CASE InitConnect
  <2>1. same_second' \in BOOLEAN /\ attempts' \in Nat /\ link' \in BOOLEAN
    BY <1>4 DEF InitConnect
  <2>2. CASE redis
    BY <1>4, <2>1, <2>2 DEF InitConnect, Goto
  <2>3. CASE ~redis
    BY <1>4, <2>1, <2>3, ReturnTyped DEF InitConnect
  <2>. QED  BY <2>2, <2>3
<1>5. CASE InitGreets
  <2>1. UNCHANGED <<password, cacheTime, cacheNet>> /\ context' \in {"NULL", "ok", "err"}
    BY <1>5 DEF InitGreets
  <2>2. /\ at' \in {"select", "command", "idle"} /\ answer' \in {"none", "value", "error"}
        /\ call' \in Commands \cup {"none"}
    BY <1>5, ReturnTyped DEF InitGreets, Goto
  <2>. QED  BY <2>1, <2>2 DEF cacheTime, cacheNet
<1>6. CASE CommandReplied
  <2>1. \A c : \A refused \in BOOLEAN : Reports(c, refused) \in {"value", "error"}
    BY DEF Reports
  <2>. QED  BY <1>6, <2>1, ReturnTyped DEF CommandReplied, cacheTime, cacheNet
<1>7. CASE CommandDropsContext \/ CommandKeepsContext
  BY <1>7, ReturnTyped DEF CommandDropsContext, CommandKeepsContext, cacheTime, cacheNet
<1>8. CASE CommandDies
  BY <1>8 DEF CommandDies, cacheTime, cacheNet
<1>9. CASE NextSecond
  BY <1>9 DEF NextSecond, cacheNet
<1>10. ASSUME outages \in 0..MaxOutages, outages < MaxOutages
       PROVE  outages + 1 \in 0..MaxOutages
  BY <1>10
<1>11. CASE LinkBreaks
  <2>1. outages' \in 0..MaxOutages
    BY <1>10, <1>11 DEF LinkBreaks
  <2>. QED  BY <1>11, <2>1 DEF LinkBreaks, cacheTime
<1>12. CASE RedisStops
  <2>1. outages' \in 0..MaxOutages
    BY <1>10, <1>12 DEF RedisStops
  <2>. QED  BY <1>12, <2>1 DEF RedisStops, cacheTime
<1>13. CASE RedisStarts
  BY <1>13 DEF RedisStarts, cacheTime
<1>14. CASE UNCHANGED cacheVars
  BY <1>14 DEF cacheVars, cacheTime, cacheNet
<1>. QED
  BY <1>1, <1>2, <1>3, <1>4, <1>5, <1>6, <1>7, <1>8, <1>9, <1>11, <1>12, <1>13, <1>14
  DEF CacheNext, CacheWorks, Asks

\* The variables of CacheConn keep their types, for any bound of the outages.
THEOREM CacheTyped == CacheSpec => []CacheTypeOK
<1>1. CacheInit => CacheTypeOK
  <2>. SUFFICES ASSUME CacheInit PROVE CacheTypeOK
    OBVIOUS
  <2>1. password \in BOOLEAN /\ same_second \in BOOLEAN /\ redis \in BOOLEAN /\ link \in BOOLEAN
    BY DEF CacheInit
  <2>2. attempts \in Nat /\ outages \in 0..MaxOutages
    BY CacheConnectionAssumption DEF CacheInit
  <2>3. /\ context \in {"NULL", "ok", "err"} /\ call \in Commands \cup {"none"}
        /\ at \in {"idle", "init"} /\ answer \in {"none", "value", "error"}
    BY DEF CacheInit
  <2>. QED  BY <2>1, <2>2, <2>3 DEF CacheTypeOK
<1>. QED  BY <1>1, CacheTypePreserved, PTL DEF CacheSpec

\* The comment of cache_pool.cc:65, one try a second, for any number of outages.
THEOREM CacheOneAttemptASecond == CacheSpec => []OneAttemptASecond
<1>1. AttemptIsNoted => OneAttemptASecond
  BY DEF AttemptIsNoted, OneAttemptASecond
<1>. QED  BY <1>1, CacheInitEstablishes, CacheNextPreserves, PTL DEF CacheSpec

-----------------------------------------------------------------------------
(* CDBConn: a statement in doubt is the last one, and a transaction is carried *)
(* out whole or not at all.  Both rest on a lost session never being replaced. *)

\* A statement in doubt has outlived its session, and the connection is not opened again.
DoubtIsFinal == in_doubt => ~session /\ place \notin {"closed", "deleted"}

TxnEnds == place = "answer" /\ Kind \in {"commit", "rollback"}

\* With its session alive a transaction the caller has started is one for the server,
\* until the server has carried out the statement that ends it.
TxnIsOpen ==
  /\ place \in {"closed", "deleted"} => ~wants_txn
  /\ place = "unchanged" => Kind \in {"update", "prepared"}
  /\ session /\ place = "answer" /\ Kind = "start" => in_txn
  /\ session /\ wants_txn => in_txn \/ TxnEnds

Booleans ==
  did \in BOOLEAN /\ in_doubt \in BOOLEAN /\ wants_txn \in BOOLEAN /\ in_txn \in BOOLEAN /\ session \in BOOLEAN

DbInv == Booleans /\ DoubtIsFinal /\ TxnIsOpen

LEMMA DbInitEstablishes == DbInit => DbInv
BY DEF DbInit, DbInv, Booleans, DoubtIsFinal, TxnIsOpen, TxnEnds, Kind, NoStatement

\* One step per action.
LEMMA DbNextPreserves == DbInv /\ [DbNext]_dbVars => DbInv'
<1>. SUFFICES ASSUME DbInv, [DbNext]_dbVars PROVE DbInv'
  OBVIOUS
<1>. USE DEF DbInv, Booleans, DoubtIsFinal, TxnIsOpen, TxnEnds, Kind
<1>1. CASE Connect
  BY <1>1 DEF Connect, dbData, dbCall
<1>2. ASSUME NEW s \in Statements, Execute(s)
      PROVE  DbInv'
  BY <1>2 DEF Execute, dbData, dbNet
<1>3. CASE Ping
  BY <1>3 DEF Ping, dbData, dbNet, dbCall
<1>4. CASE Prepare
  <2>1. CASE session /\ place' = "query" /\ UNCHANGED <<said, wants_txn, in_doubt>>
    BY <1>4, <2>1 DEF Prepare, dbData, dbNet
  <2>2. CASE ~session /\ Told(FALSE)
    BY <1>4, <2>2 DEF Prepare, Told, dbData, dbNet
  <2>. QED  BY <1>4, <2>1, <2>2 DEF Prepare
<1>5. CASE ServerExecutes
  BY <1>5 DEF ServerExecutes, dbNet
<1>6. CASE Answered
  BY <1>6 DEF Answered, Told, dbData, dbNet
<1>7. CASE QueryFails
  BY <1>7 DEF QueryFails, Told, dbData, dbNet
<1>8. CASE SessionLost
  BY <1>8 DEF SessionLost, dbCall
<1>9. CASE ServerBack
  BY <1>9 DEF ServerBack, dbData, dbCall
<1>10. CASE UNCHANGED dbVars
  BY <1>10 DEF dbVars, dbData, dbNet, dbCall
<1>. QED
  BY <1>1, <1>2, <1>3, <1>4, <1>5, <1>6, <1>7, <1>8, <1>9, <1>10 DEF DbNext, Statement

\* Every statement, place and value is one the code knows.
LEMMA DbTypePreserved == DbTypeOK /\ [DbNext]_dbVars => DbTypeOK'
<1>. SUFFICES ASSUME DbTypeOK, [DbNext]_dbVars PROVE DbTypeOK'
  OBVIOUS
<1>. USE DbConnectionAssumption DEF DbTypeOK
<1>1. CASE Connect
  BY <1>1 DEF Connect, dbData, dbCall
<1>2. ASSUME NEW s \in Statements, Execute(s)
      PROVE  DbTypeOK'
  BY <1>2 DEF Execute, dbData, dbNet
<1>3. CASE Ping
  BY <1>3 DEF Ping, dbData, dbNet, dbCall
<1>4. ASSUME NEW b \in BOOLEAN, Told(b)
      PROVE  said' \in BOOLEAN /\ place' = "idle" /\ wants_txn' \in BOOLEAN /\ in_doubt' \in BOOLEAN
  <2>1. said' \in BOOLEAN /\ place' = "idle"
    BY <1>4 DEF Told
  <2>2. wants_txn' \in BOOLEAN
    BY <1>4, Zenon DEF Told
  <2>3. in_doubt' \in BOOLEAN
    BY <1>4, Zenon DEF Told
  <2>. QED  BY <2>1, <2>2, <2>3
<1>5. CASE Prepare
  <2>1. UNCHANGED <<dbData, dbNet, stmt, did>>
    BY <1>5 DEF Prepare
  <2>2. said' \in BOOLEAN /\ place' \in {"idle", "query"} /\ wants_txn' \in BOOLEAN /\ in_doubt' \in BOOLEAN
    BY <1>4, <1>5 DEF Prepare
  <2>. QED  BY <2>1, <2>2 DEF dbData, dbNet
<1>6. CASE ServerExecutes
  <2>1. \A v \in Statements \cup {NoStatement} :
          v.kind \notin {"start", "commit", "rollback", "query"} => v.value \in Values
    BY DEF Statements, NoStatement, Values
  <2>2. table' \in Values /\ work' \in Values /\ in_txn' \in BOOLEAN
    BY <1>6, <2>1 DEF ServerExecutes, Kind
  <2>. QED  BY <1>6, <2>2 DEF ServerExecutes, dbNet
<1>7. CASE Answered
  <2>1. PICK b \in BOOLEAN : Told(b)
    BY <1>7 DEF Answered
  <2>. QED  BY <1>4, <1>7, <2>1 DEF Answered, dbData, dbNet
<1>8. CASE QueryFails
  BY <1>4, <1>8 DEF QueryFails, dbData, dbNet
<1>9. CASE SessionLost
  <2>1. losses' \in 0..MaxLosses
    BY <1>9 DEF SessionLost
  <2>2. session' \in BOOLEAN /\ server' \in BOOLEAN /\ in_txn' \in BOOLEAN
    BY <1>9 DEF SessionLost
  <2>3. work' \in Values /\ table' \in Values /\ UNCHANGED <<dbCall, place>>
    BY <1>9 DEF SessionLost
  <2>. QED  BY <2>1, <2>2, <2>3 DEF dbCall
<1>10. CASE ServerBack
  BY <1>10 DEF ServerBack, dbData, dbCall
<1>11. CASE UNCHANGED dbVars
  BY <1>11 DEF dbVars, dbData, dbNet, dbCall
<1>. QED
  BY <1>1, <1>2, <1>3, <1>5, <1>6, <1>7, <1>8, <1>9, <1>10, <1>11 DEF DbNext, Statement

\* The variables of CDBConn keep their types, for any bound of the losses.
THEOREM DbTyped == DbSpec => []DbTypeOK
<1>1. DbInit => DbTypeOK
  <2>. SUFFICES ASSUME DbInit PROVE DbTypeOK
    OBVIOUS
  <2>. USE DEF DbInit
  <2>1. 0 \in Values /\ losses \in 0..MaxLosses
    BY DbConnectionAssumption DEF Values
  <2>2. session \in BOOLEAN /\ server \in BOOLEAN /\ in_txn \in BOOLEAN /\ wants_txn \in BOOLEAN
        /\ did \in BOOLEAN /\ said \in BOOLEAN /\ in_doubt \in BOOLEAN
    OBVIOUS
  <2>. QED  BY <2>1, <2>2 DEF DbTypeOK
<1>. QED  BY <1>1, DbTypePreserved, PTL DEF DbSpec

\* The invariant, for any number of sessions the server ends.
THEOREM DbInvariant == DbSpec => []DbInv
BY DbInitEstablishes, DbNextPreserves, PTL DEF DbSpec

\* Of a statement carried out and reported as failed nothing follows on the same
\* connection: ExecuteUpdate after db_pool.cc:292 is the last.
THEOREM DbInDoubtIsLast == DbSpec => InDoubtIsLast
<1>1. DbInv /\ [DbNext]_dbVars => [in_doubt /\ ~did => ~did']_dbVars
  <2>. SUFFICES ASSUME DbInv, DbNext, in_doubt, ~did PROVE did' = FALSE
    BY DEF dbVars
  <2>1. did' = did \/ did' = FALSE
    BY DEF DbInv, DoubtIsFinal, DbNext, Connect, Execute, Statement, Ping, Prepare, ServerExecutes,
           Answered, QueryFails, SessionLost, ServerBack, dbCall
  <2>. QED  BY <2>1 DEF DbInv, Booleans
<1>. QED  BY <1>1, DbInvariant, PTL DEF DbSpec, InDoubtIsLast

\* Between StartTransaction and Commit nothing becomes visible to others
\* (db_pool.cc:310-344), however often the session is lost.
THEOREM DbTransactionsAreWhole == DbSpec => TransactionsAreWhole
<1>1. DbInv /\ [DbNext]_dbVars => [wants_txn /\ Kind # "commit" => table' = table]_dbVars
  <2>. SUFFICES ASSUME DbInv, DbNext, wants_txn, Kind # "commit" PROVE table' = table
    BY DEF dbVars
  <2>1. CASE ServerExecutes
    BY <2>1 DEF ServerExecutes, DbInv, TxnIsOpen, TxnEnds
  <2>2. CASE ~ServerExecutes
    BY <2>2 DEF DbNext, Connect, Execute, Statement, Ping, Prepare, Answered, QueryFails,
                SessionLost, ServerBack, dbData
  <2>. QED  BY <2>1, <2>2
<1>. QED  BY <1>1, DbInvariant, PTL DEF DbSpec, TransactionsAreWhole

-----------------------------------------------------------------------------
(* UploadPipeline: although every thread collects any child, the children of  *)
(* the process that nobody has collected are accounted for.                   *)

Places    == {"none", "idle", "pipe", "fork", "close", "read", "wait", "unlink", "store", "shell"}
KidStates == {"none", "running", "written", "copy", "zombie"}
KidSet    == [state : KidStates, of : Ids \cup {0}, for : Ids \cup {0},
              tool : Tools \cup {"shell", "none"}, holds : SUBSET Ids]

PipeTypes ==
  /\ doing \in [Ids -> Places] /\ tool \in [Ids -> Tools] /\ child \in [Ids -> Ids \cup {0}]
  /\ kid \in [Ids -> KidSet] /\ ends \subseteq Ids
  /\ unwaited \in Int /\ stolen \in Int /\ extra \in Int

\* A thread has a child only between fork and wait, and a shell belongs to the one
\* thread that is in system() for it.
Parentage ==
  /\ \A k \in Kids : k \notin Threads
  /\ \A t \in Ids : doing[t] = "shell" => t \in Threads /\ child[t] # 0
  /\ \A t \in Threads : child[t] # 0 => doing[t] \in {"close", "read", "wait", "shell"}
  /\ \A k \in Kids : kid[k].tool = "shell" =>
       /\ kid[k].of = 0 /\ kid[k].for \in Threads
       /\ doing[kid[k].for] = "shell" /\ child[kid[k].for] = k

PipeInv == PipeTypes /\ Parentage /\ ChildrenAccounted

LEMMA PipeBounds ==
  /\ Threads \subseteq Ids /\ Ids \subseteq Nat \ {0}
  /\ \A t \in Threads : Process(t) = 0
  /\ \A t \in Ids : Process(t) \in Ids \cup {0} /\ (Process(t) = 0 <=> t \in Threads)
<1>1. Threads \subseteq Ids /\ Ids \subseteq Nat \ {0}
  <2>1. PICK n \in 0..MaxIds : Threads = 1..n
    BY UploadPipelineAssumption
  <2>. QED  BY <2>1, UploadPipelineAssumption DEF Ids
<1>. QED  BY <1>1 DEF Process

\* The sets that are counted are finite.
LEMMA PipeFinite ==
  PipeTypes => IsFiniteSet(ChildrenOf(0)) /\ IsFiniteSet(Owed) /\ IsFiniteSet(Robbed)
<1>1. IsFiniteSet(Ids)
  BY FS_Interval, UploadPipelineAssumption DEF Ids
<1>2. ChildrenOf(0) \subseteq Ids /\ Owed \subseteq Ids /\ Robbed \subseteq Ids
  BY PipeBounds DEF ChildrenOf, Kids, Owed, Robbed
<1>. QED  BY <1>1, <1>2, FS_Subset

LEMMA PipeInitEstablishes == PipeInit => PipeInv
<1>. SUFFICES ASSUME PipeInit PROVE PipeInv
  OBVIOUS
<1>1. PipeTypes
  <2>1. doing \in [Ids -> Places] /\ tool \in [Ids -> Tools] /\ child \in [Ids -> Ids \cup {0}]
    BY DEF PipeInit, Places, Tools
  <2>2. NoKid \in KidSet
    BY DEF NoKid, KidSet, KidStates
  <2>3. kid \in [Ids -> KidSet]
    BY <2>2 DEF PipeInit
  <2>4. ends \subseteq Ids /\ unwaited \in Int /\ stolen \in Int /\ extra \in Int
    <3>1. ends = {} /\ unwaited = 0 /\ stolen = 0 /\ extra = 0
      BY DEF PipeInit
    <3>. QED  BY <3>1
  <2>. QED  BY <2>1, <2>3, <2>4 DEF PipeTypes
<1>2. Kids = {}
  BY DEF PipeInit, Kids, NoKid
<1>3. Parentage
  BY <1>2, PipeBounds DEF Parentage, PipeInit
<1>4. ChildrenOf(0) = {} /\ Owed = {} /\ Robbed = {}
  BY <1>2, PipeBounds DEF ChildrenOf, Owed, Robbed, PipeInit
<1>5. unwaited = 0 /\ stolen = 0 /\ extra = 0
  BY DEF PipeInit
<1>. QED  BY <1>1, <1>3, <1>4, <1>5, FS_EmptySet DEF PipeInv, ChildrenAccounted

\* The types of what the actions write.
LEMMA PlaceTyped ==
  ASSUME PipeTypes, NEW t \in Ids, NEW l \in Places, GoesTo(t, l)
  PROVE  doing' \in [Ids -> Places]
BY DEF PipeTypes, GoesTo

LEMMA ForkTyped ==
  ASSUME PipeTypes, Free # {}, NEW t \in Ids, NEW what \in Tools \cup {"shell"}, Child(t, what)
  PROVE  kid' \in [Ids -> KidSet] /\ child' \in [Ids -> Ids \cup {0}]
<1>1. NextId \in Ids
  BY DEF NextId, Free
<1>2. [state |-> "running", of |-> Process(t), for |-> t, tool |-> what,
       holds |-> Inherits(t)] \in KidSet
  <2>1. Inherits(t) \subseteq Ids
    BY DEF PipeTypes, KidSet, Inherits
  <2>. QED  BY <2>1, PipeBounds DEF KidSet, KidStates
<1>. QED  BY <1>1, <1>2 DEF Child, PipeTypes

LEMMA CollectTyped ==
  ASSUME PipeTypes, NEW k \in Ids, Collect(k)
  PROVE  kid' \in [Ids -> KidSet]
BY DEF Collect, PipeTypes, NoKid, KidSet, KidStates

LEMMA PipeTypePreserved == PipeTypes /\ [PipeNext]_pipeVars => PipeTypes'
<1>. SUFFICES ASSUME PipeTypes, [PipeNext]_pipeVars PROVE PipeTypes'
  OBVIOUS
<1>. USE DEF history
<1>1. ASSUME NEW t \in Threads, Begin(t)
      PROVE  PipeTypes'
  BY <1>1, PlaceTyped, PipeBounds DEF Begin, PipeTypes, Places, Tools
<1>2. ASSUME NEW t \in Threads, RemoveFile(t)
      PROVE  PipeTypes'
  <2>1. doing' \in [Ids -> Places] /\ kid' \in [Ids -> KidSet] /\ child' \in [Ids -> Ids \cup {0}]
    BY <1>2, PlaceTyped, ForkTyped, PipeBounds DEF RemoveFile, Places
  <2>. QED  BY <1>2, <2>1 DEF RemoveFile, PipeTypes
<1>3. ASSUME NEW t \in Ids, ThreadStep(t)
      PROVE  PipeTypes'
  <2>1. CASE Pipe(t)
    <3>1. kid' \in [Ids -> KidSet] \/ kid' = kid
      <4>1. \A k \in Ids : [kid[k] EXCEPT !.holds = @ \ {t}] \in KidSet
        BY DEF PipeTypes, KidSet
      <4>. QED  BY <2>1, <4>1 DEF Pipe
    <3>2. doing' \in [Ids -> Places] /\ ends' \subseteq Ids
      BY <2>1, PlaceTyped DEF Pipe, Places, PipeTypes
    <3>. QED  BY <2>1, <3>1, <3>2 DEF Pipe, PipeTypes
  <2>2. CASE Fork(t)
    <3>1. (kid' \in [Ids -> KidSet] /\ child' \in [Ids -> Ids \cup {0}]) \/ UNCHANGED <<kid, child>>
      <4>1. tool[t] \in Tools
        BY DEF PipeTypes
      <4>. QED  BY <2>2, <4>1, ForkTyped DEF Fork
    <3>2. doing' \in [Ids -> Places] /\ ends' \subseteq Ids
      BY <2>2, PlaceTyped DEF Fork, Places, PipeTypes
    <3>. QED  BY <2>2, <3>1, <3>2 DEF Fork, PipeTypes
  <2>3. CASE Close(t)
    BY <2>3, PlaceTyped DEF Close, Places, PipeTypes
  <2>4. CASE ReadsNothing(t)
    <3>1. doing' \in [Ids -> Places]
      BY <2>4, PlaceTyped DEF ReadsNothing, GivesUp, Places
    <3>2. child' \in [Ids -> Ids \cup {0}] /\ unwaited' \in Int
      <4>1. CASE GivesUp(t)
        BY <4>1 DEF GivesUp, Once, PipeTypes
      <4>2. CASE UNCHANGED <<child, unwaited>>
        BY <4>2 DEF PipeTypes
      <4>. QED  BY <2>4, <4>1, <4>2 DEF ReadsNothing
    <3>. QED  BY <2>4, <3>1, <3>2 DEF ReadsNothing, PipeTypes
  <2>5. CASE Reads(t)
    BY <2>5, PlaceTyped DEF Reads, Places, PipeTypes
  <2>6. CASE Wait(t)
    <3>1. doing' \in [Ids -> Places]
      BY <2>6, PlaceTyped DEF Wait, AfterWait, Places
    <3>2. kid' \in [Ids -> KidSet]
      <4>1. \A k \in Zombies(Process(t)) : k \in Ids
        BY DEF Zombies, ChildrenOf, Kids
      <4>. QED  BY <2>6, <4>1, CollectTyped DEF Wait, PipeTypes
    <3>3. stolen' \in Int /\ extra' \in Int
      BY <2>6 DEF Wait, Once, PipeTypes
    <3>4. child' \in [Ids -> Ids \cup {0}]
      BY <2>6 DEF Wait, PipeTypes
    <3>. QED  BY <2>6, <3>1, <3>2, <3>3, <3>4 DEF Wait, PipeTypes
  <2>7. CASE Unlink(t)
    BY <2>7, PlaceTyped DEF Unlink, Places, PipeTypes, Tools
  <2>8. CASE Store(t)
    BY <2>8, PlaceTyped DEF Store, Places, PipeTypes
  <2>9. CASE ShellEnds(t)
    <3>1. doing' \in [Ids -> Places]
      BY <2>9, PlaceTyped DEF ShellEnds, Places
    <3>2. kid' \in [Ids -> KidSet]
      <4>1. \A k \in Shell(t) : k \in Ids
        BY DEF Shell, Kids
      <4>. QED  BY <2>9, <4>1, CollectTyped DEF ShellEnds, PipeTypes
    <3>3. child' \in [Ids -> Ids \cup {0}]
      BY <2>9 DEF ShellEnds, PipeTypes
    <3>. QED  BY <2>9, <3>1, <3>2, <3>3 DEF ShellEnds, PipeTypes
  <2>. QED
    BY <1>3, <2>1, <2>2, <2>3, <2>4, <2>5, <2>6, <2>7, <2>8, <2>9 DEF ThreadStep
<1>4. ASSUME NEW k \in Ids, ChildStep(k)
      PROVE  PipeTypes'
  <2>1. kid' \in [Ids -> KidSet]
    BY <1>4 DEF ChildStep, ToolWrites, Exits, ExecFails, CopyLogs, PipeTypes, KidSet, KidStates
  <2>2. doing' \in [Ids -> Places] /\ tool' \in [Ids -> Tools]
    BY <1>4 DEF ChildStep, ToolWrites, Exits, ExecFails, CopyLogs, PipeTypes, Places, Tools, callVars
  <2>. QED
    BY <1>4, <2>1, <2>2 DEF ChildStep, ToolWrites, Exits, ExecFails, CopyLogs, PipeTypes, callVars, Alone
<1>5. CASE UNCHANGED pipeVars
  BY <1>5 DEF pipeVars, callVars, PipeTypes
<1>. QED  BY <1>1, <1>2, <1>3, <1>4, <1>5 DEF PipeNext

\* A step that neither makes nor collects a child.
SameKids ==
  \A k \in Ids : /\ kid'[k].state = "none" <=> kid[k].state = "none"
                 /\ kid'[k].of = kid[k].of /\ kid'[k].for = kid[k].for /\ kid'[k].tool = kid[k].tool

LEMMA SameKidsSame ==
  SameKids => Kids' = Kids /\ ChildrenOf(0)' = ChildrenOf(0) /\ \A t : Shell(t)' = Shell(t)
BY DEF SameKids, Kids, ChildrenOf, Shell

\* What becomes of the children when k is one of them, and when it is collected.
LEMMA ForkFacts ==
  ASSUME PipeTypes, Parentage, Free # {}, NEW t \in Ids, NEW what, Child(t, what)
  PROVE  \E k \in Free :
           /\ child' = [child EXCEPT ![t] = k] /\ Kids' = Kids \cup {k}
           /\ kid'[k].of = Process(t) /\ kid'[k].for = t /\ kid'[k].tool = what
           /\ \A j \in Ids \ {k} : kid'[j] = kid[j]
<1>1. NextId \in Free /\ Free \subseteq Ids
  BY DEF NextId, Free
<1>. DEFINE new == [state |-> "running", of |-> Process(t), for |-> t, tool |-> what,
                    holds |-> Inherits(t)]
<1>2. new.state = "running" /\ new.of = Process(t) /\ new.for = t /\ new.tool = what
  OBVIOUS
<1>3. kid' = [kid EXCEPT ![NextId] = new] /\ child' = [child EXCEPT ![t] = NextId]
  BY DEF Child
<1>. HIDE DEF new
<1>4. PICK k \in Free : k = NextId
  BY <1>1
<1>5. kid'[k] = new /\ \A j \in Ids \ {k} : kid'[j] = kid[j]
  BY <1>1, <1>3, <1>4 DEF PipeTypes
<1>6. Kids' = Kids \cup {k}
  BY <1>1, <1>2, <1>5 DEF Kids
<1>. QED  BY <1>2, <1>3, <1>4, <1>5, <1>6

LEMMA CollectFacts ==
  ASSUME PipeTypes, NEW k \in Kids, Collect(k)
  PROVE  /\ Kids' = Kids \ {k} /\ \A j \in Ids \ {k} : kid'[j] = kid[j]
         /\ ChildrenOf(0)' = ChildrenOf(0) \ {k}
         /\ \A t : Shell(t)' = Shell(t) \ {k}
<1>1. kid'[k].state = "none" /\ \A j \in Ids \ {k} : kid'[j] = kid[j]
  BY DEF Collect, NoKid, PipeTypes, Kids
<1>2. Kids' = Kids \ {k}
  BY <1>1 DEF Kids
<1>. QED  BY <1>1, <1>2 DEF ChildrenOf, Shell, Kids

\* A step that makes no child and takes no thread with a shell out of system().
LEMMA ParentageKeeps ==
  ASSUME Parentage, Kids' \subseteq Kids,
         \A k \in Kids' : kid'[k].of = kid[k].of /\ kid'[k].for = kid[k].for /\ kid'[k].tool = kid[k].tool,
         \A t \in Ids : doing'[t] = "shell" => doing[t] = "shell" /\ child'[t] = child[t],
         \A t \in Threads : child'[t] # 0 => doing'[t] \in {"close", "read", "wait", "shell"},
         \A k \in Kids' : kid[k].tool = "shell" => doing'[kid[k].for] = "shell"
  PROVE  Parentage'
<1>1. \A k \in Kids' : k \notin Threads
  BY DEF Parentage
<1>2. \A t \in Ids : doing'[t] = "shell" => t \in Threads /\ child'[t] # 0
  BY DEF Parentage
<1>3. ASSUME NEW k \in Kids', kid'[k].tool = "shell"
      PROVE  /\ kid'[k].of = 0 /\ kid'[k].for \in Threads
             /\ doing'[kid'[k].for] = "shell" /\ child'[kid'[k].for] = k
  <2>1. PICK u \in Threads : u = kid[k].for /\ u = kid'[k].for
    BY <1>3 DEF Parentage
  <2>2. kid[k].of = 0 /\ kid'[k].of = 0 /\ child[u] = k /\ doing'[u] = "shell"
    BY <1>3, <2>1 DEF Parentage
  <2>. QED  BY <2>1, <2>2, PipeBounds
<1>. QED  BY <1>1, <1>2, <1>3 DEF Parentage

\* A step that leaves children and threads as far as they are counted.
LEMMA QuietPipe ==
  ASSUME PipeInv, SameKids, UNCHANGED history,
         \A t \in Threads : child'[t] = child[t],
         \A t \in Ids : doing'[t] = "shell" <=> doing[t] = "shell",
         \A t \in Threads : child[t] # 0 => doing'[t] \in {"close", "read", "wait", "shell"}
  PROVE  Parentage' /\ ChildrenAccounted'
<1>1. Kids' = Kids /\ ChildrenOf(0)' = ChildrenOf(0) /\ \A t : Shell(t)' = Shell(t)
  BY SameKidsSame
<1>2. Owed' = Owed /\ Robbed' = Robbed
  BY <1>1, PipeBounds DEF Owed, Robbed
<1>3. Parentage'
  <2>1. \A t \in Ids : doing'[t] = "shell" => doing[t] = "shell" /\ child'[t] = child[t]
    BY DEF PipeInv, Parentage
  <2>2. \A k \in Kids : kid[k].tool = "shell" => doing'[kid[k].for] = "shell"
    BY PipeBounds DEF PipeInv, Parentage
  <2>. QED  BY <1>1, <2>1, <2>2, ParentageKeeps DEF PipeInv, SameKids, Kids
<1>. QED  BY <1>1, <1>2, <1>3 DEF PipeInv, ChildrenAccounted, history

\* A thread that stops owing, without a child being collected.
LEMMA GivesUpAccounted ==
  ASSUME PipeInv, NEW t \in Ids, doing[t] = "read", GivesUp(t), kid' = kid,
         UNCHANGED <<stolen, extra>>
  PROVE  Parentage' /\ ChildrenAccounted'
<1>1. SameKids
  BY DEF SameKids
<1>2. /\ child'[t] = 0 /\ doing'[t] = "idle"
      /\ \A u \in Ids \ {t} : child'[u] = child[u] /\ doing'[u] = doing[u]
  BY DEF GivesUp, GoesTo, PipeInv, PipeTypes
<1>3. CASE t \notin Threads \/ child[t] = 0
  <2>1. unwaited' = unwaited
    BY <1>3 DEF GivesUp, Once, PipeInv, PipeTypes
  <2>2. \A u \in Threads : child'[u] = child[u]
    BY <1>2, <1>3, PipeBounds
  <2>3. \A u \in Ids : doing'[u] = "shell" <=> doing[u] = "shell"
    BY <1>2
  <2>4. \A u \in Threads : child[u] # 0 => doing'[u] \in {"close", "read", "wait", "shell"}
    BY <1>2, <1>3, PipeBounds DEF PipeInv, Parentage
  <2>. QED  BY <1>1, <2>1, <2>2, <2>3, <2>4, QuietPipe DEF history
<1>4. CASE t \in Threads /\ child[t] # 0
  <2>1. unwaited' = unwaited + 1
    BY <1>4 DEF GivesUp, Once
  <2>2. Kids' = Kids /\ ChildrenOf(0)' = ChildrenOf(0) /\ \A u : Shell(u)' = Shell(u)
    BY <1>1, SameKidsSame
  <2>3. Owed' = Owed \ {t} /\ t \in Owed
    BY <1>2, <1>4, PipeBounds DEF Owed
  <2>4. Robbed' = Robbed
    BY <1>2, <2>2, PipeBounds DEF Robbed
  <2>5. Cardinality(Owed') = Cardinality(Owed) - 1
    BY <2>3, PipeFinite, FS_RemoveElement DEF PipeInv
  <2>6. Parentage'
    <3>1. \A u \in Ids : doing'[u] = "shell" => doing[u] = "shell" /\ child'[u] = child[u]
      BY <1>2 DEF PipeInv, PipeTypes
    <3>2. \A u \in Threads : child'[u] # 0 => doing'[u] \in {"close", "read", "wait", "shell"}
      BY <1>2, PipeBounds DEF PipeInv, Parentage
    <3>3. \A k \in Kids : kid[k].tool = "shell" => doing'[kid[k].for] = "shell"
      <4>. SUFFICES ASSUME NEW k \in Kids, kid[k].tool = "shell" PROVE doing'[kid[k].for] = "shell"
        OBVIOUS
      <4>1. PICK u \in Threads : u = kid[k].for /\ doing[u] = "shell"
        BY DEF PipeInv, Parentage
      <4>. QED  BY <1>2, <4>1, PipeBounds
    <3>. QED  BY <2>2, <3>1, <3>2, <3>3, ParentageKeeps DEF PipeInv
  <2>7. Cardinality(ChildrenOf(0)) \in Nat /\ Cardinality(Robbed) \in Nat /\ Cardinality(Owed) \in Nat
    BY PipeFinite, FS_CardinalityType DEF PipeInv
  <2>8. ChildrenAccounted'
    <3>1. Cardinality(ChildrenOf(0))' = Cardinality(ChildrenOf(0)) /\ Cardinality(Robbed)' = Cardinality(Robbed)
      BY <2>2, <2>4
    <3>. QED  BY <2>1, <2>5, <2>7, <3>1 DEF PipeInv, PipeTypes, ChildrenAccounted
  <2>. QED  BY <2>6, <2>8
<1>. QED  BY <1>3, <1>4

\* A thread that forks owes the new child; a copy's child is its own affair.
LEMMA ForkAccounted ==
  ASSUME PipeInv, Free # {}, NEW t \in Ids, NEW what, Child(t, what), UNCHANGED history,
         \/ doing[t] = "fork" /\ what \in Tools /\ GoesTo(t, "close")
         \/ t \in Threads /\ doing[t] = "idle" /\ what = "shell" /\ GoesTo(t, "shell")
  PROVE  Parentage' /\ ChildrenAccounted'
<1>1. PICK k \in Free :
        /\ child' = [child EXCEPT ![t] = k] /\ Kids' = Kids \cup {k}
        /\ kid'[k].of = Process(t) /\ kid'[k].for = t /\ kid'[k].tool = what
        /\ \A j \in Ids \ {k} : kid'[j] = kid[j]
  BY ForkFacts DEF PipeInv
<1>2. k \in Ids /\ k \notin Kids /\ k \notin Threads /\ k # 0
  BY PipeBounds DEF Free
<1>3. /\ child'[t] = k /\ \A u \in Ids \ {t} : child'[u] = child[u] /\ doing'[u] = doing[u]
      /\ doing'[t] = IF what = "shell" THEN "shell" ELSE "close"
  BY <1>1 DEF PipeInv, PipeTypes, GoesTo, Tools
<1>4. Kids \subseteq Ids /\ \A j \in Kids : kid'[j] = kid[j]
  BY <1>1, <1>2 DEF Kids
<1>5. doing[t] # "shell" /\ (t \in Threads => child[t] = 0)
  BY DEF PipeInv, Parentage
<1>6. \A u \in Threads : u # t => Shell(u)' = Shell(u)
  BY <1>1, <1>2, <1>4 DEF Shell
<1>7. Robbed' = Robbed
  <2>1. what = "shell" => k \in Shell(t)'
    BY <1>1 DEF Shell
  <2>2. t \notin Robbed /\ t \notin Robbed'
    BY <1>3, <1>5, <2>1 DEF Robbed
  <2>3. \A u \in Threads \ {t} : u \in Robbed' <=> u \in Robbed
    BY <1>3, <1>6, PipeBounds DEF Robbed
  <2>. QED  BY <2>2, <2>3 DEF Robbed
<1>8. Parentage'
  <2>1. \A j \in Kids' : j \notin Threads
    BY <1>1, <1>2 DEF PipeInv, Parentage
  <2>2. \A u \in Ids : doing'[u] = "shell" => u \in Threads /\ child'[u] # 0
    BY <1>2, <1>3 DEF PipeInv, Parentage, Tools
  <2>3. \A u \in Threads : child'[u] # 0 => doing'[u] \in {"close", "read", "wait", "shell"}
    BY <1>3, PipeBounds DEF PipeInv, Parentage
  <2>4. ASSUME NEW j \in Kids', kid'[j].tool = "shell"
        PROVE  /\ kid'[j].of = 0 /\ kid'[j].for \in Threads
               /\ doing'[kid'[j].for] = "shell" /\ child'[kid'[j].for] = j
    <3>1. CASE j = k
      BY <1>1, <1>3, <2>4, <3>1, PipeBounds DEF Tools
    <3>2. CASE j # k
      <4>1. j \in Kids /\ kid'[j] = kid[j] /\ kid[j].for # t
        BY <1>1, <1>4, <1>5, <2>4, <3>2 DEF PipeInv, Parentage
      <4>2. PICK u \in Threads : u = kid[j].for
        BY <2>4, <4>1 DEF PipeInv, Parentage
      <4>3. kid[j].of = 0 /\ doing[u] = "shell" /\ child[u] = j
        BY <2>4, <4>1, <4>2 DEF PipeInv, Parentage
      <4>. QED  BY <1>3, <4>1, <4>2, <4>3, PipeBounds
    <3>. QED  BY <3>1, <3>2
  <2>. QED  BY <2>1, <2>2, <2>3, <2>4 DEF Parentage
<1>9. Cardinality(ChildrenOf(0)) \in Nat /\ Cardinality(Robbed) \in Nat /\ Cardinality(Owed) \in Nat
  BY PipeFinite, FS_CardinalityType DEF PipeInv
<1>10. CASE t \in Threads
  <2>1. ChildrenOf(0)' = ChildrenOf(0) \cup {k} /\ k \notin ChildrenOf(0)
    BY <1>1, <1>2, <1>4, <1>10, PipeBounds, ZenonT(60) DEF ChildrenOf
  <2>2. Owed' = Owed \cup {t} /\ t \notin Owed
    BY <1>2, <1>3, <1>5, <1>10, PipeBounds DEF Owed
  <2>3. Cardinality(ChildrenOf(0)') = Cardinality(ChildrenOf(0)) + 1
        /\ Cardinality(Owed') = Cardinality(Owed) + 1 /\ Cardinality(Robbed') = Cardinality(Robbed)
    BY <1>7, <2>1, <2>2, PipeFinite, FS_AddElement DEF PipeInv
  <2>. QED  BY <1>8, <1>9, <2>3 DEF PipeInv, PipeTypes, ChildrenAccounted, history
<1>11. CASE t \notin Threads
  <2>1. ChildrenOf(0)' = ChildrenOf(0)
    BY <1>1, <1>2, <1>4, <1>11, PipeBounds DEF ChildrenOf
  <2>2. Owed' = Owed
    BY <1>3, <1>11, PipeBounds DEF Owed
  <2>. QED  BY <1>7, <1>8, <2>1, <2>2 DEF PipeInv, ChildrenAccounted, history
<1>. QED  BY <1>10, <1>11

\* After its wait or its shell, t has no child and is elsewhere.
LEMMA ForgetsChild ==
  ASSUME PipeTypes, NEW t \in Ids, NEW l, GoesTo(t, l), child' = [child EXCEPT ![t] = 0]
  PROVE  /\ child'[t] = 0 /\ doing'[t] = l
         /\ \A u \in Ids \ {t} : child'[u] = child[u] /\ doing'[u] = doing[u]
BY DEF PipeTypes, GoesTo

\* A copy collects its own children only, and they are no shells.
LEMMA CopyWaits ==
  ASSUME PipeInv, NEW t \in Ids \ Threads, Wait(t)
  PROVE  Parentage' /\ ChildrenAccounted'
<1>1. doing[t] = "wait" /\ GoesTo(t, AfterWait(t)) /\ child' = [child EXCEPT ![t] = 0]
      /\ unwaited' = unwaited
  BY DEF Wait
<1>2. AfterWait(t) # "shell"
  BY DEF AfterWait
<1>3. /\ child'[t] = 0 /\ doing'[t] # "shell"
      /\ \A u \in Ids \ {t} : child'[u] = child[u] /\ doing'[u] = doing[u]
  BY <1>1, <1>2, ForgetsChild DEF PipeInv
<1>4. UNCHANGED history
  <2>1. stolen' = stolen
    BY DEF Wait, Once, PipeInv, PipeTypes
  <2>2. extra' = extra
    BY DEF Wait, Once, PipeInv, PipeTypes
  <2>. QED  BY <1>1, <2>1, <2>2 DEF history
<1>5. /\ \A u \in Threads : child'[u] = child[u] /\ doing'[u] = doing[u]
      /\ \A u \in Ids : doing'[u] = "shell" <=> doing[u] = "shell"
  BY <1>1, <1>3, PipeBounds
<1>6. CASE UNCHANGED kid
  <2>1. SameKids
    BY <1>6 DEF SameKids
  <2>. QED  BY <1>4, <1>5, <2>1, QuietPipe DEF PipeInv, Parentage
<1>7. ASSUME NEW k \in Zombies(Process(t)), Collect(k)
      PROVE  Parentage' /\ ChildrenAccounted'
  <2>1. k \in Kids /\ kid[k].of # 0
    BY PipeBounds DEF Zombies, ChildrenOf
  <2>2. kid[k].tool # "shell"
    BY <2>1 DEF PipeInv, Parentage
  <2>3. /\ Kids' = Kids \ {k} /\ \A j \in Ids \ {k} : kid'[j] = kid[j]
        /\ ChildrenOf(0)' = ChildrenOf(0) \ {k}
        /\ \A u : Shell(u)' = Shell(u) \ {k}
    BY <1>7, <2>1, CollectFacts DEF PipeInv
  <2>4. ChildrenOf(0)' = ChildrenOf(0) /\ \A u : Shell(u)' = Shell(u)
    BY <2>1, <2>2, <2>3 DEF ChildrenOf, Shell
  <2>5. Owed' = Owed /\ Robbed' = Robbed
    BY <1>5, <2>4 DEF Owed, Robbed
  <2>6. Parentage'
    <3>1. \A j \in Kids' : j \in Kids /\ kid'[j] = kid[j]
      BY <2>3 DEF Kids
    <3>2. \A j \in Kids : kid[j].tool = "shell" => doing'[kid[j].for] = "shell"
      BY <1>5 DEF PipeInv, Parentage
    <3>3. \A u \in Ids : doing'[u] = "shell" => doing[u] = "shell" /\ child'[u] = child[u]
      BY <1>3
    <3>4. \A u \in Threads : child'[u] # 0 => doing'[u] \in {"close", "read", "wait", "shell"}
      BY <1>5 DEF PipeInv, Parentage
    <3>. QED  BY <2>3, <3>1, <3>2, <3>3, <3>4, ParentageKeeps DEF PipeInv
  <2>. QED  BY <1>4, <2>4, <2>5, <2>6 DEF PipeInv, ChildrenAccounted, history
<1>. QED  BY <1>6, <1>7 DEF Wait

\* A shell of the process is the child of one thread in system(), the only one it has.
LEMMA ShellIs ==
  ASSUME PipeInv, NEW k \in Kids, kid[k].tool = "shell"
  PROVE  /\ kid[k].for \in Threads /\ doing[kid[k].for] = "shell" /\ kid[k].of = 0
         /\ Shell(kid[k].for) = {k}
         /\ \A u \in Threads : u # kid[k].for => k \notin Shell(u)
<1>1. PICK u \in Threads : u = kid[k].for /\ doing[u] = "shell" /\ child[u] = k /\ kid[k].of = 0
  BY DEF PipeInv, Parentage
<1>2. \A j \in Shell(u) : child[u] = j
  BY DEF PipeInv, Parentage, Shell
<1>3. k \in Shell(u)
  BY <1>1 DEF Shell
<1>4. \A v \in Threads : v # u => k \notin Shell(v)
  BY <1>1 DEF Shell
<1>. QED  BY <1>1, <1>2, <1>3, <1>4

\* A thread collects any child of the process, or none if there is none.
LEMMA ThreadWaits ==
  ASSUME PipeInv, NEW t \in Threads, Wait(t)
  PROVE  Parentage' /\ ChildrenAccounted'
<1>1. t \in Ids /\ Process(t) = 0 /\ doing[t] = "wait" /\ unwaited' = unwaited
      /\ GoesTo(t, AfterWait(t)) /\ child' = [child EXCEPT ![t] = 0]
  BY PipeBounds DEF Wait
<1>2. AfterWait(t) \notin {"shell", "close", "read", "wait"}
  BY DEF AfterWait
<1>3. /\ child'[t] = 0 /\ doing'[t] # "shell"
      /\ \A u \in Ids \ {t} : child'[u] = child[u] /\ doing'[u] = doing[u]
  BY <1>1, <1>2, ForgetsChild DEF PipeInv
<1>4. /\ \A u \in Ids : doing'[u] = "shell" <=> doing[u] = "shell"
      /\ \A u \in Ids : doing'[u] = "shell" => child'[u] = child[u]
  BY <1>1, <1>3
<1>5. \A u \in Threads : child'[u] # 0 => doing'[u] \in {"close", "read", "wait", "shell"}
  BY <1>3, PipeBounds DEF PipeInv, Parentage
<1>6. Owed' = Owed \ {t} /\ (t \in Owed <=> child[t] # 0)
  BY <1>1, <1>3, PipeBounds DEF Owed
<1>7. Cardinality(Owed') = IF child[t] # 0 THEN Cardinality(Owed) - 1 ELSE Cardinality(Owed)
  BY <1>6, PipeFinite, FS_RemoveElement DEF PipeInv
<1>8. Cardinality(ChildrenOf(0)) \in Nat /\ Cardinality(Robbed) \in Nat /\ Cardinality(Owed) \in Nat
  BY PipeFinite, FS_CardinalityType DEF PipeInv
<1>9. unwaited \in Int /\ stolen \in Int /\ extra \in Int /\ ChildrenAccounted
  BY DEF PipeInv, PipeTypes
<1>10. ASSUME Kids' \subseteq Kids, \A k \in Kids' : kid'[k] = kid[k] PROVE Parentage'
  <2>1. \A k \in Kids : kid[k].tool = "shell" => doing'[kid[k].for] = "shell"
    BY <1>4, ShellIs, PipeBounds
  <2>. QED  BY <1>4, <1>5, <1>10, <2>1, ParentageKeeps DEF PipeInv
<1>11. CASE ChildrenOf(Process(t)) = {} /\ UNCHANGED <<kid, stolen>>
            /\ extra' = extra - Once(t, child[t] # 0)
  <2>1. ChildrenOf(0)' = ChildrenOf(0) /\ Kids' = Kids /\ \A u : Shell(u)' = Shell(u)
    BY <1>11 DEF ChildrenOf, Kids, Shell
  <2>2. Robbed' = Robbed
    BY <1>4, <2>1, PipeBounds DEF Robbed
  <2>3. extra' = extra - IF child[t] # 0 THEN 1 ELSE 0
    BY <1>11 DEF Once
  <2>4. Cardinality(ChildrenOf(0))' = Cardinality(ChildrenOf(0)) /\ Cardinality(Robbed)' = Cardinality(Robbed)
    BY <2>1, <2>2
  <2>5. ChildrenAccounted'
    BY <1>1, <1>7, <1>8, <1>9, <1>11, <2>3, <2>4 DEF ChildrenAccounted
  <2>. QED  BY <1>10, <1>11, <2>1, <2>5
<1>12. ASSUME NEW k \in Zombies(Process(t)), Collect(k),
              stolen' = stolen + Once(t, kid[k].tool = "shell"),
              extra' = extra + Once(t, child[t] = 0)
       PROVE  Parentage' /\ ChildrenAccounted'
  <2>1. k \in Kids /\ k \in ChildrenOf(0)
    BY <1>1 DEF Zombies, ChildrenOf
  <2>2. /\ Kids' = Kids \ {k} /\ \A j \in Ids \ {k} : kid'[j] = kid[j]
        /\ ChildrenOf(0)' = ChildrenOf(0) \ {k}
        /\ \A u : Shell(u)' = Shell(u) \ {k}
    BY <1>12, <2>1, CollectFacts DEF PipeInv
  <2>3. Cardinality(ChildrenOf(0))' = Cardinality(ChildrenOf(0)) - 1
    BY <2>1, <2>2, PipeFinite, FS_RemoveElement DEF PipeInv
  <2>4. extra' = extra + IF child[t] = 0 THEN 1 ELSE 0
    BY <1>12 DEF Once
  <2>5. Parentage'
    BY <1>10, <2>2 DEF Kids
  <2>6. CASE kid[k].tool = "shell"
    <3>1. PICK o \in Threads : o = kid[k].for
      BY <2>1, <2>6, ShellIs
    <3>2. doing[o] = "shell" /\ Shell(o) = {k} /\ \A u \in Threads : u # o => k \notin Shell(u)
      BY <2>1, <2>6, <3>1, ShellIs
    <3>3. Robbed' = Robbed \cup {o} /\ o \notin Robbed
      BY <1>4, <2>2, <3>2, PipeBounds, ZenonT(60) DEF Robbed
    <3>4. Cardinality(Robbed)' = Cardinality(Robbed) + 1
      BY <3>3, PipeFinite, FS_AddElement DEF PipeInv
    <3>5. stolen' = stolen + 1
      BY <1>12, <2>6 DEF Once
    <3>. QED  BY <1>1, <1>7, <1>8, <1>9, <2>3, <2>4, <2>5, <3>4, <3>5 DEF ChildrenAccounted
  <2>7. CASE kid[k].tool # "shell"
    <3>1. \A u : Shell(u)' = Shell(u)
      BY <2>2, <2>7 DEF Shell
    <3>2. Robbed' = Robbed
      BY <1>4, <3>1, PipeBounds DEF Robbed
    <3>3. stolen' = stolen
      BY <1>9, <1>12, <2>7 DEF Once
    <3>4. Cardinality(Robbed)' = Cardinality(Robbed)
      BY <3>2
    <3>. QED  BY <1>1, <1>7, <1>8, <1>9, <2>3, <2>4, <2>5, <3>3, <3>4 DEF ChildrenAccounted
  <2>. QED  BY <2>6, <2>7
<1>. QED  BY <1>11, <1>12 DEF Wait

\* system() returns: its shell is collected here or was collected elsewhere.
LEMMA ShellAccounted ==
  ASSUME PipeInv, NEW t \in Ids, ShellEnds(t)
  PROVE  Parentage' /\ ChildrenAccounted'
<1>1. /\ doing[t] = "shell" /\ GoesTo(t, "idle") /\ child' = [child EXCEPT ![t] = 0]
      /\ UNCHANGED history
  BY DEF ShellEnds
<1>2. t \in Threads /\ child[t] # 0
  BY <1>1 DEF PipeInv, Parentage
<1>3. /\ child'[t] = 0 /\ doing'[t] = "idle"
      /\ \A u \in Ids \ {t} : child'[u] = child[u] /\ doing'[u] = doing[u]
  BY <1>1, ForgetsChild DEF PipeInv
<1>4. Owed' = Owed \ {t} /\ t \in Owed
  BY <1>2, <1>3, PipeBounds DEF Owed
<1>5. Cardinality(Owed)' = Cardinality(Owed) - 1
  BY <1>4, PipeFinite, FS_RemoveElement DEF PipeInv
<1>6. Cardinality(ChildrenOf(0)) \in Nat /\ Cardinality(Robbed) \in Nat /\ Cardinality(Owed) \in Nat
  BY PipeFinite, FS_CardinalityType DEF PipeInv
<1>7. UNCHANGED <<unwaited, stolen, extra>> /\ unwaited \in Int /\ stolen \in Int /\ extra \in Int
      /\ ChildrenAccounted
  BY <1>1 DEF PipeInv, PipeTypes, history
<1>8. ASSUME Kids' \subseteq Kids, \A j \in Kids' : kid'[j] = kid[j] /\ (kid[j].tool = "shell" => kid[j].for # t)
      PROVE  Parentage'
  <2>1. \A j \in Kids' : kid[j].tool = "shell" => doing'[kid[j].for] = "shell"
    BY <1>3, <1>8, ShellIs, PipeBounds
  <2>2. \A u \in Threads : child'[u] # 0 => doing'[u] \in {"close", "read", "wait", "shell"}
    BY <1>3, PipeBounds DEF PipeInv, Parentage
  <2>3. \A u \in Ids : doing'[u] = "shell" => doing[u] = "shell" /\ child'[u] = child[u]
    BY <1>3
  <2>. QED  BY <1>8, <2>1, <2>2, <2>3, ParentageKeeps DEF PipeInv
<1>9. CASE Shell(t) = {} /\ UNCHANGED kid
  <2>1. ChildrenOf(0)' = ChildrenOf(0) /\ Kids' = Kids /\ \A u : Shell(u)' = Shell(u)
    BY <1>9 DEF ChildrenOf, Kids, Shell
  <2>2. Robbed' = Robbed \ {t} /\ t \in Robbed
    BY <1>1, <1>2, <1>3, <1>9, <2>1, PipeBounds DEF Robbed
  <2>3. Cardinality(Robbed)' = Cardinality(Robbed) - 1
    BY <2>2, PipeFinite, FS_RemoveElement DEF PipeInv
  <2>4. Cardinality(ChildrenOf(0))' = Cardinality(ChildrenOf(0))
    BY <2>1
  <2>5. \A j \in Kids : kid[j].tool = "shell" => kid[j].for # t
    BY <1>9 DEF Shell
  <2>6. Parentage'
    BY <1>8, <1>9, <2>1, <2>5
  <2>. QED  BY <1>5, <1>6, <1>7, <2>3, <2>4, <2>6 DEF ChildrenAccounted
<1>10. ASSUME NEW k \in Shell(t), Collect(k)
       PROVE  Parentage' /\ ChildrenAccounted'
  <2>1. k \in Kids /\ kid[k].tool = "shell" /\ kid[k].for = t
    BY DEF Shell
  <2>2. kid[k].of = 0 /\ Shell(t) = {k} /\ \A u \in Threads : u # t => k \notin Shell(u)
    BY <2>1, ShellIs
  <2>3. /\ Kids' = Kids \ {k} /\ \A j \in Ids \ {k} : kid'[j] = kid[j]
        /\ ChildrenOf(0)' = ChildrenOf(0) \ {k}
        /\ \A u : Shell(u)' = Shell(u) \ {k}
    BY <1>10, <2>1, CollectFacts DEF PipeInv
  <2>4. k \in ChildrenOf(0)
    BY <2>1, <2>2 DEF ChildrenOf
  <2>5. Cardinality(ChildrenOf(0))' = Cardinality(ChildrenOf(0)) - 1
    BY <2>3, <2>4, PipeFinite, FS_RemoveElement DEF PipeInv
  <2>6. Robbed' = Robbed
    <3>1. t \notin Robbed /\ t \notin Robbed'
      BY <1>3, <2>2 DEF Robbed
    <3>2. \A u \in Threads \ {t} : u \in Robbed' <=> u \in Robbed
      BY <1>3, <2>2, <2>3, PipeBounds DEF Robbed
    <3>. QED  BY <3>1, <3>2 DEF Robbed
  <2>7. Cardinality(Robbed)' = Cardinality(Robbed)
    BY <2>6
  <2>8. Parentage'
    <3>1. \A j \in Kids' : j \in Kids /\ kid'[j] = kid[j]
      BY <2>3 DEF Kids
    <3>2. \A j \in Kids' : kid[j].tool = "shell" => kid[j].for # t
      BY <2>2, <2>3 DEF Shell
    <3>. QED  BY <1>8, <2>3, <3>1, <3>2
  <2>. QED  BY <1>5, <1>6, <1>7, <2>5, <2>7, <2>8 DEF ChildrenAccounted
<1>. QED  BY <1>9, <1>10 DEF ShellEnds

LEMMA PipeNextPreserves == PipeInv /\ [PipeNext]_pipeVars => PipeInv'
<1>. SUFFICES ASSUME PipeInv, [PipeNext]_pipeVars PROVE Parentage' /\ ChildrenAccounted'
  BY PipeTypePreserved DEF PipeInv
<1>. USE PipeBounds
<1>1. ASSUME UNCHANGED history, kid' = kid, child' = child, NEW t \in Ids, NEW l, GoesTo(t, l),
             l \in {"idle", "fork", "close", "pipe", "unlink", "store", "read", "wait"}, doing[t] # "shell",
             child[t] = 0 \/ t \notin Threads \/ l \in {"close", "read", "wait"}
      PROVE  Parentage' /\ ChildrenAccounted'
  <2>1. doing'[t] = l /\ \A u \in Ids \ {t} : doing'[u] = doing[u]
    BY <1>1 DEF GoesTo, PipeInv, PipeTypes
  <2>2. \A u \in Ids : doing'[u] = "shell" <=> doing[u] = "shell"
    BY <1>1, <2>1
  <2>3. \A u \in Threads : child[u] # 0 => doing'[u] \in {"close", "read", "wait", "shell"}
    BY <1>1, <2>1 DEF PipeInv, Parentage
  <2>. QED  BY <1>1, <2>2, <2>3, QuietPipe DEF SameKids
<1>2. ASSUME UNCHANGED history, UNCHANGED <<doing, child>>, SameKids
      PROVE  Parentage' /\ ChildrenAccounted'
  BY <1>2, QuietPipe DEF PipeInv, Parentage
<1>3. ASSUME NEW t \in Threads, Begin(t)
      PROVE  Parentage' /\ ChildrenAccounted'
  <2>1. child[t] = 0 /\ doing[t] = "idle"
    BY <1>3 DEF Begin, PipeInv, Parentage
  <2>2. CASE GoesTo(t, "pipe")
    BY <1>1, <1>3, <2>1, <2>2 DEF Begin
  <2>3. CASE UNCHANGED doing
    BY <1>2, <1>3, <2>3 DEF Begin, SameKids
  <2>. QED  BY <1>3, <2>2, <2>3 DEF Begin
<1>4. ASSUME NEW t \in Threads, RemoveFile(t)
      PROVE  Parentage' /\ ChildrenAccounted'
  BY <1>4, ForkAccounted DEF RemoveFile, history
<1>5. ASSUME NEW t \in Ids, ThreadStep(t)
      PROVE  Parentage' /\ ChildrenAccounted'
  <2>1. t \in Threads /\ doing[t] \in {"pipe", "fork", "unlink", "store"} => child[t] = 0
    BY DEF PipeInv, Parentage
  <2>2. CASE Pipe(t)
    <3>1. SameKids
      <4>1. CASE kid' = kid
        BY <4>1 DEF SameKids
      <4>2. CASE kid' = [k \in Ids |-> [kid[k] EXCEPT !.holds = @ \ {t}]]
        <5>1. \A k \in Ids : kid[k] \in KidSet
          BY DEF PipeInv, PipeTypes
        <5>. QED  BY <4>2, <5>1 DEF SameKids, KidSet
      <4>. QED  BY <2>2, <4>1, <4>2 DEF Pipe
    <3>2. PICK l \in {"fork", "idle"} : GoesTo(t, l)
      BY <2>2 DEF Pipe
    <3>3. doing[t] = "pipe" /\ doing'[t] = l /\ \A u \in Ids \ {t} : doing'[u] = doing[u]
      BY <2>2, <3>2 DEF Pipe, GoesTo, PipeInv, PipeTypes
    <3>4. UNCHANGED history /\ child' = child
      BY <2>2 DEF Pipe
    <3>5. \A u \in Ids : doing'[u] = "shell" <=> doing[u] = "shell"
      BY <3>3
    <3>6. \A u \in Threads : child[u] # 0 => doing'[u] \in {"close", "read", "wait", "shell"}
      BY <3>3 DEF PipeInv, Parentage
    <3>. QED  BY <3>1, <3>4, <3>5, <3>6, QuietPipe
  <2>3. CASE Fork(t)
    <3>1. doing[t] = "fork" /\ Free # {} /\ UNCHANGED history /\ tool[t] \in Tools
      BY <2>3 DEF Fork, PipeInv, PipeTypes
    <3>2. CASE Child(t, tool[t]) /\ GoesTo(t, "close")
      BY <3>1, <3>2, ForkAccounted
    <3>3. CASE UNCHANGED <<kid, child>> /\ (GoesTo(t, "idle") \/ GoesTo(t, "close"))
      BY <1>1, <2>1, <3>1, <3>3
    <3>. QED  BY <2>3, <3>2, <3>3 DEF Fork
  <2>4. CASE Close(t)
    BY <1>1, <2>4 DEF Close
  <2>5. CASE ReadsNothing(t)
    <3>1. doing[t] = "read" /\ kid' = kid /\ UNCHANGED <<stolen, extra>>
      BY <2>5 DEF ReadsNothing
    <3>2. CASE GivesUp(t)
      BY <3>1, <3>2, GivesUpAccounted
    <3>3. CASE GoesTo(t, "wait") /\ UNCHANGED <<child, unwaited>>
      BY <1>1, <3>1, <3>3 DEF history
    <3>. QED  BY <2>5, <3>2, <3>3 DEF ReadsNothing
  <2>6. CASE Reads(t)
    BY <1>1, <2>6 DEF Reads
  <2>7. CASE Wait(t)
    BY <2>7, CopyWaits, ThreadWaits
  <2>8. CASE Unlink(t)
    <3>1. PICK l \in {"pipe", "idle"} : GoesTo(t, l)
      BY <2>8 DEF Unlink
    <3>. QED  BY <1>1, <2>1, <2>8, <3>1 DEF Unlink
  <2>9. CASE Store(t)
    BY <1>1, <2>1, <2>9 DEF Store
  <2>10. CASE ShellEnds(t)
    BY <2>10, ShellAccounted
  <2>. QED
    BY <1>5, <2>2, <2>3, <2>4, <2>5, <2>6, <2>7, <2>8, <2>9, <2>10 DEF ThreadStep
<1>6. ASSUME NEW k \in Ids, ChildStep(k)
      PROVE  Parentage' /\ ChildrenAccounted'
  <2>1. kid[k] \in KidSet /\ UNCHANGED history /\ child' = child
    BY <1>6 DEF ChildStep, ToolWrites, Exits, ExecFails, CopyLogs, PipeInv, PipeTypes, callVars, Alone
  <2>2. SameKids
    BY <1>6, <2>1 DEF ChildStep, ToolWrites, Exits, ExecFails, CopyLogs, SameKids, KidSet, PipeInv, PipeTypes
  <2>3. CASE UNCHANGED doing
    BY <1>2, <2>1, <2>2, <2>3
  <2>4. CASE ExecFails(k)
    <3>1. k \notin Threads
      BY <2>4 DEF ExecFails, PipeInv, Parentage, Kids
    <3>2. PICK l \in {"unlink", "store"} : doing' = [doing EXCEPT ![k] = l]
      BY <2>4 DEF ExecFails
    <3>3. doing[k] # "shell" /\ doing'[k] = l /\ \A u \in Ids \ {k} : doing'[u] = doing[u]
      BY <3>1, <3>2 DEF PipeInv, PipeTypes, Parentage
    <3>4. \A u \in Threads : child[u] # 0 => doing'[u] \in {"close", "read", "wait", "shell"}
      BY <3>1, <3>3 DEF PipeInv, Parentage
    <3>5. \A u \in Ids : doing'[u] = "shell" <=> doing[u] = "shell"
      BY <3>3
    <3>. QED  BY <2>1, <2>2, <3>4, <3>5, QuietPipe
  <2>. QED  BY <1>6, <2>3, <2>4 DEF ChildStep, ToolWrites, Exits, CopyLogs, callVars
<1>7. CASE UNCHANGED pipeVars
  BY <1>2, <1>7 DEF pipeVars, callVars, SameKids
<1>. QED  BY <1>3, <1>4, <1>5, <1>6, <1>7 DEF PipeNext

\* Every child of the process is collected, owed a wait, given up (api_upload.cc:190,
\* before the wait), or was collected in the place of another, for any number of threads.
THEOREM PipeChildrenAccounted == PipeSpec => []ChildrenAccounted
<1>1. PipeInv => ChildrenAccounted
  BY DEF PipeInv
<1>. QED  BY <1>1, PipeInitEstablishes, PipeNextPreserves, PTL DEF PipeSpec

-----------------------------------------------------------------------------
(* Startup: the service starts as its file says.  First, numbers.               *)

\* Induction on numbers: of a set of them one is the least.
Before == {p \in Nat \X Nat : p[1] < p[2]}

LEMMA BeforeWellFounded == IsWellFoundedOn(Before, Nat)
BY NatLessThanWellFounded DEF OpToRel, Before

LEMMA Least ==
  ASSUME NEW S, S \subseteq Nat, S # {}
  PROVE  \E n \in S : \A m \in S : n <= m
<1>1. PICK n \in S : \A m \in S : <<m, n>> \notin Before
  BY BeforeWellFounded, WFMin
<1>2. ASSUME NEW m \in S PROVE n <= m
  <2>1. m \in Nat /\ n \in Nat
    OBVIOUS
  <2>2. ~ (m < n)
    BY <1>1, <2>1 DEF Before
  <2>. QED  BY <2>1, <2>2
<1>. QED  BY <1>2

LEMMA MinIs ==
  ASSUME NEW S, S \subseteq Nat, NEW n \in S, \A m \in S : n <= m
  PROVE  Min(S) = n
<1>1. \A x \in S : (\A y \in S : x <= y) => x = n
  OBVIOUS
<1>. QED  BY <1>1 DEF Min

LEMMA Induction ==
  ASSUME NEW S, 0 \in S, \A n \in Nat : n \in S => n + 1 \in S
  PROVE  Nat \subseteq S
<1>. SUFFICES ASSUME Nat \ S # {} PROVE FALSE
  OBVIOUS
<1>1. PICK n \in Nat \ S : \A m \in Nat \ S : n <= m
  BY Least
<1>2. n # 0 /\ n - 1 \in Nat /\ n - 1 \in S
  BY <1>1
<1>. QED  BY <1>1, <1>2

LEMMA MaxIs ==
  ASSUME NEW S, S \subseteq Nat, NEW n \in S, \A m \in S : m <= n
  PROVE  Max(S) = n
<1>1. \A x \in S : (\A y \in S : x >= y) => x = n
  OBVIOUS
<1>. QED  BY <1>1 DEF Max

-----------------------------------------------------------------------------
(* CStrExplode: the names cut out of a list are the names it joins.            *)

Step(s, sep, c, i) == IF s[i] = sep /\ i # Last(c) + 1 THEN Append(c, i) ELSE c

\* f is what Cuts computes, up to n.
Computes(s, sep, f, n) ==
  /\ DOMAIN f = 0..n /\ f[0] = <<0>>
  /\ \A i \in 1..n : f[i] = Step(s, sep, f[i - 1], i)

LEMMA Computed ==
  ASSUME NEW s, NEW sep
  PROVE  \A n \in Nat : \E f : Computes(s, sep, f, n)
<1>. DEFINE S == {n \in Nat : \E f : Computes(s, sep, f, n)}
<1>1. 0 \in S
  <2>1. Computes(s, sep, [i \in 0..0 |-> <<0>>], 0)
    BY DEF Computes
  <2>. QED  BY <2>1
<1>2. ASSUME NEW n \in Nat, n \in S PROVE n + 1 \in S
  <2>1. PICK f : Computes(s, sep, f, n)
    BY <1>2
  <2>. DEFINE g == [i \in 0..n + 1 |-> IF i = n + 1 THEN Step(s, sep, f[n], n + 1) ELSE f[i]]
  <2>2. DOMAIN g = 0..n + 1 /\ g[0] = f[0] /\ g[n + 1] = Step(s, sep, g[n], n + 1)
    OBVIOUS
  <2>3. ASSUME NEW i \in 1..n + 1 PROVE g[i] = Step(s, sep, g[i - 1], i)
    <3>1. CASE i = n + 1
      <4>1. i - 1 = n
        BY <3>1
      <4>. QED  BY <2>2, <3>1, <4>1
    <3>2. CASE i # n + 1
      <4>1. i \in 1..n /\ i - 1 \in 0..n /\ g[i] = f[i] /\ g[i - 1] = f[i - 1]
        BY <3>2
      <4>. QED  BY <2>1, <4>1 DEF Computes
    <3>. QED  BY <3>1, <3>2
  <2>. HIDE DEF g
  <2>4. Computes(s, sep, g, n + 1)
    BY <2>1, <2>2, <2>3 DEF Computes
  <2>. QED  BY <2>4
<1>. HIDE DEF S
<1>3. Nat \subseteq S
  BY <1>1, <1>2, Induction
<1>. QED  BY <1>3 DEF S

LEMMA CutsComputed ==
  ASSUME NEW s, NEW sep, Len(s) \in Nat
  PROVE  \E f : Computes(s, sep, f, Len(s)) /\ Cuts(s, sep) = f[Len(s)]
<1>. DEFINE n == Len(s)
            Rec(f) == [i \in 0..n |-> IF i = 0 THEN <<0>>
                        ELSE IF s[i] = sep /\ i # Last(f[i - 1]) + 1
                             THEN Append(f[i - 1], i) ELSE f[i - 1]]
            cuts == CHOOSE f : f = Rec(f)
<1>1. Cuts(s, sep) = cuts[n]
  BY DEF Cuts
<1>2. PICK f : Computes(s, sep, f, n)
  BY Computed
<1>3. \E g : g = Rec(g)
  <2>. DEFINE g == [i \in 0..n |-> f[i]]
  <2>1. \A i \in 0..n : g[i] = Rec(g)[i]
    <3>. SUFFICES ASSUME NEW i \in 0..n PROVE g[i] = Rec(g)[i]
      OBVIOUS
    <3>1. CASE i = 0
      BY <1>2, <3>1 DEF Computes
    <3>2. CASE i # 0
      <4>1. i \in 1..n /\ i - 1 \in 0..n
        BY <3>2
      <4>2. f[i] = Step(s, sep, f[i - 1], i)
        BY <1>2, <4>1 DEF Computes
      <4>3. g[i] = f[i] /\ g[i - 1] = f[i - 1]
        BY <4>1
      <4>4. Rec(g)[i] = Step(s, sep, g[i - 1], i)
        <5>. HIDE DEF g
        <5>. QED  BY <3>2 DEF Step
      <4>. HIDE DEF g, Rec
      <4>. QED  BY <4>2, <4>3, <4>4
    <3>. QED  BY <3>1, <3>2
  <2>2. g = Rec(g)
    BY <2>1, SMTT(60)
  <2>. QED  BY <2>2
<1>4. cuts = Rec(cuts)
  BY <1>3
<1>5. Computes(s, sep, cuts, n)
  <2>. HIDE DEF cuts
  <2>1. DOMAIN cuts = 0..n /\ cuts[0] = <<0>>
    BY <1>4
  <2>2. ASSUME NEW i \in 1..n PROVE cuts[i] = Step(s, sep, cuts[i - 1], i)
    <3>1. i \in 0..n /\ i # 0
      OBVIOUS
    <3>. QED  BY <1>4, <3>1 DEF Step
  <2>. QED  BY <2>1, <2>2 DEF Computes
<1>. QED  BY <1>1, <1>5

\* c holds 0 and the places of the commas among the first n characters, in order.
AreCuts(s, c, n) ==
  /\ c \in Seq(Nat) /\ Len(c) # 0
  /\ \A k \in 1..Len(c) : c[k] \in 0..n /\ (c[k] = 0 \/ s[c[k]] = "COMMA")
  /\ \A j, k \in 1..Len(c) : j < k => c[j] < c[k]
  /\ \A x \in 0..n : x = 0 \/ s[x] = "COMMA" => \E k \in 1..Len(c) : c[k] = x

LEMMA StepCuts ==
  ASSUME NEW s, NEW n \in Nat, n + 1 \in DOMAIN s, n = 0 \/ n \in DOMAIN s, DOMAIN s = 1..Len(s),
         Len(s) \in Nat, IsList(s), NEW c, AreCuts(s, c, n)
  PROVE  AreCuts(s, Step(s, "COMMA", c, n + 1), n + 1)
<1>. DEFINE m == n + 1
            d == Step(s, "COMMA", c, m)
            l == Len(c)
<1>1. c \in Seq(Nat) /\ l \in Nat \ {0} /\ Last(c) = c[l] /\ l \in 1..l
  BY DEF AreCuts, Last
<1>2. m \in Nat /\ m \notin 0..n /\ \A x \in 0..m : x \in 0..n \/ x = m
  OBVIOUS
<1>3. CASE s[m] = "COMMA"
  <2>1. c[l] \in 0..n /\ (c[l] = 0 \/ s[c[l]] = "COMMA")
    BY <1>1 DEF AreCuts
  <2>2. c[l] # n
    <3>1. n # 0
      <4>. SUFFICES ASSUME n = 0 PROVE FALSE
        OBVIOUS
      <4>1. m = 1
        OBVIOUS
      <4>2. 1 \in DOMAIN s /\ s[1] = "COMMA"
        BY <1>3, <4>1
      <4>. QED  BY <4>2 DEF IsList
    <3>2. s[n] # "COMMA"
      BY <1>3, <3>1 DEF IsList
    <3>. QED  BY <2>1, <3>1, <3>2
  <2>3. d = Append(c, m)
    BY <1>1, <1>3, <2>1, <2>2 DEF Step
  <2>4. /\ d \in Seq(Nat) /\ Len(d) = l + 1 /\ d[l + 1] = m
        /\ \A k \in 1..l : d[k] = c[k]
    <3>. HIDE DEF d, m
    <3>1. /\ Append(c, m) \in Seq(Nat) /\ Len(Append(c, m)) = Len(c) + 1
          /\ \A k \in 1..Len(c) : Append(c, m)[k] = c[k]
          /\ Append(c, m)[Len(c) + 1] = m
      BY <1>1, <1>2, AppendProperties
    <3>. QED  BY <2>3, <3>1
  <2>. HIDE DEF d, m
  <2>5. \A k \in 1..l + 1 : k \in 1..l \/ k = l + 1
    BY <1>1
  <2>6. \A k \in 1..l + 1 : d[k] \in 0..m /\ (d[k] = 0 \/ s[d[k]] = "COMMA")
    <3>1. \A x \in 0..n : x \in 0..m
      BY DEF m
    <3>2. m \in 0..m
      BY <1>2
    <3>. QED  BY <1>1, <1>3, <2>4, <2>5, <3>1, <3>2 DEF AreCuts
  <2>7. \A j, k \in 1..l + 1 : j < k => d[j] < d[k]
    <3>1. \A x \in 0..n : x < m
      BY DEF m
    <3>. SUFFICES ASSUME NEW j \in 1..l + 1, NEW k \in 1..l + 1, j < k PROVE d[j] < d[k]
      OBVIOUS
    <3>2. j \in 1..l
      BY <1>1
    <3>3. CASE k \in 1..l
      BY <2>4, <3>2, <3>3 DEF AreCuts
    <3>4. CASE k = l + 1
      BY <2>4, <3>1, <3>2, <3>4 DEF AreCuts
    <3>. QED  BY <2>5, <3>3, <3>4
  <2>8. \A x \in 0..m : x = 0 \/ s[x] = "COMMA" => \E k \in 1..l + 1 : d[k] = x
    <3>1. \A k \in 1..l : k \in 1..l + 1
      BY <1>1
    <3>2. l + 1 \in 1..l + 1
      BY <1>1
    <3>. SUFFICES ASSUME NEW x \in 0..m, x = 0 \/ s[x] = "COMMA" PROVE \E k \in 1..l + 1 : d[k] = x
      OBVIOUS
    <3>3. CASE x \in 0..n
      <4>1. PICK k \in 1..l : c[k] = x
        BY <3>3 DEF AreCuts
      <4>. QED  BY <2>4, <3>1, <4>1
    <3>4. CASE x = m
      BY <2>4, <3>2, <3>4
    <3>. QED  BY <1>2, <3>3, <3>4
  <2>9. AreCuts(s, d, m)
    <3>1. Len(d) # 0
      BY <1>1, <2>4
    <3>. HIDE DEF l
    <3>. QED  BY <2>4, <2>6, <2>7, <2>8, <3>1 DEF AreCuts
  <2>. QED  BY <2>9 DEF d, m
<1>4. CASE s[m] # "COMMA"
  <2>1. d = c
    BY <1>4 DEF Step
  <2>2. AreCuts(s, c, m)
    <3>1. \A x \in 0..n : x \in 0..m
      OBVIOUS
    <3>2. n < m
      OBVIOUS
    <3>3. \A x \in 0..m : x = 0 \/ s[x] = "COMMA" => x \in 0..n
      BY <1>2, <1>4
    <3>. HIDE DEF m
    <3>. QED  BY <3>1, <3>3 DEF AreCuts
  <2>. QED  BY <2>1, <2>2
<1>. QED  BY <1>3, <1>4

LEMMA ListCuts ==
  ASSUME NEW s, Len(s) \in Nat, DOMAIN s = 1..Len(s), IsList(s)
  PROVE  AreCuts(s, Cuts(s, "COMMA"), Len(s))
<1>. DEFINE n == Len(s)
<1>1. PICK f : Computes(s, "COMMA", f, n) /\ Cuts(s, "COMMA") = f[n]
  BY CutsComputed
<1>. DEFINE S == {i \in Nat : i <= n => AreCuts(s, f[i], i)}
<1>2. 0 \in S
  <2>1. f[0] = <<0>>
    BY <1>1 DEF Computes
  <2>2. AreCuts(s, <<0>>, 0)
    BY DEF AreCuts
  <2>. QED  BY <2>1, <2>2
<1>3. ASSUME NEW i \in Nat, i \in S PROVE i + 1 \in S
  <2>. SUFFICES ASSUME i + 1 <= n PROVE AreCuts(s, f[i + 1], i + 1)
    OBVIOUS
  <2>1. AreCuts(s, f[i], i) /\ i + 1 \in DOMAIN s /\ (i = 0 \/ i \in DOMAIN s)
    BY <1>3
  <2>2. f[i + 1] = Step(s, "COMMA", f[i], i + 1)
    <3>1. i + 1 \in 1..n /\ (i + 1) - 1 = i
      OBVIOUS
    <3>. HIDE DEF n, S
    <3>. QED  BY <1>1, <3>1 DEF Computes
  <2>. QED  BY <2>1, <2>2, StepCuts
<1>. HIDE DEF S
<1>4. Nat \subseteq S
  BY <1>2, <1>3, Induction
<1>. QED  BY <1>1, <1>4 DEF S

\* The last character of the k-th name of a list that is cut at c.
End(s, c, k)   == IF k = Len(c) THEN Len(s) ELSE c[k + 1] - 1
Piece(s, c, k) == SubSeq(s, c[k] + 1, End(s, c, k))
\* The places i to j of a list hold a name.
IsRun(s, i, j) ==
  /\ i \in DOMAIN s /\ j \in DOMAIN s /\ i <= j /\ \A x \in i..j : s[x] # "COMMA"
  /\ i = 1 \/ s[i - 1] = "COMMA"
  /\ j = Len(s) \/ s[j + 1] = "COMMA"

LEMMA PieceIsRun ==
  ASSUME NEW s, Len(s) \in Nat \ {0}, DOMAIN s = 1..Len(s), IsList(s),
         NEW c, AreCuts(s, c, Len(s)), NEW k \in 1..Len(c)
  PROVE  IsRun(s, c[k] + 1, End(s, c, k))
<1>. DEFINE n == Len(s)
            l == Len(c)
            i == c[k] + 1
            j == End(s, c, k)
<1>1. /\ c \in Seq(Nat) /\ l \in Nat \ {0} /\ k \in 1..l
      /\ \A m \in 1..l : c[m] \in 0..n /\ (c[m] = 0 \/ s[c[m]] = "COMMA")
      /\ \A a, b \in 1..l : a < b => c[a] < c[b]
      /\ \A x \in 0..n : x = 0 \/ s[x] = "COMMA" => \E m \in 1..l : c[m] = x
  BY DEF AreCuts
<1>2. \A x \in 1..n : s[x] = "COMMA" => x \in 2..n - 1 /\ s[x + 1] # "COMMA"
  BY DEF IsList
<1>3. c[k] \in 0..n - 1 /\ i \in 1..n /\ s[i] # "COMMA" /\ (i = 1 \/ s[i - 1] = "COMMA")
  <2>1. c[k] = 0 \/ c[k] \in 1..n
    BY <1>1
  <2>2. CASE c[k] = 0
    <3>1. i = 1 /\ i \in 1..n
      BY <2>2
    <3>2. s[1] # "COMMA"
      BY <1>2
    <3>. QED  BY <2>2, <3>1, <3>2
  <2>3. CASE c[k] \in 1..n
    <3>1. s[c[k]] = "COMMA" /\ i - 1 = c[k]
      BY <1>1, <2>3
    <3>2. c[k] \in 2..n - 1 /\ s[i] # "COMMA"
      BY <1>2, <2>3, <3>1
    <3>. QED  BY <3>1, <3>2
  <2>. QED  BY <2>1, <2>2, <2>3
<1>4. ASSUME NEW m \in 1..l, c[m] >= i PROVE k < l /\ c[m] >= c[k + 1]
  <2>1. ~(m <= k)
    <3>1. m = k \/ m < k => c[m] <= c[k]
      BY <1>1
    <3>. QED  BY <1>1, <1>3, <1>4, <3>1, SMTT(60)
  <2>2. k < l /\ k + 1 \in 1..l
    BY <1>1, <2>1
  <2>3. m = k + 1 \/ k + 1 < m
    BY <1>1, <2>1
  <2>. QED  BY <1>1, <2>2, <2>3
<1>5. CASE k = l
  <2>1. j = n
    BY <1>5 DEF End
  <2>2. ASSUME NEW x \in i..n PROVE s[x] # "COMMA"
    <3>. SUFFICES ASSUME s[x] = "COMMA" PROVE FALSE
      OBVIOUS
    <3>1. PICK m \in 1..l : c[m] = x
      BY <1>1, <1>3, SMTT(60)
    <3>2. c[m] >= i
      BY <1>3, <3>1
    <3>. QED  BY <1>4, <1>5, <3>2
  <2>. HIDE DEF i, j
  <2>3. n \in 1..n /\ i <= n
    BY <1>3
  <2>. QED  BY <1>3, <2>1, <2>2, <2>3 DEF IsRun, i, j
<1>6. CASE k # l
  <2>. DEFINE d == c[k + 1]
  <2>1. k + 1 \in 1..l /\ k < k + 1
    BY <1>1, <1>6
  <2>2. d \in 0..n /\ c[k] < d /\ (d = 0 \/ s[d] = "COMMA")
    BY <1>1, <2>1
  <2>3. j = d - 1
    BY <1>6 DEF End
  <2>4. s[d] = "COMMA" /\ d \in 1..n /\ d >= i
    BY <1>3, <2>2
  <2>5. d # i
    BY <1>3, <2>4
  <2>6. ASSUME NEW x \in i..j PROVE s[x] # "COMMA"
    <3>. SUFFICES ASSUME s[x] = "COMMA" PROVE FALSE
      OBVIOUS
    <3>1. x \in 0..n /\ x < d /\ x >= i
      BY <1>3, <2>3, <2>4
    <3>2. PICK m \in 1..l : c[m] = x
      BY <1>1, <3>1
    <3>3. x >= d
      BY <1>4, <3>1, <3>2
    <3>. QED  BY <2>2, <3>1, <3>3
  <2>. HIDE DEF i, j, d
  <2>7. j \in 1..n /\ i <= j /\ j + 1 = d
    BY <1>3, <2>3, <2>4, <2>5
  <2>. QED  BY <1>3, <2>4, <2>6, <2>7 DEF IsRun, i, j
<1>. QED  BY <1>5, <1>6

LEMMA RunIsPiece ==
  ASSUME NEW s, Len(s) \in Nat \ {0}, DOMAIN s = 1..Len(s), IsList(s),
         NEW c, AreCuts(s, c, Len(s)), NEW i \in Nat, NEW j \in Nat, IsRun(s, i, j)
  PROVE  \E k \in 1..Len(c) : i = c[k] + 1 /\ j = End(s, c, k)
<1>. DEFINE n == Len(s)
            l == Len(c)
<1>1. /\ c \in Seq(Nat) /\ l \in Nat \ {0}
      /\ \A m \in 1..l : c[m] \in 0..n /\ (c[m] = 0 \/ s[c[m]] = "COMMA")
      /\ \A a, b \in 1..l : a < b => c[a] < c[b]
      /\ \A x \in 0..n : x = 0 \/ s[x] = "COMMA" => \E m \in 1..l : c[m] = x
  BY SMTT(60) DEF AreCuts
<1>2. /\ n \in Nat /\ i \in 1..n /\ j \in 1..n /\ i <= j /\ \A x \in i..j : s[x] # "COMMA"
      /\ i = 1 \/ s[i - 1] = "COMMA"
      /\ j = n \/ s[j + 1] = "COMMA"
  BY DEF IsRun
<1>. HIDE DEF n, l
<1>3. PICK k \in 1..l : c[k] = i - 1
  <2>1. i - 1 \in 0..n /\ (i - 1 = 0 \/ s[i - 1] = "COMMA")
    BY <1>2
  <2>. QED  BY <1>1, <2>1
<1>4. CASE k = l
  <2>1. j = n
    <3>. SUFFICES ASSUME j # n PROVE FALSE
      OBVIOUS
    <3>1. j + 1 \in 0..n /\ s[j + 1] = "COMMA"
      BY <1>2
    <3>2. PICK m \in 1..l : c[m] = j + 1
      BY <1>1, <3>1
    <3>3. m <= l /\ (m < l => c[m] < c[l])
      BY <1>1, <1>4
    <3>. QED  BY <1>1, <1>2, <1>3, <1>4, <3>2, <3>3
  <2>2. i = c[k] + 1
    BY <1>2, <1>3
  <2>3. End(s, c, k) = n
    BY <1>4 DEF End, n, l
  <2>. QED  BY <1>3, <2>1, <2>2, <2>3 DEF l
<1>5. CASE k # l
  <2>. DEFINE d == c[k + 1]
  <2>1. k + 1 \in 1..l /\ k < k + 1
    BY <1>1, <1>5
  <2>2. d \in 0..n /\ c[k] < d /\ (d = 0 \/ s[d] = "COMMA")
    BY <1>1, <2>1
  <2>3. d >= i /\ s[d] = "COMMA" /\ d \in 1..n
    BY <1>2, <1>3, <2>2
  <2>4. d > j
    BY <1>2, <2>3
  <2>5. j + 1 \in 0..n /\ s[j + 1] = "COMMA"
    BY <1>2, <2>2, <2>4
  <2>6. PICK m \in 1..l : c[m] = j + 1
    BY <1>1, <2>5
  <2>7. m > k
    <3>1. m = k \/ m < k => c[m] <= c[k]
      BY <1>1
    <3>. QED  BY <1>1, <1>2, <1>3, <2>6, <3>1
  <2>8. m = k + 1 \/ k + 1 < m
    BY <2>7
  <2>9. c[m] >= d
    BY <1>1, <2>1, <2>8
  <2>. HIDE DEF d
  <2>10. j + 1 = d
    BY <1>2, <2>2, <2>4, <2>6, <2>9
  <2>11. j = d - 1 /\ i = c[k] + 1
    BY <1>2, <1>3, <2>10
  <2>12. End(s, c, k) = d - 1
    BY <1>5 DEF End, d, l
  <2>. QED  BY <1>3, <2>11, <2>12 DEF l
<1>. QED  BY <1>4, <1>5 DEF l

LEMMA ListPieces ==
  ASSUME NEW S, NEW s \in Seq(S), s # <<>>, IsList(s), NEW c, c = Cuts(s, "COMMA")
  PROVE  LET e == Explode(s, "COMMA")
         IN /\ Len(e) = Len(c) /\ DOMAIN e = 1..Len(c)
            /\ \A k \in 1..Len(c) : e[k] = Piece(s, c, k)
<1>. DEFINE n == Len(s)
            l == Len(c)
            rest == SubSeq(s, Last(c) + 1, n)
            P == {Piece(s, c, k) : k \in 1..l}
            f == [k \in 1..l - 1 |-> SubSeq(s, c[k] + 1, c[k + 1] - 1)]
<1>1. n \in Nat \ {0} /\ DOMAIN s = 1..n /\ \A i \in 1..n : s[i] \in S
  BY EmptySeq, LenProperties, ElementOfSeq
<1>2. AreCuts(s, c, n)
  BY <1>1, ListCuts
<1>3. l \in Nat \ {0} /\ l \in 1..l /\ Last(c) = c[l]
  BY <1>2 DEF AreCuts, Last
<1>4. IsRun(s, c[l] + 1, n)
  <2>1. IsRun(s, c[l] + 1, End(s, c, l))
    BY <1>1, <1>2, <1>3, PieceIsRun
  <2>. QED  BY <2>1 DEF End
<1>5. rest = Piece(s, c, l) /\ rest # <<>>
  <2>1. c[l] + 1 \in 1..n
    BY <1>1, <1>4 DEF IsRun
  <2>2. Len(rest) # 0
    <3>. DEFINE i == c[l] + 1
    <3>1. \A x \in i..n : s[x] \in S
      BY <1>1, <2>1
    <3>. HIDE DEF i
    <3>2. Len(SubSeq(s, i, n)) = n - i + 1
      BY <1>1, <2>1, <3>1, SubSeqProperties DEF i
    <3>3. Len(SubSeq(s, i, n)) # 0
      BY <1>1, <2>1, <3>2 DEF i
    <3>. QED  BY <1>3, <3>3 DEF i
  <2>3. rest = Piece(s, c, l)
    BY <1>3 DEF Piece, End
  <2>. HIDE DEF rest
  <2>. QED  BY <2>2, <2>3
<1>6. Explode(s, "COMMA") = f \o <<rest>>
  BY <1>5 DEF Explode
<1>7. ASSUME NEW k \in 1..l - 1
      PROVE  SubSeq(s, c[k] + 1, c[k + 1] - 1) \in P /\ SubSeq(s, c[k] + 1, c[k + 1] - 1) = Piece(s, c, k)
  <2>1. k \in 1..l /\ k + 1 \in 1..l /\ k < k + 1 /\ k # l
    BY <1>3
  <2>2. SubSeq(s, c[k] + 1, c[k + 1] - 1) = Piece(s, c, k)
    BY <2>1 DEF Piece, End
  <2>. QED  BY <2>1, <2>2
<1>8. <<rest>> \in Seq(P) /\ Len(<<rest>>) = 1 /\ <<rest>>[1] = rest
  <2>1. rest \in P
    BY <1>3, <1>5
  <2>. HIDE DEF rest, P
  <2>. QED  BY <2>1
<1>9. f \in Seq(P) /\ Len(f) = l - 1 /\ \A k \in 1..l - 1 : f[k] = Piece(s, c, k)
  <2>1. l - 1 \in Nat
    BY <1>3
  <2>2. \A k \in 1..l - 1 : f[k] \in P /\ f[k] = Piece(s, c, k)
    <3>. HIDE DEF P
    <3>. QED  BY <1>7
  <2>3. DOMAIN f = 1..l - 1
    OBVIOUS
  <2>. HIDE DEF f, P
  <2>4. f \in Seq(P)
    BY <1>7, <2>1, IsASeq DEF f
  <2>5. Len(f) = l - 1
    BY <2>1, <2>3, <2>4, LenProperties
  <2>. QED  BY <2>2, <2>4, <2>5
<1>. DEFINE e == f \o <<rest>>
<1>10. /\ e \in Seq(P) /\ Len(e) = Len(f) + 1
       /\ \A i \in 1..Len(f) + 1 : e[i] = IF i <= Len(f) THEN f[i] ELSE <<rest>>[i - Len(f)]
  <2>. HIDE DEF f, rest, P
  <2>. QED  BY <1>8, <1>9, ConcatProperties
<1>. HIDE DEF e, f, P
<1>11. Len(e) = l /\ DOMAIN e = 1..l
  BY <1>3, <1>9, <1>10, LenProperties
<1>12. ASSUME NEW k \in 1..l PROVE e[k] = Piece(s, c, k)
  <2>1. e[k] = IF k <= l - 1 THEN f[k] ELSE <<rest>>[k - (l - 1)]
    <3>1. k \in 1..Len(f) + 1 /\ Len(f) = l - 1
      BY <1>3, <1>9
    <3>. HIDE DEF rest, l
    <3>. QED  BY <1>10, <3>1
  <2>2. CASE k <= l - 1
    BY <1>3, <1>9, <2>1, <2>2
  <2>3. CASE ~(k <= l - 1)
    <3>1. k = l /\ k - (l - 1) = 1
      BY <1>3, <2>3
    <3>. HIDE DEF rest
    <3>. QED  BY <1>5, <1>8, <2>1, <2>3, <3>1
  <2>. QED  BY <2>2, <2>3
<1>. QED  BY <1>6, <1>11, <1>12 DEF e

\* The items of CStrExplode are the names in the list.
LEMMA ListNames ==
  ASSUME NEW S, NEW s \in Seq(S), s # <<>>, IsList(s)
  PROVE  LET e == Explode(s, "COMMA")
         IN /\ Len(e) \in Nat \ {0} /\ DOMAIN e = 1..Len(e)
            /\ {e[k] : k \in 1..Len(e)} = NamesIn(s)
<1>. DEFINE e == Explode(s, "COMMA")
            c == Cuts(s, "COMMA")
            l == Len(c)
<1>1. Len(s) \in Nat \ {0} /\ DOMAIN s = 1..Len(s)
  BY EmptySeq, LenProperties
<1>2. AreCuts(s, c, Len(s))
  BY <1>1, ListCuts
<1>3. l \in Nat \ {0}
  BY <1>2 DEF AreCuts
<1>4. Len(e) = l /\ DOMAIN e = 1..l /\ \A k \in 1..l : e[k] = Piece(s, c, k)
  BY ListPieces
<1>. HIDE DEF e, c
<1>5. NamesIn(s) = {SubSeq(s, q[1], q[2]) : q \in {r \in (DOMAIN s) \X (DOMAIN s) : IsRun(s, r[1], r[2])}}
  BY DEF NamesIn, IsRun
<1>6. ASSUME NEW k \in 1..l PROVE Piece(s, c, k) \in NamesIn(s)
  <2>1. IsRun(s, c[k] + 1, End(s, c, k))
    BY <1>1, <1>2, PieceIsRun
  <2>. DEFINE i == c[k] + 1
              j == End(s, c, k)
  <2>2. Piece(s, c, k) = SubSeq(s, i, j)
    BY DEF Piece
  <2>. HIDE DEF i, j
  <2>3. <<i, j>> \in (DOMAIN s) \X (DOMAIN s) /\ IsRun(s, i, j)
    BY <2>1 DEF IsRun, i, j
  <2>4. <<i, j>>[1] = i /\ <<i, j>>[2] = j
    OBVIOUS
  <2>. QED  BY <1>5, <2>2, <2>3, <2>4
<1>7. ASSUME NEW x \in NamesIn(s) PROVE \E k \in 1..l : x = Piece(s, c, k)
  <2>1. PICK i \in Nat, j \in Nat : x = SubSeq(s, i, j) /\ IsRun(s, i, j)
    <3>1. PICK q \in (DOMAIN s) \X (DOMAIN s) : x = SubSeq(s, q[1], q[2]) /\ IsRun(s, q[1], q[2])
      BY <1>5
    <3>2. q[1] \in Nat /\ q[2] \in Nat
      BY <1>1, <3>1
    <3>. QED  BY <3>1, <3>2
  <2>2. PICK k \in 1..l : i = c[k] + 1 /\ j = End(s, c, k)
    BY <1>1, <1>2, <2>1, RunIsPiece
  <2>. QED  BY <2>1, <2>2 DEF Piece
<1>8. {e[k] : k \in 1..l} = NamesIn(s)
  BY <1>4, <1>6, <1>7
<1>. QED  BY <1>3, <1>4, <1>8 DEF e

\* There are as many of them as CStrExplode counts.
LEMMA ListItems ==
  ASSUME NEW S, NEW s \in Seq(S), s # <<>>, IsList(s)
  PROVE  ItemCnt(s, "COMMA") = Len(Explode(s, "COMMA"))
<1>. DEFINE c == Cuts(s, "COMMA")
            l == Len(c)
            commas == {i \in DOMAIN s : s[i] = "COMMA"}
            g == [k \in 1..l - 1 |-> c[k + 1]]
<1>1. Len(s) \in Nat \ {0} /\ DOMAIN s = 1..Len(s)
  BY EmptySeq, LenProperties
<1>2. AreCuts(s, c, Len(s))
  BY <1>1, ListCuts
<1>3. l \in Nat \ {0}
  BY <1>2 DEF AreCuts
<1>4. Len(Explode(s, "COMMA")) = l
  BY ListPieces
<1>. HIDE DEF c
<1>5. c[1] = 0
  <2>1. PICK k \in 1..l : c[k] = 0
    BY <1>1, <1>2 DEF AreCuts
  <2>2. 1 \in 1..l /\ c[1] \in Nat
    BY <1>1, <1>2, <1>3 DEF AreCuts
  <2>3. 1 < k => c[1] < c[k]
    BY <1>2, <2>2 DEF AreCuts
  <2>. QED  BY <1>3, <2>1, <2>2, <2>3
<1>6. ASSUME NEW k \in 1..l - 1
      PROVE  g[k] = c[k + 1] /\ c[k + 1] \in commas
  <2>1. k + 1 \in 1..l /\ 1 \in 1..l /\ 1 < k + 1
    BY <1>3
  <2>2. c[1] < c[k + 1] /\ c[k + 1] \in 0..Len(s) /\ (c[k + 1] = 0 \/ s[c[k + 1]] = "COMMA")
    BY <1>2, <2>1 DEF AreCuts
  <2>. QED  BY <1>1, <1>5, <2>2
<1>7. g \in [1..l - 1 -> commas]
  BY <1>6
<1>8. ASSUME NEW i \in 1..l - 1, NEW k \in 1..l - 1, g[i] = g[k] PROVE i = k
  <2>1. i + 1 \in 1..l /\ k + 1 \in 1..l /\ c[i + 1] = c[k + 1] /\ c[k + 1] \in Nat
    BY <1>1, <1>3, <1>6, <1>8
  <2>2. (i + 1 < k + 1 => c[i + 1] < c[k + 1]) /\ (k + 1 < i + 1 => c[k + 1] < c[i + 1])
    BY <1>2, <2>1 DEF AreCuts
  <2>. QED  BY <2>1, <2>2
<1>9. ASSUME NEW x \in commas PROVE \E k \in 1..l - 1 : g[k] = x
  <2>1. x \in 1..Len(s) /\ s[x] = "COMMA"
    BY <1>1
  <2>2. PICK k \in 1..l : c[k] = x
    BY <1>1, <1>2, <2>1 DEF AreCuts
  <2>3. k # 1
    BY <1>5, <2>1, <2>2
  <2>. DEFINE j == k - 1
  <2>4. j \in 1..l - 1 /\ j + 1 = k
    BY <1>3, <2>3
  <2>. HIDE DEF j
  <2>5. g[j] = x
    BY <1>6, <2>2, <2>4
  <2>. QED  BY <2>4, <2>5
<1>. HIDE DEF g, commas
<1>10. ExistsBijection(1..l - 1, commas)
  <2>1. g \in Bijection(1..l - 1, commas)
    BY <1>7, <1>8, <1>9, Fun_IsBij
  <2>. QED  BY <2>1 DEF ExistsBijection
<1>11. Cardinality(commas) = l - 1
  BY <1>3, <1>10, FS_CountingElements
<1>. QED  BY <1>3, <1>4, <1>11 DEF ItemCnt, commas

-----------------------------------------------------------------------------
(* Texts, and the characters they do without.                                 *)

Chars == STRING \cup {"SP", "=", "#"}
Without(s, x) == \A i \in 1..Len(s) : s[i] # x

LEMMA Cat ==
  ASSUME NEW s \in Seq(Chars), NEW t \in Seq(Chars)
  PROVE  /\ s \o t \in Seq(Chars) /\ Len(s \o t) = Len(s) + Len(t)
         /\ Len(s) \in Nat /\ Len(t) \in Nat
         /\ \A i \in 1..Len(s) : (s \o t)[i] = s[i]
         /\ \A i \in 1..Len(t) : (s \o t)[Len(s) + i] = t[i]
BY ConcatProperties

LEMMA WithoutCat ==
  ASSUME NEW s \in Seq(Chars), NEW t \in Seq(Chars), NEW x, Without(s, x), Without(t, x)
  PROVE  Without(s \o t, x)
<1>1. /\ Len(s) \in Nat /\ Len(t) \in Nat
      /\ Len(s \o t) = Len(s) + Len(t)
      /\ \A i \in 1..Len(s) + Len(t) : (s \o t)[i] = IF i <= Len(s) THEN s[i] ELSE t[i - Len(s)]
  BY ConcatProperties
<1>. SUFFICES ASSUME NEW i \in 1..Len(s) + Len(t) PROVE (s \o t)[i] # x
  BY <1>1 DEF Without
<1>2. CASE i <= Len(s)
  <2>1. i \in 1..Len(s)
    BY <1>1, <1>2
  <2>. QED  BY <1>1, <1>2, <2>1 DEF Without
<1>3. CASE ~(i <= Len(s))
  <2>1. i - Len(s) \in 1..Len(t)
    BY <1>1, <1>3
  <2>. QED  BY <1>1, <1>3, <2>1 DEF Without
<1>. QED  BY <1>2, <1>3

LEMMA FirstCat ==
  ASSUME NEW s \in Seq(Chars), NEW t \in Seq(Chars), NEW x, Len(s) # 0, s[1] = x
  PROVE  s \o t \in Seq(Chars) /\ Len(s \o t) # 0 /\ (s \o t)[1] = x
<1>1. 1 \in 1..Len(s)
  BY Cat
<1>. QED  BY <1>1, Cat

LEMMA OneChar ==
  ASSUME NEW x \in Chars
  PROVE  <<x>> \in Seq(Chars) /\ Len(<<x>>) = 1 /\ <<x>>[1] = x
OBVIOUS

\* What is found in s behind the first k characters.
LEMMA PartIs ==
  ASSUME NEW s, NEW k \in Nat, NEW x \in Seq(Chars), \A i \in 1..Len(x) : s[k + i] = x[i],
         NEW a, a = k + 1, NEW b, b = k + Len(x)
  PROVE  SubSeq(s, a, b) = x
<1>. DEFINE n == Len(x)
<1>1. n \in Nat /\ a \in Int /\ b \in Int /\ a = k + 1 /\ b = k + n
  OBVIOUS
<1>2. CASE n = 0
  <2>1. x = <<>> /\ b < a
    BY <1>2, EmptySeq
  <2>. QED  BY <1>1, <2>1, SubSeqEmpty
<1>3. CASE n # 0
  <2>1. b - a + 1 = n /\ a <= b
    BY <1>1, <1>3
  <2>2. \A i \in 1..n : s[a + i - 1] = x[i] /\ x[i] \in Chars
    <3>1. \A i \in 1..n : a + i - 1 = k + i
      BY <1>1
    <3>. QED  BY <1>1, <3>1, ElementOfSeq
  <2>3. \A i \in a..b : s[i] \in Chars
    <3>1. \A i \in a..b : i - k \in 1..n /\ a + (i - k) - 1 = i
      <4>. HIDE DEF n
      <4>. QED  BY <1>1
    <3>. QED  BY <2>2, <3>1
  <2>4. /\ SubSeq(s, a, b) \in Seq(Chars) /\ Len(SubSeq(s, a, b)) = n
        /\ \A i \in 1..n : SubSeq(s, a, b)[i] = x[i]
    BY <1>1, <2>1, <2>2, <2>3, SubSeqProperties
  <2>. QED  BY <2>4, SeqEqual
<1>. QED  BY <1>2, <1>3

-----------------------------------------------------------------------------
(* TrimSpace: blanks at both ends are taken off, and nothing else.              *)

LEMMA TrimmedWithout ==
  ASSUME NEW s, DOMAIN s = 1..Len(s), Len(s) \in Nat, NEW k \in Nat, NEW x \in Seq(Chars), Bare(x),
         \A i \in DOMAIN s : s[i] # "SP" => i \in k + 1..k + Len(x),
         \A i \in 1..Len(x) : k + i \in DOMAIN s /\ s[k + i] = x[i]
  PROVE  TrimSpace(s) = x
<1>. DEFINE solid == {i \in DOMAIN s : s[i] # "SP"}
            n == Len(x)
<1>1. n \in Nat /\ solid \subseteq Nat
  OBVIOUS
<1>2. CASE n = 0
  <2>1. solid = {} /\ x = <<>>
    BY <1>1, <1>2, EmptySeq
  <2>. QED  BY <2>1 DEF TrimSpace
<1>3. CASE n # 0
  <2>1. 1 \in 1..n /\ n \in 1..n /\ x[1] # "SP" /\ x[n] # "SP"
    BY <1>1, <1>3 DEF Bare
  <2>2. k + 1 \in solid /\ k + n \in solid
    BY <2>1
  <2>3. \A i \in solid : k + 1 <= i /\ i <= k + n
    BY <1>1
  <2>. HIDE DEF solid
  <2>. DEFINE a == k + 1
              b == k + n
  <2>4. a \in solid /\ b \in solid /\ \A i \in solid : a <= i /\ i <= b
    BY <2>2, <2>3
  <2>. HIDE DEF a, b
  <2>5. Min(solid) = a /\ Max(solid) = b
    BY <1>1, <2>4, MinIs, MaxIs
  <2>6. SubSeq(s, a, b) = x
    BY PartIs DEF a, b
  <2>7. TrimSpace(s) = SubSeq(s, a, b)
    <3>1. solid # {}
      BY <2>4
    <3>. QED  BY <2>5, <3>1 DEF TrimSpace, solid
  <2>. QED  BY <2>6, <2>7
<1>. QED  BY <1>2, <1>3

LEMMA Trimmed ==
  ASSUME NEW x \in Seq(Chars), Bare(x), NEW b, b = <<>> \/ b = <<"SP">>
  PROVE  TrimSpace((b \o x) \o b) = x
<1>. DEFINE n == Len(x)
            s == (b \o x) \o b
            k == Len(b)
<1>1. /\ b \in Seq(Chars) /\ k \in {0, 1} /\ n \in Nat
      /\ \A i \in 1..k : b[i] = "SP"
  <2>1. "SP" \in Chars
    BY DEF Chars
  <2>2. CASE b = <<>>
    BY <2>2
  <2>3. CASE b = <<"SP">>
    BY <2>1, <2>3, OneChar
  <2>. QED  BY <2>2, <2>3
<1>2. /\ b \o x \in Seq(Chars) /\ Len(b \o x) = k + n
      /\ \A i \in 1..k + n : (b \o x)[i] = IF i <= k THEN b[i] ELSE x[i - k]
  BY <1>1, ConcatProperties
<1>3. /\ s \in Seq(Chars) /\ Len(s) = (k + n) + k
      /\ \A i \in 1..(k + n) + k : s[i] = IF i <= k + n THEN (b \o x)[i] ELSE b[i - (k + n)]
  <2>. DEFINE y == b \o x
  <2>1. y \in Seq(Chars) /\ Len(y) = k + n
    BY <1>2
  <2>. HIDE DEF y
  <2>2. /\ y \o b \in Seq(Chars) /\ Len(y \o b) = Len(y) + Len(b)
        /\ \A i \in 1..Len(y) + Len(b) : (y \o b)[i] = IF i <= Len(y) THEN y[i] ELSE b[i - Len(y)]
    BY <1>1, <2>1, ConcatProperties
  <2>. QED  BY <2>1, <2>2 DEF y
<1>. HIDE DEF s
<1>4. DOMAIN s = 1..Len(s) /\ Len(s) \in Nat
  BY <1>3, LenProperties
<1>5. \A i \in 1..n : k + i \in DOMAIN s /\ s[k + i] = x[i]
  <2>. SUFFICES ASSUME NEW i \in 1..n PROVE k + i \in DOMAIN s /\ s[k + i] = x[i]
    OBVIOUS
  <2>. DEFINE m == k + i
  <2>1. m \in 1..k + n /\ m \in 1..(k + n) + k /\ m <= k + n /\ ~(m <= k) /\ m - k = i
    BY <1>1
  <2>. HIDE DEF k, n, m
  <2>2. s[m] = (b \o x)[m]
    BY <1>3, <2>1
  <2>3. (b \o x)[m] = x[i]
    BY <1>2, <2>1
  <2>. QED  BY <1>3, <1>4, <2>1, <2>2, <2>3 DEF m
<1>6. \A i \in DOMAIN s : s[i] # "SP" => i \in k + 1..k + n
  <2>. SUFFICES ASSUME NEW i \in 1..(k + n) + k, i \notin k + 1..k + n PROVE s[i] = "SP"
    BY <1>3, <1>4
  <2>1. CASE i <= k
    <3>1. i \in 1..k /\ i \in 1..k + n /\ i <= k + n
      BY <1>1, <2>1
    <3>. HIDE DEF k, n
    <3>2. s[i] = (b \o x)[i] /\ (b \o x)[i] = b[i] /\ b[i] = "SP"
      BY <1>1, <1>2, <1>3, <2>1, <3>1
    <3>. QED  BY <3>2
  <2>2. CASE ~(i <= k)
    <3>1. ~(i <= k + n) /\ i - (k + n) \in 1..k
      BY <1>1, <2>2
    <3>. HIDE DEF k, n
    <3>. QED  BY <1>1, <1>3, <3>1
  <2>. QED  BY <2>1, <2>2
<1>7. k \in Nat
  BY <1>1
<1>. HIDE DEF k, n
<1>8. TrimSpace(s) = x
  BY <1>4, <1>5, <1>6, <1>7, TrimmedWithout DEF n
<1>. QED  BY <1>8 DEF s

-----------------------------------------------------------------------------
(* A line of the file: what was written is what is read.                         *)

LEMMA SplitParts ==
  ASSUME NEW l \in Seq(Chars), NEW r \in Seq(Chars), Without(l, "="), NEW s,
         Len(s) = (Len(l) + 1) + Len(r), s[Len(l) + 1] = "=",
         \A i \in 1..Len(l) : s[i] = l[i],
         \A i \in 1..Len(r) : s[(Len(l) + 1) + i] = r[i], NEW map
  PROVE  ParseLine(map, s) = IF <<>> \in {TrimSpace(l), TrimSpace(r)} THEN map
                             ELSE Insert(map, TrimSpace(l), TrimSpace(r))
<1>. DEFINE n == Len(l)
            m == Len(r)
<1>2. n \in Nat /\ m \in Nat
  OBVIOUS
<1>4. Len(s) = (n + 1) + m /\ \A i \in 1..m : s[(n + 1) + i] = r[i]
  OBVIOUS
<1>5. /\ s[n + 1] = "=" /\ n + 1 \in 1..Len(s)
      /\ \A i \in 1..n : s[i] = l[i] /\ s[i] # "="
  <2>1. n + 1 \in 1..Len(s)
    BY <1>2
  <2>2. \A i \in 1..n : l[i] # "="
    BY DEF Without
  <2>. QED  BY <2>1, <2>2
<1>6. SelectInSeq(s, LAMBDA c : c = "=") = n + 1
  <2>. DEFINE I == {i \in 1..Len(s) : s[i] = "="}
  <2>1. I \subseteq Nat /\ n + 1 \in I
    BY <1>4, <1>5
  <2>2. \A i \in I : n + 1 <= i
    <3>. SUFFICES ASSUME NEW i \in I, ~(n + 1 <= i) PROVE FALSE
      OBVIOUS
    <3>1. i \in 1..n
      BY <1>2, <1>4
    <3>. QED  BY <1>5, <3>1
  <2>3. Min(I) = n + 1
    <3>. DEFINE a == n + 1
    <3>1. a \in I /\ \A i \in I : a <= i
      BY <2>1, <2>2
    <3>. HIDE DEF I, a
    <3>2. Min(I) = a
      BY <2>1, <3>1, MinIs
    <3>. QED  BY <3>2 DEF a
  <2>. QED  BY <2>1, <2>3 DEF SelectInSeq
<1>7. SubSeq(s, 1, n) = l
  <2>1. 1 = 0 + 1 /\ n = 0 + n /\ 0 \in Nat /\ \A i \in 1..n : s[0 + i] = l[i]
    BY <1>2, <1>5
  <2>. QED  BY <2>1, PartIs
<1>8. SubSeq(s, n + 2, Len(s)) = r
  <2>1. n + 1 \in Nat /\ n + 2 = (n + 1) + 1
    BY <1>2
  <2>. QED  BY <1>4, <2>1, PartIs
<1>9. n + 1 # 0 /\ (n + 1) - 1 = n /\ (n + 1) + 1 = n + 2
  BY <1>2
<1>. HIDE DEF n
<1>. DEFINE eq == SelectInSeq(s, LAMBDA c : c = "=")
<1>10. ParseLine(map, s) =
         LET key == TrimSpace(SubSeq(s, 1, eq - 1))
             value == TrimSpace(SubSeq(s, eq + 1, Len(s)))
         IN IF eq = 0 \/ <<>> \in {key, value} THEN map ELSE Insert(map, key, value)
  BY DEF ParseLine
<1>11. eq = n + 1
  BY <1>6
<1>. HIDE DEF eq
<1>. QED  BY <1>7, <1>8, <1>9, <1>10, <1>11

\* A text is split at its first "=".
LEMMA Joined ==
  ASSUME NEW l \in Seq(Chars), NEW r \in Seq(Chars)
  PROVE  LET s == (l \o <<"=">>) \o r
         IN /\ s \in Seq(Chars) /\ Len(s) = (Len(l) + 1) + Len(r) /\ s[Len(l) + 1] = "="
            /\ \A i \in 1..Len(l) : s[i] = l[i]
            /\ \A i \in 1..Len(r) : s[(Len(l) + 1) + i] = r[i]
<1>. DEFINE n == Len(l)
            m == Len(r)
            x == l \o <<"=">>
            s == x \o r
<1>1. <<"=">> \in Seq(Chars) /\ Len(<<"=">>) = 1 /\ <<"=">>[1] = "="
  BY OneChar DEF Chars
<1>2. n \in Nat /\ m \in Nat
  OBVIOUS
<1>3. x \in Seq(Chars) /\ Len(x) = n + 1 /\ x[n + 1] = "=" /\ \A i \in 1..n : x[i] = l[i]
  <2>1. /\ x \in Seq(Chars) /\ Len(x) = n + Len(<<"=">>)
        /\ \A i \in 1..n : x[i] = l[i]
        /\ \A i \in 1..Len(<<"=">>) : x[n + i] = <<"=">>[i]
    BY <1>1, Cat
  <2>2. 1 \in 1..Len(<<"=">>)
    BY <1>1
  <2>. QED  BY <1>1, <2>1, <2>2
<1>. HIDE DEF x
<1>4. /\ s \in Seq(Chars) /\ Len(s) = (n + 1) + m
      /\ \A i \in 1..n + 1 : s[i] = x[i]
      /\ \A i \in 1..m : s[(n + 1) + i] = r[i]
  <2>1. /\ x \o r \in Seq(Chars) /\ Len(x \o r) = Len(x) + Len(r)
        /\ \A i \in 1..Len(x) : (x \o r)[i] = x[i]
        /\ \A i \in 1..Len(r) : (x \o r)[Len(x) + i] = r[i]
    BY <1>3, Cat
  <2>. QED  BY <1>3, <2>1
<1>. HIDE DEF s
<1>5. n + 1 \in 1..n + 1 /\ \A i \in 1..n : i \in 1..n + 1
  BY <1>2
<1>6. s[n + 1] = "=" /\ \A i \in 1..n : s[i] = l[i]
  <2>. HIDE DEF n, m
  <2>. QED  BY <1>3, <1>4, <1>5
<1>. QED  BY <1>4, <1>6 DEF s, x

\* A comment is cut off.
LEMMA CutOff ==
  ASSUME NEW y \in Seq(Chars), Without(y, "#"), NEW m, m = <<>> \/ m = <<"#", "=">>
  PROVE  Uncommented(y \o m) = y
<1>. DEFINE n == Len(y)
<1>1. n \in Nat
  OBVIOUS
<1>2. CASE m = <<>>
  <2>1. y \o m = y
    BY <1>2, ConcatEmptySeq
  <2>2. {i \in 1..n : y[i] = "#"} = {}
    BY DEF Without
  <2>. QED  BY <2>1, <2>2 DEF Uncommented, SelectInSeq
<1>3. CASE m = <<"#", "=">>
  <2>. DEFINE s == y \o m
  <2>1. m \in Seq(Chars) /\ Len(m) = 2 /\ m[1] = "#" /\ 1 \in 1..Len(m)
    BY <1>3 DEF Chars
  <2>2. /\ s \in Seq(Chars) /\ Len(s) = n + 2
        /\ \A i \in 1..n : s[i] = y[i]
        /\ s[n + 1] = "#"
    <3>1. /\ s \in Seq(Chars) /\ Len(s) = n + Len(m)
          /\ \A i \in 1..n : s[i] = y[i]
          /\ \A i \in 1..Len(m) : s[n + i] = m[i]
      BY <2>1, Cat
    <3>. HIDE DEF s
    <3>. QED  BY <2>1, <3>1
  <2>. HIDE DEF s
  <2>. DEFINE I == {i \in 1..Len(s) : s[i] = "#"}
  <2>3. I \subseteq Nat /\ n + 1 \in I
    BY <1>1, <2>2
  <2>4. \A i \in I : n + 1 <= i
    <3>. SUFFICES ASSUME NEW i \in I, ~(n + 1 <= i) PROVE FALSE
      OBVIOUS
    <3>1. i \in 1..n
      BY <1>1, <2>2
    <3>. QED  BY <2>2, <3>1 DEF Without
  <2>5. SelectInSeq(s, LAMBDA c : c = "#") = n + 1
    <3>. DEFINE a == n + 1
    <3>1. a \in I /\ \A i \in I : a <= i
      BY <2>3, <2>4
    <3>2. Min(I) = a
      <4>. HIDE DEF I, a
      <4>. QED  BY <2>3, <3>1, MinIs
    <3>3. I # {}
      BY <2>3
    <3>. HIDE DEF a
    <3>. QED  BY <3>2, <3>3 DEF SelectInSeq, a
  <2>6. Uncommented(s) = SubSeq(s, 1, n)
    <3>1. n + 1 # 0 /\ (n + 1) - 1 = n
      BY <1>1
    <3>. HIDE DEF n
    <3>. QED  BY <2>5, <3>1 DEF Uncommented
  <2>7. SubSeq(s, 1, n) = y
    <3>1. 1 = 0 + 1 /\ n = 0 + n /\ 0 \in Nat /\ \A i \in 1..n : s[0 + i] = y[i]
      BY <1>1, <2>2
    <3>. QED  BY <3>1, PartIs
  <2>. QED  BY <2>6, <2>7 DEF s
<1>. QED  BY <1>2, <1>3

\* What a line has on the left and on the right of "=", and its remark.
Left(e)   == (Blank(e) \o e.name) \o Blank(e)
Right(e)  == (Blank(e) \o e.value) \o Blank(e)
Remark(e) == IF e.remark THEN <<"#", "=">> ELSE <<>>
Body(e)   == (Left(e) \o <<"=">>) \o Right(e)

LEMMA EntryParts ==
  ASSUME NEW e, IsEntry(e)
  PROVE  /\ e.name \in Seq(Chars) /\ e.value \in Seq(Chars) /\ e.name # <<>>
         /\ Blank(e) \in Seq(Chars) /\ (Blank(e) = <<>> \/ Blank(e) = <<"SP">>)
         /\ Remark(e) \in Seq(Chars) /\ (Remark(e) = <<>> \/ Remark(e) = <<"#", "=">>)
         /\ <<"=">> \in Seq(Chars) /\ Bare(e.name) /\ Bare(e.value)
         /\ Without(e.name, "=") /\ Without(e.name, "#") /\ Without(e.value, "#")
         /\ e.commented \in BOOLEAN
<1>1. e.name \in Seq(STRING) /\ e.value \in Seq(STRING) /\ e.name # <<>>
  BY DEF IsEntry
<1>2. STRING \subseteq Chars /\ "SP" \in Chars /\ "#" \in Chars /\ "=" \in Chars
  BY DEF Chars
<1>3. e.name \in Seq(Chars) /\ e.value \in Seq(Chars)
  BY <1>1, <1>2, SeqMonotonic
<1>4. Blank(e) \in Seq(Chars) /\ (Blank(e) = <<>> \/ Blank(e) = <<"SP">>)
  BY <1>2 DEF Blank
<1>5. Remark(e) \in Seq(Chars) /\ (Remark(e) = <<>> \/ Remark(e) = <<"#", "=">>)
  BY <1>2 DEF Remark
<1>6. Without(e.name, "=") /\ Without(e.name, "#") /\ Without(e.value, "#")
  <2>1. DOMAIN e.name = 1..Len(e.name) /\ DOMAIN e.value = 1..Len(e.value)
    BY <1>3, LenProperties
  <2>. QED  BY <2>1 DEF Without, IsEntry
<1>7. <<"=">> \in Seq(Chars)
  BY <1>2, OneChar
<1>. QED  BY <1>1, <1>3, <1>4, <1>5, <1>6, <1>7 DEF IsEntry

LEMMA SideWithout ==
  ASSUME NEW b, b = <<>> \/ b = <<"SP">>, b \in Seq(Chars), NEW x \in Seq(Chars), NEW c, c # "SP", Without(x, c)
  PROVE  (b \o x) \o b \in Seq(Chars) /\ Without((b \o x) \o b, c)
<1>1. Without(b, c)
  <2>1. CASE b = <<>>
    BY <2>1 DEF Without
  <2>2. CASE b = <<"SP">>
    <3>1. Len(<<"SP">>) = 1 /\ <<"SP">>[1] = "SP"
      OBVIOUS
    <3>. QED  BY <2>2, <3>1 DEF Without
  <2>. QED  BY <2>1, <2>2
<1>2. b \o x \in Seq(Chars) /\ Without(b \o x, c)
  BY <1>1, Cat, WithoutCat
<1>. QED  BY <1>1, <1>2, Cat, WithoutCat

LEMMA BodyParts ==
  ASSUME NEW e, IsEntry(e)
  PROVE  /\ Left(e) \in Seq(Chars) /\ Right(e) \in Seq(Chars) /\ Body(e) \in Seq(Chars)
         /\ Without(Left(e), "=") /\ Without(Body(e), "#")
<1>1. Left(e) \in Seq(Chars) /\ Without(Left(e), "=") /\ Without(Left(e), "#")
  <2>1. "=" # "SP" /\ "#" # "SP"
    OBVIOUS
  <2>. QED  BY <2>1, EntryParts, SideWithout DEF Left
<1>2. Right(e) \in Seq(Chars) /\ Without(Right(e), "#")
  <2>1. "#" # "SP"
    OBVIOUS
  <2>. QED  BY <2>1, EntryParts, SideWithout DEF Right
<1>3. <<"=">> \in Seq(Chars) /\ Without(<<"=">>, "#")
  <2>1. "=" \in Chars
    BY DEF Chars
  <2>2. <<"=">> \in Seq(Chars) /\ Len(<<"=">>) = 1 /\ <<"=">>[1] = "="
    BY <2>1, OneChar
  <2>. QED  BY <2>2 DEF Without
<1>4. Left(e) \o <<"=">> \in Seq(Chars) /\ Without(Left(e) \o <<"=">>, "#")
  BY <1>1, <1>3, Cat, WithoutCat
<1>5. Body(e) \in Seq(Chars) /\ Without(Body(e), "#")
  BY <1>2, <1>4, Cat, WithoutCat DEF Body
<1>. QED  BY <1>1, <1>2, <1>5

LEMMA LineIs ==
  ASSUME NEW e, IsEntry(e), e.commented = FALSE
  PROVE  Line(e) = Body(e) \o Remark(e)
<1>. DEFINE b == Blank(e)
            q == <<"=">>
            x == Left(e) \o q
            v == e.value
<1>1. b \in Seq(Chars) /\ q \in Seq(Chars) /\ v \in Seq(Chars) /\ e.name \in Seq(Chars)
  BY EntryParts
<1>2. <<>> \o b = b
  BY <1>1, ConcatEmptySeq
<1>3. Line(e) = (((x \o b) \o v) \o b) \o Remark(e)
  <2>1. Line(e) = ((((((<<>> \o b) \o e.name) \o b) \o q) \o b) \o v) \o b \o Remark(e)
    BY DEF Line, Remark
  <2>2. ((<<>> \o b) \o e.name) \o b = Left(e)
    BY <1>2 DEF Left
  <2>. HIDE DEF b, q
  <2>. QED  BY <2>1, <2>2
<1>4. x \in Seq(Chars)
  BY <1>1, BodyParts, Cat
<1>. HIDE DEF x, b, q, v
<1>5. b \o v \in Seq(Chars)
  BY <1>1, Cat
<1>6. \A r, s, t \in Seq(Chars) : (r \o s) \o t = r \o (s \o t)
  BY ConcatAssociative, SMTT(60)
<1>7. Body(e) = x \o ((b \o v) \o b)
  BY DEF Body, Right, x, b, v, q
<1>8. (x \o b) \o v = x \o (b \o v)
  BY <1>1, <1>4, <1>6
<1>9. (x \o (b \o v)) \o b = x \o ((b \o v) \o b)
  BY <1>1, <1>4, <1>5, <1>6, ZenonT(60)
<1>. QED  BY <1>3, <1>7, <1>8, <1>9

LEMMA CommentedLine ==
  ASSUME NEW e, IsEntry(e), e.commented = TRUE
  PROVE  Uncommented(Line(e)) = <<>>
<1>. DEFINE b == Blank(e)
            Hash(s) == s \in Seq(Chars) /\ Len(s) # 0 /\ s[1] = "#"
<1>1. b \in Seq(Chars) /\ <<"=">> \in Seq(Chars) /\ e.value \in Seq(Chars) /\ e.name \in Seq(Chars)
      /\ Remark(e) \in Seq(Chars)
  BY EntryParts
<1>2. Hash(<<"#">>)
  BY OneChar DEF Chars
<1>3. \A s : \A t \in Seq(Chars) : Hash(s) => Hash(s \o t)
  BY FirstCat
<1>4. Line(e) = (((((((<<"#">> \o b) \o e.name) \o b) \o <<"=">>) \o b) \o e.value) \o b) \o Remark(e)
  BY DEF Line, Remark
<1>. DEFINE s == Line(e)
<1>5. Hash(s)
  <2>. HIDE DEF b, Hash
  <2>1. Hash(((<<"#">> \o b) \o e.name) \o b)
    BY <1>1, <1>2, <1>3
  <2>2. Hash((((<<"#">> \o b) \o e.name) \o b) \o <<"=">>)
    BY <1>1, <1>3, <2>1
  <2>3. Hash((((((<<"#">> \o b) \o e.name) \o b) \o <<"=">>) \o b) \o e.value)
    BY <1>1, <1>3, <2>2
  <2>. QED  BY <1>1, <1>3, <1>4, <2>3
<1>. HIDE DEF s
<1>. DEFINE I == {i \in 1..Len(s) : s[i] = "#"}
<1>6. I \subseteq Nat /\ 1 \in I /\ \A i \in I : 1 <= i
  <2>1. 1 \in 1..Len(s)
    BY <1>5
  <2>. QED  BY <1>5, <2>1
<1>7. SelectInSeq(s, LAMBDA c : c = "#") = 1
  <2>1. I # {}
    BY <1>6
  <2>2. Min(I) = 1
    <3>. HIDE DEF I
    <3>. QED  BY <1>6, MinIs
  <2>. QED  BY <2>1, <2>2 DEF SelectInSeq
<1>8. Uncommented(s) = SubSeq(s, 1, 0)
  BY <1>7 DEF Uncommented
<1>. QED  BY <1>8, SubSeqEmpty DEF s

LEMMA NothingParsed == ASSUME NEW map PROVE ParseLine(map, <<>>) = map
<1>1. {i \in 1..Len(<<>>) : <<>>[i] = "="} = {}
  OBVIOUS
<1>. QED  BY <1>1 DEF ParseLine, SelectInSeq

\* What a round of _LoadFile does with a line.
LEMMA LineParsed ==
  ASSUME NEW e, IsEntry(e), NEW map
  PROVE  ParseLine(map, Uncommented(Line(e)))
           = IF e.commented \/ e.value = <<>> THEN map ELSE Insert(map, e.name, e.value)
<1>1. CASE e.commented = TRUE
  BY <1>1, CommentedLine, NothingParsed
<1>2. CASE e.commented = FALSE
  <2>. DEFINE s == Body(e)
  <2>1. Uncommented(Line(e)) = s
    BY <1>2, LineIs, BodyParts, EntryParts, CutOff
  <2>2. /\ Len(s) = (Len(Left(e)) + 1) + Len(Right(e)) /\ s[Len(Left(e)) + 1] = "="
        /\ \A i \in 1..Len(Left(e)) : s[i] = Left(e)[i]
        /\ \A i \in 1..Len(Right(e)) : s[(Len(Left(e)) + 1) + i] = Right(e)[i]
    BY BodyParts, Joined DEF Body
  <2>. HIDE DEF s
  <2>3. ParseLine(map, s) = IF <<>> \in {TrimSpace(Left(e)), TrimSpace(Right(e))} THEN map
                            ELSE Insert(map, TrimSpace(Left(e)), TrimSpace(Right(e)))
    BY <2>2, BodyParts, SplitParts
  <2>4. TrimSpace(Left(e)) = e.name /\ TrimSpace(Right(e)) = e.value
    BY EntryParts, Trimmed DEF Left, Right
  <2>9. e.name # <<>>
    BY EntryParts
  <2>. QED  BY <1>2, <2>1, <2>3, <2>4, <2>9
<1>. QED  BY <1>1, <1>2, EntryParts

-----------------------------------------------------------------------------
(* The file: config_map_ has the first value of every name read so far.          *)

\* config_map_ has the first value of every name in the lines read so far.
ConfigInv ==
  /\ file \in Files /\ lines_read \in 0..Len(file)
  /\ \A n : n \in DOMAIN config_map <=> \E i \in 1..lines_read : i \in Meant(n)
  /\ \A n \in DOMAIN config_map : \E i \in Meant(n) :
       config_map[n] = file[i].value /\ \A j \in Meant(n) : i <= j

LEMMA FileIs ==
  ASSUME file \in Files
  PROVE  /\ Len(file) \in Nat /\ DOMAIN file = 1..Len(file)
         /\ \A i \in 1..Len(file) : IsEntry(file[i])
         /\ \A n : Meant(n) \subseteq 1..Len(file)
<1>1. file \in Seq(Range(file)) /\ \A i \in DOMAIN file : IsEntry(file[i])
  BY FilesAssumption
<1>2. Len(file) \in Nat /\ DOMAIN file = 1..Len(file)
  BY <1>1, LenProperties
<1>. QED  BY <1>1, <1>2 DEF Meant

LEMMA ConfigStarts == StartupInit => ConfigInv
<1>. SUFFICES ASSUME StartupInit PROVE ConfigInv
  OBVIOUS
<1>1. Len(file) \in Nat /\ 0 \in 0..Len(file)
  BY FileIs DEF StartupInit
<1>2. DOMAIN config_map = {}
  BY DEF StartupInit
<1>. QED  BY <1>1, <1>2 DEF StartupInit, ConfigInv

LEMMA ConfigRead == ConfigInv /\ LoadLine => ConfigInv'
<1>. SUFFICES ASSUME ConfigInv, LoadLine PROVE ConfigInv'
  OBVIOUS
<1>. DEFINE k == lines_read + 1
            e == file[k]
<1>1. /\ Len(file) \in Nat /\ DOMAIN file = 1..Len(file)
      /\ \A i \in 1..Len(file) : IsEntry(file[i])
      /\ \A n : Meant(n) \subseteq 1..Len(file)
  BY FileIs DEF ConfigInv
<1>2. lines_read \in Nat /\ k \in 1..Len(file) /\ lines_read' = k /\ file' = file /\ k \notin 1..lines_read
      /\ 1..k = (1..lines_read) \cup {k}
  BY <1>1 DEF ConfigInv, LoadLine
<1>3. \A n : Meant(n)' = Meant(n)
  BY <1>2 DEF Meant
<1>4. config_map' = IF e.commented \/ e.value = <<>> THEN config_map ELSE Insert(config_map, e.name, e.value)
  BY <1>1, <1>2, LineParsed DEF LoadLine
<1>5. \A n : k \in Meant(n) <=> n = e.name /\ ~(e.commented \/ e.value = <<>>)
  BY <1>1, <1>2 DEF Meant
<1>. HIDE DEF e, k
<1>6. CASE e.commented \/ e.value = <<>>
  <2>1. \A n : (\E i \in 1..k : i \in Meant(n)) <=> (\E i \in 1..lines_read : i \in Meant(n))
    BY <1>2, <1>5, <1>6
  <2>2. config_map' = config_map
    BY <1>4, <1>6
  <2>3. file' \in Files /\ lines_read' \in 0..Len(file')
    BY <1>1, <1>2 DEF ConfigInv
  <2>. QED  BY <1>2, <1>3, <2>1, <2>2, <2>3 DEF ConfigInv
<1>7. CASE ~(e.commented \/ e.value = <<>>)
  <2>1. /\ DOMAIN config_map' = DOMAIN config_map \cup {e.name}
        /\ \A n \in DOMAIN config_map : config_map'[n] = config_map[n]
        /\ e.name \notin DOMAIN config_map => config_map'[e.name] = e.value
    BY <1>4, <1>7 DEF Insert
  <2>2. ASSUME NEW n PROVE n \in DOMAIN config_map' <=> \E i \in 1..k : i \in Meant(n)
    BY <1>2, <1>5, <1>7, <2>1 DEF ConfigInv
  <2>3. ASSUME NEW n \in DOMAIN config_map'
        PROVE  \E i \in Meant(n) : config_map'[n] = file[i].value /\ \A j \in Meant(n) : i <= j
    <3>1. CASE n \in DOMAIN config_map
      BY <2>1, <3>1 DEF ConfigInv
    <3>2. CASE n \notin DOMAIN config_map
      <4>1. n = e.name /\ config_map'[n] = e.value /\ k \in Meant(n)
        BY <1>5, <1>7, <2>1, <2>3, <3>2
      <4>2. ASSUME NEW j \in Meant(n) PROVE k <= j
        <5>1. j \notin 1..lines_read /\ j \in 1..Len(file)
          BY <1>1, <3>2 DEF ConfigInv
        <5>. QED  BY <1>1, <1>2, <5>1 DEF k
      <4>. QED  BY <4>1, <4>2 DEF e
    <3>. QED  BY <3>1, <3>2
  <2>4. file' \in Files /\ lines_read' \in 0..Len(file')
    BY <1>1, <1>2 DEF ConfigInv
  <2>. QED  BY <1>2, <1>3, <2>2, <2>3, <2>4 DEF ConfigInv
<1>. QED  BY <1>6, <1>7

LEMMA ConfigStays == ConfigInv /\ UNCHANGED <<file, lines_read, config_map>> => ConfigInv'
<1>. SUFFICES ASSUME ConfigInv, UNCHANGED <<file, lines_read, config_map>> PROVE ConfigInv'
  OBVIOUS
<1>1. \A n : Meant(n)' = Meant(n)
  BY DEF Meant
<1>. QED  BY <1>1 DEF ConfigInv

\* Once the file is read the map is what a reader of the file takes it to be.
LEMMA ConfigIs ==
  ASSUME ConfigInv, lines_read = Len(file), NEW n
  PROVE  /\ n \in DOMAIN config_map <=> Meant(n) # {}
         /\ n \in DOMAIN config_map => /\ config_map[n] = FirstValue(n) /\ FirstValue(n) # <<>>
                                       /\ \E i \in 1..Len(file) : file[i].name = n /\ FirstValue(n) = file[i].value
<1>1. Meant(n) \subseteq 1..Len(file) /\ Len(file) \in Nat
  BY FileIs DEF ConfigInv
<1>2. n \in DOMAIN config_map <=> Meant(n) # {}
  BY <1>1 DEF ConfigInv
<1>3. ASSUME n \in DOMAIN config_map
      PROVE  /\ config_map[n] = FirstValue(n) /\ FirstValue(n) # <<>>
             /\ \E i \in 1..Len(file) : file[i].name = n /\ FirstValue(n) = file[i].value
  <2>1. PICK i \in Meant(n) : config_map[n] = file[i].value /\ \A j \in Meant(n) : i <= j
    BY <1>3 DEF ConfigInv
  <2>2. Min(Meant(n)) = i
    <3>1. Meant(n) \subseteq Nat
      BY <1>1
    <3>. QED  BY <2>1, <3>1, MinIs
  <2>3. file[i].name = n /\ file[i].value # <<>>
    BY DEF Meant
  <2>. QED  BY <1>1, <2>1, <2>2, <2>3 DEF FirstValue
<1>. QED  BY <1>2, <1>3

\* If no list has an empty name, the names that are opened are those in the list
\* that stands in the file.
LEMMA NamesAre ==
  ASSUME ConfigInv, lines_read = Len(file), NEW kind \in Kinds, Configured({List[kind]}), ListsWhole
  PROVE  /\ Len(Names(kind)) \in Nat \ {0} /\ DOMAIN Names(kind) = 1..Len(Names(kind))
         /\ {Names(kind)[k] : k \in 1..Len(Names(kind))} = Needed(kind)
         /\ Items(kind) = Len(Names(kind))
<1>. DEFINE n == List[kind]
            s == FirstValue(n)
<1>1. n \in DOMAIN config_map
  BY DEF Configured
<1>2. config_map[n] = s /\ s # <<>> /\ Meant(n) # {}
  BY <1>1, ConfigIs
<1>3. PICK i \in 1..Len(file) : file[i].name = n /\ s = file[i].value
  BY <1>1, ConfigIs
<1>4. IsEntry(file[i])
  BY FileIs DEF ConfigInv
<1>5. s \in Seq(STRING)
  BY <1>3, <1>4 DEF IsEntry
<1>6. IsList(s)
  BY <1>2 DEF ListsWhole
<1>7. Names(kind) = Explode(s, "COMMA") /\ Items(kind) = ItemCnt(s, "COMMA") /\ Needed(kind) = NamesIn(s)
  BY <1>2 DEF Names, Items, Needed
<1>. HIDE DEF s
<1>8. LET e == Explode(s, "COMMA")
      IN Len(e) \in Nat \ {0} /\ DOMAIN e = 1..Len(e) /\ {e[k] : k \in 1..Len(e)} = NamesIn(s)
  BY <1>2, <1>5, <1>6, ListNames
<1>9. ItemCnt(s, "COMMA") = Len(Explode(s, "COMMA"))
  BY <1>2, <1>5, <1>6, ListItems
<1>. QED  BY <1>7, <1>8, <1>9

-----------------------------------------------------------------------------
(* The pools: what main() has opened at each stage.                              *)

\* The pools of the first k names in a list.
Opened(kind, k) == {Pool(kind, Names(kind)[j]) : j \in 1..k}
AllOf(kind)     == {Pool(kind, n) : n \in Needed(kind)}

\* The whole file is read before anything is opened.
StageInv ==
  /\ ConfigInv /\ instance \in Nat \ {0}
  /\ main \in {"load", "cache", "upload", "db", "serving", "exit", "died"}
  /\ main # "load" => lines_read = Len(file)

HonestInv ==
  \A p \in pools : p = Pool(p.kind, p.name) /\ \A key \in Needs(p.kind, p.name) : Meant(key) # {}

HandedInv == main \in {"db", "serving"} => handed = [n \in UploadSettings |-> FirstValue(n)]

\* Without empty names: what main() has opened when it is at a manager, and that it
\* goes on only when everything before is open.
OpenedInv ==
  /\ main = "load" => instance = 1 /\ pools = {}
  /\ main = "cache" => pools = Opened("cache", instance - 1)
  /\ main = "upload" => instance = 1 /\ pools = AllOf("cache")
  /\ main = "db" => pools = AllOf("cache") \cup Opened("db", instance - 1)
  /\ main = "serving" => pools = AllOf("cache") \cup AllOf("db")
  /\ main = "exit" => Lacks
  /\ main # "died"

PoolsInv == StageInv /\ HonestInv /\ HandedInv /\ (ListsWhole => OpenedInv)

LEMMA KindsAre == "cache" \in Kinds /\ "db" \in Kinds /\ \A k \in Kinds : k = "cache" \/ k = "db"
BY DEF Kinds

LEMMA NothingOpened == ASSUME NEW kind PROVE Opened(kind, 0) = {} /\ Opened(kind, 1 - 1) = {}
BY DEF Opened

LEMMA AllOpened ==
  ASSUME ConfigInv, lines_read = Len(file), NEW kind \in Kinds, Configured({List[kind]}), ListsWhole
  PROVE  Opened(kind, Len(Names(kind))) = AllOf(kind)
BY NamesAre DEF Opened, AllOf

\* A pool is opened with what the file says.
LEMMA PoolIs ==
  ASSUME ConfigInv, lines_read = Len(file), NEW kind, NEW name, Configured(Needs(kind, name))
  PROVE  /\ [kind |-> kind, name |-> name,
             with |-> [s \in Settings[kind] |-> config_map[Append(name, s)]]] = Pool(kind, name)
         /\ \A key \in Needs(kind, name) : Meant(key) # {}
<1>1. ASSUME NEW key \in Needs(kind, name)
      PROVE  config_map[key] = FirstValue(key) /\ Meant(key) # {}
  <2>1. key \in DOMAIN config_map
    BY DEF Configured
  <2>. QED  BY <2>1, ConfigIs
<1>2. \A s \in Settings[kind] : config_map[Append(name, s)] = FirstValue(Append(name, s))
  BY <1>1 DEF Needs
<1>. QED  BY <1>1, <1>2 DEF Pool

\* The pool of an instance that is opened: a name that is listed twice has one.
LEMMA OneMore ==
  ASSUME ConfigInv, lines_read = Len(file), NEW kind \in Kinds, instance \in Nat \ {0}, ListsWhole,
         NEW others, \A p \in others : p.kind # kind, OpenPool(kind), pools = others \cup Opened(kind, instance - 1)
  PROVE  pools' = others \cup Opened(kind, instance)
<1>. DEFINE n == Names(kind)[instance]
            there == \E p \in pools : p.kind = kind /\ p.name = n
            new == [kind |-> kind, name |-> n,
                    with |-> [s \in Settings[kind] |-> config_map[Append(n, s)]]]
<1>0. Item(kind) = {n}
  <2>1. Configured({List[kind]}) /\ instance \in 1..Items(kind)
    BY DEF OpenPool, Opening
  <2>2. Stored(kind)
    BY <2>1, NamesAre DEF Stored
  <2>. QED  BY <2>2 DEF Item
<1>1. pools' = (IF there THEN pools ELSE pools \cup {new}) /\ Configured(Needs(kind, n))
  BY <1>0 DEF OpenPool
<1>3. new = Pool(kind, n)
  BY <1>1, PoolIs
<1>. HIDE DEF n, there, new
<1>4. Opened(kind, instance) = Opened(kind, instance - 1) \cup {Pool(kind, n)}
  <2>1. 1..instance = 1..(instance - 1) \cup {instance}
    OBVIOUS
  <2>. QED  BY <2>1 DEF Opened, n
<1>5. CASE there
  <2>1. PICK p \in pools : p.kind = kind /\ p.name = n
    BY <1>5 DEF there
  <2>2. p \in Opened(kind, instance - 1)
    BY <2>1
  <2>3. p = Pool(kind, n)
    BY <2>1, <2>2 DEF Opened, Pool
  <2>. QED  BY <1>1, <1>4, <1>5, <2>2, <2>3
<1>6. CASE ~there
  BY <1>1, <1>3, <1>4, <1>6
<1>. QED  BY <1>5, <1>6

LEMMA PoolsStart == StartupInit => PoolsInv
<1>. SUFFICES ASSUME StartupInit PROVE PoolsInv
  OBVIOUS
<1>1. StageInv
  BY ConfigStarts DEF StartupInit, StageInv
<1>2. HonestInv /\ HandedInv /\ OpenedInv
  BY DEF StartupInit, HonestInv, HandedInv, OpenedInv
<1>. QED  BY <1>1, <1>2 DEF PoolsInv

\* What is meant does not change.
LEMMA MeantStays ==
  ASSUME UNCHANGED file
  PROVE  /\ \A n : Meant(n)' = Meant(n) /\ FirstValue(n)' = FirstValue(n)
         /\ \A kind, n : Pool(kind, n)' = Pool(kind, n)
         /\ \A kind : AllOf(kind)' = AllOf(kind)
         /\ ListsWhole' = ListsWhole
<1>1. \A n : Meant(n)' = Meant(n)
  BY DEF Meant
<1>2. \A n : FirstValue(n)' = FirstValue(n)
  BY <1>1 DEF FirstValue
<1>4. \A kind, n : Pool(kind, n)' = Pool(kind, n)
  BY <1>2 DEF Pool
<1>6. \A kind : AllOf(kind)' = AllOf(kind)
  BY <1>2, <1>4 DEF AllOf, Needed
<1>7. ListsWhole' = ListsWhole
  BY <1>1, <1>2 DEF ListsWhole
<1>. QED  BY <1>1, <1>2, <1>4, <1>6, <1>7

\* Neither does what is opened, once the file is read.
LEMMA OpenedStays ==
  ASSUME UNCHANGED <<file, lines_read, config_map, up>>
  PROVE  /\ \A kind : Opened(kind, instance - 1)' = Opened(kind, instance' - 1)
         /\ Lacks' = Lacks
<1>1. \A n : Meant(n)' = Meant(n) /\ FirstValue(n)' = FirstValue(n)
  BY MeantStays
<1>2. \A kind : Names(kind)' = Names(kind)
  BY DEF Names
<1>3. \A kind, n : Pool(kind, n)' = Pool(kind, n)
  BY MeantStays
<1>4. \A kind : Opened(kind, instance - 1)' = Opened(kind, instance' - 1)
  BY <1>2, <1>3 DEF Opened
<1>5. Lacks' = Lacks
  BY <1>1 DEF Lacks, Needed, Needs, Host
<1>. QED  BY <1>4, <1>5

\* A manager ends the process only for a reason that the file or the hosts give.
LEMMA ExitLacks ==
  ASSUME ConfigInv, lines_read = Len(file), NEW kind \in Kinds, ListsWhole,
         NoInstances(kind) \/ NotConfigured(kind) \/ Unreachable(kind)
  PROVE  Lacks
<1>1. CASE NoInstances(kind)
  <2>1. List[kind] \notin DOMAIN config_map
    BY <1>1 DEF NoInstances, Configured
  <2>2. Meant(List[kind]) = {}
    BY <2>1, ConfigIs
  <2>. QED  BY <2>2 DEF Lacks
<1>2. CASE NotConfigured(kind) \/ Unreachable(kind)
  <2>. DEFINE n == Names(kind)[instance]
  <2>1. Opening(kind) /\ Configured({List[kind]})
    BY <1>2 DEF NotConfigured, Unreachable, Opening
  <2>2. n \in Needed(kind) /\ Item(kind) = {n}
    BY <2>1, NamesAre DEF Opening, Item, Stored
  <2>. HIDE DEF n
  <2>3. CASE ~Configured(Needs(kind, n))
    <3>1. PICK key \in Needs(kind, n) : key \notin DOMAIN config_map
      BY <2>3 DEF Configured
    <3>2. Meant(key) = {}
      BY <3>1, ConfigIs
    <3>. QED  BY <2>2, <3>2 DEF Lacks
  <2>4. CASE Configured(Needs(kind, n)) /\ config_map[Host(n)] \notin up
    <3>1. Host(n) \in Needs(kind, n)
      <4>1. "_host" \in Settings[kind]
        BY KindsAre DEF Settings
      <4>. QED  BY <4>1 DEF Needs, Host
    <3>2. Host(n) \in DOMAIN config_map /\ config_map[Host(n)] \notin up
      BY <2>4, <3>1 DEF Configured
    <3>3. FirstValue(Host(n)) \notin up
      BY <3>2, ConfigIs
    <3>. QED  BY <2>2, <3>3 DEF Lacks
  <2>. QED  BY <1>2, <2>2, <2>3, <2>4 DEF NotConfigured, Unreachable
<1>. QED  BY <1>1, <1>2

\* Every step but the reading of a line leaves what was read.
Fixed == UNCHANGED <<file, lines_read, config_map, up>>

LEMMA StageNext ==
  ASSUME StageInv, [StartupNext]_startupVars
  PROVE  StageInv' /\ UNCHANGED <<file, up>> /\ (LoadLine \/ Fixed)
<1>1. CASE LoadLine
  BY <1>1, ConfigRead DEF StageInv, LoadLine
<1>2. ASSUME Fixed, instance' \in Nat \ {0}, main # "load" \/ lines_read = Len(file),
             main' \in {"cache", "upload", "db", "serving", "exit", "died"}
      PROVE  StageInv'
  BY <1>2, ConfigStays DEF StageInv, Fixed
<1>3. CASE Loaded
  BY <1>2, <1>3 DEF Loaded, StageInv, Fixed
<1>4. CASE UploadInit
  BY <1>2, <1>4 DEF UploadInit, Ends, StageInv, Fixed
<1>5. ASSUME NEW kind \in Kinds,
             NoInstances(kind) \/ NotConfigured(kind) \/ Unreachable(kind) \/ Dies(kind)
      PROVE  StageInv' /\ Fixed
  <2>1. main \in {"cache", "db"} /\ Fixed /\ instance' = instance /\ main' \in {"exit", "died"}
    BY <1>5, KindsAre DEF NoInstances, NotConfigured, Unreachable, Dies, Opening, Ends, Fixed
  <2>. QED  BY <1>2, <2>1 DEF StageInv
<1>6. ASSUME NEW kind \in Kinds, OpenPool(kind) \/ AllOpen(kind)
      PROVE  StageInv' /\ Fixed
  <2>1. main \in {"cache", "db"} /\ Fixed /\ instance' \in {1, instance + 1}
        /\ main' \in {"cache", "upload", "db", "serving"}
    BY <1>6, KindsAre DEF OpenPool, Opening, AllOpen, Fixed
  <2>. QED  BY <1>2, <2>1 DEF StageInv
<1>7. CASE UNCHANGED startupVars
  BY <1>7, ConfigStays DEF StageInv, startupVars, Fixed
<1>. QED
  BY <1>1, <1>3, <1>4, <1>5, <1>6, <1>7 DEF StartupNext, Fixed, LoadLine, Loaded, UploadInit, Ends

LEMMA HonestNext ==
  ASSUME StageInv, HonestInv, [StartupNext]_startupVars
  PROVE  HonestInv'
<1>1. /\ \A n : Meant(n)' = Meant(n)
      /\ \A kind, n : Pool(kind, n)' = Pool(kind, n)
      /\ \A kind, n : Needs(kind, n)' = Needs(kind, n)
  BY StageNext, MeantStays DEF Needs
<1>2. CASE pools' = pools
  BY <1>1, <1>2 DEF HonestInv
<1>3. ASSUME NEW kind \in Kinds, OpenPool(kind), pools' # pools
      PROVE  HonestInv'
  <2>1. PICK name \in Item(kind) :
          /\ Configured(Needs(kind, name))
          /\ pools' = pools \cup {[kind |-> kind, name |-> name,
                                   with |-> [s \in Settings[kind] |-> config_map[Append(name, s)]]]}
    BY <1>3 DEF OpenPool
  <2>2. main # "load"
    BY <1>3, KindsAre DEF OpenPool, Opening
  <2>3. pools' = pools \cup {Pool(kind, name)} /\ \A key \in Needs(kind, name) : Meant(key) # {}
    BY <2>1, <2>2, PoolIs DEF StageInv
  <2>4. Pool(kind, name).kind = kind /\ Pool(kind, name).name = name
    BY DEF Pool
  <2>5. \A p \in pools' : p = Pool(p.kind, p.name) /\ \A key \in Needs(p.kind, p.name) : Meant(key) # {}
    BY <2>3, <2>4 DEF HonestInv
  <2>. QED  BY <1>1, <2>5 DEF HonestInv
<1>4. pools' = pools \/ \E kind \in Kinds : OpenPool(kind)
  BY DEF StartupNext, LoadLine, Loaded, UploadInit, NoInstances, NotConfigured, Unreachable, Dies, AllOpen,
     Ends, startupVars
<1>. QED  BY <1>2, <1>3, <1>4

LEMMA HandedNext ==
  ASSUME StageInv, HandedInv, [StartupNext]_startupVars
  PROVE  HandedInv'
<1>1. \A n : FirstValue(n)' = FirstValue(n)
  BY StageNext, MeantStays
<1>2. ASSUME handed' = handed, main' \in {"db", "serving"} => main \in {"db", "serving"}
      PROVE  HandedInv'
  BY <1>1, <1>2 DEF HandedInv
<1>3. CASE UploadInit
  <2>1. CASE main' # "db"
    BY <1>3, <2>1 DEF UploadInit, Ends, HandedInv
  <2>2. CASE main' = "db"
    <3>1. Configured(UploadSettings) /\ handed' = [n \in UploadSettings |-> config_map[n]]
      BY <1>3, <2>2 DEF UploadInit, Ends
    <3>2. ConfigInv /\ lines_read = Len(file)
      BY <1>3 DEF UploadInit, StageInv
    <3>3. ASSUME NEW n \in UploadSettings PROVE config_map[n] = FirstValue(n)
      <4>1. n \in DOMAIN config_map
        BY <3>1 DEF Configured
      <4>. QED  BY <3>2, <4>1, ConfigIs
    <3>4. handed' = [n \in UploadSettings |-> FirstValue(n)]
      BY <3>1, <3>3
    <3>. QED  BY <1>1, <3>4 DEF HandedInv
  <2>. QED  BY <2>1, <2>2
<1>4. CASE LoadLine \/ Loaded
  BY <1>2, <1>4 DEF LoadLine, Loaded
<1>5. ASSUME NEW kind \in Kinds,
             NoInstances(kind) \/ NotConfigured(kind) \/ Unreachable(kind) \/ Dies(kind)
      PROVE  HandedInv'
  BY <1>2, <1>5 DEF NoInstances, NotConfigured, Unreachable, Dies, Ends
<1>6. ASSUME NEW kind \in Kinds, OpenPool(kind) \/ AllOpen(kind)
      PROVE  HandedInv'
  BY <1>2, <1>6, KindsAre DEF OpenPool, AllOpen
<1>7. CASE UNCHANGED startupVars
  BY <1>2, <1>7 DEF startupVars
<1>. QED  BY <1>3, <1>4, <1>5, <1>6, <1>7 DEF StartupNext

LEMMA OpenedNext ==
  ASSUME StageInv, OpenedInv, ListsWhole, [StartupNext]_startupVars
  PROVE  OpenedInv'
<1>0. StageInv' /\ UNCHANGED <<file, up>> /\ (LoadLine \/ Fixed)
  BY StageNext
<1>m. /\ AllOf("cache")' = AllOf("cache") /\ AllOf("db")' = AllOf("db")
      /\ Fixed => /\ \A kind : Opened(kind, instance - 1)' = Opened(kind, instance' - 1)
                  /\ Lacks' = Lacks
  BY <1>0, MeantStays, OpenedStays DEF Fixed
<1>1. CASE LoadLine
  BY <1>1 DEF LoadLine, OpenedInv
<1>3. CASE Loaded
  <2>1. Fixed /\ main' = "cache" /\ instance' - 1 = 0 /\ pools' = {}
    BY <1>3 DEF Loaded, OpenedInv, Fixed
  <2>2. Opened("cache", instance - 1)' = {}
    BY <1>m, <2>1, NothingOpened
  <2>. QED  BY <2>1, <2>2 DEF OpenedInv
<1>4. CASE UploadInit
  <2>0. Fixed /\ main = "upload" /\ instance' = instance /\ instance = 1 /\ pools' = pools /\ pools = AllOf("cache")
    BY <1>4 DEF UploadInit, Ends, OpenedInv, Fixed
  <2>1. CASE main' = "db"
    <3>1. Opened("db", instance - 1)' = {}
      <4>1. instance' - 1 = 0
        BY <2>0
      <4>. QED  BY <1>m, <2>0, <4>1, NothingOpened
    <3>. QED  BY <1>m, <2>0, <2>1, <3>1 DEF OpenedInv
  <2>2. CASE main' # "db"
    <3>1. ~Configured(UploadSettings) /\ main' = "exit"
      BY <1>4, <2>2 DEF UploadInit, Ends
    <3>2. PICK n \in UploadSettings : n \notin DOMAIN config_map
      BY <3>1 DEF Configured
    <3>3. ConfigInv /\ lines_read = Len(file)
      BY <2>0 DEF StageInv
    <3>4. Meant(n) = {}
      BY <3>2, <3>3, ConfigIs
    <3>5. Lacks'
      BY <1>m, <2>0, <3>4 DEF Lacks
    <3>. QED  BY <3>1, <3>5 DEF OpenedInv
  <2>. QED  BY <2>1, <2>2
<1>5. ASSUME NEW kind \in Kinds, NoInstances(kind) \/ NotConfigured(kind) \/ Unreachable(kind)
      PROVE  OpenedInv'
  <2>1. main \in {"cache", "db"} /\ Fixed /\ main' = "exit"
    BY <1>5, KindsAre DEF NoInstances, NotConfigured, Unreachable, Opening, Ends, Fixed
  <2>2. Lacks
    BY <1>5, <2>1, ExitLacks DEF StageInv
  <2>. QED  BY <1>m, <2>1, <2>2 DEF OpenedInv
<1>6. ASSUME NEW kind \in Kinds, OpenPool(kind) PROVE OpenedInv'
  <2>1. /\ main = kind /\ Fixed /\ main' = main /\ instance' = instance + 1
        /\ instance' - 1 = instance /\ instance \in Nat \ {0} /\ main # "load"
    BY <1>6, KindsAre DEF OpenPool, Opening, StageInv, Fixed
  <2>2. lines_read = Len(file) /\ ConfigInv
    BY <2>1 DEF StageInv
  <2>3. Opened(kind, instance - 1)' = Opened(kind, instance)
    BY <1>m, <2>1
  <2>4. CASE kind = "cache"
    <3>1. pools' = {} \cup Opened(kind, instance)
      <4>1. pools = {} \cup Opened(kind, instance - 1)
        BY <2>1, <2>4 DEF OpenedInv
      <4>. QED  BY <1>6, <2>1, <2>2, <4>1, OneMore
    <3>. QED  BY <2>1, <2>3, <2>4, <3>1 DEF OpenedInv
  <2>5. CASE kind = "db"
    <3>1. pools' = AllOf("cache") \cup Opened(kind, instance)
      <4>1. pools = AllOf("cache") \cup Opened(kind, instance - 1)
        BY <2>1, <2>5 DEF OpenedInv
      <4>2. \A p \in AllOf("cache") : p.kind # kind
        BY <2>5 DEF AllOf, Pool
      <4>. QED  BY <1>6, <2>1, <2>2, <4>1, <4>2, OneMore
    <3>. QED  BY <1>m, <2>1, <2>3, <2>5, <3>1 DEF OpenedInv
  <2>. QED  BY <2>4, <2>5, KindsAre
<1>7. ASSUME NEW kind \in Kinds, AllOpen(kind) PROVE OpenedInv'
  <2>1. /\ main = kind /\ Fixed /\ pools' = pools /\ Configured({List[kind]})
        /\ instance = Items(kind) + 1 /\ instance' = 1 /\ main # "load"
        /\ main' = IF kind = "cache" THEN "upload" ELSE "serving"
    BY <1>7, KindsAre DEF AllOpen, Fixed
  <2>2. lines_read = Len(file) /\ ConfigInv
    BY <2>1 DEF StageInv
  <2>3. Len(Names(kind)) \in Nat /\ Opened(kind, Len(Names(kind))) = AllOf(kind) /\ Items(kind) = Len(Names(kind))
    BY <2>1, <2>2, NamesAre, AllOpened
  <2>4. Opened(kind, instance - 1) = AllOf(kind)
    <3>1. instance - 1 = Len(Names(kind))
      BY <2>1, <2>3
    <3>. QED  BY <2>3, <3>1
  <2>5. CASE kind = "cache"
    BY <1>m, <2>1, <2>4, <2>5 DEF OpenedInv
  <2>6. CASE kind = "db"
    BY <1>m, <2>1, <2>4, <2>6 DEF OpenedInv
  <2>. QED  BY <2>5, <2>6, KindsAre
<1>8. ASSUME NEW kind \in Kinds, Dies(kind) PROVE FALSE
  <2>1. main # "load" /\ Configured({List[kind]}) /\ Len(Names(kind)) < Items(kind)
    BY <1>8, KindsAre DEF Dies
  <2>2. Items(kind) = Len(Names(kind)) /\ Len(Names(kind)) \in Nat
    BY <2>1, NamesAre DEF StageInv
  <2>. QED  BY <2>1, <2>2
<1>9. CASE UNCHANGED startupVars
  <2>1. Fixed /\ main' = main /\ instance' = instance /\ pools' = pools
    BY <1>9 DEF startupVars, Fixed
  <2>. QED  BY <1>m, <2>1 DEF OpenedInv
<1>. QED  BY <1>1, <1>3, <1>4, <1>5, <1>6, <1>7, <1>8, <1>9 DEF StartupNext

LEMMA PoolsNext == PoolsInv /\ [StartupNext]_startupVars => PoolsInv'
<1>. SUFFICES ASSUME PoolsInv, [StartupNext]_startupVars PROVE PoolsInv'
  OBVIOUS
<1>1. StageInv' /\ HonestInv' /\ HandedInv'
  BY StageNext, HonestNext, HandedNext DEF PoolsInv
<1>2. ListsWhole' => ListsWhole
  BY StageNext, MeantStays DEF PoolsInv
<1>3. ListsWhole => OpenedInv'
  BY OpenedNext DEF PoolsInv
<1>. QED  BY <1>1, <1>2, <1>3 DEF PoolsInv

LEMMA PoolsServe == PoolsInv => ServesAsConfigured
<1>. SUFFICES ASSUME PoolsInv PROVE ServesAsConfigured
  OBVIOUS
<1>1. UNION {{Pool(kind, n) : n \in Needed(kind)} : kind \in Kinds} = AllOf("cache") \cup AllOf("db")
  BY KindsAre DEF AllOf
<1>2. ListsWhole => /\ main = "serving" => pools = AllOf("cache") \cup AllOf("db")
                    /\ main = "exit" => Lacks
                    /\ main # "died"
  BY DEF PoolsInv, OpenedInv
<1>3. HonestInv /\ HandedInv
  BY DEF PoolsInv
<1>. QED  BY <1>1, <1>2, <1>3 DEF ServesAsConfigured, HonestInv, HandedInv

\* For any file, with any number of lines and of instances in its lists, and any
\* hosts: what is opened has the settings that the file gives for its name
\* (CacheManager::Init, CDBManager::Init), and uploads have theirs (ApiUploadInit).
\* If no list has an empty name, the server accepts connections only with a pool
\* for every listed instance, and does not end unless the file or a host lets it
\* down; where CStrExplode meets an empty name, nothing of that is claimed.
THEOREM StartsAsConfigured == StartupSpec => []ServesAsConfigured
BY PoolsStart, PoolsNext, PoolsServe, PTL DEF StartupSpec
=============================================================================
