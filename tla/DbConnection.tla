---------------------------- MODULE DbConnection ----------------------------
(***************************************************************************)
(* One CDBConn: its MySQL session, statements with the mysql_ping before   *)
(* each, and transactions.  The table is one value, so that a statement    *)
(* can change it or not.  The server may close the session, and may do so  *)
(* after a statement was carried out and before its answer arrived.        *)
(***************************************************************************)
EXTENDS Naturals

CONSTANTS
  MaxLosses    \* bound: times the session is closed by the server or the network

ASSUME DbConnectionAssumption == MaxLosses \in Nat

VARIABLES
  session,     \* the server has the session of mysql_
  server,      \* the server accepts connections
  table,       \* what other sessions see
  work,        \* what this session sees: differs from table in a transaction
  in_txn,      \* the session is in a transaction
  wants_txn,   \* the caller is between StartTransaction and Commit or Rollback
  stmt, place, \* the statement being carried out and the place in it
  did, said,   \* the server has carried it out; what the caller was told
  in_doubt,    \* history: a statement was carried out and reported as failed,
               \* other than for having changed nothing
  losses

dbData == <<table, work, in_txn>>
dbNet  == <<session, server, losses>>
dbCall == <<stmt, did, said, wants_txn, in_doubt>>
dbVars == <<dbData, dbNet, dbCall, place>>

Values == {0, 1}

\* ExecuteUpdate with and without care_affected_rows, a prepared insert, a
\* statement whose rows nobody counts (ExecuteCreate, ExecuteDrop,
\* ExecutePassQuery), ExecuteQuery and the statements of transactions.
Statements ==
  [kind : {"update", "update_any", "prepared", "pass"}, value : Values]
    \cup [kind : {"query", "start", "commit", "rollback"}, value : {0}]

Kind == stmt.kind
NoStatement == [kind |-> "none", value |-> 0]

DbInit ==
  /\ session = FALSE /\ server \in BOOLEAN /\ losses = 0
  /\ table = 0 /\ work = 0 /\ in_txn = FALSE /\ wants_txn = FALSE
  /\ stmt = NoStatement /\ place = "closed" /\ did = FALSE /\ said = TRUE
  /\ in_doubt = FALSE

-----------------------------------------------------------------------------
(* CDBConn::Init; the pool deletes a connection whose Init fails, and may try *)
(* again with a new one.                                                      *)

Connect ==
  /\ place \in {"closed", "deleted"}
  /\ \/ server /\ session' = TRUE /\ place' = "idle"
     \/ ~server /\ place' = "deleted" /\ UNCHANGED session
  /\ UNCHANGED <<dbData, server, losses, dbCall>>

-----------------------------------------------------------------------------
(* Statements *)

\* Nothing in the repository calls StartTransaction, Commit or Rollback; a caller
\* that would pairs them, with nothing but statements in between.
Execute(s) ==
  /\ place = "idle"
  /\ s.kind = "start" => ~wants_txn
  /\ s.kind \in {"commit", "rollback"} => wants_txn
  /\ stmt' = s /\ place' = "ping" /\ did' = FALSE
  /\ UNCHANGED <<dbData, dbNet, said, wants_txn, in_doubt>>

\* Mutant: MYSQL_OPT_RECONNECT is set.
Ping_Reconnects ==
  /\ place = "ping"
  /\ session' = server
  /\ place' = IF Kind = "prepared" THEN "prepare" ELSE "query"
  /\ UNCHANGED <<dbData, server, losses, dbCall>>

\* mysql_ping: its answer is ignored, and without MYSQL_OPT_RECONNECT (db_pool.cc:208
\* is commented out) a lost session is not opened again.
Ping ==
  /\ place = "ping"
  /\ place' = IF Kind = "prepared" THEN "prepare" ELSE "query"
  /\ UNCHANGED <<dbData, dbNet, dbCall>>

Told(b) ==
  /\ said' = b /\ place' = "idle"
  /\ wants_txn' = IF Kind = "start" THEN b
                  ELSE wants_txn /\ (Kind \notin {"commit", "rollback"} \/ ~b)
  /\ in_doubt' = (in_doubt \/ (did /\ ~b /\ place # "unchanged"))

\* CPrepareStatement::Init: without a session there is no statement to execute.
Prepare ==
  /\ place = "prepare"
  /\ \/ session /\ place' = "query" /\ UNCHANGED <<said, wants_txn, in_doubt>>
     \/ ~session /\ Told(FALSE)
  /\ UNCHANGED <<dbData, dbNet, stmt, did>>

\* The server carries the statement out; outside a transaction at once for all.
ServerExecutes ==
  /\ place = "query" /\ session /\ ~did
  /\ did' = TRUE
  /\ CASE Kind = "start"    -> in_txn' = TRUE /\ UNCHANGED <<table, work>>
       [] Kind = "commit"   -> in_txn' = FALSE /\ table' = work /\ UNCHANGED work
       [] Kind = "rollback" -> in_txn' = FALSE /\ work' = table /\ UNCHANGED table
       [] Kind = "query"    -> UNCHANGED <<table, work, in_txn>>
       [] OTHER -> /\ work' = stmt.value
                   /\ table' = IF in_txn THEN table ELSE stmt.value
                   /\ UNCHANGED in_txn
  /\ place' = IF Kind \in {"update", "prepared"} /\ work = stmt.value
              THEN "unchanged" ELSE "answer"
  /\ UNCHANGED <<dbNet, stmt, said, wants_txn, in_doubt>>

\* The answer arrives.  "unchanged": no row was affected, which ExecuteUpdate with
\* care_affected_rows and a prepared statement report as a failure.
Answered ==
  /\ place \in {"answer", "unchanged"} /\ session
  /\ Told(place = "answer")
  /\ UNCHANGED <<dbData, dbNet, stmt, did>>

\* mysql_real_query or mysql_stmt_execute fails.
QueryFails ==
  /\ place \in {"query", "answer", "unchanged"} /\ ~session
  /\ Told(FALSE)
  /\ UNCHANGED <<dbData, dbNet, stmt, did>>

-----------------------------------------------------------------------------
(* The server and the network *)

\* The session ends, and with it an open transaction.
SessionLost ==
  /\ session /\ losses < MaxLosses
  /\ session' = FALSE /\ losses' = losses + 1
  /\ in_txn' = FALSE /\ work' = table
  /\ server' \in BOOLEAN
  /\ UNCHANGED <<table, dbCall, place>>

ServerBack ==
  /\ ~server
  /\ server' = TRUE
  /\ UNCHANGED <<dbData, session, losses, dbCall, place>>

Statement == Ping \/ Prepare \/ ServerExecutes \/ Answered \/ QueryFails

DbNext ==
  \/ Connect \/ (\E s \in Statements : Execute(s)) \/ Statement
  \/ SessionLost \/ ServerBack

DbSpec == DbInit /\ [][DbNext]_dbVars

-----------------------------------------------------------------------------
(* Properties *)

DbTypeOK ==
  /\ session \in BOOLEAN /\ server \in BOOLEAN /\ losses \in 0..MaxLosses
  /\ table \in Values /\ work \in Values
  /\ in_txn \in BOOLEAN /\ wants_txn \in BOOLEAN
  /\ stmt \in Statements \cup {NoStatement}
  /\ place \in {"closed", "deleted", "idle", "ping", "prepare", "query", "answer", "unchanged"}
  /\ did \in BOOLEAN /\ said \in BOOLEAN /\ in_doubt \in BOOLEAN

\* A statement that was carried out although its caller was told that it failed
\* is the last one this connection carries out: the handler that goes on with its
\* error path on the same connection, like handleDealMd5, changes nothing more.
InDoubtIsLast == [][in_doubt /\ ~did => ~did']_dbVars

\* A caller that has started a transaction and not ended it changes nothing that
\* others see: a lost session is not replaced in its middle.
TransactionsAreWhole ==
  [][wants_txn /\ Kind # "commit" => table' = table]_dbVars

\* After mysql_ping, with the server up, the connection has a session
\* (db_pool.cc:88 and :248 say that it reconnects a lost one).
PingReconnects == [][place = "ping" /\ place' # "ping" /\ server => session']_dbVars
=============================================================================
