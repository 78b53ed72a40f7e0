------------------------------- MODULE MCEdges -------------------------------
(***************************************************************************)
(* Five components that share no state and take part in nothing but their  *)
(* own environment, explored in one run: part is the one that moves, the   *)
(* others stay in one of their initial states.                             *)
(***************************************************************************)
EXTENDS CacheConnection, DbConnection, UploadPipeline, HttpParser, Startup

VARIABLE part

Parts == {"cache", "db", "pipe", "parser", "startup"}
MCThreads == 1..2

-----------------------------------------------------------------------------
(* Requests, and configuration files *)

Form(v, close, framing, digits, body) ==
  [url |-> <<"/", "a">>, version |-> v, close |-> close, framing |-> framing, digits |-> digits, body |-> body]
Requests == {
  Form("HTTP/1.1", FALSE, "none", <<>>, <<>>),
  Form("HTTP/1.1", TRUE, "none", <<>>, <<>>),
  Form("HTTP/1.0", FALSE, "length", <<"2">>, <<"BIN", "CR">>),
  Form("HTTP/1.1", FALSE, "length", <<"0">>, <<>>),
  Form("HTTP/1.1", TRUE, "length", <<"1", "1">>, [i \in 1..11 |-> "a"]),
  Form("HTTP/1.1", FALSE, "chunked", <<>>, <<"a", "LF">>),
  Form("HTTP/1.1", TRUE, "chunked", <<>>, <<>>)}
More == {<<>>, Encode(Form("HTTP/1.1", FALSE, "length", <<"1">>, <<"1">>))}
Bytes == {"a", "SP", ":", "?", "BIN", "CR", "LF", "3", "chunked", "Content-Length", "Upgrade"}

MCStreams ==
  [request : Requests, more : More, at : {0}, byte : {"a"}]
    \cup UNION {[request : {r}, more : {<<>>}, at : DOMAIN Encode(r), byte : Bytes] : r \in Requests}

Entry(n, v, s, c, r) == [name |-> n, value |-> v, spaced |-> s, commented |-> c, remark |-> r]
Plain(n, v) == Entry(n, v, FALSE, FALSE, FALSE)
\* The settings of an instance but for its host, and those of uploads, less one.
Others(n, less) ==
  [i \in 1..6 |-> LET s == <<"_port", "_db", "_maxconncnt", "_dbname", "_username", "_password">>[i]
                  IN Plain(Append(n, s), IF s = less THEN <<>> ELSE <<"1">>)]
Uploads(less) ==
  [i \in 1..3 |-> LET s == <<"dfs_path_client", "storage_web_server_ip", "storage_web_server_port">>[i]
                  IN Plain(<<s>>, IF s = less THEN <<>> ELSE <<"2">>)]
\* The list of the pools of redis, that of MySQL, one setting that is left empty,
\* the host of an instance and how the lines are written.
AFileOf(l, d, less, v, s, c, r) ==
  <<Entry(List["cache"], l, s, FALSE, r),
    Entry(Host(<<"t">>), <<"h1">>, s, c, r), Entry(Host(<<"m">>), v, s, FALSE, r),
    Entry(List["db"], d, s, FALSE, FALSE), Entry(Host(<<"m">>), <<"h2">>, ~s, FALSE, r)>>
  \o Others(<<"t">>, "none") \o Others(<<"m">>, less) \o Uploads(less)
MCFiles ==
  {AFileOf(l, d, "none", v, s, c, s) : s, c \in BOOLEAN, v \in {<<"h1">>, <<>>},
     l \in {<<"t">>, <<"t", "COMMA", "m">>}, d \in {<<"m", "COMMA", "t">>, <<"t", "COMMA", "t">>, <<>>}}
  \cup {AFileOf(<<"t">>, <<"m">>, less, <<"h1">>, FALSE, FALSE, FALSE) :
          less \in {"none", "_port", "_password", "dfs_path_client"}}
  \cup {AFileOf(l, <<"m">>, "none", <<"h1">>, FALSE, FALSE, FALSE) :
          l \in {<<"t", "COMMA">>, <<"COMMA", "t">>, <<"t", "COMMA", "COMMA", "m">>}}
MCHosts == {<<"h1">>, <<"h2">>}

-----------------------------------------------------------------------------
edgesVars == <<part, cacheVars, dbVars, pipeVars, parserVars, startupVars>>

AStream == CHOOSE s \in Streams : TRUE
AFile   == CHOOSE f \in Files : TRUE

\* What stands still does so in one initial state.
Rests(p, init) == part = p \/ (part # p /\ init)

EdgesInit ==
  /\ part \in Parts
  /\ Rests("cache", password = FALSE)           /\ CacheInit
  /\ Rests("db", server = TRUE)                 /\ DbInit
  /\ Rests("pipe", installed = {})              /\ PipeInit
  /\ Rests("startup", up = {} /\ file = AFile)  /\ StartupInit
  /\ Rests("parser", stream = AStream)          /\ ParserInit

EdgesNext ==
  \/ /\ part = "cache" /\ CacheNext
     /\ UNCHANGED <<part, dbVars, pipeVars, parserVars, startupVars>>
  \/ /\ part = "db" /\ DbNext
     /\ UNCHANGED <<part, cacheVars, pipeVars, parserVars, startupVars>>
  \/ /\ part = "pipe" /\ PipeNext
     /\ UNCHANGED <<part, cacheVars, dbVars, parserVars, startupVars>>
  \/ /\ part = "parser" /\ ParserNext
     /\ UNCHANGED <<part, cacheVars, dbVars, pipeVars, startupVars>>
  \/ /\ part = "startup" /\ StartupNext
     /\ UNCHANGED <<part, cacheVars, dbVars, pipeVars, parserVars>>

EdgesSpec == EdgesInit /\ [][EdgesNext]_edgesVars
=============================================================================
