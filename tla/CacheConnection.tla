-------------------------- MODULE CacheConnection --------------------------
(***************************************************************************)
(* One CacheConn: its redis context, the reconnection in Init, which tries *)
(* at most once a second, and what each kind of command does when no reply *)
(* comes.  A connection belongs to one handler at a time, so the steps     *)
(* here interleave with redis and the network only.                        *)
(***************************************************************************)
EXTENDS Naturals

CONSTANTS
  MaxOutages   \* bound: times redis goes away or a connection breaks

ASSUME CacheConnectionAssumption == MaxOutages \in Nat

VARIABLES
  password,    \* password_ is not empty (CacheManager::Init leaves it empty)
  context,     \* context_: "NULL", "ok", or "err" once redisCommand has failed
  same_second, \* time(NULL) is still last_connect_time_
  attempts,    \* history: connections tried in this second
  redis,       \* redis accepts connections
  link,        \* the connection of context_ is intact
  call, at,    \* the command being carried out and the place in it
  answer,      \* what the last command returned: a value, or its error value
  outages

cacheNet  == <<redis, link, outages>>
cacheTime == <<same_second, attempts>>
cacheVars == <<password, context, cacheTime, cacheNet, call, at, answer>>

\* Commands by what they do without a reply and with one that is an error.
\*   text   Set, SetEx, Hmset                       lists  MGet, HgetAll, Hmget, Lrange
\*   number Del, Hdel, Hset, HincrBy, IncrBy, Incr, Decr, Lpush, Rpush, Llen, IsExists
\*   value  Get, Hget                               buffer Hget into a buffer
\*   zset   ZsetExit, ZsetAdd, ZsetZrem, ZsetZcard, ZsetZrevrange, ZsetGetScore
\*   zincr  ZsetIncr                                flush  FlushDb
Checked   == {"text", "lists", "number", "value", "flush"}
Unchecked == {"zset", "zincr"}
Commands  == Checked \cup Unchecked \cup {"buffer"}

CacheInit ==
  /\ password \in BOOLEAN
  /\ context = "NULL" /\ same_second = FALSE /\ attempts = 0
  /\ redis = TRUE /\ link = FALSE /\ outages = 0
  /\ call = "none" /\ at = "idle" /\ answer = "none"

Goto(l)   == at' = l /\ UNCHANGED <<call, answer>>
Return(v) == at' = "idle" /\ answer' = v /\ UNCHANGED call
Alive     == context = "ok" /\ link

-----------------------------------------------------------------------------
(* CacheConn::Init *)

Call(c) ==
  /\ at = "idle"
  /\ call' = c /\ at' = "init"
  /\ UNCHANGED <<password, context, cacheTime, cacheNet, answer>>

\* Whatever is not NULL is taken for good.
InitHasContext ==
  /\ at = "init" /\ context # "NULL"
  /\ Goto("command")
  /\ UNCHANGED <<password, context, cacheTime, cacheNet>>

InitThrottled ==
  /\ at = "init" /\ context = "NULL" /\ same_second
  /\ Return("error")
  /\ UNCHANGED <<password, context, cacheTime, cacheNet>>

\* Mutant: the time of a failed attempt is not noted.
InitConnect_NotesSuccess ==
  /\ at = "init" /\ context = "NULL" /\ ~same_second
  /\ attempts' = attempts + 1
  /\ same_second' = redis /\ link' = redis
  /\ IF redis
     THEN context' = "ok" /\ Goto(IF password THEN "auth" ELSE "select")
     ELSE UNCHANGED context /\ Return("error")
  /\ UNCHANGED <<password, redis, outages>>

InitConnect ==
  /\ at = "init" /\ context = "NULL" /\ ~same_second
  /\ same_second' = TRUE /\ attempts' = attempts + 1
  /\ link' = redis
  /\ IF redis
     THEN context' = "ok" /\ Goto(IF password THEN "auth" ELSE "select")
     ELSE UNCHANGED context /\ Return("error")
  /\ UNCHANGED <<password, redis, outages>>

\* AUTH and SELECT: when one is refused or has no reply Init fails, but
\* context_ stays, and the next Init finds nothing wrong with it.
InitGreets ==
  /\ at \in {"auth", "select"}
  /\ \/ Alive /\ Goto(IF at = "auth" THEN "select" ELSE "command") /\ UNCHANGED context
     \/ Alive /\ Return("error") /\ UNCHANGED context
     \/ ~Alive /\ context' = "err" /\ Return("error")
  /\ UNCHANGED <<password, cacheTime, cacheNet>>

-----------------------------------------------------------------------------
(* The commands *)

\* What a reply is taken for.  text, number and lists do not look at its type;
\* ZsetIncr waits for "OK" and FlushDb for a bulk string, which never come.
Reports(c, refused) ==
  CASE c \in {"zincr", "flush"}           -> "error"
    [] c \in {"text", "number", "lists"}  -> "value"
    [] OTHER -> IF refused THEN "error" ELSE "value"

CommandReplied ==
  /\ at = "command" /\ Alive
  /\ \E refused \in BOOLEAN : Return(Reports(call, refused))
  /\ UNCHANGED <<password, context, cacheTime, cacheNet>>

\* Mutant: the context is kept for the next command.
CommandDropsContext_Keeps ==
  /\ at = "command" /\ ~Alive /\ call \in Checked
  /\ context' = "err"
  /\ Return("error")
  /\ UNCHANGED <<password, cacheTime, cacheNet>>

\* No reply: the context is freed, the next command connects again.
CommandDropsContext ==
  /\ at = "command" /\ ~Alive /\ call \in Checked
  /\ context' = "NULL"
  /\ Return("error")
  /\ UNCHANGED <<password, cacheTime, cacheNet>>

\* No reply in Hget into a buffer: -1, and the context stays.
CommandKeepsContext ==
  /\ at = "command" /\ ~Alive /\ call = "buffer"
  /\ context' = "err"
  /\ Return("error")
  /\ UNCHANGED <<password, cacheTime, cacheNet>>

\* No reply in a zset command: it is used nevertheless, the process dies.
CommandDies ==
  /\ at = "command" /\ ~Alive /\ call \in Unchecked
  /\ at' = "dead" /\ context' = "err"
  /\ UNCHANGED <<password, cacheTime, cacheNet, call, answer>>

-----------------------------------------------------------------------------
(* Time, redis and the network *)

NextSecond ==
  /\ same_second \/ attempts > 0
  /\ same_second' = FALSE /\ attempts' = 0
  /\ UNCHANGED <<password, context, cacheNet, call, at, answer>>

LinkBreaks ==
  /\ link /\ outages < MaxOutages
  /\ link' = FALSE /\ outages' = outages + 1
  /\ UNCHANGED <<password, context, cacheTime, redis, call, at, answer>>

RedisStops ==
  /\ redis /\ outages < MaxOutages
  /\ redis' = FALSE /\ link' = FALSE /\ outages' = outages + 1
  /\ UNCHANGED <<password, context, cacheTime, call, at, answer>>

RedisStarts ==
  /\ ~redis
  /\ redis' = TRUE
  /\ UNCHANGED <<password, context, cacheTime, link, outages, call, at, answer>>

CacheWorks ==
  \/ InitHasContext \/ InitThrottled \/ InitConnect \/ InitGreets
  \/ CommandReplied \/ CommandDropsContext \/ CommandKeepsContext \/ CommandDies

Asks(S) == \E c \in S : Call(c)

CacheNext == Asks(Commands) \/ CacheWorks \/ NextSecond \/ LinkBreaks \/ RedisStops \/ RedisStarts

CacheSpec == CacheInit /\ [][CacheNext]_cacheVars

\* Commands come to their end, time goes on, redis is started again, and among
\* the commands that handlers keep asking for are checked ones.
CacheFairness ==
  /\ SF_cacheVars(Asks(Checked)) /\ WF_cacheVars(CacheWorks)
  /\ WF_cacheVars(NextSecond) /\ WF_cacheVars(RedisStarts)

-----------------------------------------------------------------------------
(* Properties *)

CacheTypeOK ==
  /\ password \in BOOLEAN /\ same_second \in BOOLEAN
  /\ redis \in BOOLEAN /\ link \in BOOLEAN
  /\ context \in {"NULL", "ok", "err"}
  /\ attempts \in Nat /\ outages \in 0..MaxOutages
  /\ call \in Commands \cup {"none"}
  /\ at \in {"idle", "init", "auth", "select", "command", "dead"}
  /\ answer \in {"none", "value", "error"}

\* However many commands are asked for while redis is away, a connection is tried
\* at most once a second (cache_pool.cc:65).
OneAttemptASecond == attempts <= 1

\* Once redis stays up and connections stay whole, the connection becomes good
\* again and stays so, unless the process has died of a reply it did not get: a
\* checked command that finds the connection lost drops it, and the next one after
\* that second has passed connects.
RedisHeals == CacheFairness => <>[](at = "dead" \/ Alive)
=============================================================================
