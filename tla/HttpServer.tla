----------------------------- MODULE HttpServer -----------------------------
(***************************************************************************)
(* HttpServer of main.cc and CHttpconn::OnRead: every connection gets a    *)
(* number, s_http_map leads from the number to the CHttpconn that answers  *)
(* the requests of the connection.  Event loop threads run the callbacks   *)
(* of their connections one at a time; callbacks of different loops        *)
(* interleave between the steps that touch the generator or the map, each  *)
(* of which is one action.                                                 *)
(* muduo's part: a new connection goes to the next loop in turn, what a    *)
(* client sends arrives in segments, send does nothing after shutdown.     *)
(***************************************************************************)
EXTENDS Naturals, Sequences, FiniteSets

CONSTANTS
  Conns,       \* connections clients open; each carries one request
  Loops,       \* number of event loop threads
  Uuids,       \* the values of the generator are 0 .. Uuids - 1 (2^32 in the code)
  MaxMessages  \* bound: segments a client sends

ASSUME BoundsAssumption == {Loops, Uuids, MaxMessages} \subseteq Nat \ {0}

\* What s_http_map[uuid] can be besides a CHttpconn: no entry, or the empty
\* pointer operator[] inserts.
Absent == "absent"
Null   == "null"

ASSUME ConnsAssumption == Conns \cap {Absent, Null} = {}

VARIABLES
  phase,       \* phase[c]: where connection c is between accept and its end
  loop,        \* loop[c]: the loop c was given to
  accepted,    \* connections accepted so far
  conn_uuid_generator_,
  uuid,        \* uuid[c]: the context of c
  s_http_map,
  got,         \* got[c]: what is in the input buffer, which OnRead never empties
  messages,    \* messages[c]: how often onMessage was called
  http_conn,   \* http_conn[c]: the entry onMessage has looked up
  shut,        \* shut[c]: shutdown was called on c
  answers,     \* answers[c]: the requests whose answers c was sent, in order
  running,     \* FALSE: the process has died
  shared       \* history: two open connections have had one number

vars == <<phase, loop, accepted, conn_uuid_generator_, uuid, s_http_map, got, messages,
          http_conn, shut, answers, running, shared>>
io   == <<got, messages, http_conn, shut, answers>>

\* A request comes in one segment (whole) or in more (part, then late).
Buffers == {"nothing", "part", "late", "whole"}
Complete(c) == got[c] \in {"late", "whole"}

In(c, p)    == running /\ phase[c] = p
Goes(c, p)  == phase' = [phase EXCEPT ![c] = p]
Holds(c)    == phase[c] \in {"arriving", "up", "reading", "leaving"}    \* c has its number
LoopBusy(l) == \E c \in Conns :
                 loop[c] = l /\ phase[c] \in {"arriving", "reading", "leaving"}

\* conn_uuid_generator_ is not initialised.
Init ==
  /\ phase = [c \in Conns |-> "away"]
  /\ loop = [c \in Conns |-> 0]
  /\ accepted = 0
  /\ conn_uuid_generator_ \in 0..Uuids - 1
  /\ uuid = [c \in Conns |-> 0]
  /\ s_http_map = [u \in 0..Uuids - 1 |-> Absent]
  /\ got = [c \in Conns |-> "nothing"]
  /\ messages = [c \in Conns |-> 0]
  /\ http_conn = [c \in Conns |-> Absent]
  /\ shut = [c \in Conns |-> FALSE]
  /\ answers = [c \in Conns |-> <<>>]
  /\ running = TRUE
  /\ shared = FALSE

Accept(c) ==
  /\ In(c, "away")
  /\ loop' = [loop EXCEPT ![c] = accepted % Loops]
  /\ accepted' = accepted + 1
  /\ Goes(c, "accepted")
  /\ UNCHANGED <<conn_uuid_generator_, uuid, s_http_map, io, running, shared>>

\* onConnection, connected(): first the number, then the entry.
Connect(c) ==
  /\ In(c, "accepted") /\ ~LoopBusy(loop[c])
  /\ uuid' = [uuid EXCEPT ![c] = conn_uuid_generator_]
  /\ conn_uuid_generator_' = (conn_uuid_generator_ + 1) % Uuids
  /\ shared' = (shared \/ \E d \in Conns : Holds(d) /\ uuid[d] = conn_uuid_generator_)
  /\ Goes(c, "arriving")
  /\ UNCHANGED <<loop, accepted, s_http_map, io, running>>

\* Mutant: the entry is inserted under the generator's value less one, read
\* again, not under the number of the connection.
Insert_Reread(c) ==
  /\ In(c, "arriving")
  /\ LET u == (conn_uuid_generator_ + Uuids - 1) % Uuids IN
       s_http_map' = IF s_http_map[u] = Absent THEN [s_http_map EXCEPT ![u] = c] ELSE s_http_map
  /\ Goes(c, "up")
  /\ UNCHANGED <<loop, accepted, conn_uuid_generator_, uuid, io, running, shared>>

\* map::insert does not replace an entry.
Insert(c) ==
  /\ In(c, "arriving")
  /\ s_http_map' = IF s_http_map[uuid[c]] = Absent
                     THEN [s_http_map EXCEPT ![uuid[c]] = c] ELSE s_http_map
  /\ Goes(c, "up")
  /\ UNCHANGED <<loop, accepted, conn_uuid_generator_, uuid, io, running, shared>>

\* onConnection, no longer connected: first the generator, then the entry.
Disconnect(c) ==
  /\ In(c, "up") /\ ~LoopBusy(loop[c])
  /\ conn_uuid_generator_' = (conn_uuid_generator_ + Uuids - 1) % Uuids
  /\ Goes(c, "leaving")
  /\ UNCHANGED <<loop, accepted, uuid, s_http_map, io, running, shared>>

\* Mutant: the entry stays.
Erase_Nothing(c) ==
  /\ In(c, "leaving")
  /\ Goes(c, "gone")
  /\ UNCHANGED <<loop, accepted, conn_uuid_generator_, uuid, s_http_map, io, running, shared>>

Erase(c) ==
  /\ In(c, "leaving")
  /\ s_http_map' = [s_http_map EXCEPT ![uuid[c]] = Absent]
  /\ Goes(c, "gone")
  /\ UNCHANGED <<loop, accepted, conn_uuid_generator_, uuid, io, running, shared>>

\* A segment has arrived: what is in the buffer then.
Received(c) ==
  CASE got[c] = "nothing" -> {"part", "whole"}
    [] got[c] = "part"    -> {"part", "late"}
    [] OTHER              -> {got[c]}

\* onMessage begins: s_http_map[uuid] is looked up and, if there is none,
\* inserted empty.
Message(c) ==
  /\ In(c, "up") /\ ~LoopBusy(loop[c])
  /\ messages[c] < MaxMessages
  /\ messages' = [messages EXCEPT ![c] = @ + 1]
  /\ \E b \in Received(c) : got' = [got EXCEPT ![c] = b]
  /\ LET entry == IF s_http_map[uuid[c]] = Absent THEN Null ELSE s_http_map[uuid[c]] IN
       /\ s_http_map' = [s_http_map EXCEPT ![uuid[c]] = entry]
       /\ http_conn' = [http_conn EXCEPT ![c] = entry]
  /\ Goes(c, "reading")
  /\ UNCHANGED <<loop, accepted, conn_uuid_generator_, uuid, shut, answers, running, shared>>

\* TcpConnection::send
Send(d, request) ==
  answers' = IF ~shut[d] /\ phase[d] \in {"up", "reading"}
               THEN [answers EXCEPT ![d] = Append(@, request)] ELSE answers

\* Mutant: the connection is kept for another request.
Returns_KeepsOpen(c) ==
  /\ Goes(c, "up")
  /\ UNCHANGED <<shut, running>>

\* conn->shutdown() at the end of onMessage.
Returns(c) ==
  /\ shut' = [shut EXCEPT ![c] = TRUE]
  /\ Goes(c, "up")
  /\ UNCHANGED running

\* OnRead of a request that is not complete yet.
ReadPart(c) ==
  /\ In(c, "reading") /\ ~Complete(c)
  /\ Returns(c)
  /\ UNCHANGED <<loop, accepted, conn_uuid_generator_, uuid, s_http_map, got, messages,
                 http_conn, answers, shared>>

\* OnRead of a complete request: the handler runs, once more if it has run
\* before, and its result is sent with the CHttpconn that was looked up.
ReadAll(c) ==
  /\ In(c, "reading") /\ Complete(c)
  /\ http_conn[c] # Null
  /\ Send(http_conn[c], c)
  /\ Returns(c)
  /\ UNCHANGED <<loop, accepted, conn_uuid_generator_, uuid, s_http_map, got, messages,
                 http_conn, shared>>

\* The handler runs, but the CHttpconn is an empty pointer, or another
\* connection with the same number has erased it and its memory may be used
\* already.
ReadAllDies(c) ==
  /\ In(c, "reading") /\ Complete(c)
  /\ http_conn[c] = Null \/ s_http_map[uuid[c]] # http_conn[c]
  /\ running' = FALSE
  /\ UNCHANGED <<phase, loop, accepted, conn_uuid_generator_, uuid, s_http_map, got, messages,
                 http_conn, shut, answers, shared>>

Callback(c) == Connect(c) \/ Insert(c) \/ Erase(c) \/ ReadPart(c) \/ ReadAll(c) \/ ReadAllDies(c)

Next == \E c \in Conns : Accept(c) \/ Callback(c) \/ Disconnect(c) \/ Message(c)

Spec == Init /\ [][Next]_vars

-----------------------------------------------------------------------------
(* Properties *)

Numbers == 0..Uuids - 1

\* Every variable has its type.
TypeOK ==
  /\ phase \in [Conns -> {"away", "accepted", "arriving", "up", "reading", "leaving", "gone"}]
  /\ loop \in [Conns -> 0..Loops - 1] /\ accepted \in Nat
  /\ conn_uuid_generator_ \in Numbers /\ uuid \in [Conns -> Numbers]
  /\ s_http_map \in [Numbers -> Conns \cup {Absent, Null}]
  /\ got \in [Conns -> Buffers] /\ messages \in [Conns -> 0..MaxMessages]
  /\ http_conn \in [Conns -> Conns \cup {Absent, Null}]
  /\ shut \in [Conns -> BOOLEAN]
  /\ DOMAIN answers = Conns /\ \A c \in Conns : answers[c] \in Seq(Conns)
  /\ running \in BOOLEAN /\ shared \in BOOLEAN

\* Whatever numbers connections share, a CHttpconn in the map belongs to a
\* connection that is still open and has that number: erase, which may remove
\* the entry of another connection, never leaves one behind.
EntryIsLive ==
  \A u \in Numbers, c \in Conns :
    s_http_map[u] = c => uuid[c] = u /\ phase[c] \in {"up", "reading", "leaving"}

\* Whatever connections come and go, an answer reaches the client that asked or
\* one whose connection has the same number.
SameNumberAnswers ==
  \A c, d \in Conns : (\E i \in DOMAIN answers[d] : answers[d][i] = c) => uuid[c] = uuid[d]

\* s_http_map is there to find the CHttpconn of a connection.
FindsOwnHttpConn ==
  \A c \in Conns : phase[c] \in {"up", "reading"} => s_http_map[uuid[c]] = c

\* As long as no two open connections have had one number, the process lives
\* and a client whose request came in one segment is sent the answer to it,
\* once, and nothing else, however the callbacks of its connection interleave
\* with those of others and whatever segments follow.
OwnAnswers ==
  ~shared =>
    /\ running
    /\ \A c \in Conns :
         /\ answers[c] \in {<<>>, <<c>>}
         /\ shut[c] /\ got[c] = "whole" => answers[c] = <<c>>
=============================================================================
