-------------------------- MODULE HttpServerProofs --------------------------
(***************************************************************************)
(* Theorems about HttpServer for any connections, loops, numbers and       *)
(* segments.  IInv: entries of s_http_map belong to open connections, and  *)
(* a CHttpconn that has been looked up has the number of the connection it *)
(* was looked up for, because numbers do not change.  ReadInv: a           *)
(* connection nothing was read of has not been shut down.  OwnInv: as long *)
(* as no two open connections have had one number, each finds its own      *)
(* entry in the map, and its request is answered when it is read.          *)
(***************************************************************************)
EXTENDS HttpServer, TLAPS

\* A connection has its number.
Numbered(c) == phase[c] \notin {"away", "accepted"}

Typed ==
  /\ DOMAIN uuid = Conns /\ DOMAIN phase = Conns
  /\ DOMAIN s_http_map = Numbers /\ DOMAIN http_conn = Conns
  /\ DOMAIN answers = Conns /\ \A c \in Conns : answers[c] \in Seq(Conns)
  /\ \A c \in Conns : uuid[c] \in Numbers
  /\ conn_uuid_generator_ \in Numbers

LookedUp ==
  \A c, d \in Conns :
    http_conn[c] = d => uuid[c] = uuid[d] /\ Numbered(c) /\ Numbered(d)

AnsweredNumbered ==
  \A c, d \in Conns :
    (\E i \in DOMAIN answers[d] : answers[d][i] = c) => Numbered(c) /\ Numbered(d)

IInv == Typed /\ EntryIsLive /\ LookedUp /\ AnsweredNumbered /\ SameNumberAnswers

LEMMA NotConns == Absent \notin Conns /\ Null \notin Conns
  BY ConnsAssumption

LEMMA InitInv == Init => IInv
<1>. SUFFICES ASSUME Init PROVE IInv
  OBVIOUS
<1>1. 0 \in Numbers
  BY BoundsAssumption DEF Numbers
<1>2. Typed
  BY <1>1 DEF Init, Typed, Numbers
<1>3. EntryIsLive /\ LookedUp
  BY NotConns DEF Init, EntryIsLive, LookedUp, Numbers
<1>4. AnsweredNumbered /\ SameNumberAnswers
  BY DEF Init, AnsweredNumbered, SameNumberAnswers
<1>. QED
  BY <1>2, <1>3, <1>4 DEF IInv

LEMMA AcceptInv ==
  ASSUME IInv, NEW c \in Conns, Accept(c)
  PROVE  IInv'
<1>. USE DEF IInv, Accept, In, Goes, io
<1>1. \A d \in Conns : Numbered(d)' <=> Numbered(d)
  BY DEF Typed, Numbered
<1>2. Typed'
  BY DEF Typed
<1>3. EntryIsLive'
  BY DEF Typed, EntryIsLive
<1>4. LookedUp' /\ AnsweredNumbered' /\ SameNumberAnswers'
  BY <1>1 DEF LookedUp, AnsweredNumbered, SameNumberAnswers
<1>. QED
  BY <1>2, <1>3, <1>4

LEMMA ConnectInv ==
  ASSUME IInv, NEW c \in Conns, Connect(c)
  PROVE  IInv'
<1>. USE DEF IInv, Connect, In, Goes, io
<1>1. Typed'
  BY BoundsAssumption DEF Typed, Numbers
<1>2. ~Numbered(c) /\ \A d \in Conns : Numbered(d) => Numbered(d)' /\ uuid'[d] = uuid[d]
  BY DEF Typed, Numbered
<1>3. EntryIsLive'
  BY <1>2 DEF Typed, EntryIsLive, Numbered
<1>4. LookedUp' /\ AnsweredNumbered' /\ SameNumberAnswers'
  BY <1>2 DEF LookedUp, AnsweredNumbered, SameNumberAnswers
<1>. QED
  BY <1>1, <1>3, <1>4

LEMMA InsertInv ==
  ASSUME IInv, NEW c \in Conns, Insert(c)
  PROVE  IInv'
<1>. USE DEF IInv, Insert, In, Goes, io
<1>1. Typed'
  BY DEF Typed
<1>2. EntryIsLive'
  BY DEF Typed, EntryIsLive
<1>3. \A d \in Conns : Numbered(d)' <=> Numbered(d)
  BY DEF Typed, Numbered
<1>4. LookedUp' /\ AnsweredNumbered' /\ SameNumberAnswers'
  BY <1>3 DEF LookedUp, AnsweredNumbered, SameNumberAnswers
<1>. QED
  BY <1>1, <1>2, <1>4

LEMMA DisconnectInv ==
  ASSUME IInv, NEW c \in Conns, Disconnect(c)
  PROVE  IInv'
<1>. USE DEF IInv, Disconnect, In, Goes, io
<1>1. Typed'
  BY BoundsAssumption DEF Typed, Numbers
<1>2. EntryIsLive'
  BY DEF Typed, EntryIsLive
<1>3. \A d \in Conns : Numbered(d)' <=> Numbered(d)
  BY DEF Typed, Numbered
<1>4. LookedUp' /\ AnsweredNumbered' /\ SameNumberAnswers'
  BY <1>3 DEF LookedUp, AnsweredNumbered, SameNumberAnswers
<1>. QED
  BY <1>1, <1>2, <1>4

\* The entry of the connection, if it has one, is under its number and goes.
LEMMA EraseInv ==
  ASSUME IInv, NEW c \in Conns, Erase(c)
  PROVE  IInv'
<1>. USE DEF IInv, Erase, In, Goes, io
<1>1. Typed'
  BY DEF Typed
<1>2. EntryIsLive'
  BY NotConns DEF Typed, EntryIsLive
<1>3. \A d \in Conns : Numbered(d)' <=> Numbered(d)
  BY DEF Typed, Numbered
<1>4. LookedUp' /\ AnsweredNumbered' /\ SameNumberAnswers'
  BY <1>3 DEF LookedUp, AnsweredNumbered, SameNumberAnswers
<1>. QED
  BY <1>1, <1>2, <1>4

LEMMA MessageInv ==
  ASSUME IInv, NEW c \in Conns, Message(c)
  PROVE  IInv'
<1>. USE DEF IInv
<1>. DEFINE entry == IF s_http_map[uuid[c]] = Absent THEN Null ELSE s_http_map[uuid[c]]
<1>1. /\ s_http_map' = [s_http_map EXCEPT ![uuid[c]] = entry]
      /\ http_conn' = [http_conn EXCEPT ![c] = entry]
      /\ phase[c] = "up" /\ phase' = [phase EXCEPT ![c] = "reading"]
      /\ uuid' = uuid /\ answers' = answers /\ conn_uuid_generator_' = conn_uuid_generator_
  BY DEF Message, In, Goes
<1>2. \A d \in Conns : entry = d => s_http_map[uuid[c]] = d
  BY NotConns
<1>. HIDE DEF entry
<1>3. Typed'
  BY <1>1 DEF Typed
<1>4. EntryIsLive'
  BY <1>1, <1>2 DEF Typed, EntryIsLive
<1>5. \A d \in Conns : Numbered(d)' <=> Numbered(d)
  BY <1>1 DEF Typed, Numbered
<1>6. \A d \in Conns : entry = d => uuid[d] = uuid[c] /\ Numbered(d)
  BY <1>2 DEF Typed, EntryIsLive, Numbered
<1>7. LookedUp'
  BY <1>1, <1>5, <1>6 DEF Typed, LookedUp, Numbered
<1>8. AnsweredNumbered' /\ SameNumberAnswers'
  BY <1>1, <1>5 DEF AnsweredNumbered, SameNumberAnswers
<1>. QED
  BY <1>3, <1>4, <1>7, <1>8

LEMMA ReadPartInv ==
  ASSUME IInv, NEW c \in Conns, ReadPart(c)
  PROVE  IInv'
<1>. USE DEF IInv, ReadPart, Returns, In, Goes
<1>1. Typed'
  BY DEF Typed
<1>2. EntryIsLive'
  BY DEF Typed, EntryIsLive
<1>3. \A d \in Conns : Numbered(d)' <=> Numbered(d)
  BY DEF Typed, Numbered
<1>4. LookedUp' /\ AnsweredNumbered' /\ SameNumberAnswers'
  BY <1>3 DEF LookedUp, AnsweredNumbered, SameNumberAnswers
<1>. QED
  BY <1>1, <1>2, <1>4

LEMMA AppendFacts ==
  ASSUME NEW S, NEW s \in Seq(S), NEW x \in S
  PROVE  /\ Append(s, x) \in Seq(S)
         /\ \A i \in DOMAIN Append(s, x) :
              Append(s, x)[i] = x \/ (i \in DOMAIN s /\ Append(s, x)[i] = s[i])
<1>1. DOMAIN s = 1..Len(s) /\ Len(s) \in Nat
  OBVIOUS
<1>2. Append(s, x) \in Seq(S) /\ Len(Append(s, x)) = Len(s) + 1
  OBVIOUS
<1>3. DOMAIN Append(s, x) = 1..Len(s) + 1
  BY <1>1, <1>2
<1>4. Append(s, x)[Len(s) + 1] = x /\ \A i \in 1..Len(s) : Append(s, x)[i] = s[i]
  BY <1>1
<1>. QED
  BY <1>1, <1>2, <1>3, <1>4

\* The answer goes to the connection that was looked up.
LEMMA ReadAllInv ==
  ASSUME IInv, NEW c \in Conns, ReadAll(c)
  PROVE  IInv'
<1>. USE DEF IInv, In, Goes
<1>1. /\ phase[c] = "reading" /\ phase' = [phase EXCEPT ![c] = "up"]
      /\ uuid' = uuid /\ s_http_map' = s_http_map /\ http_conn' = http_conn
      /\ conn_uuid_generator_' = conn_uuid_generator_
      /\ Send(http_conn[c], c)
  BY DEF ReadAll, Returns
<1>. DEFINE h == http_conn[c]
<1>2. answers' = answers \/ answers' = [answers EXCEPT ![h] = Append(answers[h], c)]
  BY <1>1 DEF Send
<1>. HIDE DEF h
<1>3. /\ DOMAIN answers' = Conns
      /\ \A d \in Conns : d # h => answers'[d] = answers[d]
      /\ h \in Conns => answers'[h] = answers[h] \/ answers'[h] = Append(answers[h], c)
  BY <1>2 DEF Typed
<1>4. ASSUME NEW d \in Conns
      PROVE  /\ answers'[d] \in Seq(Conns)
             /\ \A i \in DOMAIN answers'[d] :
                  \/ answers'[d][i] = c /\ d = h
                  \/ i \in DOMAIN answers[d] /\ answers'[d][i] = answers[d][i]
  <2>1. answers[d] \in Seq(Conns)
    BY DEF Typed
  <2>2. CASE answers'[d] = answers[d]
    BY <2>1, <2>2
  <2>3. CASE d = h /\ answers'[d] = Append(answers[d], c)
    BY <2>1, <2>3, AppendFacts
  <2>. QED
    BY <1>3, <2>2, <2>3
<1>5. Typed'
  BY <1>1, <1>3, <1>4 DEF Typed
<1>6. EntryIsLive'
  BY <1>1 DEF Typed, EntryIsLive
<1>7. \A d \in Conns : Numbered(d)' <=> Numbered(d)
  BY <1>1 DEF Typed, Numbered
<1>8. \A e, d \in Conns :
        (\E i \in DOMAIN answers'[d] : answers'[d][i] = e) =>
          (\E i \in DOMAIN answers[d] : answers[d][i] = e) \/ (e = c /\ d = http_conn[c])
  <2>. SUFFICES ASSUME NEW e \in Conns, NEW d \in Conns,
                       NEW i \in DOMAIN answers'[d], answers'[d][i] = e
                PROVE  (\E k \in DOMAIN answers[d] : answers[d][k] = e) \/ (e = c /\ d = h)
    BY DEF h
  <2>1. \/ answers'[d][i] = c /\ d = h
        \/ i \in DOMAIN answers[d] /\ answers'[d][i] = answers[d][i]
    BY <1>4
  <2>. QED
    BY <2>1
<1>9. LookedUp' /\ AnsweredNumbered' /\ SameNumberAnswers'
  BY <1>1, <1>7, <1>8 DEF LookedUp, AnsweredNumbered, SameNumberAnswers
<1>. QED
  BY <1>6, <1>9, <1>5

LEMMA ReadAllDiesInv ==
  ASSUME IInv, NEW c \in Conns, ReadAllDies(c)
  PROVE  IInv'
  BY DEF IInv, ReadAllDies, Typed, EntryIsLive, LookedUp, AnsweredNumbered,
         SameNumberAnswers, Numbered

\* The connections and the numbers agree whatever callbacks interleave.
THEOREM HttpServerInvariant == Spec => []IInv
<1>1. ASSUME IInv, [Next]_vars
      PROVE  IInv'
  <2>1. CASE UNCHANGED vars
    BY <1>1, <2>1 DEF vars, IInv, Typed, EntryIsLive, LookedUp, AnsweredNumbered,
                      SameNumberAnswers, Numbered
  <2>2. CASE Next
    BY <1>1, <2>2, AcceptInv, ConnectInv, InsertInv, DisconnectInv, EraseInv, MessageInv,
       ReadPartInv, ReadAllInv, ReadAllDiesInv DEF Next, Callback
  <2>. QED
    BY <1>1, <2>1, <2>2
<1>. QED
  BY InitInv, <1>1, PTL DEF Spec

\* erase, which may remove the entry of another connection, never leaves one
\* of a closed connection in s_http_map.
THEOREM HttpServerEntryIsLive == Spec => []EntryIsLive
<1>1. IInv => EntryIsLive
  BY DEF IInv
<1>. QED
  BY <1>1, HttpServerInvariant, PTL

\* An answer reaches the client that asked or one whose connection has the
\* same number.
THEOREM HttpServerSameNumberAnswers == Spec => []SameNumberAnswers
<1>1. IInv => SameNumberAnswers
  BY DEF IInv
<1>. QED
  BY <1>1, HttpServerInvariant, PTL

-----------------------------------------------------------------------------
(* What a client is sent.  As long as no two open connections have had one   *)
(* number, an erase never removes the entry of another connection, so each   *)
(* connection finds its own.                                                 *)

\* Nothing is shut down before something was read.
ReadOf(c) == got[c] = "nothing" => ~shut[c] /\ phase[c] # "reading"

TypedBuffers ==
  /\ DOMAIN got = Conns /\ DOMAIN shut = Conns
  /\ \A c \in Conns : got[c] \in Buffers /\ shut[c] \in BOOLEAN

ReadInv == TypedBuffers /\ \A c \in Conns : ReadOf(c)

\* The map leads from the number of c to c.
OwnEntry(c) ==
  /\ phase[c] \in {"up", "reading", "leaving"} => s_http_map[uuid[c]] = c
  /\ phase[c] = "reading" => http_conn[c] = c

\* The request that came whole is answered when it is read, and only then.
OwnAnswer(c) ==
  /\ answers[c] \in {<<>>, <<c>>}
  /\ answers[c] = <<c>> => shut[c]
  /\ shut[c] /\ got[c] = "whole" => answers[c] = <<c>>

OwnNumbers ==
  /\ running
  /\ \A c, d \in Conns : Holds(c) /\ Holds(d) /\ uuid[c] = uuid[d] => c = d
  /\ \A u \in Numbers : s_http_map[u] \in Conns \cup {Absent}
  /\ \A c \in Conns : OwnEntry(c) /\ OwnAnswer(c)

OwnInv == shared \in BOOLEAN /\ (~shared => OwnNumbers)

LEMMA InitRead == Init => ReadInv
BY DEF Init, ReadInv, TypedBuffers, Buffers, ReadOf

\* Callbacks that read nothing.
LEMMA ReadElsewhere ==
  ASSUME Typed, ReadInv, NEW c \in Conns,
         Accept(c) \/ Connect(c) \/ Insert(c) \/ Disconnect(c) \/ Erase(c) \/ ReadAllDies(c)
  PROVE  ReadInv'
<1>1. got' = got /\ shut' = shut
  BY DEF Accept, Connect, Insert, Disconnect, Erase, ReadAllDies, io
<1>2. \A d \in Conns : phase'[d] = "reading" <=> phase[d] = "reading"
  BY DEF Typed, Accept, Connect, Insert, Disconnect, Erase, ReadAllDies, In, Goes
<1>. QED  BY <1>1, <1>2 DEF ReadInv, TypedBuffers, ReadOf

LEMMA ReadMessage ==
  ASSUME Typed, ReadInv, NEW c \in Conns, Message(c)
  PROVE  ReadInv'
<1>1. PICK b \in Received(c) : got' = [got EXCEPT ![c] = b]
  BY DEF Message
<1>2. /\ shut' = shut /\ phase[c] = "up" /\ phase' = [phase EXCEPT ![c] = "reading"]
  BY DEF Message, In, Goes
<1>3. b \in Buffers /\ b # "nothing"
  BY <1>1 DEF Received, ReadInv, TypedBuffers, Buffers
<1>4. TypedBuffers'
  BY <1>1, <1>2, <1>3 DEF ReadInv, TypedBuffers
<1>5. ReadOf(c)'
  BY <1>1, <1>3 DEF ReadInv, TypedBuffers, ReadOf
<1>6. ASSUME NEW d \in Conns, d # c PROVE ReadOf(d)'
  BY <1>1, <1>2, <1>6 DEF ReadInv, TypedBuffers, Typed, ReadOf
<1>. QED  BY <1>4, <1>5, <1>6 DEF ReadInv

LEMMA ReadReads ==
  ASSUME Typed, ReadInv, NEW c \in Conns, ReadPart(c) \/ ReadAll(c)
  PROVE  ReadInv'
<1>1. /\ got' = got /\ got[c] # "nothing" /\ shut' = [shut EXCEPT ![c] = TRUE]
      /\ phase[c] = "reading" /\ phase' = [phase EXCEPT ![c] = "up"]
  BY DEF ReadPart, ReadAll, Returns, In, Goes, Complete, ReadInv, ReadOf
<1>2. TypedBuffers'
  BY <1>1 DEF ReadInv, TypedBuffers
<1>3. \A d \in Conns : ReadOf(d)'
  BY <1>1 DEF ReadInv, TypedBuffers, Typed, ReadOf
<1>. QED  BY <1>2, <1>3 DEF ReadInv

LEMMA ReadInvariant == Spec => [](IInv /\ ReadInv)
<1>1. ASSUME IInv, ReadInv, [Next]_vars PROVE ReadInv'
  <2>1. CASE UNCHANGED vars
    BY <1>1, <2>1 DEF vars, io, ReadInv, TypedBuffers, ReadOf
  <2>2. CASE Next
    BY <1>1, <2>2, ReadElsewhere, ReadMessage, ReadReads DEF IInv, Next, Callback
  <2>. QED  BY <1>1, <2>1, <2>2
<1>. QED  BY InitRead, <1>1, HttpServerInvariant, PTL DEF Spec

\* A connection that has not yet connected has no number.
LEMMA OwnAccept ==
  ASSUME IInv, ReadInv, OwnInv, NEW c \in Conns, Accept(c)
  PROVE  OwnInv'
<1>1. /\ running' = running /\ s_http_map' = s_http_map /\ uuid' = uuid /\ http_conn' = http_conn
      /\ shut' = shut /\ got' = got /\ answers' = answers /\ shared' = shared
      /\ phase[c] = "away" /\ phase' = [phase EXCEPT ![c] = "accepted"]
  BY DEF Accept, io, In, Goes
<1>2. \A d \in Conns : Holds(d)' <=> Holds(d)
  BY <1>1 DEF IInv, Typed, Holds
<1>3. \A d \in Conns : phase'[d] \in {"up", "reading", "leaving"} => phase'[d] = phase[d]
  BY <1>1 DEF IInv, Typed
<1>4. ASSUME OwnNumbers PROVE OwnNumbers'
  <2>1. \A d \in Conns : OwnEntry(d)' /\ OwnAnswer(d)'
    BY <1>1, <1>3, <1>4 DEF OwnNumbers, OwnEntry, OwnAnswer
  <2>. QED  BY <1>1, <1>2, <1>4, <2>1 DEF OwnNumbers
<1>. QED  BY <1>1, <1>4 DEF OwnInv

\* What a callback of c leaves of the others: c touches the map only under its
\* own number, which no other connection has.
LEMMA OwnLocal ==
  ASSUME IInv, OwnInv, ~shared, OwnNumbers, NEW c \in Conns, Holds(c),
         shared' = shared, running', uuid' = uuid, phase' = [phase EXCEPT ![c] = phase'[c]],
         \A d \in Conns \ {c} : /\ http_conn'[d] = http_conn[d] /\ got'[d] = got[d]
                                /\ shut'[d] = shut[d] /\ answers'[d] = answers[d],
         \A u \in Numbers : s_http_map'[u] \in Conns \cup {Absent},
         \A u \in Numbers \ {uuid[c]} : s_http_map'[u] = s_http_map[u],
         OwnEntry(c)', OwnAnswer(c)'
  PROVE  OwnInv'
<1>1. \A d \in Conns \ {c} : phase'[d] = phase[d]
  BY DEF IInv, Typed
<1>2. \A d \in Conns : Holds(d)' => Holds(d)
  BY <1>1 DEF Holds
<1>3. \A d, e \in Conns : Holds(d)' /\ Holds(e)' /\ uuid'[d] = uuid'[e] => d = e
  BY <1>2 DEF OwnNumbers
<1>4. ASSUME NEW d \in Conns \ {c} PROVE OwnEntry(d)' /\ OwnAnswer(d)'
  <2>1. OwnEntry(d) /\ OwnAnswer(d) /\ uuid[d] \in Numbers
    BY DEF OwnNumbers, IInv, Typed
  <2>2. Holds(d) => s_http_map'[uuid[d]] = s_http_map[uuid[d]]
    BY <2>1 DEF OwnNumbers
  <2>3. OwnEntry(d)'
    BY <1>1, <2>1, <2>2 DEF OwnEntry, Holds
  <2>4. OwnAnswer(d)'
    BY <2>1 DEF OwnAnswer
  <2>. QED  BY <2>3, <2>4
<1>. QED  BY <1>3, <1>4 DEF OwnInv, OwnNumbers

\* The history stays as it was only if nobody has the generator's number.
LEMMA OwnConnect ==
  ASSUME IInv, ReadInv, OwnInv, NEW c \in Conns, Connect(c), ~shared
  PROVE  OwnInv'
<1>1. OwnNumbers /\ shared' \in BOOLEAN
  BY DEF OwnInv, Connect
<1>2. /\ running /\ running' = running /\ s_http_map' = s_http_map
      /\ http_conn' = http_conn /\ shut' = shut /\ got' = got /\ answers' = answers
      /\ phase' = [phase EXCEPT ![c] = "arriving"] /\ phase'[c] = "arriving"
      /\ uuid'[c] = conn_uuid_generator_
      /\ \A d \in Conns \ {c} : uuid'[d] = uuid[d] /\ phase'[d] = phase[d]
  BY DEF Connect, io, In, Goes, IInv, Typed
<1>3. ASSUME ~shared' PROVE OwnNumbers'
  <2>1. \A d \in Conns : Holds(d) => uuid[d] # conn_uuid_generator_
    BY <1>3 DEF Connect
  <2>2. \A d \in Conns \ {c} : Holds(d)' <=> Holds(d)
    BY <1>2 DEF Holds
  <2>3. \A d, e \in Conns : Holds(d)' /\ Holds(e)' /\ uuid'[d] = uuid'[e] => d = e
    BY <1>1, <1>2, <2>1, <2>2 DEF OwnNumbers
  <2>4. \A d \in Conns : OwnEntry(d)' /\ OwnAnswer(d)'
    BY <1>1, <1>2 DEF OwnNumbers, OwnEntry, OwnAnswer
  <2>. QED  BY <1>1, <1>2, <2>3, <2>4 DEF OwnNumbers
<1>. QED  BY <1>1, <1>3 DEF OwnInv

\* There is no entry under the number yet: it would be that of another open
\* connection with this number.
LEMMA OwnInsert ==
  ASSUME IInv, ReadInv, OwnInv, NEW c \in Conns, Insert(c), ~shared
  PROVE  OwnInv'
<1>1. OwnNumbers /\ OwnEntry(c) /\ OwnAnswer(c) /\ Holds(c) /\ uuid[c] \in Numbers
  BY DEF OwnInv, OwnNumbers, Insert, In, Holds, IInv, Typed
<1>2. /\ running /\ running' = running /\ shared' = shared
      /\ uuid' = uuid /\ http_conn' = http_conn /\ shut' = shut /\ got' = got /\ answers' = answers
      /\ phase[c] = "arriving"
      /\ phase' = [phase EXCEPT ![c] = "up"] /\ phase'[c] = "up"
  BY DEF Insert, io, In, Goes, IInv, Typed
<1>3. s_http_map[uuid[c]] = Absent
  BY <1>1, <1>2 DEF OwnNumbers, Holds, IInv, EntryIsLive
<1>4. s_http_map' = [s_http_map EXCEPT ![uuid[c]] = c]
  BY <1>3 DEF Insert
<1>5. /\ s_http_map'[uuid[c]] = c
      /\ \A u \in Numbers : s_http_map'[u] \in Conns \cup {Absent}
      /\ \A u \in Numbers \ {uuid[c]} : s_http_map'[u] = s_http_map[u]
  BY <1>1, <1>4 DEF OwnNumbers, IInv, Typed
<1>6. OwnEntry(c)' /\ OwnAnswer(c)'
  BY <1>1, <1>2, <1>5 DEF OwnEntry, OwnAnswer
<1>. QED  BY <1>1, <1>2, <1>5, <1>6, OwnLocal

LEMMA OwnLeaves ==
  ASSUME IInv, ReadInv, OwnInv, NEW c \in Conns, Disconnect(c) \/ Erase(c), ~shared
  PROVE  OwnInv'
<1>1. OwnNumbers /\ OwnEntry(c) /\ OwnAnswer(c) /\ Holds(c)
  BY DEF OwnInv, OwnNumbers, Disconnect, Erase, In, Holds
<1>2. /\ running /\ running' = running /\ shared' = shared
      /\ uuid' = uuid /\ http_conn' = http_conn /\ shut' = shut /\ got' = got /\ answers' = answers
      /\ phase' = [phase EXCEPT ![c] = phase'[c]]
  BY DEF Disconnect, Erase, io, In, Goes, IInv, Typed
<1>3. /\ \A u \in Numbers : s_http_map'[u] \in Conns \cup {Absent}
      /\ \A u \in Numbers \ {uuid[c]} : s_http_map'[u] = s_http_map[u]
  BY <1>1 DEF OwnNumbers, Disconnect, Erase, IInv, Typed
<1>4. OwnEntry(c)'
  BY <1>1, <1>2 DEF Disconnect, Erase, In, Goes, OwnEntry, IInv, Typed
<1>5. OwnAnswer(c)'
  BY <1>1, <1>2 DEF OwnAnswer
<1>. QED  BY <1>1, <1>2, <1>3, <1>4, <1>5, OwnLocal

LEMMA OwnMessage ==
  ASSUME IInv, ReadInv, OwnInv, NEW c \in Conns, Message(c), ~shared
  PROVE  OwnInv'
<1>1. OwnNumbers /\ OwnEntry(c) /\ OwnAnswer(c) /\ Holds(c) /\ uuid[c] \in Numbers
  BY DEF OwnInv, OwnNumbers, Message, In, Holds, IInv, Typed
<1>2. phase[c] = "up" /\ s_http_map[uuid[c]] = c /\ c # Absent
  BY <1>1, NotConns DEF Message, In, OwnEntry
<1>3. /\ running /\ running' = running /\ shared' = shared
      /\ uuid' = uuid /\ shut' = shut /\ answers' = answers
      /\ phase' = [phase EXCEPT ![c] = "reading"] /\ phase'[c] = "reading"
      /\ s_http_map' = [s_http_map EXCEPT ![uuid[c]] = c]
      /\ http_conn' = [http_conn EXCEPT ![c] = c]
  BY <1>2 DEF Message, In, Goes, IInv, Typed
<1>4. PICK b \in Received(c) : got' = [got EXCEPT ![c] = b]
  BY DEF Message
<1>5. /\ got'[c] = b /\ http_conn'[c] = c /\ s_http_map'[uuid[c]] = c
      /\ \A u \in Numbers : s_http_map'[u] \in Conns \cup {Absent}
      /\ \A u \in Numbers \ {uuid[c]} : s_http_map'[u] = s_http_map[u]
  BY <1>1, <1>3, <1>4 DEF OwnNumbers, IInv, Typed, ReadInv, TypedBuffers
\* What came whole is in the buffer before the connection is shut down.
<1>6. b = "whole" /\ shut[c] => got[c] = "whole"
  BY <1>4 DEF Received, ReadInv, ReadOf, TypedBuffers, Buffers
<1>7. OwnEntry(c)'
  BY <1>3, <1>5 DEF OwnEntry
<1>8. OwnAnswer(c)'
  BY <1>1, <1>3, <1>5, <1>6 DEF OwnAnswer
<1>9. \A d \in Conns \ {c} : got'[d] = got[d] /\ http_conn'[d] = http_conn[d]
  BY <1>3, <1>4 DEF IInv, Typed, ReadInv, TypedBuffers
<1>. QED  BY <1>1, <1>3, <1>5, <1>7, <1>8, <1>9, OwnLocal

LEMMA OwnReadPart ==
  ASSUME IInv, ReadInv, OwnInv, NEW c \in Conns, ReadPart(c), ~shared
  PROVE  OwnInv'
<1>1. OwnNumbers /\ OwnEntry(c) /\ OwnAnswer(c) /\ Holds(c)
  BY DEF OwnInv, OwnNumbers, ReadPart, In, Holds
<1>2. /\ running /\ running' = running /\ shared' = shared /\ s_http_map' = s_http_map
      /\ uuid' = uuid /\ http_conn' = http_conn /\ got' = got /\ answers' = answers
      /\ phase[c] = "reading" /\ phase' = [phase EXCEPT ![c] = "up"] /\ phase'[c] = "up"
      /\ shut' = [shut EXCEPT ![c] = TRUE] /\ got[c] # "whole"
  BY DEF ReadPart, Returns, In, Goes, Complete, IInv, Typed
<1>3. shut'[c] /\ \A d \in Conns \ {c} : shut'[d] = shut[d]
  BY <1>2 DEF ReadInv, TypedBuffers
<1>4. OwnEntry(c)' /\ OwnAnswer(c)'
  BY <1>1, <1>2, <1>3 DEF OwnEntry, OwnAnswer
<1>. QED  BY <1>1, <1>2, <1>3, <1>4, OwnLocal DEF OwnNumbers

LEMMA FirstAnswer == \A x : Append(<<>>, x) = <<x>>
OBVIOUS

LEMMA OwnReadAll ==
  ASSUME IInv, ReadInv, OwnInv, NEW c \in Conns, ReadAll(c), ~shared
  PROVE  OwnInv'
<1>1. OwnNumbers /\ OwnEntry(c) /\ OwnAnswer(c) /\ Holds(c)
  BY DEF OwnInv, OwnNumbers, ReadAll, In, Holds
<1>2. /\ running /\ running' = running /\ shared' = shared /\ s_http_map' = s_http_map
      /\ uuid' = uuid /\ http_conn' = http_conn /\ got' = got
      /\ phase[c] = "reading" /\ phase' = [phase EXCEPT ![c] = "up"] /\ phase'[c] = "up"
      /\ shut' = [shut EXCEPT ![c] = TRUE] /\ got[c] \in {"late", "whole"}
  BY DEF ReadAll, Returns, In, Goes, Complete, IInv, Typed
<1>3. shut'[c] /\ \A d \in Conns \ {c} : shut'[d] = shut[d]
  BY <1>2 DEF ReadInv, TypedBuffers
<1>4. http_conn[c] = c /\ Send(c, c)
  BY <1>1, <1>2 DEF OwnEntry, ReadAll
<1>5. \A d \in Conns \ {c} : answers'[d] = answers[d]
  BY <1>4 DEF Send, IInv, Typed
<1>6. IF shut[c] THEN answers'[c] = answers[c] ELSE answers'[c] = <<c>>
  BY <1>1, <1>2, <1>4, FirstAnswer DEF Send, OwnAnswer, IInv, Typed
<1>7. OwnEntry(c)'
  BY <1>1, <1>2 DEF OwnEntry
<1>8. OwnAnswer(c)'
  BY <1>1, <1>2, <1>3, <1>6 DEF OwnAnswer
<1>. QED  BY <1>1, <1>2, <1>3, <1>5, <1>7, <1>8, OwnLocal DEF OwnNumbers

\* The entry of a connection is there when its request is handled.
LEMMA OwnNeverDies ==
  ASSUME OwnInv, NEW c \in Conns, ReadAllDies(c), ~shared
  PROVE  FALSE
BY NotConns DEF OwnInv, OwnNumbers, OwnEntry, ReadAllDies, In

LEMMA OwnInvariant == Spec => [](IInv /\ ReadInv /\ OwnInv)
<1>1. ASSUME Init PROVE OwnInv
  <2>1. \A c \in Conns : phase[c] = "away" /\ answers[c] = <<>> /\ ~shut[c]
    BY <1>1 DEF Init
  <2>2. \A c \in Conns : <<>> # <<c>>
    OBVIOUS
  <2>3. \A c \in Conns : OwnEntry(c) /\ OwnAnswer(c)
    BY <2>1, <2>2 DEF OwnEntry, OwnAnswer
  <2>4. running /\ shared \in BOOLEAN /\ \A u \in Numbers : s_http_map[u] = Absent
    BY <1>1 DEF Init, Numbers
  <2>. QED  BY <2>1, <2>3, <2>4 DEF OwnInv, OwnNumbers, Holds
<1>2. ASSUME IInv, ReadInv, OwnInv, [Next]_vars PROVE OwnInv'
  <2>1. CASE UNCHANGED vars
    BY <1>2, <2>1 DEF vars, io, OwnInv, OwnNumbers, Holds, OwnEntry, OwnAnswer
  <2>2. CASE \E c \in Conns : Accept(c)
    BY <1>2, <2>2, OwnAccept
  <2>3. ASSUME NEW c \in Conns, Callback(c) \/ Disconnect(c) \/ Message(c) PROVE OwnInv'
    <3>1. CASE shared
      <4>1. shared'
        BY <2>3, <3>1 DEF Callback, Connect, Insert, Erase, ReadPart, ReadAll, ReadAllDies, Disconnect, Message
      <4>2. shared' \in BOOLEAN
        BY <1>2, <2>3 DEF Callback, Connect, Insert, Erase, ReadPart, ReadAll, ReadAllDies, Disconnect, Message, OwnInv
      <4>. QED  BY <4>1, <4>2 DEF OwnInv
    <3>2. CASE ~shared
      BY <1>2, <2>3, <3>2, OwnConnect, OwnInsert, OwnLeaves, OwnMessage, OwnReadPart, OwnReadAll,
         OwnNeverDies DEF Callback
    <3>. QED  BY <3>1, <3>2
  <2>. QED  BY <1>2, <2>1, <2>2, <2>3 DEF Next
<1>. QED  BY <1>1, <1>2, ReadInvariant, PTL DEF Spec

\* As long as no two open connections have had one number, the process lives,
\* and a client whose request came in one segment is sent its answer, once, when
\* the request has been read, and nothing else, whatever callbacks interleave.
THEOREM HttpServerOwnAnswers == Spec => []OwnAnswers
<1>1. OwnInv => OwnAnswers
  BY DEF OwnInv, OwnNumbers, OwnAnswer, OwnAnswers
<1>. QED  BY <1>1, OwnInvariant, PTL
=============================================================================
