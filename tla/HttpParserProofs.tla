-------------------------- MODULE HttpParserProofs --------------------------
(***************************************************************************)
(* The assertions in http_parser_execute hold for every stream of bytes,   *)
(* every width of the length and every limit of the headers: each state    *)
(* knows what the states before it have left in nread, length, flags and   *)
(* header.                                                                 *)
(*                                                                         *)
(* A request is complete with its last byte, whatever follows it: after i  *)
(* bytes of a request the parser is in the line, the header, the chunk or  *)
(* the body that byte i belongs to, and has kept what it has read of the   *)
(* URL, the length, the flags and the body.                                *)
(***************************************************************************)
EXTENDS HttpParser, SequenceTheorems, TLAPS

Heads  == {"dead", "start_req", "req_method", "req_spaces", "req_path", "req_http", "req_http_end",
           "req_line_almost_done", "field_start", "field", "value_start", "value",
           "header_almost_done", "value_lws", "headers_almost_done"}
Sizes  == {"chunk_size_start", "chunk_size", "chunk_parameters", "chunk_size_almost_done"}

\* What does not depend on the state.
Typed(p) ==
  /\ DOMAIN p = DOMAIN ParserStart
  /\ p.state \in Heads \cup InChunked \cup {"body_identity"}
  /\ p.length \in 0..Unset /\ p.nread \in Nat

\* What a state that reads on knows of the fields.
Knows(p) ==
  /\ p.state = "value" => p.header \notin {"Connection", "Transfer-Encoding"}
  /\ p.state = "field" => p.header \in Known \cup {"general"}
  /\ p.state \in InChunked => "chunked" \in p.flags
  /\ p.state \in Sizes => p.length # Unset \/ p.state = "chunk_size_start"
  /\ p.state \in {"body_identity", "chunk_data"} => p.length \notin {0, Unset}
  /\ p.state = "chunk_data_almost_done" => p.length = 0

Good(p) == Typed(p) /\ p.sane = TRUE /\ p.stopped \in BOOLEAN /\ (~p.stopped => Knows(p))

\* Before a byte: a chunk size starts with an empty count.
ParserInv(p) == Good(p) /\ (~p.stopped /\ p.state = "chunk_size_start" => p.nread = 0)

-----------------------------------------------------------------------------
(* Numbers *)

LEMMA UnsetFacts == Unset \in Nat /\ Unset > 3 /\ 2^Width \in Nat \ {0} /\ Unset = 2^Width - 1
BY HttpParserAssumption DEF Unset

LEMMA DigitFacts == ASSUME NEW b \in DOMAIN Digit PROVE Digit[b] \in 0..3
BY DEF Digit

\* What is computed for a length with one more digit is a length.
LEMMA WrapFacts ==
  ASSUME NEW n \in 0..Unset, NEW k \in Nat, NEW d \in 0..3
  PROVE  (n * k + d) % 2^Width \in 0..Unset
<1>. DEFINE w == 2^Width
<1>1. w \in Nat \ {0} /\ Unset = w - 1
  BY UnsetFacts
<1>2. n \in Nat /\ n * k \in Nat
  BY <1>1
<1>3. n * k + d \in Nat
  BY <1>2
<1>4. \A a \in Nat : \A v \in Nat \ {0} : a % v \in 0..v - 1
  OBVIOUS
<1>. HIDE DEF w
<1>5. (n * k + d) % w \in 0..w - 1
  BY <1>1, <1>3, <1>4
<1>. QED  BY <1>1, <1>5 DEF w

-----------------------------------------------------------------------------
(* A byte in each state; q is the parser with the byte counted *)

Reads(q, S) == Good(q) /\ q.stopped = FALSE /\ q.state \in S

LEMMA ErrorKeeps == ASSUME NEW q, Good(q) PROVE ParserInv(Error(q))
BY DEF ParserInv, Good, Typed, Error, ParserStart

\* States outside headers' names, values and bodies expect nothing of the fields.
LEMMA ToKeeps ==
  ASSUME NEW q, Reads(q, Heads \cup InChunked), NEW s \in Heads \ {"field", "value"}
  PROVE  ParserInv(To(q, s))
BY DEF ParserInv, Reads, Good, Typed, Knows, To, Heads, InChunked, Sizes, ParserStart

LEMMA CompleteKeeps ==
  ASSUME NEW q, Good(q)
  PROVE  ParserInv(Complete(q))
<1>. DEFINE s == IF KeepAlive(q) THEN "start_req" ELSE "dead"
<1>1. s \in {"start_req", "dead"}
  OBVIOUS
<1>. HIDE DEF s
<1>2. Complete(q) = [q EXCEPT !.state = s, !.complete = @ + 1]
  BY DEF Complete, s
<1>. QED
  BY <1>1, <1>2 DEF ParserInv, Good, Typed, Knows, Heads, InChunked, Sizes, ParserStart

LEMMA RequestLineKeeps ==
  ASSUME NEW q, NEW b,
         Reads(q, {"req_method", "req_spaces", "req_path", "req_http", "req_http_end", "req_line_almost_done"})
  PROVE  /\ ParserInv(ReqMethod(q, b)) /\ ParserInv(ReqSpaces(q, b)) /\ ParserInv(ReqPath(q, b))
         /\ ParserInv(ReqHttp(q, b)) /\ ParserInv(ReqHttpEnd(q, b)) /\ ParserInv(ReqLineDone(q, b))
<1>. USE DEF ParserInv, Reads, Good, Typed, Knows, To, Error, Expect, Url, Heads, InChunked, Sizes, ParserStart
<1>1. ParserInv(ReqMethod(q, b))
  BY DEF ReqMethod
<1>2. ParserInv(ReqSpaces(q, b))
  BY DEF ReqSpaces
<1>3. ParserInv(ReqPath(q, b))
  BY DEF ReqPath
<1>4. ParserInv(ReqHttp(q, b))
  BY DEF ReqHttp
<1>5. ParserInv(ReqHttpEnd(q, b))
  BY DEF ReqHttpEnd
<1>6. ParserInv(ReqLineDone(q, b))
  BY DEF ReqLineDone
<1>. QED  BY <1>1, <1>2, <1>3, <1>4, <1>5, <1>6

LEMMA StartReqKeeps ==
  ASSUME NEW q, NEW b, Reads(q, {"dead", "start_req"})
  PROVE  ParserInv(StartReq(q, b))
<1>1. ParserInv(q) /\ ParserInv(Error(q))
  BY ErrorKeeps DEF ParserInv, Reads, Good, Typed, Knows, Heads, InChunked, Sizes, ParserStart
<1>2. ParserInv([q EXCEPT !.state = "req_method", !.flags = {}, !.length = Unset])
  BY UnsetFacts DEF ParserInv, Reads, Good, Typed, Knows, Heads, InChunked, Sizes, ParserStart
<1>. QED  BY <1>1, <1>2 DEF StartReq

LEMMA HeadersDoneKeeps ==
  ASSUME NEW q, Good(q), q.stopped = FALSE
  PROVE  ParserInv(HeadersDone(q))
<1>. DEFINE r == [q EXCEPT !.nread = 0]
<1>1. Good(r) /\ r.nread = 0 /\ r.flags = q.flags /\ r.length = q.length /\ r.stopped = FALSE
  BY DEF Good, Typed, Knows, ParserStart
<1>. HIDE DEF r
<1>2. HeadersDone(q) = CASE "upgrade" \in q.flags -> Error(Complete(r))
       [] "upgrade" \notin q.flags /\ "chunked" \in q.flags -> To(r, "chunk_size_start")
       [] "upgrade" \notin q.flags /\ "chunked" \notin q.flags ->
            IF q.length \in {0, Unset} THEN Complete(r) ELSE To(r, "body_identity")
  BY DEF HeadersDone, r
<1>3. ParserInv(Complete(r)) /\ ParserInv(Error(Complete(r)))
  BY <1>1, CompleteKeeps, ErrorKeeps DEF ParserInv
<1>4. "chunked" \in q.flags => ParserInv(To(r, "chunk_size_start"))
  BY <1>1 DEF To, ParserInv, Good, Typed, Knows, Heads, InChunked, Sizes, ParserStart
<1>5. q.length \notin {0, Unset} => ParserInv(To(r, "body_identity"))
  BY <1>1 DEF To, ParserInv, Good, Typed, Knows, Heads, InChunked, Sizes, ParserStart
<1>. QED  BY <1>2, <1>3, <1>4, <1>5

LEMMA HeadersAlmostDoneKeeps ==
  ASSUME NEW q, NEW b, Reads(q, Heads)
  PROVE  ParserInv(HeadersAlmostDone(q, b))
BY ErrorKeeps, CompleteKeeps, HeadersDoneKeeps DEF HeadersAlmostDone, Reads

LEMMA FieldKeeps ==
  ASSUME NEW q, NEW b, Reads(q, Heads)
  PROVE  ParserInv(FieldStart(q, b)) /\ (q.state = "field" => ParserInv(Field(q, b)))
<1>1. \A h \in Known \cup {"general"} : ParserInv([q EXCEPT !.state = "field", !.header = h])
  BY DEF ParserInv, Reads, Good, Typed, Knows, Heads, InChunked, Sizes, ParserStart
<1>2. \A s \in Heads \ {"field", "value"} : ParserInv(To(q, s))
  BY ToKeeps DEF Reads
<1>3. ParserInv(Error(q))
  BY ErrorKeeps DEF Reads
<1>4. ParserInv(FieldStart(q, b))
  BY <1>1, <1>2, <1>3, HeadersAlmostDoneKeeps DEF FieldStart, Heads
<1>5. ASSUME q.state = "field" PROVE ParserInv(Field(q, b))
  <2>1. (q.header \in Known \cup {"general"}) = TRUE
    BY <1>5 DEF Reads, Good, Knows
  <2>2. ParserInv(Asserts([q EXCEPT !.header = "general"], q.header \in Known \cup {"general"}))
    BY <1>5, <2>1 DEF Asserts, ParserInv, Reads, Good, Typed, Knows, Heads, InChunked, Sizes, ParserStart
  <2>. QED  BY <1>2, <1>3, <2>2 DEF Field, Heads
<1>. QED  BY <1>4, <1>5

\* A name the parser knows is kept with the value only if it has no values it knows.
LEMMA ValueStartKeeps ==
  ASSUME NEW q, NEW b, Reads(q, {"value_start"})
  PROVE  ParserInv(ValueStart(q, b))
<1>1. ParserInv(q)
  BY DEF ParserInv, Reads, Good, Typed, Knows, Heads, InChunked, Sizes, ParserStart
<1>2. ParserInv([q EXCEPT !.state = "header_almost_done", !.header = "general"])
  BY DEF ParserInv, Reads, Good, Typed, Knows, Heads, InChunked, Sizes, ParserStart
<1>3. ParserInv(To(q, "field_start")) /\ ParserInv(Error(q))
  BY ToKeeps, ErrorKeeps DEF Reads, Heads
<1>4. ASSUME q.header = "Content-Length", b \in DOMAIN Digit
      PROVE  ParserInv([q EXCEPT !.state = "value", !.length = Digit[b]])
  BY <1>4, UnsetFacts, DigitFacts DEF ParserInv, Reads, Good, Typed, Knows, Heads, InChunked, Sizes, ParserStart
<1>5. \A f : \A h \in {b, "general"} :
        h \notin {"Connection", "Transfer-Encoding"} =>
          ParserInv([q EXCEPT !.state = "value", !.flags = f, !.header = h])
  BY DEF ParserInv, Reads, Good, Typed, Knows, Heads, InChunked, Sizes, ParserStart
<1>. QED  BY <1>1, <1>2, <1>3, <1>4, <1>5 DEF ValueStart

LEMMA HeaderAlmostDoneKeeps ==
  ASSUME NEW q, NEW b, Reads(q, Heads)
  PROVE  ParserInv(HeaderAlmostDone(q, b))
BY ErrorKeeps, ZenonT(60) DEF HeaderAlmostDone, Flagged, To, ParserInv, Reads, Good, Typed, Knows,
  Heads, InChunked, Sizes, ParserStart

LEMMA ValueKeeps ==
  ASSUME NEW q, NEW b, Reads(q, {"value"})
  PROVE  ParserInv(Value(q, b))
<1>1. q.header \notin {"Connection", "Transfer-Encoding"}
  BY DEF Reads, Good, Knows
<1>2. ParserInv(To(q, "header_almost_done")) /\ ParserInv(Error(q)) /\ ParserInv(HeaderAlmostDone(q, b))
  BY ToKeeps, ErrorKeeps, HeaderAlmostDoneKeeps DEF Reads, Heads
<1>3. ParserInv(q)
  BY DEF ParserInv, Reads, Good, Sizes, Knows
<1>4. ASSUME b \in DOMAIN Digit
      PROVE  ParserInv(MoreDigits(q, b))
  <2>. DEFINE t == (q.length * 10 + Digit[b]) % 2^Width
  <2>1. t \in 0..Unset
    BY <1>4, DigitFacts, WrapFacts DEF Reads, Good, Typed
  <2>. HIDE DEF t
  <2>2. ParserInv([q EXCEPT !.length = t])
    BY <2>1 DEF ParserInv, Reads, Good, Typed, Knows, Heads, InChunked, Sizes, ParserStart
  <2>3. MoreDigits(q, b) = IF t < q.length \/ t = Unset THEN Error(q) ELSE [q EXCEPT !.length = t]
    BY DEF MoreDigits, t
  <2>. QED  BY <1>2, <2>2, <2>3
<1>5. ParserInv(Asserts(IF b = "SP" THEN q ELSE [q EXCEPT !.header = "general"],
                        q.header \notin {"Connection", "Transfer-Encoding"}))
  BY <1>1 DEF Asserts, ParserInv, Reads, Good, Typed, Knows, Heads, InChunked, Sizes, ParserStart
<1>. QED  BY <1>2, <1>3, <1>4, <1>5 DEF Value

LEMMA ValueLwsKeeps ==
  ASSUME NEW q, NEW b, Reads(q, {"value_lws"})
  PROVE  ParserInv(ValueLws(q, b))
<1>1. ParserInv(To(q, "value_start"))
  BY ToKeeps DEF Reads, Heads
<1>2. Reads(To(q, "field_start"), Heads)
  BY DEF To, Reads, Good, Typed, Knows, Heads, InChunked, Sizes, ParserStart
<1>. QED  BY <1>1, <1>2, FieldKeeps DEF ValueLws

-----------------------------------------------------------------------------
(* Bodies *)

\* The byte taken leaves a length, and nothing to take only if it was the last.
LEMMA TakeByteFacts ==
  ASSUME NEW q, NEW b, Reads(q, {"body_identity", "chunk_data"})
  PROVE  /\ Typed(TakeByte(q, b)) /\ TakeByte(q, b).sane = TRUE /\ TakeByte(q, b).stopped = FALSE
         /\ TakeByte(q, b).state = q.state /\ TakeByte(q, b).flags = q.flags
         /\ TakeByte(q, b).length = q.length - 1 /\ TakeByte(q, b).length # Unset
<1>1. q.length \in 0..Unset /\ q.length \notin {0, Unset}
  BY DEF Reads, Good, Typed, Knows
<1>2. q.length - 1 \in 0..Unset /\ q.length - 1 # Unset
  BY <1>1, UnsetFacts
<1>. QED
  BY <1>1, <1>2 DEF TakeByte, Asserts, Reads, Good, Typed, Heads, InChunked, Sizes, ParserStart

LEMMA BodyIdentityKeeps ==
  ASSUME NEW q, NEW b, Reads(q, {"body_identity"})
  PROVE  ParserInv(BodyIdentity(q, b))
<1>. DEFINE t == TakeByte(q, b)
<1>1. Typed(t) /\ t.sane = TRUE /\ t.stopped = FALSE /\ t.state = "body_identity" /\ t.length # Unset
  <2>1. Reads(q, {"body_identity", "chunk_data"}) /\ q.state = "body_identity"
    BY DEF Reads
  <2>. QED  BY <2>1, TakeByteFacts
<1>. HIDE DEF t
<1>2. CASE t.length = 0
  <2>1. ParserInv(Complete(t))
    <3>. DEFINE s == IF KeepAlive(t) THEN "start_req" ELSE "dead"
    <3>1. s \in {"start_req", "dead"}
      OBVIOUS
    <3>. HIDE DEF s
    <3>2. Complete(t) = [t EXCEPT !.state = s, !.complete = @ + 1]
      BY DEF Complete, s
    <3>. QED
      BY <1>1, <3>1, <3>2 DEF ParserInv, Good, Typed, Knows, Heads, InChunked, Sizes, ParserStart
  <2>. QED  BY <1>2, <2>1 DEF BodyIdentity, t
<1>3. CASE t.length # 0
  <2>1. ParserInv(t)
    BY <1>1, <1>3 DEF ParserInv, Good, Typed, Knows, Heads, InChunked, Sizes
  <2>. QED  BY <1>3, <2>1 DEF BodyIdentity, t
<1>. QED  BY <1>2, <1>3

LEMMA ChunkDataKeeps ==
  ASSUME NEW q, NEW b, Reads(q, {"chunk_data"})
  PROVE  ParserInv(ChunkData(q, b))
<1>. DEFINE t == TakeByte(q, b)
            s == IF q.length = 1 THEN "chunk_data_almost_done" ELSE t.state
<1>1. Typed(t) /\ t.sane = TRUE /\ t.stopped = FALSE /\ t.state = "chunk_data" /\ t.length # Unset
      /\ t.length = q.length - 1 /\ t.flags = q.flags
  <2>1. Reads(q, {"body_identity", "chunk_data"}) /\ q.state = "chunk_data"
    BY DEF Reads
  <2>. QED  BY <2>1, TakeByteFacts
<1>2. "chunked" \in q.flags /\ q.length \in Int
  BY DEF Reads, Good, Typed, Knows, InChunked
<1>. HIDE DEF t
<1>3. /\ s \in {"chunk_data", "chunk_data_almost_done"}
      /\ s = "chunk_data" <=> t.length # 0
  BY <1>1, <1>2
<1>. HIDE DEF s
<1>4. ParserInv([t EXCEPT !.state = s])
  BY <1>1, <1>2, <1>3 DEF ParserInv, Good, Typed, Knows, Heads, InChunked, Sizes, ParserStart
<1>. QED  BY <1>4 DEF ChunkData, t, s

\* The count is 1 when a size starts, so both assertions hold there.
LEMMA ChunkSizeStartKeeps ==
  ASSUME NEW q, NEW b, Reads(q, {"chunk_size_start"}), q.nread = 1
  PROVE  ParserInv(ChunkSizeStart(q, b))
<1>1. CASE b \in DOMAIN Digit
  <2>1. Digit[b] \in 0..Unset /\ Digit[b] # Unset
    BY <1>1, DigitFacts, UnsetFacts
  <2>2. ParserInv(Asserts([q EXCEPT !.state = "chunk_size", !.length = Digit[b]], q.nread = 1))
    BY <2>1 DEF Asserts, ParserInv, Reads, Good, Typed, Knows, Heads, InChunked, Sizes, ParserStart
  <2>. QED  BY <1>1, <2>2 DEF ChunkSizeStart
<1>2. CASE b \notin DOMAIN Digit
  <2>1. ParserInv(Asserts(Error(q), q.nread = 1))
    BY DEF Asserts, Error, ParserInv, Reads, Good, Typed, Knows, Heads, InChunked, Sizes, ParserStart
  <2>. QED  BY <1>2, <2>1 DEF ChunkSizeStart
<1>. QED  BY <1>1, <1>2

LEMMA ChunkSizeKeeps ==
  ASSUME NEW q, NEW b, Reads(q, {"chunk_size", "chunk_parameters"})
  PROVE  /\ q.state = "chunk_size" => ParserInv(ChunkSize(q, b))
         /\ q.state = "chunk_parameters" => ParserInv(ChunkParameters(q, b))
<1>1. \A s \in Sizes \ {"chunk_size_start"} : ParserInv(To(q, s))
  BY DEF To, ParserInv, Reads, Good, Typed, Knows, Heads, InChunked, Sizes, ParserStart
<1>2. ParserInv(q) /\ ParserInv(Error(q))
  BY ErrorKeeps DEF Reads, ParserInv, Good
<1>3. ASSUME b \in DOMAIN Digit, q.state = "chunk_size",
             NEW t \in 0..Unset, t # Unset
      PROVE  ParserInv([q EXCEPT !.length = t])
  BY <1>3 DEF ParserInv, Reads, Good, Typed, Knows, Heads, InChunked, Sizes, ParserStart
<1>4. ASSUME b \in DOMAIN Digit
      PROVE  (q.length * 16 + Digit[b]) % 2^Width \in 0..Unset
  BY <1>4, DigitFacts, WrapFacts DEF Reads, Good, Typed
<1>5. ASSUME q.state = "chunk_size" PROVE ParserInv(ChunkSize(q, b))
  BY <1>1, <1>2, <1>3, <1>4, <1>5 DEF ChunkSize, Sizes
<1>6. ParserInv(ChunkParameters(q, b))
  BY <1>1, <1>2 DEF ChunkParameters, Sizes
<1>. QED  BY <1>5, <1>6

LEMMA ChunkEndsKeep ==
  ASSUME NEW q, NEW b
  PROVE  /\ Reads(q, {"chunk_size_almost_done"}) => ParserInv(ChunkSizeAlmostDone(q, b))
         /\ Reads(q, {"chunk_data_almost_done"}) => ParserInv(ChunkDataAlmostDone(q, b))
         /\ Reads(q, {"chunk_data_done"}) => ParserInv(ChunkDataDone(q, b))
<1>1. Good(q) => ParserInv(Error(q))
  BY ErrorKeeps
<1>2. ASSUME Reads(q, {"chunk_size_almost_done"}) PROVE ParserInv(ChunkSizeAlmostDone(q, b))
  <2>1. \A f : ParserInv([q EXCEPT !.state = "field_start", !.nread = 0, !.flags = f])
    BY <1>2 DEF ParserInv, Reads, Good, Typed, Knows, Heads, InChunked, Sizes, ParserStart
  <2>2. q.length # 0 => ParserInv([q EXCEPT !.state = "chunk_data", !.nread = 0])
    BY <1>2 DEF ParserInv, Reads, Good, Typed, Knows, Heads, InChunked, Sizes, ParserStart
  <2>. QED  BY <1>1, <1>2, <2>1, <2>2 DEF ChunkSizeAlmostDone, Reads
<1>3. ASSUME Reads(q, {"chunk_data_almost_done"}) PROVE ParserInv(ChunkDataAlmostDone(q, b))
  <2>1. q.length = 0
    BY <1>3 DEF Reads, Good, Knows
  <2>2. ParserInv(Asserts(Error(q), q.length = 0)) /\ ParserInv(Asserts(To(q, "chunk_data_done"), q.length = 0))
    BY <1>3, <2>1 DEF Asserts, Error, To, ParserInv, Reads, Good, Typed, Knows, Heads, InChunked, Sizes, ParserStart
  <2>. QED  BY <2>2 DEF ChunkDataAlmostDone, Expect
<1>4. ASSUME Reads(q, {"chunk_data_done"}) PROVE ParserInv(ChunkDataDone(q, b))
  <2>. DEFINE r == [q EXCEPT !.nread = 0]
  <2>1. Good(r) /\ r.nread = 0 /\ r.state = "chunk_data_done" /\ r.stopped = FALSE
    BY <1>4 DEF Reads, Good, Typed, Knows, Heads, InChunked, Sizes, ParserStart
  <2>. HIDE DEF r
  <2>2. ParserInv(Error(r))
    BY <2>1, ErrorKeeps
  <2>3. ParserInv(To(r, "chunk_size_start"))
    BY <2>1 DEF To, ParserInv, Good, Typed, Knows, Heads, InChunked, Sizes, ParserStart
  <2>. QED  BY <2>2, <2>3 DEF ChunkDataDone, Expect, r
<1>. QED  BY <1>2, <1>3, <1>4

-----------------------------------------------------------------------------
(* All states *)

\* One step per state.
LEMMA ReadByteKeeps ==
  ASSUME NEW q, NEW b, Good(q), q.stopped = FALSE, q.state = "chunk_size_start" => q.nread = 1
  PROVE  ParserInv(ReadByte(q, b))
<1>1. \A S : q.state \in S => Reads(q, S)
  BY DEF Reads
<1>2. q.state \in Heads \cup InChunked \cup {"body_identity"}
  BY DEF Good, Typed
<1>. USE <1>1 DEF ReadByte
<1>3. CASE q.state \in {"dead", "start_req"}
  BY <1>3, StartReqKeeps
<1>4. CASE q.state \in {"req_method", "req_spaces", "req_path", "req_http", "req_http_end", "req_line_almost_done"}
  BY <1>4, RequestLineKeeps
<1>5. CASE q.state \in {"field_start", "field", "headers_almost_done", "header_almost_done"}
  <2>1. Reads(q, Heads)
    BY <1>5 DEF Heads
  <2>. QED  BY <1>5, <2>1, FieldKeeps, HeadersAlmostDoneKeeps, HeaderAlmostDoneKeeps
<1>6. CASE q.state \in {"value_start"}
  BY <1>6, ValueStartKeeps
<1>7. CASE q.state \in {"value"}
  BY <1>7, ValueKeeps
<1>8. CASE q.state \in {"value_lws"}
  BY <1>8, ValueLwsKeeps
<1>9. CASE q.state \in {"body_identity"}
  BY <1>9, BodyIdentityKeeps
<1>10. CASE q.state \in {"chunk_size_start"}
  BY <1>10, ChunkSizeStartKeeps
<1>11. CASE q.state \in {"chunk_size", "chunk_parameters"}
  BY <1>11, ChunkSizeKeeps
<1>12. CASE q.state \in {"chunk_data"}
  BY <1>12, ChunkDataKeeps
<1>13. CASE q.state \in {"chunk_size_almost_done"}
  BY <1>13, ChunkEndsKeep
<1>14. CASE q.state \in {"chunk_data_almost_done"}
  BY <1>14, ChunkEndsKeep
<1>15. CASE q.state \in {"chunk_data_done"}
  BY <1>15, ChunkEndsKeep
<1>. QED
  BY <1>2, <1>3, <1>4, <1>5, <1>6, <1>7, <1>8, <1>9, <1>10, <1>11, <1>12, <1>13, <1>14, <1>15
  DEF Heads, InChunked

\* Whatever the byte is.
LEMMA ExecuteKeeps ==
  ASSUME NEW p, NEW b, ParserInv(p)
  PROVE  ParserInv(http_parser_execute(p, b))
<1>. DEFINE q == IF p.state \in InBody THEN p ELSE [p EXCEPT !.nread = @ + 1]
<1>1. Good(q) /\ q.state = p.state /\ q.stopped = p.stopped
  BY DEF ParserInv, Good, Typed, Knows, Heads, InChunked, Sizes, ParserStart
<1>2. ~p.stopped /\ p.state = "chunk_size_start" => q.nread = 1
  BY DEF ParserInv, Good, Typed, InBody, ParserStart
<1>. HIDE DEF q
<1>3. CASE p.stopped
  BY <1>3 DEF http_parser_execute
<1>4. CASE ~p.stopped /\ q.nread > MaxHeader
  BY <1>1, <1>4, ErrorKeeps DEF http_parser_execute, q
<1>5. CASE ~p.stopped /\ ~(q.nread > MaxHeader)
  <2>. DEFINE r == AssertChunked(q)
  <2>1. Good(r) /\ r.state = p.state /\ r.stopped = FALSE /\ r.nread = q.nread
    BY <1>1, <1>5 DEF AssertChunked, Asserts, Good, Typed, Knows, ParserStart
  <2>2. http_parser_execute(p, b) = ReadByte(r, b)
    BY <1>5 DEF http_parser_execute, q
  <2>. HIDE DEF r
  <2>3. ParserInv(ReadByte(r, b))
    BY <1>2, <1>5, <2>1, ReadByteKeeps
  <2>. QED  BY <2>2, <2>3
<1>. QED  BY <1>3, <1>4, <1>5

LEMMA ParserInitEstablishes == ParserInit => ParserInv(parser)
BY UnsetFacts DEF ParserInit, ParserInv, ParserStart, Good, Typed, Knows, Heads, InChunked, Sizes

LEMMA ParserNextPreserves == ParserInv(parser) /\ [ParserNext]_parserVars => ParserInv(parser)'
BY ExecuteKeeps DEF ParserNext, ByteArrives, parserVars

-----------------------------------------------------------------------------
(* Which text is marked depends on the state alone *)

\* The text that is read in a state; a body may not have begun.
MarkOf(s) ==
  CASE s = "req_path"                                                   -> {"url"}
    [] s = "field"                                                      -> {"header_field"}
    [] s = "value"                                                      -> {"header_value"}
    [] s \in {"body_identity", "chunk_data", "chunk_data_almost_done"} -> {"body"}
    [] OTHER                                                            -> {}

MarksInv == ~parser.stopped => marks \subseteq MarkOf(parser.state)

\* Where a byte leads that the parser goes on after.
Leads(p, b, q) ==
  q.stopped \/ (MarkOf(p.state) \cup Marked(p, b)) \ Delivered(p, b) \subseteq MarkOf(q.state)

LEMMA CompleteMarks ==
  ASSUME NEW p, Good(p)
  PROVE  Complete(p).state \in {"start_req", "dead"}
BY DEF Complete, Good, Typed, ParserStart

LEMMA RequestLineMarks ==
  ASSUME NEW p, NEW b, Good(p)
  PROVE  /\ p.state \in {"dead", "start_req"} => Leads(p, b, StartReq(p, b))
         /\ p.state = "req_method" => Leads(p, b, ReqMethod(p, b))
         /\ p.state = "req_spaces" => Leads(p, b, ReqSpaces(p, b))
         /\ p.state = "req_path" => Leads(p, b, ReqPath(p, b))
         /\ p.state = "req_http" => Leads(p, b, ReqHttp(p, b))
         /\ p.state = "req_http_end" => Leads(p, b, ReqHttpEnd(p, b))
         /\ p.state = "req_line_almost_done" => Leads(p, b, ReqLineDone(p, b))
<1>. USE DEF Good, Typed, Leads, Marked, Delivered, MarkOf, ParserStart, Error, To, Expect
<1>1. p.state \in {"dead", "start_req"} => Leads(p, b, StartReq(p, b))
  BY DEF StartReq
<1>2. p.state = "req_method" => Leads(p, b, ReqMethod(p, b))
  BY DEF ReqMethod
<1>3. p.state = "req_spaces" => Leads(p, b, ReqSpaces(p, b))
  BY DEF ReqSpaces, Url
<1>4. p.state = "req_path" => Leads(p, b, ReqPath(p, b))
  BY DEF ReqPath, Url
<1>5. p.state = "req_http" => Leads(p, b, ReqHttp(p, b))
  BY DEF ReqHttp
<1>6. p.state = "req_http_end" => Leads(p, b, ReqHttpEnd(p, b))
  BY DEF ReqHttpEnd
<1>7. p.state = "req_line_almost_done" => Leads(p, b, ReqLineDone(p, b))
  BY DEF ReqLineDone
<1>. QED  BY <1>1, <1>2, <1>3, <1>4, <1>5, <1>6, <1>7

\* After the headers nothing is marked yet.
LEMMA HeadersEndMarks ==
  ASSUME NEW p, NEW b, Good(p)
  PROVE  LET q == HeadersAlmostDone(p, b)
         IN q.stopped \/ q.state \in {"start_req", "dead", "chunk_size_start", "body_identity"}
<1>. DEFINE q == [p EXCEPT !.nread = 0]
            Done(r) == r.stopped \/ r.state \in {"start_req", "dead", "chunk_size_start", "body_identity"}
<1>1. Good(q)
  BY DEF Good, Typed, Knows, ParserStart
<1>2. Done(Complete(q)) /\ Done(Error(Complete(q))) /\ Done(Complete(p)) /\ Done(Error(p))
  BY <1>1, CompleteMarks DEF Error, Complete, Good, Typed, ParserStart
<1>3. Done(To(q, "chunk_size_start")) /\ Done(To(q, "body_identity"))
  BY DEF To, Good, Typed, ParserStart
<1>. HIDE DEF Done
<1>. QED  BY <1>2, <1>3 DEF HeadersAlmostDone, HeadersDone, Done

LEMMA HeaderMarks ==
  ASSUME NEW p, NEW b, Good(p)
  PROVE  /\ p.state = "field_start" => Leads(p, b, FieldStart(p, b))
         /\ p.state = "field" => Leads(p, b, Field(p, b))
         /\ p.state = "value_start" => Leads(p, b, ValueStart(p, b))
         /\ p.state = "value" => Leads(p, b, Value(p, b))
         /\ p.state = "header_almost_done" => Leads(p, b, HeaderAlmostDone(p, b))
         /\ p.state = "value_lws" => Leads(p, b, ValueLws(p, b))
         /\ p.state = "headers_almost_done" => Leads(p, b, HeadersAlmostDone(p, b))
<1>. USE DEF Leads, Marked, Delivered, MarkOf
<1>t. /\ \A s : To(p, s).state = s
      /\ Error(p).stopped = TRUE
      /\ \A s, h : [p EXCEPT !.state = s, !.header = h].state = s
      /\ \A s, l : [p EXCEPT !.state = s, !.length = l].state = s
      /\ \A s, f, h : [p EXCEPT !.state = s, !.flags = f, !.header = h].state = s
      /\ \A h : [p EXCEPT !.header = h].state = p.state /\ \A l : [p EXCEPT !.length = l].state = p.state
      /\ \A r, h : Asserts(r, h).state = r.state
      /\ \A s : To(Flagged(p), s).state = s
  BY DEF Good, Typed, To, Error, Asserts, Flagged, ParserStart
<1>1. p.state = "field_start" => Leads(p, b, FieldStart(p, b))
  BY <1>t, HeadersEndMarks DEF FieldStart
<1>2. p.state = "field" => Leads(p, b, Field(p, b))
  <2>1. Asserts([p EXCEPT !.header = "general"], p.header \in Known \cup {"general"}).state = p.state
    BY DEF Asserts, Good, Typed, ParserStart
  <2>2. LET q == Field(p, b) IN q.stopped \/ q.state = p.state \/ b \in {":", "CR", "LF"}
    BY <1>t, <2>1 DEF Field
  <2>3. b \in {":", "CR", "LF"} => Field(p, b).state \in {"value_start", "header_almost_done", "field_start", "field"}
    BY <1>t, <2>1 DEF Field
  <2>. HIDE DEF Leads, Marked, Delivered
  <2>. QED  BY <2>2, <2>3 DEF Leads, Marked, Delivered
<1>3. p.state = "value_start" => Leads(p, b, ValueStart(p, b))
  BY <1>t DEF ValueStart
<1>4. p.state = "value" => Leads(p, b, Value(p, b))
  <2>1. /\ MoreDigits(p, b).state = p.state \/ MoreDigits(p, b).stopped
        /\ HeaderAlmostDone(p, "LF").state = "value_lws"
        /\ \A q : (q = p \/ q = [p EXCEPT !.header = "general"])
             => Asserts(q, p.header \notin {"Connection", "Transfer-Encoding"}).state = p.state
    BY <1>t DEF MoreDigits, HeaderAlmostDone, Asserts, Good, Typed, ParserStart
  <2>2. LET q == Value(p, b)
        IN \/ q.stopped \/ q.state = p.state
           \/ b \in {"CR", "LF"} /\ q.state \in {"header_almost_done", "value_lws"}
    BY <1>t, <2>1 DEF Value
  <2>. QED  BY <2>2
<1>5. p.state = "header_almost_done" => Leads(p, b, HeaderAlmostDone(p, b))
  BY <1>t DEF HeaderAlmostDone
<1>6. p.state = "value_lws" => Leads(p, b, ValueLws(p, b))
  <2>. DEFINE q == To(p, "field_start")
  <2>1. Good(q)
    BY DEF To, Good, Typed, Knows, Heads, InChunked, Sizes, ParserStart
  <2>2. q.state = "field_start" /\ Error(q).stopped = TRUE /\ \A s : To(q, s).state = s
        /\ \A v, h : [q EXCEPT !.state = v, !.header = h].state = v
    BY <2>1 DEF Good, Typed, To, Error, ParserStart
  <2>. HIDE DEF q
  <2>3. LET r == FieldStart(q, b)
        IN \/ r.stopped
           \/ r.state \in {"headers_almost_done", "start_req", "dead", "chunk_size_start", "body_identity"}
           \/ b \in Token /\ r.state = "field"
    BY <2>1, <2>2, HeadersEndMarks DEF FieldStart
  <2>4. ValueLws(p, b) = IF b = "SP" THEN To(p, "value_start") ELSE FieldStart(q, b)
    BY DEF ValueLws, q
  <2>5. p.state = "value_lws" => Leads(p, b, FieldStart(q, b))
    <3>. SUFFICES ASSUME p.state = "value_lws" PROVE Leads(p, b, FieldStart(q, b))
      OBVIOUS
    <3>1. MarkOf(p.state) = {} /\ Marked(p, b) = IF b \in Token THEN {"header_field"} ELSE {}
      OBVIOUS
    <3>2. CASE FieldStart(q, b).state = "field" /\ b \in Token
      BY <3>1, <3>2
    <3>3. CASE b \notin Token
      BY <3>1, <3>3
    <3>. QED  BY <2>2, <3>2, <3>3 DEF FieldStart
  <2>6. p.state = "value_lws" => Leads(p, b, To(p, "value_start")) \/ b # "SP"
    BY <1>t DEF Token, Known, Methods, Digit
  <2>. QED  BY <2>4, <2>5, <2>6
<1>7. p.state = "headers_almost_done" => Leads(p, b, HeadersAlmostDone(p, b))
  BY HeadersEndMarks
<1>. QED  BY <1>1, <1>2, <1>3, <1>4, <1>5, <1>6, <1>7

LEMMA BodyMarks ==
  ASSUME NEW p, NEW b, Good(p), p.state \in InChunked \cup {"body_identity"}
  PROVE  Leads(p, b, ReadByte(p, b))
<1>. USE DEF Leads, Marked, Delivered, MarkOf, InChunked
<1>t. /\ \A s : To(p, s).state = s
      /\ Error(p).stopped = TRUE
      /\ \A r, h : Asserts(r, h).state = r.state /\ Asserts(r, h).stopped = r.stopped
      /\ \A s, l : [p EXCEPT !.state = s, !.length = l].state = s
      /\ \A l : [p EXCEPT !.length = l].state = p.state
      /\ \A s, x, f : [p EXCEPT !.state = s, !.nread = x, !.flags = f].state = s
      /\ \A s, x : [p EXCEPT !.state = s, !.nread = x].state = s
  BY DEF Good, Typed, To, Error, Asserts, ParserStart
<1>1. CASE p.state = "body_identity"
  <2>. DEFINE q == TakeByte(p, b)
  <2>1. q.state = p.state /\ q.length = p.length - 1 /\ Good(q) = Good(q) /\ DOMAIN q = DOMAIN ParserStart
    BY DEF TakeByte, Asserts, Good, Typed, ParserStart
  <2>2. Complete(q).state \in {"start_req", "dead"}
    BY <2>1 DEF Complete, ParserStart
  <2>3. p.length \in Nat
    BY UnsetFacts DEF Good, Typed
  <2>. HIDE DEF q
  <2>. QED  BY <1>1, <2>1, <2>2, <2>3 DEF ReadByte, BodyIdentity, q
<1>2. CASE p.state = "chunk_size_start"
  BY <1>t, <1>2, SMTT(60) DEF ReadByte, ChunkSizeStart
<1>3. CASE p.state \in {"chunk_size", "chunk_parameters"}
  BY <1>t, <1>3 DEF ReadByte, ChunkSize, ChunkParameters
<1>4. CASE p.state = "chunk_size_almost_done"
  BY <1>t, <1>4 DEF ReadByte, ChunkSizeAlmostDone
<1>5. CASE p.state = "chunk_data"
  <2>1. ChunkData(p, b).state \in {"chunk_data", "chunk_data_almost_done"}
    BY <1>5, SMTT(60) DEF ChunkData, TakeByte, Asserts, Good, Typed, ParserStart
  <2>. QED  BY <1>5, <2>1 DEF ReadByte
<1>6. CASE p.state \in {"chunk_data_almost_done", "chunk_data_done"}
  <2>1. p.state = "chunk_data_almost_done" => Leads(p, b, ChunkDataAlmostDone(p, b))
    BY <1>t DEF ChunkDataAlmostDone, Expect
  <2>2. p.state = "chunk_data_done" => Leads(p, b, ChunkDataDone(p, b))
    BY DEF ChunkDataDone, Expect, To, Error, Good, Typed, ParserStart
  <2>. QED  BY <1>6, <2>1, <2>2 DEF ReadByte
<1>. QED  BY <1>1, <1>2, <1>3, <1>4, <1>5, <1>6

LEMMA ReadByteMarks ==
  ASSUME NEW p, NEW b, Good(p)
  PROVE  Leads(p, b, ReadByte(p, b))
<1>1. CASE p.state \in InChunked \cup {"body_identity"}
  BY <1>1, BodyMarks
<1>2. CASE p.state \in Heads
  BY <1>2, RequestLineMarks, HeaderMarks DEF ReadByte, Heads
<1>. QED  BY <1>1, <1>2 DEF Good, Typed

\* Counting a byte and the assertion about chunks change neither.
LEMMA ExecuteMarks ==
  ASSUME NEW p, NEW b, ParserInv(p), NEW set, ~p.stopped => set \subseteq MarkOf(p.state)
  PROVE  LET q == http_parser_execute(p, b)
         IN ~q.stopped => (set \cup Marked(p, b)) \ Delivered(p, b) \subseteq MarkOf(q.state)
<1>. DEFINE q == IF p.state \in InBody THEN p ELSE [p EXCEPT !.nread = @ + 1]
            r == AssertChunked(q)
<1>1. Good(q) /\ q.state = p.state /\ q.stopped = p.stopped /\ q.length = p.length
  BY DEF ParserInv, Good, Typed, Knows, Heads, InChunked, Sizes, ParserStart
<1>. HIDE DEF q
<1>2. CASE p.stopped \/ q.nread > MaxHeader
  BY <1>1, <1>2 DEF http_parser_execute, q, Error, Good, Typed, ParserStart
<1>3. CASE ~p.stopped /\ ~(q.nread > MaxHeader)
  <2>1. Good(r) /\ r.state = p.state /\ r.length = p.length
    BY <1>1, <1>3 DEF AssertChunked, Asserts, Good, Typed, Knows, ParserStart
  <2>2. http_parser_execute(p, b) = ReadByte(r, b)
    BY <1>3 DEF http_parser_execute, q
  <2>. HIDE DEF r
  <2>3. Leads(r, b, ReadByte(r, b))
    BY <2>1, ReadByteMarks
  <2>4. Marked(r, b) = Marked(p, b) /\ Delivered(r, b) = Delivered(p, b)
    BY <2>1 DEF Marked, Delivered
  <2>. QED  BY <1>3, <2>1, <2>2, <2>3, <2>4 DEF Leads
<1>. QED  BY <1>2, <1>3

\* The assertions of http_parser_execute (http_parser.cc:1520, 1657, 1892, 1937-2056, 2063, 2079)
\* hold for any bytes, any width of content_length and any limit of the headers.
THEOREM ParserAssertionsHold == ParserSpec => []AssertionsHold
<1>1. ParserInv(parser) /\ MarksInv => AssertionsHold
  BY DEF ParserInv, Good, MarksInv, MarkOf, AssertionsHold
<1>2. ParserInit => MarksInv
  BY DEF ParserInit, MarksInv
<1>3. ParserInv(parser) /\ MarksInv /\ [ParserNext]_parserVars => MarksInv'
  <2>1. ParserInv(parser) /\ MarksInv /\ ByteArrives => MarksInv'
    BY ExecuteMarks DEF ByteArrives, MarksInv
  <2>. QED  BY <2>1 DEF ParserNext, MarksInv, parserVars
<1>. QED  BY <1>1, <1>2, <1>3, ParserInitEstablishes, ParserNextPreserves, PTL DEF ParserSpec

Rec(st, hd, len, fl, n, v, u, b, k, x, s) ==
  [state |-> st, header |-> hd, length |-> len, flags |-> fl, nread |-> n, version |-> v,
   url |-> u, body |-> b, complete |-> k, stopped |-> x, sane |-> s]

\* The parser within a request: no request complete, no error, no assertion failed.
Reading(st, hd, len, fl, n, v, u, b) == Rec(st, hd, len, fl, n, v, u, b, 0, FALSE, TRUE)

LEMMA StartIs == ParserStart = Reading("start_req", "general", Unset, {}, 0, "HTTP/1.0", <<>>, <<>>)
BY DEF ParserStart, Reading, Rec

LEMMA AssertsTrue ==
  ASSUME NEW st, NEW hd, NEW len, NEW fl, NEW n, NEW v, NEW u, NEW b, NEW holds, holds = TRUE
  PROVE  Asserts(Reading(st, hd, len, fl, n, v, u, b), holds) = Reading(st, hd, len, fl, n, v, u, b)
BY DEF Asserts, Reading, Rec

\* One field at a time.
LEMMA StateSet ==
  ASSUME NEW st, NEW hd, NEW len, NEW fl, NEW n, NEW v, NEW u, NEW b, NEW y
  PROVE  [Reading(st, hd, len, fl, n, v, u, b) EXCEPT !.state = y] = Reading(y, hd, len, fl, n, v, u, b)
<1>1. ASSUME NEW k, NEW x, NEW s
      PROVE  [Rec(st, hd, len, fl, n, v, u, b, k, x, s) EXCEPT !.state = y] = Rec(y, hd, len, fl, n, v, u, b, k, x, s)
  BY DEF Rec
<1>. QED  BY <1>1 DEF Reading

LEMMA LengthSet ==
  ASSUME NEW st, NEW hd, NEW len, NEW fl, NEW n, NEW v, NEW u, NEW b, NEW y
  PROVE  [Reading(st, hd, len, fl, n, v, u, b) EXCEPT !.length = y] = Reading(st, hd, y, fl, n, v, u, b)
<1>1. ASSUME NEW k, NEW x, NEW s
      PROVE  [Rec(st, hd, len, fl, n, v, u, b, k, x, s) EXCEPT !.length = y] = Rec(st, hd, y, fl, n, v, u, b, k, x, s)
  BY DEF Rec
<1>. QED  BY <1>1 DEF Reading

LEMMA FlagsSet ==
  ASSUME NEW st, NEW hd, NEW len, NEW fl, NEW n, NEW v, NEW u, NEW b, NEW y
  PROVE  [Reading(st, hd, len, fl, n, v, u, b) EXCEPT !.flags = y] = Reading(st, hd, len, y, n, v, u, b)
<1>1. ASSUME NEW k, NEW x, NEW s
      PROVE  [Rec(st, hd, len, fl, n, v, u, b, k, x, s) EXCEPT !.flags = y] = Rec(st, hd, len, y, n, v, u, b, k, x, s)
  BY DEF Rec
<1>. QED  BY <1>1 DEF Reading

LEMMA NreadSet ==
  ASSUME NEW st, NEW hd, NEW len, NEW fl, NEW n, NEW v, NEW u, NEW b, NEW y
  PROVE  [Reading(st, hd, len, fl, n, v, u, b) EXCEPT !.nread = y] = Reading(st, hd, len, fl, y, v, u, b)
<1>1. ASSUME NEW k, NEW x, NEW s
      PROVE  [Rec(st, hd, len, fl, n, v, u, b, k, x, s) EXCEPT !.nread = y] = Rec(st, hd, len, fl, y, v, u, b, k, x, s)
  BY DEF Rec
<1>. QED  BY <1>1 DEF Reading

LEMMA BodySet ==
  ASSUME NEW st, NEW hd, NEW len, NEW fl, NEW n, NEW v, NEW u, NEW b, NEW y
  PROVE  [Reading(st, hd, len, fl, n, v, u, b) EXCEPT !.body = y] = Reading(st, hd, len, fl, n, v, u, y)
<1>1. ASSUME NEW k, NEW x, NEW s
      PROVE  [Rec(st, hd, len, fl, n, v, u, b, k, x, s) EXCEPT !.body = y] = Rec(st, hd, len, fl, n, v, u, y, k, x, s)
  BY DEF Rec
<1>. QED  BY <1>1 DEF Reading

\* Several fields are set one after another.
LEMMA FieldsSet ==
  ASSUME NEW p, NEW x, NEW y, NEW z
  PROVE  /\ [p EXCEPT !.body = x, !.length = y] = [[p EXCEPT !.body = x] EXCEPT !.length = y]
         /\ [p EXCEPT !.state = x, !.nread = y] = [[p EXCEPT !.state = x] EXCEPT !.nread = y]
         /\ [p EXCEPT !.state = x, !.length = y] = [[p EXCEPT !.state = x] EXCEPT !.length = y]
         /\ [p EXCEPT !.state = x, !.nread = y, !.flags = z]
              = [[[p EXCEPT !.state = x] EXCEPT !.nread = y] EXCEPT !.flags = z]
OBVIOUS

\* A byte is counted unless it is of a body.
LEMMA ByteRead ==
  ASSUME NEW st, NEW hd, NEW len, NEW fl, NEW n \in Nat, NEW v, NEW u, NEW b, NEW c,
         st \in InChunked => "chunked" \in fl
  PROVE  /\ st \notin InBody /\ n + 1 <= MaxHeader =>
              http_parser_execute(Reading(st, hd, len, fl, n, v, u, b), c)
                = ReadByte(Reading(st, hd, len, fl, n + 1, v, u, b), c)
         /\ st \in InBody /\ n <= MaxHeader =>
              http_parser_execute(Reading(st, hd, len, fl, n, v, u, b), c)
                = ReadByte(Reading(st, hd, len, fl, n, v, u, b), c)
<1>. DEFINE p == Reading(st, hd, len, fl, n, v, u, b)
            q == Reading(st, hd, len, fl, n + 1, v, u, b)
<1>1. p.state = st /\ p.stopped = FALSE /\ p.nread = n /\ q.nread = n + 1
  BY DEF Reading, Rec
<1>2. [p EXCEPT !.nread = @ + 1] = q
  <2>1. [p EXCEPT !.nread = n + 1] = q
    BY NreadSet
  <2>. QED  BY <1>1, <2>1
<1>3. AssertChunked(p) = p /\ AssertChunked(q) = q
  <2>1. p.state = st /\ p.flags = fl /\ q.state = st /\ q.flags = fl
    BY DEF Reading, Rec
  <2>2. /\ (p.state \in InChunked => "chunked" \in p.flags) = TRUE
        /\ (q.state \in InChunked => "chunked" \in q.flags) = TRUE
    BY <2>1
  <2>. QED  BY <2>2, AssertsTrue DEF AssertChunked
<1>. HIDE DEF p, q
<1>4. st \notin InBody /\ n + 1 <= MaxHeader => http_parser_execute(p, c) = ReadByte(q, c)
  BY <1>1, <1>2, <1>3, HttpParserAssumption DEF http_parser_execute
<1>5. st \in InBody /\ n <= MaxHeader => http_parser_execute(p, c) = ReadByte(p, c)
  BY <1>1, <1>3, HttpParserAssumption DEF http_parser_execute
<1>. QED  BY <1>4, <1>5 DEF p, q

LEMMA PostByte ==
  ASSUME NEW hd, NEW len, NEW fl, NEW n, NEW v, NEW u, NEW b
  PROVE  ReadByte(Reading("start_req", hd, len, fl, n, v, u, b), "POST")
           = Reading("req_method", hd, Unset, {}, n, v, u, b)
BY DEF ReadByte, Reading, Rec, StartReq, Methods

LEMMA MethodEndByte ==
  ASSUME NEW hd, NEW len, NEW fl, NEW n, NEW v, NEW u, NEW b
  PROVE  ReadByte(Reading("req_method", hd, len, fl, n, v, u, b), "SP")
           = Reading("req_spaces", hd, len, fl, n, v, u, b)
BY DEF ReadByte, Reading, Rec, ReqMethod, Expect, To

LEMMA SlashByte ==
  ASSUME NEW hd, NEW len, NEW fl, NEW n, NEW v, NEW u, NEW b
  PROVE  ReadByte(Reading("req_spaces", hd, len, fl, n, v, u, b), "/")
           = Reading("req_path", hd, len, fl, n, v, Append(u, "/"), b)
BY DEF ReadByte, Reading, Rec, ReqSpaces, Url

LEMMA PathByte ==
  ASSUME NEW hd, NEW len, NEW fl, NEW n, NEW v, NEW u, NEW b, NEW c, c \notin {"SP", "CR", "LF", "BIN"}
  PROVE  ReadByte(Reading("req_path", hd, len, fl, n, v, u, b), c)
           = Reading("req_path", hd, len, fl, n, v, Append(u, c), b)
BY DEF ReadByte, Reading, Rec, ReqPath, Url

LEMMA UrlEndByte ==
  ASSUME NEW hd, NEW len, NEW fl, NEW n, NEW v, NEW u, NEW b
  PROVE  ReadByte(Reading("req_path", hd, len, fl, n, v, u, b), "SP")
           = Reading("req_http", hd, len, fl, n, v, u, b)
BY DEF ReadByte, Reading, Rec, ReqPath, To

LEMMA VersionByte ==
  ASSUME NEW hd, NEW len, NEW fl, NEW n, NEW v, NEW u, NEW b, NEW w \in Versions
  PROVE  ReadByte(Reading("req_http", hd, len, fl, n, v, u, b), w)
           = Reading("req_http_end", hd, len, fl, n, w, u, b)
BY DEF ReadByte, Reading, Rec, ReqHttp, Versions

LEMMA VersionEndByte ==
  ASSUME NEW hd, NEW len, NEW fl, NEW n, NEW v, NEW u, NEW b
  PROVE  ReadByte(Reading("req_http_end", hd, len, fl, n, v, u, b), "CR")
           = Reading("req_line_almost_done", hd, len, fl, n, v, u, b)
BY DEF ReadByte, Reading, Rec, ReqHttpEnd, To

LEMMA LineEndByte ==
  ASSUME NEW hd, NEW len, NEW fl, NEW n, NEW v, NEW u, NEW b
  PROVE  ReadByte(Reading("req_line_almost_done", hd, len, fl, n, v, u, b), "LF")
           = Reading("field_start", hd, len, fl, n, v, u, b)
BY DEF ReadByte, Reading, Rec, ReqLineDone, Expect, To

\* A header line begins.
LEMMA FieldByte ==
  ASSUME NEW st \in {"field_start", "value_lws"}, NEW hd, NEW len, NEW fl, NEW n, NEW v, NEW u, NEW b,
         NEW c \in Known \cup {"a"}, NEW h, h = IF c \in Known THEN c ELSE "general"
  PROVE  ReadByte(Reading(st, hd, len, fl, n, v, u, b), c) = Reading("field", h, len, fl, n, v, u, b)
<1>1. c \in Token /\ c \notin {"CR", "LF", "SP"}
  BY DEF Known, Token
<1>2. ReadByte(Reading("field_start", hd, len, fl, n, v, u, b), c) = Reading("field", h, len, fl, n, v, u, b)
  BY <1>1 DEF ReadByte, Reading, Rec, FieldStart
<1>3. ReadByte(Reading("value_lws", hd, len, fl, n, v, u, b), c) = Reading("field", h, len, fl, n, v, u, b)
  BY <1>1 DEF ReadByte, Reading, Rec, ValueLws, FieldStart, To
<1>. QED  BY <1>2, <1>3

LEMMA EmptyLineByte ==
  ASSUME NEW st \in {"field_start", "value_lws"}, NEW hd, NEW len, NEW fl, NEW n, NEW v, NEW u, NEW b
  PROVE  ReadByte(Reading(st, hd, len, fl, n, v, u, b), "CR") = Reading("headers_almost_done", hd, len, fl, n, v, u, b)
BY DEF ReadByte, Reading, Rec, ValueLws, FieldStart, To, Token, Known, Digit, Methods

LEMMA ColonByte ==
  ASSUME NEW hd, NEW len, NEW fl, NEW n, NEW v, NEW u, NEW b
  PROVE  ReadByte(Reading("field", hd, len, fl, n, v, u, b), ":")
           = Reading("value_start", hd, len, fl, n, v, u, b)
BY DEF ReadByte, Reading, Rec, Field, To, Token, Known, Digit, Methods

LEMMA ValueSpaceByte ==
  ASSUME NEW hd, NEW len, NEW fl, NEW n, NEW v, NEW u, NEW b
  PROVE  ReadByte(Reading("value_start", hd, len, fl, n, v, u, b), "SP")
           = Reading("value_start", hd, len, fl, n, v, u, b)
BY DEF ReadByte, Reading, Rec, ValueStart

\* The values the requests have.
LEMMA CloseByte ==
  ASSUME NEW len, NEW fl, NEW n, NEW v, NEW u, NEW b
  PROVE  ReadByte(Reading("value_start", "Connection", len, fl, n, v, u, b), "close")
           = Reading("value", "close", len, fl, n, v, u, b)
BY DEF ReadByte, Reading, Rec, ValueStart

LEMMA ChunkedByte ==
  ASSUME NEW len, NEW fl, NEW n, NEW v, NEW u, NEW b
  PROVE  ReadByte(Reading("value_start", "Transfer-Encoding", len, fl, n, v, u, b), "chunked")
           = Reading("value", "chunked", len, fl, n, v, u, b)
BY DEF ReadByte, Reading, Rec, ValueStart

LEMMA GeneralByte ==
  ASSUME NEW len, NEW fl, NEW n, NEW v, NEW u, NEW b
  PROVE  ReadByte(Reading("value_start", "general", len, fl, n, v, u, b), "a")
           = Reading("value", "general", len, fl, n, v, u, b)
BY DEF ReadByte, Reading, Rec, ValueStart

LEMMA DigitByte ==
  ASSUME NEW len, NEW fl, NEW n, NEW v, NEW u, NEW b, NEW c \in DOMAIN Digit
  PROVE  ReadByte(Reading("value_start", "Content-Length", len, fl, n, v, u, b), c)
           = Reading("value", "Content-Length", Digit[c], fl, n, v, u, b)
<1>1. c \notin {"CR", "LF", "SP", "close", "chunked"} /\ Digit[c] \in 0..3
  BY DigitFacts DEF Digit
<1>. QED  BY <1>1 DEF ReadByte, Reading, Rec, ValueStart

LEMMA MoreDigitsByte ==
  ASSUME NEW len \in 0..Unset, NEW fl, NEW n, NEW v, NEW u, NEW b, NEW c \in DOMAIN Digit,
         len * 10 + Digit[c] < Unset
  PROVE  ReadByte(Reading("value", "Content-Length", len, fl, n, v, u, b), c)
           = Reading("value", "Content-Length", len * 10 + Digit[c], fl, n, v, u, b)
<1>1. c \notin {"CR", "LF", "SP", "close", "chunked"} /\ Digit[c] \in 0..3
  BY DigitFacts DEF Digit
<1>3.  /\ (len * 10 + Digit[c]) % 2^Width = len * 10 + Digit[c]
      /\ ~(len * 10 + Digit[c] < len \/ len * 10 + Digit[c] = Unset)
  <2>. DEFINE m == len * 10 + Digit[c]
              w == 2^Width
  <2>1. len \in Nat /\ w \in Nat \ {0} /\ Unset = w - 1 /\ Unset \in Nat
    BY UnsetFacts
  <2>2. m \in Nat /\ m >= len
    <3>1. PICK d \in 0..3 : d = Digit[c]
      BY <1>1
    <3>. QED  BY <2>1, <3>1
  <2>3. \A k, d \in Nat : k < d => k % d = k
    OBVIOUS
  <2>. HIDE DEF m, w
  <2>4. m < w
    BY <2>1, <2>2 DEF m
  <2>5. m % w = m
    BY <2>1, <2>2, <2>3, <2>4
  <2>6. ~(m < len \/ m = Unset)
    BY <2>1, <2>2 DEF m
  <2>. QED  BY <2>5, <2>6 DEF m, w
<1>4. ASSUME NEW t, (len * 10 + Digit[c]) % 2^Width = t, ~(t < len \/ t = Unset)
      PROVE  ReadByte(Reading("value", "Content-Length", len, fl, n, v, u, b), c)
               = Reading("value", "Content-Length", t, fl, n, v, u, b)
  BY <1>1, <1>4 DEF ReadByte, Reading, Rec, Value, MoreDigits
<1>. QED  BY <1>3, <1>4

LEMMA ValueEndByte ==
  ASSUME NEW hd, NEW len, NEW fl, NEW n, NEW v, NEW u, NEW b
  PROVE  ReadByte(Reading("value", hd, len, fl, n, v, u, b), "CR")
           = Reading("header_almost_done", hd, len, fl, n, v, u, b)
BY DEF ReadByte, Reading, Rec, Value, To

\* The flag that the end of a value sets.
Flag(hd) == {hd} \cap {"chunked", "close", "keep-alive"}

LEMMA FlagIs ==
  /\ Flag("close") = {"close"} /\ Flag("chunked") = {"chunked"}
  /\ Flag("general") = {} /\ Flag("Content-Length") = {}
BY DEF Flag

LEMMA HeaderEndByte ==
  ASSUME NEW hd, NEW len, NEW fl, NEW n, NEW v, NEW u, NEW b, NEW f, f = fl \cup Flag(hd)
  PROVE  ReadByte(Reading("header_almost_done", hd, len, fl, n, v, u, b), "LF")
           = Reading("value_lws", hd, len, f, n, v, u, b)
BY DEF ReadByte, Reading, Rec, HeaderAlmostDone, Flagged, To, Flag

-----------------------------------------------------------------------------
(* The end of the headers *)

LEMMA EndByte ==
  ASSUME NEW hd, NEW len, NEW fl, NEW n, NEW v, NEW u, NEW b, "upgrade" \notin fl, "trailing" \notin fl
  PROVE  LET q == ReadByte(Reading("headers_almost_done", hd, len, fl, n, v, u, b), "LF")
         IN /\ "chunked" \in fl => q = Reading("chunk_size_start", hd, len, fl, 0, v, u, b)
            /\ "chunked" \notin fl /\ len \notin {0, Unset} =>
                 q = Reading("body_identity", hd, len, fl, 0, v, u, b)
            /\ "chunked" \notin fl /\ len \in {0, Unset} =>
                 q = Complete(Reading("headers_almost_done", hd, len, fl, 0, v, u, b))
<1>. DEFINE p == Reading("headers_almost_done", hd, len, fl, n, v, u, b)
            z == Reading("headers_almost_done", hd, len, fl, 0, v, u, b)
<1>1. p.state = "headers_almost_done" /\ p.flags = fl
  BY DEF Reading, Rec
<1>2. ReadByte(p, "LF") = HeadersDone(p)
  <2>. HIDE DEF p
  <2>. QED BY <1>1 DEF ReadByte, HeadersAlmostDone
<1>3. [p EXCEPT !.nread = 0] = z
  BY NreadSet
<1>4. z.flags = fl /\ z.length = len
  BY DEF Reading, Rec
<1>5. To(z, "chunk_size_start") = Reading("chunk_size_start", hd, len, fl, 0, v, u, b)
  BY StateSet DEF To
<1>6. To(z, "body_identity") = Reading("body_identity", hd, len, fl, 0, v, u, b)
  BY StateSet DEF To
<1>7. /\ "chunked" \in fl => HeadersDone(p) = To(z, "chunk_size_start")
      /\ "chunked" \notin fl /\ len \notin {0, Unset} => HeadersDone(p) = To(z, "body_identity")
      /\ "chunked" \notin fl /\ len \in {0, Unset} => HeadersDone(p) = Complete(z)
  <2>. HIDE DEF p, z
  <2>1. CASE "chunked" \in fl
    BY <1>1, <1>3, <1>4, <2>1 DEF HeadersDone
  <2>2. CASE "chunked" \notin fl
    <3>1. HeadersDone(p) = IF z.length \in {0, Unset} THEN Complete(z) ELSE To(z, "body_identity")
      <4>1. p.length = z.length
        BY DEF p, z, Reading, Rec
      <4>. QED BY <1>1, <1>3, <2>2, <4>1 DEF HeadersDone
    <3>. QED  BY <1>4, <2>2, <3>1
  <2>. QED  BY <2>1, <2>2
<1>. QED  BY <1>2, <1>5, <1>6, <1>7

-----------------------------------------------------------------------------
(* Bodies, and the end of a request *)

LEMMA CompleteIs ==
  ASSUME NEW st, NEW hd, NEW len, NEW fl, NEW n, NEW v, NEW u, NEW b,
         NEW q, q = Complete(Reading(st, hd, len, fl, n, v, u, b))
  PROVE  /\ q.complete = 1 /\ q.url = u /\ q.body = b
         /\ "close" \in fl /\ "keep-alive" \notin fl => q.state = "dead"
<1>. DEFINE p == Reading(st, hd, len, fl, n, v, u, b)
<1>1. p.flags = fl
  BY DEF Reading, Rec
<1>2. q.complete = 1 /\ q.url = u /\ q.body = b
  BY DEF Complete, Reading, Rec
<1>3. q.state = IF KeepAlive(p) THEN "start_req" ELSE "dead"
  BY DEF Complete, Reading, Rec
<1>4. "close" \in fl /\ "keep-alive" \notin fl => KeepAlive(p) = FALSE
  BY <1>1 DEF KeepAlive
<1>. QED  BY <1>2, <1>3, <1>4

LEMMA TakeByteIs ==
  ASSUME NEW st, NEW hd, NEW len, NEW fl, NEW n, NEW v, NEW u, NEW b, NEW c, len \notin {0, Unset}
  PROVE  TakeByte(Reading(st, hd, len, fl, n, v, u, b), c)
           = Reading(st, hd, len - 1, fl, n, v, u, Append(b, c))
<1>. DEFINE p == Reading(st, hd, len, fl, n, v, u, b)
<1>1. p.length = len /\ p.body = b
  BY DEF Reading, Rec
<1>2. [p EXCEPT !.body = Append(b, c), !.length = len - 1] = Reading(st, hd, len - 1, fl, n, v, u, Append(b, c))
  <2>1. [p EXCEPT !.body = Append(b, c)] = Reading(st, hd, len, fl, n, v, u, Append(b, c))
    <3>1. \A y : [p EXCEPT !.body = y] = Reading(st, hd, len, fl, n, v, u, y)
      BY BodySet
    <3>. QED  BY <3>1
  <2>2. [Reading(st, hd, len, fl, n, v, u, Append(b, c)) EXCEPT !.length = len - 1]
          = Reading(st, hd, len - 1, fl, n, v, u, Append(b, c))
    BY LengthSet
  <2>3. [p EXCEPT !.body = Append(b, c), !.length = len - 1]
          = [[p EXCEPT !.body = Append(b, c)] EXCEPT !.length = len - 1]
    BY FieldsSet
  <2>. HIDE DEF p
  <2>. QED  BY <2>1, <2>2, <2>3
<1>3. [p EXCEPT !.body = Append(@, c), !.length = @ - 1] = Reading(st, hd, len - 1, fl, n, v, u, Append(b, c))
  BY <1>1, <1>2
<1>4. (p.length \notin {0, Unset}) = TRUE
  BY <1>1
<1>5. TakeByte(p, c) = Asserts([p EXCEPT !.body = Append(@, c), !.length = @ - 1], TRUE)
  <2>. HIDE DEF p
  <2>. QED  BY <1>4 DEF TakeByte
<1>6. Asserts(Reading(st, hd, len - 1, fl, n, v, u, Append(b, c)), TRUE)
        = Reading(st, hd, len - 1, fl, n, v, u, Append(b, c))
  BY AssertsTrue
<1>. HIDE DEF p
<1>. QED  BY <1>3, <1>5, <1>6 DEF p

LEMMA IdentityByte ==
  ASSUME NEW hd, NEW len \in Nat \ {0}, len # Unset, NEW fl, NEW n, NEW v, NEW u, NEW b, NEW c
  PROVE  /\ len # 1 => ReadByte(Reading("body_identity", hd, len, fl, n, v, u, b), c)
                          = Reading("body_identity", hd, len - 1, fl, n, v, u, Append(b, c))
         /\ len = 1 => ReadByte(Reading("body_identity", hd, len, fl, n, v, u, b), c)
                          = Complete(Reading("body_identity", hd, len - 1, fl, n, v, u, Append(b, c)))
<1>. DEFINE p == Reading("body_identity", hd, len, fl, n, v, u, b)
            q == Reading("body_identity", hd, len - 1, fl, n, v, u, Append(b, c))
<1>1. p.state = "body_identity" /\ q.length = len - 1 /\ TakeByte(p, c) = q
  BY TakeByteIs DEF Reading, Rec
<1>. HIDE DEF p, q
<1>2. ReadByte(p, c) = IF q.length = 0 THEN Complete(q) ELSE q
  BY <1>1 DEF ReadByte, BodyIdentity
<1>. QED  BY <1>1, <1>2 DEF p, q

LEMMA SizeByte ==
  ASSUME NEW hd, NEW len, NEW fl, NEW v, NEW u, NEW b
  PROVE  /\ ReadByte(Reading("chunk_size_start", hd, len, fl, 1, v, u, b), "0")
              = Reading("chunk_size", hd, 0, fl, 1, v, u, b)
         /\ ReadByte(Reading("chunk_size_start", hd, len, fl, 1, v, u, b), "1")
              = Reading("chunk_size", hd, 1, fl, 1, v, u, b)
         /\ ReadByte(Reading("chunk_size", hd, len, fl, 2, v, u, b), "CR")
              = Reading("chunk_size_almost_done", hd, len, fl, 2, v, u, b)
<1>. DEFINE p == Reading("chunk_size_start", hd, len, fl, 1, v, u, b)
            q == Reading("chunk_size", hd, len, fl, 2, v, u, b)
<1>1. p.state = "chunk_size_start" /\ p.nread = 1 /\ q.state = "chunk_size"
  BY DEF Reading, Rec
<1>2. ASSUME NEW c \in DOMAIN Digit
      PROVE  [p EXCEPT !.state = "chunk_size", !.length = Digit[c]]
               = Reading("chunk_size", hd, Digit[c], fl, 1, v, u, b)
  <2>1. [p EXCEPT !.state = "chunk_size"] = Reading("chunk_size", hd, len, fl, 1, v, u, b)
    BY StateSet
  <2>2. [Reading("chunk_size", hd, len, fl, 1, v, u, b) EXCEPT !.length = Digit[c]]
          = Reading("chunk_size", hd, Digit[c], fl, 1, v, u, b)
    BY LengthSet
  <2>3. [p EXCEPT !.state = "chunk_size", !.length = Digit[c]]
          = [[p EXCEPT !.state = "chunk_size"] EXCEPT !.length = Digit[c]]
    BY FieldsSet
  <2>. HIDE DEF p
  <2>. QED  BY <2>1, <2>2, <2>3
<1>3. ASSUME NEW c \in DOMAIN Digit
      PROVE  ReadByte(p, c) = Asserts([p EXCEPT !.state = "chunk_size", !.length = Digit[c]], TRUE)
  <2>1. (p.nread = 1) = TRUE
    BY <1>1
  <2>. HIDE DEF p
  <2>. QED  BY <1>1, <2>1 DEF ReadByte, ChunkSizeStart
<1>4. ASSUME NEW c \in DOMAIN Digit
      PROVE  ReadByte(p, c) = Reading("chunk_size", hd, Digit[c], fl, 1, v, u, b)
  <2>1. Asserts(Reading("chunk_size", hd, Digit[c], fl, 1, v, u, b), TRUE)
          = Reading("chunk_size", hd, Digit[c], fl, 1, v, u, b)
    BY AssertsTrue
  <2>. HIDE DEF p
  <2>. QED  BY <1>2, <1>3, <2>1
<1>5. "0" \in DOMAIN Digit /\ "1" \in DOMAIN Digit /\ Digit["0"] = 0 /\ Digit["1"] = 1
  BY DEF Digit
<1>6. ReadByte(q, "CR") = To(q, "chunk_size_almost_done")
  <2>1. "CR" \notin DOMAIN Digit
    BY DEF Digit
  <2>. HIDE DEF q
  <2>2. ReadByte(q, "CR") = ChunkSize(q, "CR")
    BY <1>1 DEF ReadByte
  <2>. QED  BY <2>1, <2>2, Zenon DEF ChunkSize
<1>7. To(q, "chunk_size_almost_done") = Reading("chunk_size_almost_done", hd, len, fl, 2, v, u, b)
  BY StateSet DEF To
<1>8. ReadByte(p, "0") = Reading("chunk_size", hd, 0, fl, 1, v, u, b)
      /\ ReadByte(p, "1") = Reading("chunk_size", hd, 1, fl, 1, v, u, b)
  <2>. HIDE DEF p
  <2>. QED  BY <1>4, <1>5
<1>. QED  BY <1>6, <1>7, <1>8

LEMMA SizeEndByte ==
  ASSUME NEW hd, NEW fl, NEW v, NEW u, NEW b
  PROVE  ReadByte(Reading("chunk_size_almost_done", hd, 1, fl, 3, v, u, b), "LF")
           = Reading("chunk_data", hd, 1, fl, 0, v, u, b)
<1>. DEFINE p == Reading("chunk_size_almost_done", hd, 1, fl, 3, v, u, b)
<1>1. p.state = "chunk_size_almost_done" /\ p.length = 1
  BY DEF Reading, Rec
<1>2. [p EXCEPT !.state = "chunk_data"] = Reading("chunk_data", hd, 1, fl, 3, v, u, b)
  BY StateSet
<1>3. [Reading("chunk_data", hd, 1, fl, 3, v, u, b) EXCEPT !.nread = 0] = Reading("chunk_data", hd, 1, fl, 0, v, u, b)
  BY NreadSet
<1>4. [p EXCEPT !.state = "chunk_data", !.nread = 0] = [[p EXCEPT !.state = "chunk_data"] EXCEPT !.nread = 0]
  BY FieldsSet
<1>. HIDE DEF p
<1>5. ReadByte(p, "LF") = [p EXCEPT !.state = "chunk_data", !.nread = 0]
  BY <1>1 DEF ReadByte, ChunkSizeAlmostDone
<1>6. ReadByte(p, "LF") = Reading("chunk_data", hd, 1, fl, 0, v, u, b)
  BY <1>2, <1>3, <1>4, <1>5
<1>. QED  BY <1>6 DEF p

LEMMA LastSizeEndByte ==
  ASSUME NEW hd, NEW fl, NEW v, NEW u, NEW b, NEW f, f = fl \cup {"trailing"}
  PROVE  ReadByte(Reading("chunk_size_almost_done", hd, 0, fl, 3, v, u, b), "LF")
           = Reading("field_start", hd, 0, f, 0, v, u, b)
<1>. DEFINE p == Reading("chunk_size_almost_done", hd, 0, fl, 3, v, u, b)
            r == Reading("field_start", hd, 0, fl, 3, v, u, b)
            s == Reading("field_start", hd, 0, fl, 0, v, u, b)
<1>1. p.state = "chunk_size_almost_done" /\ p.length = 0 /\ p.flags = fl
  BY DEF Reading, Rec
<1>2. [p EXCEPT !.state = "field_start"] = r
  BY StateSet
<1>3. [r EXCEPT !.nread = 0] = s
  BY NreadSet
<1>4. [s EXCEPT !.flags = f] = Reading("field_start", hd, 0, f, 0, v, u, b)
  BY FlagsSet, SMTT(60)
<1>5. [p EXCEPT !.state = "field_start", !.nread = 0, !.flags = f]
        = [[[p EXCEPT !.state = "field_start"] EXCEPT !.nread = 0] EXCEPT !.flags = f]
  BY FieldsSet
<1>. HIDE DEF p, r, s
<1>6. ReadByte(p, "LF") = [p EXCEPT !.state = "field_start", !.nread = 0, !.flags = f]
  BY <1>1 DEF ReadByte, ChunkSizeAlmostDone
<1>7. ReadByte(p, "LF") = Reading("field_start", hd, 0, f, 0, v, u, b)
  BY <1>2, <1>3, <1>4, <1>5, <1>6
<1>. QED  BY <1>7 DEF p

LEMMA DataByte ==
  ASSUME NEW hd, NEW len, NEW fl, NEW v, NEW u, NEW b, NEW c
  PROVE  /\ ReadByte(Reading("chunk_data", hd, 1, fl, 0, v, u, b), c)
              = Reading("chunk_data_almost_done", hd, 0, fl, 0, v, u, Append(b, c))
         /\ ReadByte(Reading("chunk_data_almost_done", hd, 0, fl, 0, v, u, b), "CR")
              = Reading("chunk_data_done", hd, 0, fl, 0, v, u, b)
         /\ ReadByte(Reading("chunk_data_done", hd, len, fl, 0, v, u, b), "LF")
              = Reading("chunk_size_start", hd, len, fl, 0, v, u, b)
<1>. DEFINE p == Reading("chunk_data", hd, 1, fl, 0, v, u, b)
            q == Reading("chunk_data_almost_done", hd, 0, fl, 0, v, u, b)
            r == Reading("chunk_data_done", hd, len, fl, 0, v, u, b)
<1>1. p.state = "chunk_data" /\ p.length = 1 /\ q.state = "chunk_data_almost_done" /\ q.length = 0
      /\ r.state = "chunk_data_done"
  BY DEF Reading, Rec
<1>2. TakeByte(p, c) = Reading("chunk_data", hd, 0, fl, 0, v, u, Append(b, c))
  BY TakeByteIs, UnsetFacts
<1>3. ReadByte(p, c) = [TakeByte(p, c) EXCEPT !.state = "chunk_data_almost_done"]
  <2>. HIDE DEF p
  <2>. QED  BY <1>1 DEF ReadByte, ChunkData
<1>4. ReadByte(q, "CR") = To(q, "chunk_data_done")
  <2>1. Asserts(To(q, "chunk_data_done"), TRUE) = To(q, "chunk_data_done")
    <3>1. To(q, "chunk_data_done") = Reading("chunk_data_done", hd, 0, fl, 0, v, u, b)
      BY StateSet DEF To
    <3>2. Asserts(Reading("chunk_data_done", hd, 0, fl, 0, v, u, b), TRUE)
            = Reading("chunk_data_done", hd, 0, fl, 0, v, u, b)
      BY AssertsTrue
    <3>. HIDE DEF q
    <3>. QED  BY <3>1, <3>2
  <2>2. (q.length = 0) = TRUE
    BY <1>1
  <2>. HIDE DEF q
  <2>. QED  BY <1>1, <2>1, <2>2 DEF ReadByte, ChunkDataAlmostDone, Expect
<1>5. ReadByte(r, "LF") = To([r EXCEPT !.nread = 0], "chunk_size_start")
  <2>. HIDE DEF r
  <2>. QED  BY <1>1 DEF ReadByte, ChunkDataDone, Expect
<1>6. [Reading("chunk_data", hd, 0, fl, 0, v, u, Append(b, c)) EXCEPT !.state = "chunk_data_almost_done"]
        = Reading("chunk_data_almost_done", hd, 0, fl, 0, v, u, Append(b, c))
  <2>1. \A y : [Reading("chunk_data", hd, 0, fl, 0, v, u, y) EXCEPT !.state = "chunk_data_almost_done"]
                = Reading("chunk_data_almost_done", hd, 0, fl, 0, v, u, y)
    BY StateSet
  <2>. QED  BY <2>1
<1>7. To(q, "chunk_data_done") = Reading("chunk_data_done", hd, 0, fl, 0, v, u, b)
  BY StateSet DEF To
<1>8. To([r EXCEPT !.nread = 0], "chunk_size_start") = Reading("chunk_size_start", hd, len, fl, 0, v, u, b)
  <2>1. [r EXCEPT !.nread = 0] = r
    BY NreadSet
  <2>2. To(r, "chunk_size_start") = Reading("chunk_size_start", hd, len, fl, 0, v, u, b)
    BY StateSet DEF To
  <2>. HIDE DEF r
  <2>. QED  BY <2>1, <2>2
<1>. HIDE DEF p, q, r
<1>9. /\ ReadByte(p, c) = Reading("chunk_data_almost_done", hd, 0, fl, 0, v, u, Append(b, c))
      /\ ReadByte(q, "CR") = Reading("chunk_data_done", hd, 0, fl, 0, v, u, b)
      /\ ReadByte(r, "LF") = Reading("chunk_size_start", hd, len, fl, 0, v, u, b)
  BY <1>2, <1>3, <1>4, <1>5, <1>6, <1>7, <1>8
<1>. QED  BY <1>9 DEF p, q, r

-----------------------------------------------------------------------------
(* What the parser knows after i bytes of a request *)

\* What can be a byte: the provers do not know what is a member of STRING.
Words == STRING \cup Versions \cup DOMAIN Digit
           \cup {"POST", "SP", "CR", "LF", ":", "/", "a", "chunked", "close", "Content-Length",
                 "Transfer-Encoding", "Connection"}

LineEnd(r)   == 6 + Len(r.url)
ClosingEnd(r) == LineEnd(r) + Len(Closing(r))
FramingEnd(r) == ClosingEnd(r) + Len(Framing(r))

Flags0(r)  == IF r.close THEN {"close"} ELSE {}
Flags1(r)  == IF r.framing = "chunked" THEN Flags0(r) \cup {"chunked"} ELSE Flags0(r)
Declared(r) == IF r.framing = "length" THEN Len(r.body) ELSE Unset

\* The digits v[1..j] denote: as in Denote.
SoFar(r) == CHOOSE v \in [DOMAIN r.digits -> 0..Unset - 1] :
                /\ v[1] = Digit[r.digits[1]] /\ v[Len(r.digits)] = Len(r.body)
                /\ \A j \in 2..Len(r.digits) : v[j] = v[j - 1] * 10 + Digit[r.digits[j]]

LineAt(r, i, p) ==
  LET n == Len(r.url)
      Is(st, v, u) == p = Reading(st, "general", Unset, {}, i, v, u, <<>>)
  IN \/ i = 0 /\ Is("start_req", "HTTP/1.0", <<>>)
     \/ i = 1 /\ Is("req_method", "HTTP/1.0", <<>>)
     \/ i = 2 /\ Is("req_spaces", "HTTP/1.0", <<>>)
     \/ i - 2 \in 1..n /\ Is("req_path", "HTTP/1.0", SubSeq(r.url, 1, i - 2))
     \/ i = 3 + n /\ Is("req_http", "HTTP/1.0", r.url)
     \/ i = 4 + n /\ Is("req_http_end", r.version, r.url)
     \/ i = 5 + n /\ Is("req_line_almost_done", r.version, r.url)

\* The parser in the headers of r: what it has read has been counted.
InHeaders(r, i, st, hd, len, fl) == Reading(st, hd, len, fl, i, r.version, r.url, <<>>)

\* A header line may begin, or the empty line.
Between(r, i, p, len, fl) ==
  \E st \in {"field_start", "value_lws"} : \E hd : p = InHeaders(r, i, st, hd, len, fl)

ClosingAt(r, i, p) ==
  LET k == i - LineEnd(r)
      Is(st, hd) == p = InHeaders(r, i, st, hd, Unset, {})
  IN r.close /\ \/ k = 0 /\ Between(r, i, p, Unset, {})
                \/ k = 1 /\ Is("field", "Connection")
                \/ k \in {2, 3} /\ Is("value_start", "Connection")
                \/ k = 4 /\ Is("value", "close")
                \/ k = 5 /\ Is("header_almost_done", "close")

FramingAt(r, i, p) ==
  LET k == i - ClosingEnd(r)
      d == Len(r.digits)
      Is(st, hd, len) == p = InHeaders(r, i, st, hd, len, Flags0(r))
  IN \/ k = 0 /\ Between(r, i, p, Unset, Flags0(r))
     \/ /\ r.framing = "none"
        /\ \/ k = 1 /\ Is("field", "general", Unset)
           \/ k = 2 /\ Is("value_start", "general", Unset)
           \/ k = 3 /\ Is("value", "general", Unset)
           \/ k = 4 /\ Is("header_almost_done", "general", Unset)
     \/ /\ r.framing = "chunked"
        /\ \/ k = 1 /\ Is("field", "Transfer-Encoding", Unset)
           \/ k \in {2, 3} /\ Is("value_start", "Transfer-Encoding", Unset)
           \/ k = 4 /\ Is("value", "chunked", Unset)
           \/ k = 5 /\ Is("header_almost_done", "chunked", Unset)
     \/ /\ r.framing = "length"
        /\ \/ k = 1 /\ Is("field", "Content-Length", Unset)
           \/ k \in {2, 3} /\ Is("value_start", "Content-Length", Unset)
           \/ k - 3 \in 1..d /\ Is("value", "Content-Length", SoFar(r)[k - 3])
           \/ k = 4 + d /\ Is("header_almost_done", "Content-Length", Len(r.body))

EmptyLineAt(r, i, p) ==
  \/ i = FramingEnd(r) /\ Between(r, i, p, Declared(r), Flags1(r))
  \/ i = FramingEnd(r) + 1 /\ \E hd : p = InHeaders(r, i, "headers_almost_done", hd, Declared(r), Flags1(r))

HeaderAt(r, i, p) ==
  LineAt(r, i, p) \/ ClosingAt(r, i, p) \/ FramingAt(r, i, p) \/ EmptyLineAt(r, i, p)

IdentityAt(r, i, p) ==
  LET a == i - Len(Header(r))
  IN /\ r.framing = "length" /\ a \in 0..Len(r.body) - 1
     /\ \E hd : p = Reading("body_identity", hd, Len(r.body) - a, Flags1(r), 0,
                            r.version, r.url, SubSeq(r.body, 1, a))

\* Chunk k + 1 up to its byte m.
ChunkAt(r, k, m, p) ==
  \E hd :
    LET Is(st, len, n, b) == p = Reading(st, hd, len, Flags1(r), n, r.version, r.url, SubSeq(r.body, 1, b))
    IN \/ m = 0 /\ \E len : Is("chunk_size_start", len, 0, k)
       \/ k < Len(r.body) /\ \/ m = 1 /\ Is("chunk_size", 1, 1, k)
                             \/ m = 2 /\ Is("chunk_size_almost_done", 1, 2, k)
                             \/ m = 3 /\ Is("chunk_data", 1, 0, k)
                             \/ m = 4 /\ Is("chunk_data_almost_done", 0, 0, k + 1)
                             \/ m = 5 /\ Is("chunk_data_done", 0, 0, k + 1)

ChunksAt(r, i, p) ==
  /\ r.framing = "chunked"
  /\ \E k \in 0..Len(r.body), m \in 0..5 : i = Len(Header(r)) + 6 * k + m /\ ChunkAt(r, k, m, p)

\* The chunk of size 0, and the empty line after it, up to byte m.
EndAt(r, m, p) ==
  LET Is(st, fl, n) == \E hd : p = Reading(st, hd, 0, fl, n, r.version, r.url, r.body)
      t == Flags1(r) \cup {"trailing"}
  IN \/ m = 1 /\ Is("chunk_size", Flags1(r), 1)
     \/ m = 2 /\ Is("chunk_size_almost_done", Flags1(r), 2)
     \/ m = 3 /\ Is("field_start", t, 0)
     \/ m = 4 /\ Is("headers_almost_done", t, 1)

LastChunkAt(r, i, p) ==
  r.framing = "chunked" /\ EndAt(r, i - Len(Header(r)) - 6 * Len(r.body), p)

\* A request is complete.  What is read after it can only add to what it left.
DoneAt(r, i, p) ==
  /\ i >= Len(Encode(r))
  /\ p.complete \in Nat \ {0} /\ p.url \in Seq(Words) /\ p.body \in Seq(Words)
  /\ IsPrefix(r.url, p.url) /\ IsPrefix(r.body, p.body)
  /\ i = Len(Encode(r)) \/ r.close => p.url = r.url /\ p.body = r.body
  /\ r.close => p.stopped \/ p.state = "dead"

RequestAt(r, i, p) ==
  \/ i < Len(Encode(r)) /\ p.complete = 0
       /\ (HeaderAt(r, i, p) \/ IdentityAt(r, i, p) \/ ChunksAt(r, i, p) \/ LastChunkAt(r, i, p))
  \/ DoneAt(r, i, p)

-----------------------------------------------------------------------------
(* The bytes of a request *)

LEMMA PairBytes ==
  ASSUME NEW x \in Words, NEW y \in Words
  PROVE  /\ <<x, y>> \in Seq(Words) /\ Len(<<x, y>>) = 2 /\ <<x, y>>[1] = x /\ <<x, y>>[2] = y
         /\ 1 \in 1..Len(<<x, y>>) /\ 2 \in 1..Len(<<x, y>>)
OBVIOUS

LEMMA CatBytes ==
  ASSUME NEW s \in Seq(Words), NEW t \in Seq(Words)
  PROVE  /\ s \o t \in Seq(Words) /\ Len(s \o t) = Len(s) + Len(t)
         /\ Len(s) \in Nat /\ Len(t) \in Nat
         /\ \A i \in 1..Len(s) : (s \o t)[i] = s[i]
         /\ \A i \in 1..Len(t) : (s \o t)[Len(s) + i] = t[i]
BY ConcatProperties

\* A line of a header and its end.
LEMMA EndedBytes ==
  ASSUME NEW s \in Seq(Words)
  PROVE  /\ s \o CRLF \in Seq(Words) /\ Len(s \o CRLF) = Len(s) + 2
         /\ \A i \in 1..Len(s) : (s \o CRLF)[i] = s[i]
         /\ (s \o CRLF)[Len(s) + 1] = "CR" /\ (s \o CRLF)[Len(s) + 2] = "LF"
<1>1. CRLF \in Seq(Words) /\ Len(CRLF) = 2 /\ CRLF[1] = "CR" /\ CRLF[2] = "LF"
      /\ 1 \in 1..Len(CRLF) /\ 2 \in 1..Len(CRLF)
  <2>1. "CR" \in Words /\ "LF" \in Words
    BY DEF Words
  <2>. QED  BY <2>1, PairBytes DEF CRLF
<1>2. /\ s \o CRLF \in Seq(Words) /\ Len(s \o CRLF) = Len(s) + Len(CRLF)
      /\ \A i \in 1..Len(s) : (s \o CRLF)[i] = s[i]
      /\ \A i \in 1..Len(CRLF) : (s \o CRLF)[Len(s) + i] = CRLF[i]
  BY <1>1, CatBytes
<1>3. (s \o CRLF)[Len(s) + 1] = CRLF[1] /\ (s \o CRLF)[Len(s) + 2] = CRLF[2]
  BY <1>1, <1>2
<1>. QED  BY <1>1, <1>2, <1>3

LEMMA RequestFields ==
  ASSUME NEW r, IsRequest(r)
  PROVE  /\ r.url \in Seq(Words) /\ Len(r.url) \in Nat \ {0} /\ r.body \in Seq(Words) /\ Len(r.body) \in Nat
         /\ r.version \in Words /\ r.version \in Versions /\ r.close \in BOOLEAN
         /\ r.framing = "length" => r.digits \in Seq(Words) /\ Len(r.digits) \in Nat \ {0}
<1>1. r.url \in Seq(STRING) /\ r.url # <<>> /\ r.body \in Seq(STRING) /\ r.version \in Versions
  BY DEF IsRequest
<1>2. Versions \subseteq Words /\ STRING \subseteq Words
  BY DEF Words
<1>4. r.url \in Seq(Words) /\ r.body \in Seq(Words)
  BY <1>1, <1>2, SeqMonotonic
<1>3. ASSUME r.framing = "length"
      PROVE  r.digits \in Seq(Words) /\ Len(r.digits) \in Nat \ {0}
  <2>1. r.digits \in Seq(DOMAIN Digit) /\ r.digits # <<>>
    BY <1>3 DEF IsRequest, Denote
  <2>2. DOMAIN Digit \subseteq Words
    BY DEF Words
  <2>. QED  BY <2>1, <2>2, SeqMonotonic, EmptySeq
<1>. QED  BY <1>1, <1>2, <1>3, <1>4, EmptySeq DEF IsRequest

LEMMA LineBytes ==
  ASSUME NEW r, IsRequest(r)
  PROVE  LET s == RequestLine(r)
             n == Len(r.url)
         IN /\ s \in Seq(Words) /\ Len(s) = LineEnd(r)
            /\ s[1] = "POST" /\ s[2] = "SP"
            /\ \A j \in 1..n : s[2 + j] = r.url[j]
            /\ s[3 + n] = "SP" /\ s[4 + n] = r.version /\ s[5 + n] = "CR" /\ s[6 + n] = "LF"
<1>. DEFINE n == Len(r.url)
            s1 == <<"POST", "SP">>
            s2 == s1 \o r.url
            t  == <<"SP", r.version>>
            s3 == s2 \o t
<1>1. r.url \in Seq(Words) /\ n \in Nat /\ r.version \in Words
  BY RequestFields
<1>2. s1 \in Seq(Words) /\ Len(s1) = 2 /\ s1[1] = "POST" /\ s1[2] = "SP"
  BY DEF Words
<1>3. t \in Seq(Words) /\ Len(t) = 2 /\ t[1] = "SP" /\ t[2] = r.version
      /\ 1 \in 1..Len(t) /\ 2 \in 1..Len(t)
  <2>1. "SP" \in Words
    BY DEF Words
  <2>. QED  BY <1>1, <2>1, PairBytes
<1>. HIDE DEF s1, t
<1>5. /\ s2 \in Seq(Words) /\ Len(s2) = 2 + n
      /\ s2[1] = "POST" /\ s2[2] = "SP" /\ \A j \in 1..n : s2[2 + j] = r.url[j]
  <2>1. /\ s2 \in Seq(Words) /\ Len(s2) = Len(s1) + n
        /\ \A i \in 1..Len(s1) : s2[i] = s1[i]
        /\ \A i \in 1..n : s2[Len(s1) + i] = r.url[i]
    BY <1>1, <1>2, CatBytes
  <2>. HIDE DEF s2
  <2>2. 1 \in 1..2 /\ 2 \in 1..2
    OBVIOUS
  <2>. QED  BY <1>2, <2>1, <2>2
<1>. HIDE DEF s2
<1>6. /\ s3 \in Seq(Words) /\ Len(s3) = 4 + n
      /\ \A i \in 1..2 + n : s3[i] = s2[i]
      /\ s3[3 + n] = "SP" /\ s3[4 + n] = r.version
  <2>1. /\ s3 \in Seq(Words) /\ Len(s3) = Len(s2) + Len(t)
        /\ \A i \in 1..Len(s2) : s3[i] = s2[i]
        /\ \A i \in 1..Len(t) : s3[Len(s2) + i] = t[i]
    BY <1>3, <1>5, CatBytes
  <2>. HIDE DEF s3
  <2>2. s3[2 + n + 1] = t[1] /\ s3[2 + n + 2] = t[2]
    <3>. QED  BY <1>3, <1>5, <2>1
  <2>3. 2 + n + 1 = 3 + n /\ 2 + n + 2 = 4 + n /\ 2 + n + 2 = 4 + n
    BY <1>1
  <2>. QED  BY <1>3, <1>5, <2>1, <2>2, <2>3
<1>. HIDE DEF s3
<1>7. /\ s3 \o CRLF \in Seq(Words) /\ Len(s3 \o CRLF) = 6 + n
      /\ \A i \in 1..4 + n : (s3 \o CRLF)[i] = s3[i]
      /\ (s3 \o CRLF)[5 + n] = "CR" /\ (s3 \o CRLF)[6 + n] = "LF"
  <2>1. 4 + n + 1 = 5 + n /\ 4 + n + 2 = 6 + n
    BY <1>1
  <2>2. /\ s3 \o CRLF \in Seq(Words) /\ Len(s3 \o CRLF) = Len(s3) + 2
        /\ \A i \in 1..Len(s3) : (s3 \o CRLF)[i] = s3[i]
        /\ (s3 \o CRLF)[Len(s3) + 1] = "CR" /\ (s3 \o CRLF)[Len(s3) + 2] = "LF"
    BY <1>6, EndedBytes
  <2>. QED  BY <1>1, <1>6, <2>1, <2>2
<1>8. RequestLine(r) = s3 \o CRLF
  BY DEF RequestLine, s1, s2, s3, t
<1>. DEFINE q == s3 \o CRLF
<1>. HIDE DEF q
<1>9. q[1] = s2[1] /\ q[2] = s2[2] /\ q[3 + n] = s3[3 + n] /\ q[4 + n] = s3[4 + n]
      /\ \A j \in 1..n : q[2 + j] = s2[2 + j]
  <2>1. \A i \in 1..4 + n : q[i] = s3[i]
    BY <1>7 DEF q
  <2>2. \A i \in 1..2 + n : q[i] = s2[i]
    <3>1. \A i \in 1..2 + n : i \in 1..4 + n
      BY <1>1
    <3>. HIDE DEF n
    <3>. QED  BY <1>6, <2>1, <3>1
  <2>. QED  BY <1>1, <2>1, <2>2
<1>. QED  BY <1>1, <1>5, <1>6, <1>7, <1>8, <1>9 DEF q, LineEnd

\* A line of four words and its end.
Four(a, b, c, d) == <<a, b, c, d>> \o CRLF
IsFour(z, a, b, c, d) ==
  /\ z \in Seq(Words) /\ Len(z) = 6
  /\ z[1] = a /\ z[2] = b /\ z[3] = c /\ z[4] = d /\ z[5] = "CR" /\ z[6] = "LF"

LEMMA FourBytes ==
  ASSUME NEW a \in Words, NEW b \in Words, NEW c \in Words, NEW d \in Words
  PROVE  IsFour(Four(a, b, c, d), a, b, c, d)
<1>. DEFINE t == <<a, b, c, d>>
<1>1. t \in Seq(Words) /\ Len(t) = 4 /\ t[1] = a /\ t[2] = b /\ t[3] = c /\ t[4] = d
      /\ 1 \in 1..Len(t) /\ 2 \in 1..Len(t) /\ 3 \in 1..Len(t) /\ 4 \in 1..Len(t)
  OBVIOUS
<1>. HIDE DEF t
<1>2. /\ t \o CRLF \in Seq(Words) /\ Len(t \o CRLF) = Len(t) + 2
      /\ \A i \in 1..Len(t) : (t \o CRLF)[i] = t[i]
      /\ (t \o CRLF)[Len(t) + 1] = "CR" /\ (t \o CRLF)[Len(t) + 2] = "LF"
  BY <1>1, EndedBytes
<1>. DEFINE s == t \o CRLF
<1>3. s = t \o CRLF
  OBVIOUS
<1>. HIDE DEF s
<1>4. /\ s \in Seq(Words) /\ Len(s) = 6
      /\ s[1] = a /\ s[2] = b /\ s[3] = c /\ s[4] = d /\ s[5] = "CR" /\ s[6] = "LF"
  <2>1. /\ s \in Seq(Words) /\ Len(s) = Len(t) + 2
        /\ s[1] = t[1] /\ s[2] = t[2] /\ s[3] = t[3] /\ s[4] = t[4]
        /\ s[Len(t) + 1] = "CR" /\ s[Len(t) + 2] = "LF"
    BY <1>1, <1>2, <1>3
  <2>. QED  BY <1>1, <2>1
<1>5. s = Four(a, b, c, d)
  BY DEF Four, s, t
<1>. QED  BY <1>4, <1>5 DEF IsFour

\* The beginning of a line.
Three(a, b, c) == <<a, b, c>>
IsThree(t, a, b, c) ==
  /\ t \in Seq(Words) /\ Len(t) = 3 /\ t[1] = a /\ t[2] = b /\ t[3] = c
  /\ 1 \in 1..Len(t) /\ 2 \in 1..Len(t) /\ 3 \in 1..Len(t)

LEMMA ThreeBytes ==
  ASSUME NEW a \in Words, NEW b \in Words, NEW c \in Words
  PROVE  IsThree(Three(a, b, c), a, b, c)
BY DEF Three, IsThree

LEMMA ClosingBytes ==
  ASSUME NEW r, IsRequest(r)
  PROVE  /\ Closing(r) \in Seq(Words) /\ Len(Closing(r)) = IF r.close THEN 6 ELSE 0
         /\ r.close => IsFour(Closing(r), "Connection", ":", "SP", "close")
<1>1. CASE r.close
  <2>1. "Connection" \in Words /\ ":" \in Words /\ "SP" \in Words /\ "close" \in Words
    BY DEF Words
  <2>2. Closing(r) = Four("Connection", ":", "SP", "close")
    BY <1>1 DEF Closing, Four
  <2>3. IsFour(Closing(r), "Connection", ":", "SP", "close")
    BY <2>1, <2>2, FourBytes
  <2>. QED  BY <1>1, <2>3 DEF IsFour
<1>2. CASE ~r.close
  BY <1>2, EmptySeq DEF Closing
<1>. QED  BY <1>1, <1>2

LEMMA FramingBytes ==
  ASSUME NEW r, IsRequest(r)
  PROVE  LET s == Framing(r)
             d == Len(r.digits)
         IN /\ s \in Seq(Words)
            /\ r.framing = "none" =>
                 Len(s) = 5 /\ s[1] = "a" /\ s[2] = ":" /\ s[3] = "a" /\ s[4] = "CR" /\ s[5] = "LF"
            /\ r.framing = "chunked" => IsFour(s, "Transfer-Encoding", ":", "SP", "chunked")
            /\ r.framing = "length" =>
                 /\ Len(s) = 5 + d /\ s[1] = "Content-Length" /\ s[2] = ":" /\ s[3] = "SP"
                 /\ \A j \in 1..d : s[3 + j] = r.digits[j]
                 /\ s[4 + d] = "CR" /\ s[5 + d] = "LF"
<1>. DEFINE s == Framing(r)
            d == Len(r.digits)
<1>0. "a" \in Words /\ ":" \in Words /\ "SP" \in Words /\ "chunked" \in Words
      /\ "Transfer-Encoding" \in Words /\ "Content-Length" \in Words
  BY DEF Words
<1>1. CASE r.framing = "chunked"
  <2>1. s = Four("Transfer-Encoding", ":", "SP", "chunked")
    BY <1>1 DEF Framing, Four
  <2>. HIDE DEF s
  <2>2. IsFour(s, "Transfer-Encoding", ":", "SP", "chunked")
    BY <1>0, <2>1, FourBytes
  <2>3. s \in Seq(Words)
    BY <2>2 DEF IsFour
  <2>. QED  BY <1>1, <2>2, <2>3 DEF s
<1>2. CASE r.framing = "none"
  <2>. DEFINE t == Three("a", ":", "a")
  <2>1. t \in Seq(Words) /\ Len(t) = 3 /\ t[1] = "a" /\ t[2] = ":" /\ t[3] = "a"
        /\ 1 \in 1..Len(t) /\ 2 \in 1..Len(t) /\ 3 \in 1..Len(t)
    <3>1. IsThree(t, "a", ":", "a")
      BY <1>0, ThreeBytes
    <3>. HIDE DEF t
    <3>. QED  BY <3>1 DEF IsThree
  <2>2. s = t \o CRLF
    BY <1>2 DEF Framing, Three
  <2>. HIDE DEF s, t
  <2>3. /\ s \in Seq(Words) /\ Len(s) = 5
        /\ s[1] = "a" /\ s[2] = ":" /\ s[3] = "a" /\ s[4] = "CR" /\ s[5] = "LF"
    <3>1. /\ s \in Seq(Words) /\ Len(s) = Len(t) + 2
          /\ \A i \in 1..Len(t) : s[i] = t[i]
          /\ s[Len(t) + 1] = "CR" /\ s[Len(t) + 2] = "LF"
      BY <2>1, <2>2, EndedBytes
    <3>2. s[1] = t[1] /\ s[2] = t[2] /\ s[3] = t[3] /\ s[4] = "CR" /\ s[5] = "LF" /\ Len(s) = 5
      BY <2>1, <3>1
    <3>. QED  BY <2>1, <3>1, <3>2
  <2>. QED  BY <1>2, <2>3 DEF s
<1>3. CASE r.framing = "length"
  <2>. DEFINE t == Three("Content-Length", ":", "SP")
              u == t \o r.digits
  <2>1. t \in Seq(Words) /\ Len(t) = 3 /\ t[1] = "Content-Length" /\ t[2] = ":" /\ t[3] = "SP"
        /\ 1 \in 1..Len(t) /\ 2 \in 1..Len(t) /\ 3 \in 1..Len(t)
    <3>1. IsThree(t, "Content-Length", ":", "SP")
      BY <1>0, ThreeBytes
    <3>. HIDE DEF t
    <3>. QED  BY <3>1 DEF IsThree
  <2>2. s = u \o CRLF
    BY <1>3 DEF Framing, Three
  <2>3. r.digits \in Seq(Words) /\ d \in Nat
    BY <1>3, RequestFields
  <2>. HIDE DEF t, s
  <2>4. /\ u \in Seq(Words) /\ Len(u) = 3 + d
        /\ u[1] = "Content-Length" /\ u[2] = ":" /\ u[3] = "SP"
        /\ \A j \in 1..d : u[3 + j] = r.digits[j]
    <3>1. /\ u \in Seq(Words) /\ Len(u) = Len(t) + d
          /\ \A i \in 1..Len(t) : u[i] = t[i]
          /\ \A i \in 1..d : u[Len(t) + i] = r.digits[i]
      BY <2>1, <2>3, CatBytes
    <3>. HIDE DEF u
    <3>2. u[1] = t[1] /\ u[2] = t[2] /\ u[3] = t[3] /\ \A j \in 1..d : u[3 + j] = r.digits[j]
      BY <2>1, <3>1
    <3>. QED  BY <2>1, <3>1, <3>2
  <2>. HIDE DEF u
  <2>5. /\ s \in Seq(Words) /\ Len(s) = 5 + d
        /\ \A i \in 1..3 + d : s[i] = u[i]
        /\ s[4 + d] = "CR" /\ s[5 + d] = "LF"
    <3>1. 3 + d + 1 = 4 + d /\ 3 + d + 2 = 5 + d
      BY <2>3
    <3>2. /\ s \in Seq(Words) /\ Len(s) = Len(u) + 2
          /\ \A i \in 1..Len(u) : s[i] = u[i]
          /\ s[Len(u) + 1] = "CR" /\ s[Len(u) + 2] = "LF"
      BY <2>2, <2>4, EndedBytes
    <3>3. Len(s) = 5 + d /\ s[4 + d] = "CR" /\ s[5 + d] = "LF" /\ \A i \in 1..3 + d : s[i] = u[i]
      BY <2>4, <3>1, <3>2
    <3>. QED  BY <3>2, <3>3
  <2>6. s[1] = u[1] /\ s[2] = u[2] /\ s[3] = u[3] /\ \A j \in 1..d : s[3 + j] = u[3 + j]
    <3>1. \A j \in 1..d : 3 + j \in 1..3 + d
      BY <2>3
    <3>2. 1 \in 1..3 + d /\ 2 \in 1..3 + d /\ 3 \in 1..3 + d
      BY <2>3
    <3>. QED  BY <2>5, <3>1, <3>2
  <2>. QED  BY <1>3, <2>4, <2>5, <2>6 DEF s
<1>. QED  BY <1>1, <1>2, <1>3 DEF IsRequest

LEMMA HeaderBytes ==
  ASSUME NEW r, IsRequest(r)
  PROVE  LET h == Header(r)
         IN /\ LineEnd(r) \in Nat /\ ClosingEnd(r) \in Nat /\ FramingEnd(r) \in Nat
            /\ h \in Seq(Words) /\ Len(h) = FramingEnd(r) + 2
            /\ \A i \in 1..LineEnd(r) : h[i] = RequestLine(r)[i]
            /\ \A i \in 1..Len(Closing(r)) : h[LineEnd(r) + i] = Closing(r)[i]
            /\ \A i \in 1..Len(Framing(r)) : h[ClosingEnd(r) + i] = Framing(r)[i]
            /\ h[FramingEnd(r) + 1] = "CR" /\ h[FramingEnd(r) + 2] = "LF"
<1>. DEFINE l == RequestLine(r)
            c == Closing(r)
            f == Framing(r)
            s2 == l \o c
            s3 == s2 \o f
            h  == s3 \o CRLF
<1>1. l \in Seq(Words) /\ Len(l) = LineEnd(r) /\ c \in Seq(Words) /\ f \in Seq(Words)
  BY LineBytes, ClosingBytes, FramingBytes
<1>2. Header(r) = h
  BY DEF Header
<1>. HIDE DEF l, c, f
<1>3. /\ s2 \in Seq(Words) /\ Len(s2) = Len(l) + Len(c) /\ Len(l) \in Nat /\ Len(c) \in Nat
      /\ \A i \in 1..Len(l) : s2[i] = l[i]
      /\ \A i \in 1..Len(c) : s2[Len(l) + i] = c[i]
  BY <1>1, CatBytes
<1>. HIDE DEF s2
<1>4. /\ s3 \in Seq(Words) /\ Len(s3) = Len(s2) + Len(f) /\ Len(f) \in Nat
      /\ \A i \in 1..Len(s2) : s3[i] = s2[i]
      /\ \A i \in 1..Len(f) : s3[Len(s2) + i] = f[i]
  BY <1>1, <1>3, CatBytes
<1>. HIDE DEF s3
<1>5. /\ h \in Seq(Words) /\ Len(h) = Len(s3) + 2
      /\ \A i \in 1..Len(s3) : h[i] = s3[i]
      /\ h[Len(s3) + 1] = "CR" /\ h[Len(s3) + 2] = "LF"
  BY <1>4, EndedBytes
<1>. HIDE DEF h
<1>6. ASSUME NEW i \in 1..Len(l) PROVE h[i] = l[i]
  <2>1. i \in 1..Len(s2) /\ i \in 1..Len(s3)
    BY <1>3, <1>4
  <2>. QED  BY <1>3, <1>4, <1>5, <2>1
<1>7. ASSUME NEW i \in 1..Len(c) PROVE h[Len(l) + i] = c[i]
  <2>1. Len(l) + i \in 1..Len(s2) /\ Len(l) + i \in 1..Len(s3)
    BY <1>3, <1>4
  <2>. QED  BY <1>3, <1>4, <1>5, <2>1
<1>8. ASSUME NEW i \in 1..Len(f) PROVE h[Len(s2) + i] = f[i]
  <2>1. Len(s2) + i \in 1..Len(s3)
    BY <1>3, <1>4
  <2>. QED  BY <1>4, <1>5, <2>1
<1>9. Len(s2) = ClosingEnd(r) /\ Len(s3) = FramingEnd(r)
  BY <1>1, <1>3, <1>4 DEF ClosingEnd, FramingEnd, c, f
<1>10. LineEnd(r) \in Nat /\ ClosingEnd(r) \in Nat /\ FramingEnd(r) \in Nat
  BY <1>1, <1>3, <1>4, <1>9
<1>. QED  BY <1>1, <1>2, <1>5, <1>6, <1>7, <1>8, <1>9, <1>10 DEF l, c, f

LEMMA ByteOfChunk ==
  ASSUME NEW b, NEW m \in 0..5
  PROVE  /\ Chunk(b)[m + 1] = CASE m = 0 -> "1" [] m \in {1, 4} -> "CR" [] m \in {2, 5} -> "LF" [] OTHER -> b
         /\ b \in Words => Chunk(b)[m + 1] \in Words
<1>1. m = 0 \/ m = 1 \/ m = 2 \/ m = 3 \/ m = 4 \/ m = 5
  OBVIOUS
<1>2. "1" \in Words /\ "CR" \in Words /\ "LF" \in Words
  BY DEF Words, Digit
<1>3. /\ Chunk(b)[1] = "1" /\ Chunk(b)[2] = "CR" /\ Chunk(b)[3] = "LF" /\ Chunk(b)[4] = b
      /\ Chunk(b)[5] = "CR" /\ Chunk(b)[6] = "LF"
  BY DEF Chunk
<1>. QED  BY <1>1, <1>2, <1>3

LEMMA SixParts == \A k \in Nat, m \in 0..5 : (6 * k + m) \div 6 = k /\ (6 * k + m) % 6 = m
OBVIOUS

LEMMA SixIn ==
  ASSUME NEW n \in Nat, NEW i \in 1..6 * n
  PROVE  (i - 1) \div 6 \in 0..n - 1 /\ (i - 1) % 6 \in 0..5
OBVIOUS

LEMMA ChunksBytes ==
  ASSUME NEW s \in Seq(Words)
  PROVE  /\ Chunks(s) \in Seq(Words) /\ Len(Chunks(s)) = 6 * Len(s)
         /\ \A k \in 0..Len(s) - 1, m \in 0..5 : Chunks(s)[6 * k + m + 1] = Chunk(s[k + 1])[m + 1]
<1>. DEFINE n == Len(s)
            c == Chunks(s)
            e(i) == Chunk(s[((i - 1) \div 6) + 1])[((i - 1) % 6) + 1]
<1>0. n \in Nat /\ \A i \in 1..n : s[i] \in Words
  BY ElementOfSeq, LenProperties
<1>1. c = [i \in 1..6 * n |-> e(i)]
  BY DEF Chunks
<1>2. ASSUME NEW i \in 1..6 * n PROVE e(i) \in Words
  <2>. DEFINE k == (i - 1) \div 6
              m == (i - 1) % 6
  <2>1. k \in 0..n - 1 /\ m \in 0..5
    BY <1>0, SixIn
  <2>. HIDE DEF k, m
  <2>2. k + 1 \in 1..n
    BY <1>0, <2>1
  <2>3. Chunk(s[k + 1])[m + 1] \in Words
    BY <1>0, <2>1, <2>2, ByteOfChunk
  <2>. QED  BY <2>3 DEF k, m
<1>. HIDE DEF e, c
<1>3. c \in [1..6 * n -> Words]
  BY <1>1, <1>2
<1>4. 6 * n \in Nat
  BY <1>0
<1>5. c \in Seq(Words) /\ Len(c) = 6 * n
  <2>1. \A l \in Nat : \A q \in [1..l -> Words] : q \in Seq(Words) /\ Len(q) = l
    OBVIOUS
  <2>. QED  BY <1>3, <1>4, <2>1
<1>6. ASSUME NEW k \in 0..n - 1, NEW m \in 0..5
      PROVE  c[6 * k + m + 1] = Chunk(s[k + 1])[m + 1]
  <2>1. 6 * k + m + 1 \in 1..6 * n /\ (6 * k + m + 1) - 1 = 6 * k + m /\ k \in Nat
    BY <1>0
  <2>2. (6 * k + m) \div 6 = k /\ (6 * k + m) % 6 = m
    BY <2>1, SixParts
  <2>3. e(6 * k + m + 1) = Chunk(s[k + 1])[m + 1]
    BY <2>1, <2>2 DEF e
  <2>. QED  BY <1>1, <2>1, <2>3
<1>. QED  BY <1>5, <1>6 DEF c

\* The empty line that ends the chunks.
LEMMA PayloadBytes ==
  ASSUME NEW r, IsRequest(r)
  PROVE  LET p == Payload(r)
             n == 6 * Len(r.body)
         IN /\ p \in Seq(Words) /\ n \in Nat
            /\ r.framing # "chunked" => p = r.body
            /\ r.framing = "chunked" =>
                 /\ Len(p) = n + 5
                 /\ \A i \in 1..n : p[i] = Chunks(r.body)[i]
                 /\ p[n + 1] = "0" /\ p[n + 2] = "CR" /\ p[n + 3] = "LF"
                 /\ p[n + 4] = "CR" /\ p[n + 5] = "LF"
<1>. DEFINE p == Payload(r)
            n == 6 * Len(r.body)
            c == Chunks(r.body)
            s1 == c \o <<"0">>
            s2 == s1 \o CRLF
            s3 == s2 \o CRLF
<1>1. r.body \in Seq(Words) /\ n \in Nat
  BY RequestFields
<1>2. CASE r.framing # "chunked"
  BY <1>1, <1>2 DEF Payload
<1>3. CASE r.framing = "chunked"
  <2>1. c \in Seq(Words) /\ Len(c) = n
    BY <1>1, ChunksBytes
  <2>2. p = s3
    BY <1>3 DEF Payload
  <2>3. <<"0">> \in Seq(Words) /\ Len(<<"0">>) = 1 /\ <<"0">>[1] = "0"
    <3>1. "0" \in Words
      BY DEF Words, Digit
    <3>2. \A x \in Words : <<x>> \in Seq(Words) /\ Len(<<x>>) = 1 /\ <<x>>[1] = x
      OBVIOUS
    <3>. QED  BY <3>1, <3>2
  <2>. HIDE DEF c, n, p
  <2>4. /\ s1 \in Seq(Words) /\ Len(s1) = n + 1
        /\ \A i \in 1..n : s1[i] = c[i]
        /\ s1[n + 1] = "0"
    <3>. DEFINE z == <<"0">>
    <3>1. z \in Seq(Words) /\ Len(z) = 1 /\ z[1] = "0" /\ 1 \in 1..Len(z)
      BY <2>3
    <3>. HIDE DEF z
    <3>2. /\ c \o z \in Seq(Words) /\ Len(c \o z) = Len(c) + Len(z)
          /\ \A i \in 1..Len(c) : (c \o z)[i] = c[i]
          /\ \A i \in 1..Len(z) : (c \o z)[Len(c) + i] = z[i]
      BY <2>1, <3>1, CatBytes
    <3>3. c \o z = s1
      BY DEF z
    <3>. HIDE DEF s1
    <3>. QED  BY <2>1, <3>1, <3>2, <3>3
  <2>. HIDE DEF s1
  <2>5. /\ s2 \in Seq(Words) /\ Len(s2) = n + 3
        /\ \A i \in 1..n + 1 : s2[i] = s1[i]
        /\ s2[n + 2] = "CR" /\ s2[n + 3] = "LF"
    <3>1. /\ s2 \in Seq(Words) /\ Len(s2) = Len(s1) + 2
          /\ \A i \in 1..Len(s1) : s2[i] = s1[i]
          /\ s2[Len(s1) + 1] = "CR" /\ s2[Len(s1) + 2] = "LF"
      BY <2>4, EndedBytes
    <3>2. n + 1 + 1 = n + 2 /\ n + 1 + 2 = n + 3
      BY <1>1
    <3>. HIDE DEF s2
    <3>. QED  BY <1>1, <2>4, <3>1, <3>2
  <2>. HIDE DEF s2
  <2>6. /\ s3 \in Seq(Words) /\ Len(s3) = n + 5
        /\ \A i \in 1..n + 3 : s3[i] = s2[i]
        /\ s3[n + 4] = "CR" /\ s3[n + 5] = "LF"
    <3>1. /\ s3 \in Seq(Words) /\ Len(s3) = Len(s2) + 2
          /\ \A i \in 1..Len(s2) : s3[i] = s2[i]
          /\ s3[Len(s2) + 1] = "CR" /\ s3[Len(s2) + 2] = "LF"
      BY <2>5, EndedBytes
    <3>2. n + 3 + 1 = n + 4 /\ n + 3 + 2 = n + 5
      BY <1>1
    <3>. HIDE DEF s3
    <3>. QED  BY <1>1, <2>5, <3>1, <3>2
  <2>. HIDE DEF s3
  <2>7. \A i \in 1..n : i \in 1..n + 1 /\ i \in 1..n + 3
    BY <1>1
  <2>8. n + 1 \in 1..n + 1 /\ n + 1 \in 1..n + 3 /\ n + 2 \in 1..n + 3 /\ n + 3 \in 1..n + 3
    BY <1>1
  <2>9. /\ \A i \in 1..n : s3[i] = c[i]
        /\ s3[n + 1] = "0" /\ s3[n + 2] = "CR" /\ s3[n + 3] = "LF"
    BY <2>4, <2>5, <2>6, <2>7, <2>8
  <2>. QED  BY <1>1, <1>3, <2>2, <2>6, <2>9 DEF c, n, p
<1>. QED  BY <1>2, <1>3

\* What arrives of a stream that begins with a request.
LEMMA StreamBytes ==
  ASSUME NEW s, s.at = 0, IsRequest(s.request), s.more \in Seq(STRING)
  PROVE  LET r == s.request
             h == Len(Header(r))
             p == Len(Payload(r))
             b == BytesOf(s)
         IN /\ h \in Nat /\ p \in Nat /\ Len(Encode(r)) = h + p
            /\ \A i \in 1..h : b[i] = Header(r)[i]
            /\ \A i \in 1..p : b[h + i] = Payload(r)[i]
            /\ \A i \in 1..Len(b) : b[i] \in Words
<1>. DEFINE r == s.request
            h == Header(r)
            p == Payload(r)
            e == h \o p
            b == e \o s.more
<1>1. h \in Seq(Words) /\ p \in Seq(Words)
  BY HeaderBytes, PayloadBytes
<1>2. s.more \in Seq(Words)
  <2>1. STRING \subseteq Words
    BY DEF Words
  <2>. QED  BY <2>1, SeqMonotonic
<1>3. Encode(r) = e /\ BytesOf(s) = b
  BY DEF Encode, BytesOf
<1>. HIDE DEF h, p
<1>4. /\ e \in Seq(Words) /\ Len(e) = Len(h) + Len(p) /\ Len(h) \in Nat /\ Len(p) \in Nat
      /\ \A i \in 1..Len(h) : e[i] = h[i]
      /\ \A i \in 1..Len(p) : e[Len(h) + i] = p[i]
  BY <1>1, CatBytes
<1>. HIDE DEF e
<1>5. b \in Seq(Words) /\ \A i \in 1..Len(e) : b[i] = e[i]
  BY <1>2, <1>4, CatBytes
<1>. HIDE DEF b
<1>6. \A i \in 1..Len(h) : b[i] = h[i]
  <2>1. \A i \in 1..Len(h) : i \in 1..Len(e)
    BY <1>4
  <2>. QED  BY <1>4, <1>5, <2>1
<1>7. \A i \in 1..Len(p) : b[Len(h) + i] = p[i]
  <2>1. \A i \in 1..Len(p) : Len(h) + i \in 1..Len(e)
    BY <1>4
  <2>. QED  BY <1>4, <1>5, <2>1
<1>8. \A i \in 1..Len(b) : b[i] \in Words
  BY <1>5, ElementOfSeq
<1>. QED  BY <1>3, <1>4, <1>6, <1>7, <1>8 DEF h, p

LEMMA Grows ==
  ASSUME NEW s \in Seq(Words)
  PROVE  /\ SubSeq(s, 1, 0) = <<>> /\ SubSeq(s, 1, Len(s)) = s
         /\ \A k \in 0..Len(s) - 1 : Append(SubSeq(s, 1, k), s[k + 1]) = SubSeq(s, 1, k + 1)
<1>1. SubSeq(s, 1, 0) = <<>> /\ SubSeq(s, 1, Len(s)) = s
  BY SubSeqEmpty, SubSeqFull
<1>2. ASSUME NEW k \in 0..Len(s) - 1
      PROVE  Append(SubSeq(s, 1, k), s[k + 1]) = SubSeq(s, 1, k + 1)
  <2>1. Len(s) \in Nat /\ k + 1 \in 1..Len(s) /\ 1 \in 1..Len(s) /\ (k + 1) - 1 = k
    BY LenProperties
  <2>2. SubSeq(s, 1, k + 1) = SubSeq(s, 1, k) \o <<s[k + 1]>>
    <3>1. \A n \in 1..Len(s) : SubSeq(s, 1, n) = SubSeq(s, 1, n - 1) \o <<s[n]>>
      BY <2>1, SubSeqRecursiveSecond
    <3>. QED  BY <2>1, <3>1
  <2>3. SubSeq(s, 1, k) \in Seq(Words)
    <3>1. \A i \in 1..k : s[i] \in Words
      BY <2>1, ElementOfSeq
    <3>. QED  BY <2>1, <3>1, SubSeqProperties
  <2>4. s[k + 1] \in Words
    BY <2>1, ElementOfSeq
  <2>5. \A t \in Seq(Words), x \in Words : Append(t, x) = t \o <<x>>
    OBVIOUS
  <2>. QED  BY <2>2, <2>3, <2>4, <2>5
<1>. QED  BY <1>1, <1>2

LEMMA HeadByte ==
  ASSUME NEW st \in Heads, NEW hd, NEW len, NEW fl, NEW n \in Nat, n + 1 <= MaxHeader,
         NEW v, NEW u, NEW b, NEW c
  PROVE  http_parser_execute(Reading(st, hd, len, fl, n, v, u, b), c)
           = ReadByte(Reading(st, hd, len, fl, n + 1, v, u, b), c)
<1>1. st \notin InBody /\ st \notin InChunked
  BY DEF Heads, InBody, InChunked
<1>. QED  BY <1>1, ByteRead

-----------------------------------------------------------------------------
(* One byte of a request *)

InLine(st, j, v, u) == Reading(st, "general", Unset, {}, j, v, u, <<>>)

LEMMA InLineByte ==
  ASSUME NEW st \in Heads, NEW i \in Nat, i + 1 <= MaxHeader, NEW v, NEW u, NEW c
  PROVE  http_parser_execute(InLine(st, i, v, u), c) = ReadByte(InLine(st, i + 1, v, u), c)
BY HeadByte DEF InLine

LEMMA LineStep ==
  ASSUME NEW r, IsRequest(r), NEW i \in Nat, i + 1 <= MaxHeader, NEW p, LineAt(r, i, p),
         NEW c, c = RequestLine(r)[i + 1], NEW q, q = http_parser_execute(p, c)
  PROVE  LineAt(r, i + 1, q) \/ (i + 1 = LineEnd(r) /\ Between(r, i + 1, q, Unset, {}))
<1>. DEFINE n == Len(r.url)
            l == RequestLine(r)
<1>0. n \in Nat \ {0} /\ r.url \in Seq(Words) /\ r.version \in Versions
  BY RequestFields
<1>1. /\ l[1] = "POST" /\ l[2] = "SP" /\ l[3 + n] = "SP" /\ l[4 + n] = r.version
      /\ l[5 + n] = "CR" /\ l[6 + n] = "LF"
  BY LineBytes
<1>2. \A j \in 1..n : l[2 + j] = r.url[j]
  BY LineBytes
<1>3. \A st \in Heads : \A v, u : http_parser_execute(InLine(st, i, v, u), c) = ReadByte(InLine(st, i + 1, v, u), c)
  BY InLineByte
<1>4. {"start_req", "req_method", "req_spaces", "req_path", "req_http", "req_http_end", "req_line_almost_done"}
        \subseteq Heads
  BY DEF Heads
<1>5. \A j, v, u : ReadByte(InLine("start_req", j, v, u), "POST") = InLine("req_method", j, v, u)
  BY PostByte DEF InLine
<1>6. \A j, v, u : ReadByte(InLine("req_method", j, v, u), "SP") = InLine("req_spaces", j, v, u)
  BY MethodEndByte DEF InLine
<1>7. \A j, v, u : ReadByte(InLine("req_spaces", j, v, u), "/") = InLine("req_path", j, v, Append(u, "/"))
  BY SlashByte DEF InLine
<1>22. \A j, v, u : \A x : x \notin {"SP", "CR", "LF", "BIN"} =>
         ReadByte(InLine("req_path", j, v, u), x) = InLine("req_path", j, v, Append(u, x))
  BY PathByte DEF InLine
<1>23. \A j, v, u : ReadByte(InLine("req_path", j, v, u), "SP") = InLine("req_http", j, v, u)
  BY UrlEndByte DEF InLine
<1>24. \A j, v, u : \A w \in Versions : ReadByte(InLine("req_http", j, v, u), w) = InLine("req_http_end", j, w, u)
  BY VersionByte DEF InLine
<1>25. \A j, v, u : ReadByte(InLine("req_http_end", j, v, u), "CR") = InLine("req_line_almost_done", j, v, u)
  BY VersionEndByte DEF InLine
<1>26. \A j, v, u : ReadByte(InLine("req_line_almost_done", j, v, u), "LF") = InLine("field_start", j, v, u)
  BY LineEndByte DEF InLine
<1>8. /\ SubSeq(r.url, 1, 0) = <<>> /\ SubSeq(r.url, 1, n) = r.url
      /\ \A k \in 0..n - 1 : Append(SubSeq(r.url, 1, k), r.url[k + 1]) = SubSeq(r.url, 1, k + 1)
  BY <1>0, Grows
<1>9. r.url[1] = "/" /\ \A j \in 1..n : r.url[j] \notin {"SP", "CR", "LF", "BIN"}
  BY <1>0, LenProperties DEF IsRequest
<1>10. \/ i = 0 /\ p = InLine("start_req", i, "HTTP/1.0", <<>>)
       \/ i = 1 /\ p = InLine("req_method", i, "HTTP/1.0", <<>>)
       \/ i = 2 /\ p = InLine("req_spaces", i, "HTTP/1.0", <<>>)
       \/ i - 2 \in 1..n /\ p = InLine("req_path", i, "HTTP/1.0", SubSeq(r.url, 1, i - 2))
       \/ i = 3 + n /\ p = InLine("req_http", i, "HTTP/1.0", r.url)
       \/ i = 4 + n /\ p = InLine("req_http_end", i, r.version, r.url)
       \/ i = 5 + n /\ p = InLine("req_line_almost_done", i, r.version, r.url)
  BY DEF LineAt, InLine
<1>11. /\ i + 1 = 1 /\ q = InLine("req_method", i + 1, "HTTP/1.0", <<>>) => LineAt(r, i + 1, q)
       /\ i + 1 = 2 /\ q = InLine("req_spaces", i + 1, "HTTP/1.0", <<>>) => LineAt(r, i + 1, q)
  <2>. QED  BY DEF LineAt, InLine
<1>27. i + 1 - 2 \in 1..n /\ q = InLine("req_path", i + 1, "HTTP/1.0", SubSeq(r.url, 1, i + 1 - 2))
      => LineAt(r, i + 1, q)
  <2>. QED  BY DEF LineAt, InLine
<1>28. i + 1 = 3 + n /\ q = InLine("req_http", i + 1, "HTTP/1.0", r.url) => LineAt(r, i + 1, q)
  <2>. QED  BY DEF LineAt, InLine
<1>29. /\ i + 1 = 4 + n /\ q = InLine("req_http_end", i + 1, r.version, r.url) => LineAt(r, i + 1, q)
       /\ i + 1 = 5 + n /\ q = InLine("req_line_almost_done", i + 1, r.version, r.url) => LineAt(r, i + 1, q)
  <2>. QED  BY DEF LineAt, InLine
<1>12. ASSUME i + 1 = 6 + n, q = InLine("field_start", i + 1, r.version, r.url)
       PROVE  i + 1 = LineEnd(r) /\ Between(r, i + 1, q, Unset, {})
  <2>. QED  BY <1>12 DEF LineEnd, Between, InHeaders, InLine
<1>13. c = l[i + 1] /\ q = http_parser_execute(p, c)
  OBVIOUS
<1>. HIDE DEF l, n
<1>14. CASE i = 0 /\ p = InLine("start_req", i, "HTTP/1.0", <<>>)
  <2>1. c = "POST"
    BY <1>1, <1>13, <1>14
  <2>2. q = InLine("req_method", i + 1, "HTTP/1.0", <<>>)
    BY <1>3, <1>4, <1>5, <1>13, <1>14, <2>1
  <2>3. i + 1 = 1
    BY <1>14
  <2>. QED  BY <1>11, <2>2, <2>3
<1>15. CASE i = 1 /\ p = InLine("req_method", i, "HTTP/1.0", <<>>)
  <2>1. c = "SP"
    BY <1>1, <1>13, <1>15
  <2>2. q = InLine("req_spaces", i + 1, "HTTP/1.0", <<>>)
    BY <1>3, <1>4, <1>6, <1>13, <1>15, <2>1
  <2>3. i + 1 = 2
    BY <1>15
  <2>. QED  BY <1>11, <2>2, <2>3
<1>16. CASE i = 2 /\ p = InLine("req_spaces", i, "HTTP/1.0", <<>>)
  <2>1. c = "/" /\ c = r.url[1]
    <3>1. 1 \in 1..n /\ i + 1 = 2 + 1
      BY <1>0, <1>16
    <3>. QED  BY <1>2, <1>9, <1>13, <3>1
  <2>2. q = InLine("req_path", i + 1, "HTTP/1.0", Append(<<>>, c))
    <3>1. q = ReadByte(InLine("req_spaces", i + 1, "HTTP/1.0", <<>>), "/")
      BY <1>3, <1>4, <1>13, <1>16, <2>1
    <3>2. ReadByte(InLine("req_spaces", i + 1, "HTTP/1.0", <<>>), "/")
            = InLine("req_path", i + 1, "HTTP/1.0", Append(<<>>, "/"))
      BY <1>7
    <3>. QED  BY <2>1, <3>1, <3>2
  <2>3. Append(<<>>, c) = SubSeq(r.url, 1, 1)
    <3>1. 0 \in 0..n - 1
      BY <1>0
    <3>2. Append(SubSeq(r.url, 1, 0), r.url[0 + 1]) = SubSeq(r.url, 1, 0 + 1)
      BY <1>8, <3>1
    <3>. QED  BY <1>8, <2>1, <3>2
  <2>4. i + 1 - 2 = 1 /\ 1 \in 1..n
    BY <1>0, <1>16
  <2>. QED  BY <1>27, <2>2, <2>3, <2>4
<1>17. CASE i - 2 \in 1..n /\ i - 2 # n /\ p = InLine("req_path", i, "HTTP/1.0", SubSeq(r.url, 1, i - 2))
  <2>. DEFINE k == i - 2
  <2>1. k + 1 \in 1..n /\ k \in 0..n - 1 /\ i + 1 = 2 + (k + 1) /\ i + 1 - 2 = k + 1
    BY <1>0, <1>17
  <2>. HIDE DEF k
  <2>2. c = r.url[k + 1]
    BY <1>2, <1>13, <2>1
  <2>3. c \notin {"SP", "CR", "LF", "BIN"}
    BY <1>9, <2>1, <2>2
  <2>4. q = InLine("req_path", i + 1, "HTTP/1.0", Append(SubSeq(r.url, 1, k), c))
    BY <1>3, <1>4, <1>22, <1>13, <1>17, <2>3 DEF k
  <2>5. Append(SubSeq(r.url, 1, k), c) = SubSeq(r.url, 1, k + 1)
    BY <1>8, <2>1, <2>2
  <2>. QED  BY <1>27, <2>1, <2>4, <2>5
<1>18. CASE i - 2 = n /\ p = InLine("req_path", i, "HTTP/1.0", SubSeq(r.url, 1, i - 2))
  <2>1. c = "SP" /\ SubSeq(r.url, 1, i - 2) = r.url
    <3>1. i + 1 = 3 + n
      BY <1>0, <1>18
    <3>. QED  BY <1>1, <1>8, <1>13, <1>18, <3>1
  <2>2. q = InLine("req_http", i + 1, "HTTP/1.0", r.url)
    <3>1. p = InLine("req_path", i, "HTTP/1.0", r.url)
      BY <1>18, <2>1
    <3>2. q = ReadByte(InLine("req_path", i + 1, "HTTP/1.0", r.url), "SP")
      BY <1>3, <1>4, <1>13, <2>1, <3>1
    <3>. QED  BY <1>23, <3>2
  <2>3. i + 1 = 3 + n
    BY <1>0, <1>18
  <2>. QED  BY <1>28, <2>2, <2>3
<1>19. CASE i = 3 + n /\ p = InLine("req_http", i, "HTTP/1.0", r.url)
  <2>1. i + 1 = 4 + n
    BY <1>0, <1>19
  <2>2. c = r.version
    BY <1>1, <1>13, <2>1
  <2>3. q = InLine("req_http_end", i + 1, r.version, r.url)
    BY <1>0, <1>3, <1>4, <1>24, <1>13, <1>19, <2>2
  <2>. QED  BY <1>29, <2>1, <2>3
<1>20. CASE i = 4 + n /\ p = InLine("req_http_end", i, r.version, r.url)
  <2>1. i + 1 = 5 + n
    BY <1>0, <1>20
  <2>2. c = "CR"
    BY <1>1, <1>13, <2>1
  <2>3. q = InLine("req_line_almost_done", i + 1, r.version, r.url)
    BY <1>0, <1>3, <1>4, <1>25, <1>13, <1>20, <2>2
  <2>. QED  BY <1>29, <2>1, <2>3
<1>21. CASE i = 5 + n /\ p = InLine("req_line_almost_done", i, r.version, r.url)
  <2>1. i + 1 = 6 + n
    BY <1>0, <1>21
  <2>2. c = "LF"
    BY <1>1, <1>13, <2>1
  <2>3. q = InLine("field_start", i + 1, r.version, r.url)
    BY <1>0, <1>3, <1>4, <1>26, <1>13, <1>21, <2>2
  <2>4. i + 1 = LineEnd(r) /\ Between(r, i + 1, q, Unset, {})
    BY <1>12, <2>1, <2>3
  <2>. QED  BY <2>4
<1>. QED  BY <1>10, <1>14, <1>15, <1>16, <1>17, <1>18, <1>19, <1>20, <1>21

-----------------------------------------------------------------------------
(* The header lines of a request *)

LEMMA FieldHead ==
  ASSUME NEW r, NEW i \in Nat, i + 1 <= MaxHeader, NEW st \in {"field_start", "value_lws"},
         NEW hd, NEW len, NEW fl, NEW c \in Known \cup {"a"}, NEW h, h = IF c \in Known THEN c ELSE "general"
  PROVE  http_parser_execute(InHeaders(r, i, st, hd, len, fl), c) = InHeaders(r, i + 1, "field", h, len, fl)
<1>1. st \in Heads
  BY DEF Heads
<1>2. http_parser_execute(InHeaders(r, i, st, hd, len, fl), c)
        = ReadByte(InHeaders(r, i + 1, st, hd, len, fl), c)
  BY <1>1, HeadByte DEF InHeaders
<1>3. ReadByte(InHeaders(r, i + 1, st, hd, len, fl), c) = InHeaders(r, i + 1, "field", h, len, fl)
  BY FieldByte DEF InHeaders
<1>. QED  BY <1>2, <1>3

LEMMA EmptyLineHead ==
  ASSUME NEW r, NEW i \in Nat, i + 1 <= MaxHeader, NEW st \in {"field_start", "value_lws"}, NEW hd, NEW len, NEW fl
  PROVE  http_parser_execute(InHeaders(r, i, st, hd, len, fl), "CR")
           = InHeaders(r, i + 1, "headers_almost_done", hd, len, fl)
<1>1. st \in Heads
  BY DEF Heads
<1>2. http_parser_execute(InHeaders(r, i, st, hd, len, fl), "CR")
        = ReadByte(InHeaders(r, i + 1, st, hd, len, fl), "CR")
  BY <1>1, HeadByte DEF InHeaders
<1>3. ReadByte(InHeaders(r, i + 1, st, hd, len, fl), "CR")
        = InHeaders(r, i + 1, "headers_almost_done", hd, len, fl)
  BY EmptyLineByte DEF InHeaders
<1>. QED  BY <1>2, <1>3

LEMMA ColonHead ==
  ASSUME NEW r, NEW i \in Nat, i + 1 <= MaxHeader, NEW hd, NEW len, NEW fl
  PROVE  http_parser_execute(InHeaders(r, i, "field", hd, len, fl), ":")
           = InHeaders(r, i + 1, "value_start", hd, len, fl)
<1>1. "field" \in Heads
  BY DEF Heads
<1>2. http_parser_execute(InHeaders(r, i, "field", hd, len, fl), ":")
        = ReadByte(InHeaders(r, i + 1, "field", hd, len, fl), ":")
  BY <1>1, HeadByte DEF InHeaders
<1>3. ReadByte(InHeaders(r, i + 1, "field", hd, len, fl), ":") = InHeaders(r, i + 1, "value_start", hd, len, fl)
  BY ColonByte DEF InHeaders
<1>. QED  BY <1>2, <1>3

LEMMA ValueSpaceHead ==
  ASSUME NEW r, NEW i \in Nat, i + 1 <= MaxHeader, NEW hd, NEW len, NEW fl
  PROVE  http_parser_execute(InHeaders(r, i, "value_start", hd, len, fl), "SP")
           = InHeaders(r, i + 1, "value_start", hd, len, fl)
<1>1. "value_start" \in Heads
  BY DEF Heads
<1>2. http_parser_execute(InHeaders(r, i, "value_start", hd, len, fl), "SP")
        = ReadByte(InHeaders(r, i + 1, "value_start", hd, len, fl), "SP")
  BY <1>1, HeadByte DEF InHeaders
<1>3. ReadByte(InHeaders(r, i + 1, "value_start", hd, len, fl), "SP")
        = InHeaders(r, i + 1, "value_start", hd, len, fl)
  BY ValueSpaceByte DEF InHeaders
<1>. QED  BY <1>2, <1>3

LEMMA CloseHead ==
  ASSUME NEW r, NEW i \in Nat, i + 1 <= MaxHeader, NEW len, NEW fl
  PROVE  http_parser_execute(InHeaders(r, i, "value_start", "Connection", len, fl), "close")
           = InHeaders(r, i + 1, "value", "close", len, fl)
<1>1. "value_start" \in Heads
  BY DEF Heads
<1>2. http_parser_execute(InHeaders(r, i, "value_start", "Connection", len, fl), "close")
        = ReadByte(InHeaders(r, i + 1, "value_start", "Connection", len, fl), "close")
  BY <1>1, HeadByte DEF InHeaders
<1>3. ReadByte(InHeaders(r, i + 1, "value_start", "Connection", len, fl), "close")
        = InHeaders(r, i + 1, "value", "close", len, fl)
  BY CloseByte DEF InHeaders
<1>. QED  BY <1>2, <1>3

LEMMA ChunkedHead ==
  ASSUME NEW r, NEW i \in Nat, i + 1 <= MaxHeader, NEW len, NEW fl
  PROVE  http_parser_execute(InHeaders(r, i, "value_start", "Transfer-Encoding", len, fl), "chunked")
           = InHeaders(r, i + 1, "value", "chunked", len, fl)
<1>1. "value_start" \in Heads
  BY DEF Heads
<1>2. http_parser_execute(InHeaders(r, i, "value_start", "Transfer-Encoding", len, fl), "chunked")
        = ReadByte(InHeaders(r, i + 1, "value_start", "Transfer-Encoding", len, fl), "chunked")
  BY <1>1, HeadByte DEF InHeaders
<1>3. ReadByte(InHeaders(r, i + 1, "value_start", "Transfer-Encoding", len, fl), "chunked")
        = InHeaders(r, i + 1, "value", "chunked", len, fl)
  BY ChunkedByte DEF InHeaders
<1>. QED  BY <1>2, <1>3

LEMMA GeneralHead ==
  ASSUME NEW r, NEW i \in Nat, i + 1 <= MaxHeader, NEW len, NEW fl
  PROVE  http_parser_execute(InHeaders(r, i, "value_start", "general", len, fl), "a")
           = InHeaders(r, i + 1, "value", "general", len, fl)
<1>1. "value_start" \in Heads
  BY DEF Heads
<1>2. http_parser_execute(InHeaders(r, i, "value_start", "general", len, fl), "a")
        = ReadByte(InHeaders(r, i + 1, "value_start", "general", len, fl), "a")
  BY <1>1, HeadByte DEF InHeaders
<1>3. ReadByte(InHeaders(r, i + 1, "value_start", "general", len, fl), "a")
        = InHeaders(r, i + 1, "value", "general", len, fl)
  BY GeneralByte DEF InHeaders
<1>. QED  BY <1>2, <1>3

LEMMA DigitHead ==
  ASSUME NEW r, NEW i \in Nat, i + 1 <= MaxHeader, NEW len, NEW fl, NEW c \in DOMAIN Digit
  PROVE  http_parser_execute(InHeaders(r, i, "value_start", "Content-Length", len, fl), c)
           = InHeaders(r, i + 1, "value", "Content-Length", Digit[c], fl)
<1>1. "value_start" \in Heads
  BY DEF Heads
<1>2. http_parser_execute(InHeaders(r, i, "value_start", "Content-Length", len, fl), c)
        = ReadByte(InHeaders(r, i + 1, "value_start", "Content-Length", len, fl), c)
  BY <1>1, HeadByte DEF InHeaders
<1>3. ReadByte(InHeaders(r, i + 1, "value_start", "Content-Length", len, fl), c)
        = InHeaders(r, i + 1, "value", "Content-Length", Digit[c], fl)
  BY DigitByte DEF InHeaders
<1>. QED  BY <1>2, <1>3

LEMMA MoreDigitsHead ==
  ASSUME NEW r, NEW i \in Nat, i + 1 <= MaxHeader, NEW fl, NEW len \in 0..Unset,
         NEW c \in DOMAIN Digit, len * 10 + Digit[c] < Unset
  PROVE  http_parser_execute(InHeaders(r, i, "value", "Content-Length", len, fl), c)
           = InHeaders(r, i + 1, "value", "Content-Length", len * 10 + Digit[c], fl)
<1>1. "value" \in Heads
  BY DEF Heads
<1>2. http_parser_execute(InHeaders(r, i, "value", "Content-Length", len, fl), c)
        = ReadByte(InHeaders(r, i + 1, "value", "Content-Length", len, fl), c)
  BY <1>1, HeadByte DEF InHeaders
<1>3. ReadByte(InHeaders(r, i + 1, "value", "Content-Length", len, fl), c)
        = InHeaders(r, i + 1, "value", "Content-Length", len * 10 + Digit[c], fl)
  BY MoreDigitsByte DEF InHeaders
<1>. QED  BY <1>2, <1>3

LEMMA ValueEndHead ==
  ASSUME NEW r, NEW i \in Nat, i + 1 <= MaxHeader, NEW hd, NEW len, NEW fl
  PROVE  http_parser_execute(InHeaders(r, i, "value", hd, len, fl), "CR")
           = InHeaders(r, i + 1, "header_almost_done", hd, len, fl)
<1>1. "value" \in Heads
  BY DEF Heads
<1>2. http_parser_execute(InHeaders(r, i, "value", hd, len, fl), "CR")
        = ReadByte(InHeaders(r, i + 1, "value", hd, len, fl), "CR")
  BY <1>1, HeadByte DEF InHeaders
<1>3. ReadByte(InHeaders(r, i + 1, "value", hd, len, fl), "CR")
        = InHeaders(r, i + 1, "header_almost_done", hd, len, fl)
  BY ValueEndByte DEF InHeaders
<1>. QED  BY <1>2, <1>3

LEMMA HeaderEndHead ==
  ASSUME NEW r, NEW i \in Nat, i + 1 <= MaxHeader, NEW hd, NEW len, NEW fl, NEW f, f = fl \cup Flag(hd)
  PROVE  http_parser_execute(InHeaders(r, i, "header_almost_done", hd, len, fl), "LF")
           = InHeaders(r, i + 1, "value_lws", hd, len, f)
<1>1. "header_almost_done" \in Heads
  BY DEF Heads
<1>2. http_parser_execute(InHeaders(r, i, "header_almost_done", hd, len, fl), "LF")
        = ReadByte(InHeaders(r, i + 1, "header_almost_done", hd, len, fl), "LF")
  BY <1>1, HeadByte DEF InHeaders
<1>3. ReadByte(InHeaders(r, i + 1, "header_almost_done", hd, len, fl), "LF")
        = InHeaders(r, i + 1, "value_lws", hd, len, f)
  BY HeaderEndByte DEF InHeaders
<1>. QED  BY <1>2, <1>3

LEMMA ClosingStep ==
  ASSUME NEW r, IsRequest(r), NEW i \in Nat, i + 1 <= MaxHeader, NEW p, ClosingAt(r, i, p),
         NEW c, c = Closing(r)[i - LineEnd(r) + 1], NEW q, q = http_parser_execute(p, c)
  PROVE  ClosingAt(r, i + 1, q) \/ (i + 1 = ClosingEnd(r) /\ Between(r, i + 1, q, Unset, Flags0(r)))
<1>. DEFINE k == i - LineEnd(r)
            s == Closing(r)
<1>0. r.close = TRUE /\ LineEnd(r) \in Nat /\ i + 1 - LineEnd(r) = k + 1
  <2>1. r.close
    BY DEF ClosingAt
  <2>2. r.close \in BOOLEAN /\ LineEnd(r) \in Nat
    BY RequestFields, HeaderBytes
  <2>. QED  BY <2>1, <2>2
<1>1. /\ s[1] = "Connection" /\ s[2] = ":" /\ s[3] = "SP" /\ s[4] = "close" /\ s[5] = "CR" /\ s[6] = "LF"
      /\ Len(s) = 6
  BY <1>0, ClosingBytes DEF IsFour
<1>2. c = s[k + 1]
  OBVIOUS
<1>3. \/ k = 0 /\ Between(r, i, p, Unset, {})
      \/ k = 1 /\ p = InHeaders(r, i, "field", "Connection", Unset, {})
      \/ k = 2 /\ p = InHeaders(r, i, "value_start", "Connection", Unset, {})
      \/ k = 3 /\ p = InHeaders(r, i, "value_start", "Connection", Unset, {})
      \/ k = 4 /\ p = InHeaders(r, i, "value", "close", Unset, {})
      \/ k = 5 /\ p = InHeaders(r, i, "header_almost_done", "close", Unset, {})
  BY DEF ClosingAt
<1>4. k + 1 = 1 /\ q = InHeaders(r, i + 1, "field", "Connection", Unset, {}) => ClosingAt(r, i + 1, q)
  BY <1>0 DEF ClosingAt
<1>5. k + 1 \in {2, 3} /\ q = InHeaders(r, i + 1, "value_start", "Connection", Unset, {}) => ClosingAt(r, i + 1, q)
  BY <1>0 DEF ClosingAt
<1>6. k + 1 = 4 /\ q = InHeaders(r, i + 1, "value", "close", Unset, {}) => ClosingAt(r, i + 1, q)
  BY <1>0 DEF ClosingAt
<1>7. k + 1 = 5 /\ q = InHeaders(r, i + 1, "header_almost_done", "close", Unset, {}) => ClosingAt(r, i + 1, q)
  BY <1>0 DEF ClosingAt
<1>8. k + 1 = 6 /\ q = InHeaders(r, i + 1, "value_lws", "close", Unset, Flags0(r))
        => i + 1 = ClosingEnd(r) /\ Between(r, i + 1, q, Unset, Flags0(r))
  BY <1>0, <1>1 DEF ClosingEnd, Between
<1>. HIDE DEF k, s
<1>9. CASE k = 0 /\ Between(r, i, p, Unset, {})
  <2>1. PICK st, hd : st \in {"field_start", "value_lws"} /\ p = InHeaders(r, i, st, hd, Unset, {})
    BY <1>9 DEF Between
  <2>2. c = "Connection" /\ "Connection" \in Known
    BY <1>1, <1>2, <1>9 DEF Known
  <2>3. q = InHeaders(r, i + 1, "field", "Connection", Unset, {})
    BY <2>1, <2>2, FieldHead
  <2>. QED  BY <1>4, <1>9, <2>3
<1>10. CASE k = 1 /\ p = InHeaders(r, i, "field", "Connection", Unset, {})
  <2>1. c = ":"
    BY <1>1, <1>2, <1>10
  <2>2. q = InHeaders(r, i + 1, "value_start", "Connection", Unset, {})
    BY <1>10, <2>1, ColonHead
  <2>. QED  BY <1>5, <1>10, <2>2
<1>11. CASE k = 2 /\ p = InHeaders(r, i, "value_start", "Connection", Unset, {})
  <2>1. c = "SP"
    BY <1>1, <1>2, <1>11
  <2>2. q = InHeaders(r, i + 1, "value_start", "Connection", Unset, {})
    BY <1>11, <2>1, ValueSpaceHead
  <2>. QED  BY <1>5, <1>11, <2>2
<1>12. CASE k = 3 /\ p = InHeaders(r, i, "value_start", "Connection", Unset, {})
  <2>1. c = "close"
    BY <1>1, <1>2, <1>12
  <2>2. q = InHeaders(r, i + 1, "value", "close", Unset, {})
    BY <1>12, <2>1, CloseHead
  <2>. QED  BY <1>6, <1>12, <2>2
<1>13. CASE k = 4 /\ p = InHeaders(r, i, "value", "close", Unset, {})
  <2>1. c = "CR"
    BY <1>1, <1>2, <1>13
  <2>2. q = InHeaders(r, i + 1, "header_almost_done", "close", Unset, {})
    BY <1>13, <2>1, ValueEndHead
  <2>. QED  BY <1>7, <1>13, <2>2
<1>14. CASE k = 5 /\ p = InHeaders(r, i, "header_almost_done", "close", Unset, {})
  <2>1. c = "LF"
    BY <1>1, <1>2, <1>14
  <2>2. Flags0(r) = {} \cup Flag("close")
    BY <1>0, FlagIs DEF Flags0
  <2>3. q = InHeaders(r, i + 1, "value_lws", "close", Unset, Flags0(r))
    BY <1>14, <2>1, <2>2, HeaderEndHead
  <2>. QED  BY <1>8, <1>14, <2>3
<1>. QED  BY <1>3, <1>9, <1>10, <1>11, <1>12, <1>13, <1>14

\* The line after which the body has no length.
LEMMA NoneStep ==
  ASSUME NEW r, IsRequest(r), NEW i \in Nat, i + 1 <= MaxHeader, NEW p, FramingAt(r, i, p),
         r.framing = "none",
         NEW c, c = Framing(r)[i - ClosingEnd(r) + 1], NEW q, q = http_parser_execute(p, c)
  PROVE  FramingAt(r, i + 1, q) \/ EmptyLineAt(r, i + 1, q)
<1>. DEFINE k == i - ClosingEnd(r)
            s == Framing(r)
            f == Flags0(r)
<1>0. ClosingEnd(r) \in Nat /\ i + 1 - ClosingEnd(r) = k + 1
  BY HeaderBytes
<1>1. /\ s[1] = "a" /\ s[2] = ":" /\ s[3] = "a" /\ s[4] = "CR" /\ s[5] = "LF"
      /\ Len(s) = 5
  BY FramingBytes
<1>2. c = s[k + 1]
  OBVIOUS
<1>3. \/ k = 0 /\ Between(r, i, p, Unset, f)
      \/ k = 1 /\ p = InHeaders(r, i, "field", "general", Unset, f)
      \/ k = 2 /\ p = InHeaders(r, i, "value_start", "general", Unset, f)
      \/ k = 3 /\ p = InHeaders(r, i, "value", "general", Unset, f)
      \/ k = 4 /\ p = InHeaders(r, i, "header_almost_done", "general", Unset, f)
  BY DEF FramingAt
<1>4. k + 1 = 1 /\ q = InHeaders(r, i + 1, "field", "general", Unset, f) => FramingAt(r, i + 1, q)
  BY <1>0 DEF FramingAt
<1>5. k + 1 = 2 /\ q = InHeaders(r, i + 1, "value_start", "general", Unset, f) => FramingAt(r, i + 1, q)
  BY <1>0 DEF FramingAt
<1>6. k + 1 = 3 /\ q = InHeaders(r, i + 1, "value", "general", Unset, f) => FramingAt(r, i + 1, q)
  BY <1>0 DEF FramingAt
<1>7. k + 1 = 4 /\ q = InHeaders(r, i + 1, "header_almost_done", "general", Unset, f) => FramingAt(r, i + 1, q)
  BY <1>0 DEF FramingAt
<1>8. k + 1 = 5 /\ q = InHeaders(r, i + 1, "value_lws", "general", Unset, f) => EmptyLineAt(r, i + 1, q)
  BY <1>0, <1>1 DEF FramingEnd, Between, EmptyLineAt, Declared, Flags1
<1>. HIDE DEF k, s, f
<1>9. CASE k = 0 /\ Between(r, i, p, Unset, f)
  <2>1. PICK st, hd : st \in {"field_start", "value_lws"} /\ p = InHeaders(r, i, st, hd, Unset, f)
    BY <1>9 DEF Between
  <2>2. c = "a" /\ "a" \notin Known
    BY <1>1, <1>2, <1>9 DEF Known
  <2>3. q = InHeaders(r, i + 1, "field", "general", Unset, f)
    BY <2>1, <2>2, FieldHead
  <2>. QED  BY <1>4, <1>9, <2>3
<1>10. CASE k = 1 /\ p = InHeaders(r, i, "field", "general", Unset, f)
  <2>1. c = ":"
    BY <1>1, <1>2, <1>10
  <2>2. q = InHeaders(r, i + 1, "value_start", "general", Unset, f)
    BY <1>10, <2>1, ColonHead
  <2>. QED  BY <1>5, <1>10, <2>2
<1>12. CASE k = 2 /\ p = InHeaders(r, i, "value_start", "general", Unset, f)
  <2>1. c = "a"
    BY <1>1, <1>2, <1>12
  <2>2. q = InHeaders(r, i + 1, "value", "general", Unset, f)
    BY <1>12, <2>1, GeneralHead
  <2>. QED  BY <1>6, <1>12, <2>2
<1>13. CASE k = 3 /\ p = InHeaders(r, i, "value", "general", Unset, f)
  <2>1. c = "CR"
    BY <1>1, <1>2, <1>13
  <2>2. q = InHeaders(r, i + 1, "header_almost_done", "general", Unset, f)
    BY <1>13, <2>1, ValueEndHead
  <2>. QED  BY <1>7, <1>13, <2>2
<1>14. CASE k = 4 /\ p = InHeaders(r, i, "header_almost_done", "general", Unset, f)
  <2>1. c = "LF"
    BY <1>1, <1>2, <1>14
  <2>2. f = f \cup Flag("general")
    BY FlagIs
  <2>4. q = InHeaders(r, i + 1, "value_lws", "general", Unset, f)
    BY <1>14, <2>1, <2>2, HeaderEndHead
  <2>. QED  BY <1>8, <1>14, <2>4
<1>. QED  BY <1>3, <1>9, <1>10, <1>12, <1>13, <1>14

\* The line that says that the body is chunked.
LEMMA ChunkedStep ==
  ASSUME NEW r, IsRequest(r), NEW i \in Nat, i + 1 <= MaxHeader, NEW p, FramingAt(r, i, p),
         r.framing = "chunked",
         NEW c, c = Framing(r)[i - ClosingEnd(r) + 1], NEW q, q = http_parser_execute(p, c)
  PROVE  FramingAt(r, i + 1, q) \/ EmptyLineAt(r, i + 1, q)
<1>. DEFINE k == i - ClosingEnd(r)
            s == Framing(r)
            f == Flags0(r)
<1>0. ClosingEnd(r) \in Nat /\ i + 1 - ClosingEnd(r) = k + 1
  BY HeaderBytes
<1>1. /\ s[1] = "Transfer-Encoding" /\ s[2] = ":" /\ s[3] = "SP" /\ s[4] = "chunked" /\ s[5] = "CR"
      /\ s[6] = "LF" /\ Len(s) = 6
  BY FramingBytes DEF IsFour
<1>2. c = s[k + 1]
  OBVIOUS
<1>3. \/ k = 0 /\ Between(r, i, p, Unset, f)
      \/ k = 1 /\ p = InHeaders(r, i, "field", "Transfer-Encoding", Unset, f)
      \/ k = 2 /\ p = InHeaders(r, i, "value_start", "Transfer-Encoding", Unset, f)
      \/ k = 3 /\ p = InHeaders(r, i, "value_start", "Transfer-Encoding", Unset, f)
      \/ k = 4 /\ p = InHeaders(r, i, "value", "chunked", Unset, f)
      \/ k = 5 /\ p = InHeaders(r, i, "header_almost_done", "chunked", Unset, f)
  BY DEF FramingAt
<1>4. k + 1 = 1 /\ q = InHeaders(r, i + 1, "field", "Transfer-Encoding", Unset, f) => FramingAt(r, i + 1, q)
  BY <1>0 DEF FramingAt
<1>5. k + 1 \in {2, 3} /\ q = InHeaders(r, i + 1, "value_start", "Transfer-Encoding", Unset, f)
        => FramingAt(r, i + 1, q)
  BY <1>0 DEF FramingAt
<1>6. k + 1 = 4 /\ q = InHeaders(r, i + 1, "value", "chunked", Unset, f) => FramingAt(r, i + 1, q)
  BY <1>0 DEF FramingAt
<1>7. k + 1 = 5 /\ q = InHeaders(r, i + 1, "header_almost_done", "chunked", Unset, f) => FramingAt(r, i + 1, q)
  BY <1>0 DEF FramingAt
<1>8. k + 1 = 6 /\ q = InHeaders(r, i + 1, "value_lws", "chunked", Unset, f \cup {"chunked"})
        => EmptyLineAt(r, i + 1, q)
  BY <1>0, <1>1 DEF FramingEnd, Between, EmptyLineAt, Declared, Flags1
<1>. HIDE DEF k, s, f
<1>9. CASE k = 0 /\ Between(r, i, p, Unset, f)
  <2>1. PICK st, hd : st \in {"field_start", "value_lws"} /\ p = InHeaders(r, i, st, hd, Unset, f)
    BY <1>9 DEF Between
  <2>2. c = "Transfer-Encoding" /\ "Transfer-Encoding" \in Known
    BY <1>1, <1>2, <1>9 DEF Known
  <2>3. q = InHeaders(r, i + 1, "field", "Transfer-Encoding", Unset, f)
    BY <2>1, <2>2, FieldHead
  <2>. QED  BY <1>4, <1>9, <2>3
<1>10. CASE k = 1 /\ p = InHeaders(r, i, "field", "Transfer-Encoding", Unset, f)
  <2>1. c = ":"
    BY <1>1, <1>2, <1>10
  <2>2. q = InHeaders(r, i + 1, "value_start", "Transfer-Encoding", Unset, f)
    BY <1>10, <2>1, ColonHead
  <2>. QED  BY <1>5, <1>10, <2>2
<1>11. CASE k = 2 /\ p = InHeaders(r, i, "value_start", "Transfer-Encoding", Unset, f)
  <2>1. c = "SP"
    BY <1>1, <1>2, <1>11
  <2>2. q = InHeaders(r, i + 1, "value_start", "Transfer-Encoding", Unset, f)
    BY <1>11, <2>1, ValueSpaceHead
  <2>. QED  BY <1>5, <1>11, <2>2
<1>12. CASE k = 3 /\ p = InHeaders(r, i, "value_start", "Transfer-Encoding", Unset, f)
  <2>1. c = "chunked"
    BY <1>1, <1>2, <1>12
  <2>2. q = InHeaders(r, i + 1, "value", "chunked", Unset, f)
    BY <1>12, <2>1, ChunkedHead
  <2>. QED  BY <1>6, <1>12, <2>2
<1>13. CASE k = 4 /\ p = InHeaders(r, i, "value", "chunked", Unset, f)
  <2>1. c = "CR"
    BY <1>1, <1>2, <1>13
  <2>2. q = InHeaders(r, i + 1, "header_almost_done", "chunked", Unset, f)
    BY <1>13, <2>1, ValueEndHead
  <2>. QED  BY <1>7, <1>13, <2>2
<1>14. CASE k = 5 /\ p = InHeaders(r, i, "header_almost_done", "chunked", Unset, f)
  <2>1. c = "LF"
    BY <1>1, <1>2, <1>14
  <2>2. f \cup {"chunked"} = f \cup Flag("chunked")
    BY FlagIs
  <2>4. q = InHeaders(r, i + 1, "value_lws", "chunked", Unset, f \cup {"chunked"})
    BY <1>14, <2>1, <2>2, HeaderEndHead
  <2>. QED  BY <1>8, <1>14, <2>4
<1>. QED  BY <1>3, <1>9, <1>10, <1>11, <1>12, <1>13, <1>14

\* The digits read so far denote a length, and all of them the length of the body.
LEMMA SoFarFacts ==
  ASSUME NEW r, IsRequest(r), r.framing = "length"
  PROVE  LET d == Len(r.digits)
             v == SoFar(r)
         IN /\ d \in Nat \ {0} /\ \A j \in 1..d : r.digits[j] \in DOMAIN Digit
            /\ \A j \in 1..d : v[j] \in 0..Unset - 1
            /\ v[1] = Digit[r.digits[1]] /\ v[d] = Len(r.body)
            /\ \A j \in 2..d : v[j] = v[j - 1] * 10 + Digit[r.digits[j]]
<1>. DEFINE d == Len(r.digits)
            Denotes(v) == /\ v[1] = Digit[r.digits[1]] /\ v[d] = Len(r.body)
                        /\ \A j \in 2..d : v[j] = v[j - 1] * 10 + Digit[r.digits[j]]
<1>1. d \in Nat \ {0} /\ r.digits \in Seq(DOMAIN Digit)
  BY RequestFields DEF IsRequest, Denote
<1>2. DOMAIN r.digits = 1..d /\ \A j \in 1..d : r.digits[j] \in DOMAIN Digit
  BY <1>1
<1>3. \E v \in [DOMAIN r.digits -> 0..Unset - 1] : Denotes(v)
  BY DEF IsRequest, Denote
<1>4. SoFar(r) = CHOOSE v \in [DOMAIN r.digits -> 0..Unset - 1] : Denotes(v)
  BY DEF SoFar
<1>5. SoFar(r) \in [DOMAIN r.digits -> 0..Unset - 1] /\ Denotes(SoFar(r))
  <2>. HIDE DEF Denotes, d
  <2>. QED  BY <1>3, <1>4
<1>. QED  BY <1>1, <1>2, <1>5

\* The line that says how long the body is.
LEMMA LengthStep ==
  ASSUME NEW r, IsRequest(r), NEW i \in Nat, i + 1 <= MaxHeader, NEW p, FramingAt(r, i, p),
         r.framing = "length",
         NEW c, c = Framing(r)[i - ClosingEnd(r) + 1], NEW q, q = http_parser_execute(p, c)
  PROVE  FramingAt(r, i + 1, q) \/ EmptyLineAt(r, i + 1, q)
<1>. DEFINE k == i - ClosingEnd(r)
            s == Framing(r)
            f == Flags0(r)
            d == Len(r.digits)
            v == SoFar(r)
<1>0. ClosingEnd(r) \in Nat /\ i + 1 - ClosingEnd(r) = k + 1 /\ k \in Int
  BY HeaderBytes
<1>1. /\ s[1] = "Content-Length" /\ s[2] = ":" /\ s[3] = "SP" /\ \A j \in 1..d : s[3 + j] = r.digits[j]
      /\ s[4 + d] = "CR" /\ s[5 + d] = "LF" /\ Len(s) = 5 + d
  BY FramingBytes
<1>2. c = s[k + 1]
  OBVIOUS
<1>20. /\ d \in Nat \ {0} /\ \A j \in 1..d : r.digits[j] \in DOMAIN Digit
       /\ \A j \in 1..d : v[j] \in 0..Unset - 1
       /\ v[1] = Digit[r.digits[1]] /\ v[d] = Len(r.body)
       /\ \A j \in 2..d : v[j] = v[j - 1] * 10 + Digit[r.digits[j]]
  BY SoFarFacts
<1>3. \/ k = 0 /\ Between(r, i, p, Unset, f)
      \/ k = 1 /\ p = InHeaders(r, i, "field", "Content-Length", Unset, f)
      \/ k = 2 /\ p = InHeaders(r, i, "value_start", "Content-Length", Unset, f)
      \/ k = 3 /\ p = InHeaders(r, i, "value_start", "Content-Length", Unset, f)
      \/ k - 3 \in 1..d /\ p = InHeaders(r, i, "value", "Content-Length", v[k - 3], f)
      \/ k = 4 + d /\ p = InHeaders(r, i, "header_almost_done", "Content-Length", Len(r.body), f)
  BY DEF FramingAt
<1>4. k + 1 = 1 /\ q = InHeaders(r, i + 1, "field", "Content-Length", Unset, f) => FramingAt(r, i + 1, q)
  BY <1>0 DEF FramingAt
<1>5. k + 1 \in {2, 3} /\ q = InHeaders(r, i + 1, "value_start", "Content-Length", Unset, f)
        => FramingAt(r, i + 1, q)
  BY <1>0 DEF FramingAt
<1>6. k + 1 - 3 \in 1..d /\ q = InHeaders(r, i + 1, "value", "Content-Length", v[k + 1 - 3], f)
        => FramingAt(r, i + 1, q)
  BY <1>0, SMTT(60) DEF FramingAt
<1>7. k + 1 = 4 + d /\ q = InHeaders(r, i + 1, "header_almost_done", "Content-Length", Len(r.body), f)
        => FramingAt(r, i + 1, q)
  BY <1>0 DEF FramingAt
<1>8. k + 1 = 5 + d /\ q = InHeaders(r, i + 1, "value_lws", "Content-Length", Len(r.body), f)
        => EmptyLineAt(r, i + 1, q)
  BY <1>0, <1>1, <1>20, SMTT(60) DEF FramingEnd, Between, EmptyLineAt, Declared, Flags1
<1>. HIDE DEF k, s, f, d, v
<1>9. CASE k = 0 /\ Between(r, i, p, Unset, f)
  <2>1. PICK st, hd : st \in {"field_start", "value_lws"} /\ p = InHeaders(r, i, st, hd, Unset, f)
    BY <1>9 DEF Between
  <2>2. c = "Content-Length" /\ "Content-Length" \in Known
    BY <1>1, <1>2, <1>9 DEF Known
  <2>3. q = InHeaders(r, i + 1, "field", "Content-Length", Unset, f)
    BY <2>1, <2>2, FieldHead
  <2>. QED  BY <1>4, <1>9, <2>3
<1>10. CASE k = 1 /\ p = InHeaders(r, i, "field", "Content-Length", Unset, f)
  <2>1. c = ":"
    BY <1>1, <1>2, <1>10
  <2>2. q = InHeaders(r, i + 1, "value_start", "Content-Length", Unset, f)
    BY <1>10, <2>1, ColonHead
  <2>. QED  BY <1>5, <1>10, <2>2
<1>11. CASE k = 2 /\ p = InHeaders(r, i, "value_start", "Content-Length", Unset, f)
  <2>1. c = "SP"
    BY <1>1, <1>2, <1>11
  <2>2. q = InHeaders(r, i + 1, "value_start", "Content-Length", Unset, f)
    BY <1>11, <2>1, ValueSpaceHead
  <2>. QED  BY <1>5, <1>11, <2>2
<1>12. CASE k = 3 /\ p = InHeaders(r, i, "value_start", "Content-Length", Unset, f)
  <2>1. 1 \in 1..d /\ k + 1 = 3 + 1 /\ k + 1 - 3 = 1
    BY <1>12, <1>20
  <2>2. c = r.digits[1] /\ c \in DOMAIN Digit
    BY <1>1, <1>2, <1>20, <2>1
  <2>3. q = InHeaders(r, i + 1, "value", "Content-Length", Digit[c], f)
    BY <1>12, <2>2, DigitHead
  <2>. QED  BY <1>6, <1>20, <2>1, <2>2, <2>3
<1>13. CASE k - 3 \in 1..d - 1 /\ p = InHeaders(r, i, "value", "Content-Length", v[k - 3], f)
  <2>. DEFINE j == k - 3
  <2>1. j \in 1..d /\ j + 1 \in 2..d /\ j + 1 \in 1..d /\ k + 1 = 3 + (j + 1) /\ k + 1 - 3 = j + 1 /\ (j + 1) - 1 = j
    BY <1>0, <1>13, <1>20
  <2>2. p = InHeaders(r, i, "value", "Content-Length", v[j], f)
    BY <1>13
  <2>. HIDE DEF j
  <2>3. c = r.digits[j + 1] /\ c \in DOMAIN Digit
    BY <1>1, <1>2, <1>20, <2>1, ZenonT(60)
  <2>4. v[j + 1] = v[j] * 10 + Digit[c]
    BY <1>20, <2>1, <2>3
  <2>5. v[j] \in 0..Unset - 1 /\ v[j + 1] \in 0..Unset - 1
    BY <1>20, <2>1
  <2>6. v[j] \in 0..Unset /\ v[j] * 10 + Digit[c] < Unset
    BY <2>4, <2>5, UnsetFacts
  <2>7. q = InHeaders(r, i + 1, "value", "Content-Length", v[j] * 10 + Digit[c], f)
    BY <2>2, <2>3, <2>6, MoreDigitsHead
  <2>. QED  BY <1>6, <2>1, <2>4, <2>7
<1>14. CASE k - 3 = d /\ p = InHeaders(r, i, "value", "Content-Length", v[k - 3], f)
  <2>1. k + 1 = 4 + d
    BY <1>0, <1>14, <1>20
  <2>2. c = "CR" /\ p = InHeaders(r, i, "value", "Content-Length", Len(r.body), f)
    BY <1>1, <1>2, <1>14, <1>20, <2>1
  <2>3. q = InHeaders(r, i + 1, "header_almost_done", "Content-Length", Len(r.body), f)
    BY <2>2, ValueEndHead
  <2>. QED  BY <1>7, <2>1, <2>3
<1>15. CASE k = 4 + d /\ p = InHeaders(r, i, "header_almost_done", "Content-Length", Len(r.body), f)
  <2>1. k + 1 = 5 + d
    BY <1>15, <1>20
  <2>2. c = "LF"
    BY <1>1, <1>2, <2>1
  <2>3. f = f \cup Flag("Content-Length")
    BY FlagIs
  <2>4. q = InHeaders(r, i + 1, "value_lws", "Content-Length", Len(r.body), f)
    BY <1>15, <2>2, <2>3, HeaderEndHead
  <2>. QED  BY <1>8, <2>1, <2>4
<1>16. k - 3 \in 1..d => k - 3 \in 1..d - 1 \/ k - 3 = d
  BY <1>20
<1>. QED  BY <1>3, <1>9, <1>10, <1>11, <1>12, <1>13, <1>14, <1>15, <1>16

-----------------------------------------------------------------------------
(* The end of the headers, and of the request *)

LEMMA PrefixOfItself == ASSUME NEW s \in Seq(Words) PROVE IsPrefix(s, s)
BY DEF IsPrefix

LEMMA FlagsFacts ==
  ASSUME NEW r, IsRequest(r)
  PROVE  /\ r.framing = "chunked" <=> "chunked" \in Flags1(r)
         /\ r.close => "close" \in Flags1(r)
         /\ "keep-alive" \notin Flags1(r) /\ "upgrade" \notin Flags1(r) /\ "trailing" \notin Flags1(r)
BY DEF Flags1, Flags0

\* The byte that completes the request.
LEMMA CompleteDone ==
  ASSUME NEW r, IsRequest(r), NEW st, NEW hd, NEW len, NEW n,
         NEW fl \in {Flags1(r), Flags1(r) \cup {"trailing"}},
         NEW q, q = Complete(Reading(st, hd, len, fl, n, r.version, r.url, r.body))
  PROVE  DoneAt(r, Len(Encode(r)), q)
<1>1. /\ q.complete = 1 /\ q.url = r.url /\ q.body = r.body
      /\ "close" \in fl /\ "keep-alive" \notin fl => q.state = "dead"
  BY CompleteIs
<1>2. (r.close => "close" \in fl) /\ "keep-alive" \notin fl
  BY FlagsFacts
<1>3. r.url \in Seq(Words) /\ r.body \in Seq(Words)
  BY RequestFields
<1>4. IsPrefix(r.url, r.url) /\ IsPrefix(r.body, r.body)
  BY <1>3, PrefixOfItself
<1>5. Len(Encode(r)) >= Len(Encode(r))
  <2>1. Len(Encode(r)) \in Nat
    <3>1. Header(r) \in Seq(Words) /\ Payload(r) \in Seq(Words)
      BY HeaderBytes, PayloadBytes
    <3>. QED  BY <3>1, CatBytes DEF Encode
  <2>. QED  BY <2>1
<1>. QED  BY <1>1, <1>2, <1>3, <1>4, <1>5 DEF DoneAt

LEMMA SizeOf ==
  ASSUME NEW r, IsRequest(r)
  PROVE  /\ Len(Header(r)) \in Nat /\ Len(Header(r)) >= 8 /\ Len(Header(r)) <= MaxHeader
         /\ Len(Header(r)) = FramingEnd(r) + 2
         /\ r.framing # "chunked" => Len(Encode(r)) = Len(Header(r)) + Len(r.body)
         /\ r.framing = "chunked" => Len(Encode(r)) = Len(Header(r)) + 6 * Len(r.body) + 5
         /\ Len(r.body) \in Nat
<1>1. /\ Header(r) \in Seq(Words) /\ Payload(r) \in Seq(Words)
      /\ FramingEnd(r) \in Nat /\ Len(Header(r)) = FramingEnd(r) + 2
  BY HeaderBytes, PayloadBytes
<1>2. Len(Encode(r)) = Len(Header(r)) + Len(Payload(r)) /\ Len(Header(r)) \in Nat
  BY <1>1, CatBytes DEF Encode
<1>3. FramingEnd(r) >= 6
  <2>1. Len(r.url) \in Nat /\ Len(Closing(r)) \in Nat /\ Len(Framing(r)) \in Nat
    <3>1. Closing(r) \in Seq(Words) /\ Framing(r) \in Seq(Words)
      BY ClosingBytes, FramingBytes
    <3>. QED  BY <3>1, RequestFields, LenProperties
  <2>. QED  BY <2>1 DEF FramingEnd, ClosingEnd, LineEnd
<1>4. Len(Header(r)) <= MaxHeader
  BY DEF IsRequest
<1>5. r.framing # "chunked" => Len(Payload(r)) = Len(r.body)
  BY PayloadBytes
<1>6. r.framing = "chunked" => Len(Payload(r)) = 6 * Len(r.body) + 5
  BY PayloadBytes
<1>7. Len(r.body) \in Nat
  BY RequestFields
<1>8. Len(Header(r)) >= 8
  BY <1>1, <1>3
<1>9. r.framing # "chunked" => Len(Encode(r)) = Len(Header(r)) + Len(r.body)
  BY <1>2, <1>5
<1>10. r.framing = "chunked" => Len(Encode(r)) = Len(Header(r)) + 6 * Len(r.body) + 5
  <2>1. ASSUME r.framing = "chunked" PROVE Len(Encode(r)) = Len(Header(r)) + (6 * Len(r.body) + 5)
    BY <1>2, <1>6, <2>1
  <2>. QED  BY <1>2, <1>7, <2>1
<1>. QED  BY <1>1, <1>2, <1>4, <1>7, <1>8, <1>9, <1>10

LEMMA HeadersEnd ==
  ASSUME NEW hd, NEW len, NEW fl, NEW n, NEW v, NEW u, NEW b, "upgrade" \notin fl, "trailing" \notin fl,
         NEW q, q = ReadByte(Reading("headers_almost_done", hd, len, fl, n, v, u, b), "LF")
  PROVE  /\ "chunked" \in fl => q = Reading("chunk_size_start", hd, len, fl, 0, v, u, b)
         /\ "chunked" \notin fl /\ len \notin {0, Unset} =>
              q = Reading("body_identity", hd, len, fl, 0, v, u, b)
         /\ "chunked" \notin fl /\ len \in {0, Unset} =>
              q = Complete(Reading("headers_almost_done", hd, len, fl, 0, v, u, b))
BY EndByte

\* The empty line: what comes next depends on what the headers have said.
LEMMA EmptyLineStep ==
  ASSUME NEW r, IsRequest(r), NEW i \in Nat, i + 1 <= MaxHeader, NEW p, EmptyLineAt(r, i, p),
         NEW c, c = Header(r)[i + 1], NEW q, q = http_parser_execute(p, c)
  PROVE  \/ EmptyLineAt(r, i + 1, q) \/ IdentityAt(r, i + 1, q) \/ ChunksAt(r, i + 1, q)
         \/ i + 1 = Len(Encode(r)) /\ DoneAt(r, i + 1, q)
<1>. DEFINE f == FramingEnd(r)
            d == Declared(r)
            fl == Flags1(r)
<1>1. f \in Nat /\ Header(r)[f + 1] = "CR" /\ Header(r)[f + 2] = "LF" /\ Len(Header(r)) = f + 2
  BY HeaderBytes
<1>2. /\ r.framing = "chunked" <=> "chunked" \in fl
      /\ "upgrade" \notin fl /\ "trailing" \notin fl
  BY FlagsFacts
<1>3. \/ i = f /\ Between(r, i, p, d, fl)
      \/ i = f + 1 /\ \E hd : p = InHeaders(r, i, "headers_almost_done", hd, d, fl)
  BY DEF EmptyLineAt
<1>4. i + 1 = f + 1 /\ (\E hd : q = InHeaders(r, i + 1, "headers_almost_done", hd, d, fl)) => EmptyLineAt(r, i + 1, q)
  BY DEF EmptyLineAt
<1>5. r.body \in Seq(Words) /\ Len(r.body) \in Nat /\ SubSeq(r.body, 1, 0) = <<>> /\ (Len(r.body) = 0 => r.body = <<>>)
  BY RequestFields, Grows, EmptySeq
<1>6. r.framing \in {"none", "length", "chunked"} /\ (r.framing = "none" => r.body = <<>>)
  BY DEF IsRequest
<1>. HIDE DEF f, fl
<1>7. CASE i = f /\ Between(r, i, p, d, fl)
  <2>1. PICK st, hd : st \in {"field_start", "value_lws"} /\ p = InHeaders(r, i, st, hd, d, fl)
    BY <1>7 DEF Between
  <2>2. c = "CR"
    BY <1>1, <1>7
  <2>3. q = InHeaders(r, i + 1, "headers_almost_done", hd, d, fl)
    BY <2>1, <2>2, EmptyLineHead
  <2>. QED  BY <1>4, <1>7, <2>3
<1>8. CASE i = f + 1 /\ \E hd : p = InHeaders(r, i, "headers_almost_done", hd, d, fl)
  <2>1. PICK hd : p = InHeaders(r, i, "headers_almost_done", hd, d, fl)
    BY <1>8
  <2>2. c = "LF" /\ i + 1 = Len(Header(r))
    BY <1>1, <1>8
  <2>3. q = ReadByte(Reading("headers_almost_done", hd, d, fl, i + 1, r.version, r.url, <<>>), "LF")
    <3>1. "headers_almost_done" \in Heads
      BY DEF Heads
    <3>. QED  BY <2>1, <2>2, <3>1, HeadByte DEF InHeaders
  <2>4. /\ "chunked" \in fl => q = Reading("chunk_size_start", hd, d, fl, 0, r.version, r.url, <<>>)
        /\ "chunked" \notin fl /\ d \notin {0, Unset} =>
             q = Reading("body_identity", hd, d, fl, 0, r.version, r.url, <<>>)
        /\ "chunked" \notin fl /\ d \in {0, Unset} =>
             q = Complete(Reading("headers_almost_done", hd, d, fl, 0, r.version, r.url, <<>>))
    BY <1>2, <2>3, HeadersEnd
  <2>5. CASE r.framing = "chunked"
    <3>1. q = Reading("chunk_size_start", hd, d, fl, 0, r.version, r.url, SubSeq(r.body, 1, 0))
      BY <1>2, <1>5, <2>4, <2>5
    <3>2. 0 \in 0..Len(r.body) /\ 0 \in 0..5 /\ i + 1 = Len(Header(r)) + 6 * 0 + 0
      BY <1>1, <1>5, <2>2
    <3>. HIDE DEF d
    <3>3. ChunksAt(r, i + 1, q)
      <4>1. ChunkAt(r, 0, 0, q)
        BY <3>1 DEF ChunkAt, fl
      <4>. QED  BY <2>5, <3>2, <4>1 DEF ChunksAt
    <3>. QED  BY <3>3
  <2>6. CASE r.framing = "length" /\ Len(r.body) # 0
    <3>1. d = Len(r.body) /\ d \notin {0, Unset}
      <4>1. Len(r.digits) \in Nat \ {0} /\ SoFar(r)[Len(r.digits)] \in 0..Unset - 1
            /\ SoFar(r)[Len(r.digits)] = Len(r.body)
        BY <2>6, SoFarFacts
      <4>. QED  BY <2>6, <4>1, UnsetFacts DEF Declared
    <3>5. q = Reading("body_identity", hd, d, fl, 0, r.version, r.url, <<>>)
      <4>. HIDE DEF d
      <4>. QED  BY <1>2, <2>4, <2>6, <3>1
    <3>6. d = Len(r.body) - 0
      BY <1>5, <3>1
    <3>2. q = Reading("body_identity", hd, Len(r.body) - 0, fl, 0, r.version, r.url, SubSeq(r.body, 1, 0))
      <4>. HIDE DEF d
      <4>. QED  BY <1>5, <3>5, <3>6
    <3>3. i + 1 - Len(Header(r)) = 0 /\ 0 \in 0..Len(r.body) - 1
      BY <1>1, <1>5, <2>2, <2>6
    <3>4. IdentityAt(r, i + 1, q)
      BY <2>6, <3>2, <3>3 DEF IdentityAt, fl
    <3>. QED  BY <3>4
  <2>7. CASE r.framing # "chunked" /\ Len(r.body) = 0
    <3>1. d \in {0, Unset}
      BY <2>7 DEF Declared
    <3>2. q = Complete(Reading("headers_almost_done", hd, d, fl, 0, r.version, r.url, r.body))
      BY <1>2, <1>5, <2>4, <2>7, <3>1
    <3>3. DoneAt(r, Len(Encode(r)), q)
      <4>1. fl \in {Flags1(r), Flags1(r) \cup {"trailing"}}
        BY DEF fl
      <4>. HIDE DEF d
      <4>. QED  BY <3>2, <4>1, CompleteDone
    <3>4. i + 1 = Len(Encode(r))
      BY <2>2, <2>7, SizeOf
    <3>. QED  BY <3>3, <3>4
  <2>8. r.framing = "none" => Len(r.body) = 0
    BY <1>6, EmptySeq
  <2>. QED  BY <1>6, <2>5, <2>6, <2>7, <2>8
<1>. QED  BY <1>3, <1>7, <1>8

-----------------------------------------------------------------------------
(* The body *)

LEMMA IdentityBodyByte ==
  ASSUME NEW hd, NEW len \in Nat \ {0}, len # Unset, NEW fl, NEW v, NEW u, NEW b, NEW c,
         NEW q, q = http_parser_execute(Reading("body_identity", hd, len, fl, 0, v, u, b), c)
  PROVE  /\ len # 1 => q = Reading("body_identity", hd, len - 1, fl, 0, v, u, Append(b, c))
         /\ len = 1 => q = Complete(Reading("body_identity", hd, len - 1, fl, 0, v, u, Append(b, c)))
<1>1. "body_identity" \in InBody /\ "body_identity" \notin InChunked
  BY DEF InBody, InChunked
<1>2. q = ReadByte(Reading("body_identity", hd, len, fl, 0, v, u, b), c)
  <2>1. 0 <= MaxHeader
    BY HttpParserAssumption
  <2>. QED  BY <1>1, <2>1, ByteRead
<1>. QED  BY <1>2, IdentityByte

LEMMA IdentityStep ==
  ASSUME NEW r, IsRequest(r), NEW i \in Nat, NEW p, IdentityAt(r, i, p),
         NEW c, c = r.body[i - Len(Header(r)) + 1], NEW q, q = http_parser_execute(p, c)
  PROVE  IdentityAt(r, i + 1, q) \/ (i + 1 = Len(Encode(r)) /\ DoneAt(r, i + 1, q))
<1>. DEFINE a == i - Len(Header(r))
            n == Len(r.body)
<1>1. r.framing = "length" /\ a \in 0..n - 1 /\ n \in Nat /\ r.body \in Seq(Words)
  BY RequestFields DEF IdentityAt
<1>2. PICK hd : p = Reading("body_identity", hd, n - a, Flags1(r), 0, r.version, r.url, SubSeq(r.body, 1, a))
  BY DEF IdentityAt
<1>3. n \in 0..Unset - 1
  <2>1. Len(r.digits) \in Nat \ {0} /\ SoFar(r)[Len(r.digits)] \in 0..Unset - 1
        /\ SoFar(r)[Len(r.digits)] = n
    BY <1>1, SoFarFacts
  <2>. QED  BY <2>1
<1>4. n - a \in Nat \ {0} /\ n - a # Unset /\ n - a - 1 = n - (a + 1)
  BY <1>1, <1>3, UnsetFacts
<1>5. Append(SubSeq(r.body, 1, a), c) = SubSeq(r.body, 1, a + 1) /\ SubSeq(r.body, 1, n) = r.body
  BY <1>1, Grows
<1>6. i + 1 - Len(Header(r)) = a + 1 /\ Len(Encode(r)) = Len(Header(r)) + n /\ Len(Header(r)) \in Nat
  BY <1>1, SizeOf
<1>. HIDE DEF a, n
<1>7. /\ n - a # 1 =>
           q = Reading("body_identity", hd, n - (a + 1), Flags1(r), 0, r.version, r.url, SubSeq(r.body, 1, a + 1))
      /\ n - a = 1 =>
           q = Complete(Reading("body_identity", hd, n - (a + 1), Flags1(r), 0, r.version, r.url, SubSeq(r.body, 1, a + 1)))
  <2>. DEFINE b == SubSeq(r.body, 1, a)
              e == SubSeq(r.body, 1, a + 1)
  <2>1. Append(b, c) = e /\ p = Reading("body_identity", hd, n - a, Flags1(r), 0, r.version, r.url, b)
    BY <1>2, <1>5
  <2>. HIDE DEF b, e
  <2>2. q = http_parser_execute(Reading("body_identity", hd, n - a, Flags1(r), 0, r.version, r.url, b), c)
    BY <2>1
  <2>3. /\ n - a # 1 =>
             q = Reading("body_identity", hd, (n - a) - 1, Flags1(r), 0, r.version, r.url, Append(b, c))
        /\ n - a = 1 =>
             q = Complete(Reading("body_identity", hd, (n - a) - 1, Flags1(r), 0, r.version, r.url, Append(b, c)))
    BY <1>4, <2>2, IdentityBodyByte
  <2>4. /\ n - a # 1 => q = Reading("body_identity", hd, n - (a + 1), Flags1(r), 0, r.version, r.url, e)
        /\ n - a = 1 =>
             q = Complete(Reading("body_identity", hd, n - (a + 1), Flags1(r), 0, r.version, r.url, e))
    BY <1>4, <2>1, <2>3
  <2>. QED  BY <2>4 DEF e
<1>8. CASE n - a # 1
  <2>1. a + 1 \in 0..n - 1
    BY <1>1, <1>8
  <2>2. IdentityAt(r, i + 1, q)
    BY <1>1, <1>6, <1>7, <1>8, <2>1, SMTT(60) DEF IdentityAt, n
  <2>. QED  BY <2>2
<1>9. CASE n - a = 1
  <2>1. a + 1 = n /\ i + 1 = Len(Encode(r))
    BY <1>1, <1>6, <1>9
  <2>2. q = Complete(Reading("body_identity", hd, n - (a + 1), Flags1(r), 0, r.version, r.url, r.body))
    BY <1>5, <1>7, <1>9, <2>1
  <2>3. DoneAt(r, Len(Encode(r)), q)
    <3>1. Flags1(r) \in {Flags1(r), Flags1(r) \cup {"trailing"}}
      OBVIOUS
    <3>. QED  BY <2>2, <3>1, CompleteDone
  <2>. QED  BY <2>1, <2>3
<1>. QED  BY <1>8, <1>9

-----------------------------------------------------------------------------
(* Chunks *)

LEMMA CountedByte ==
  ASSUME NEW st, st \notin InBody, NEW fl, st \in InChunked => "chunked" \in fl, NEW n \in Nat,
         NEW m, m = n + 1, m <= MaxHeader, NEW hd, NEW len, NEW v, NEW u, NEW b, NEW c
  PROVE  http_parser_execute(Reading(st, hd, len, fl, n, v, u, b), c)
           = ReadByte(Reading(st, hd, len, fl, m, v, u, b), c)
BY ByteRead

LEMMA BodyByte ==
  ASSUME NEW st \in InBody, NEW fl, st \in InChunked => "chunked" \in fl, NEW n \in Nat, n <= MaxHeader,
         NEW hd, NEW len, NEW v, NEW u, NEW b, NEW c
  PROVE  http_parser_execute(Reading(st, hd, len, fl, n, v, u, b), c)
           = ReadByte(Reading(st, hd, len, fl, n, v, u, b), c)
BY ByteRead

LEMMA Limits ==
  ASSUME 3 <= MaxHeader
  PROVE  /\ 0 \in Nat /\ 1 \in Nat /\ 2 \in Nat /\ 1 = 0 + 1 /\ 2 = 1 + 1 /\ 3 = 2 + 1
         /\ 0 <= MaxHeader /\ 1 <= MaxHeader /\ 2 <= MaxHeader
BY HttpParserAssumption

LEMMA LastSizeRead ==
  ASSUME NEW hd, NEW fl, "chunked" \in fl, NEW v, NEW u, NEW b, NEW len, 3 <= MaxHeader
  PROVE  http_parser_execute(Reading("chunk_size_start", hd, len, fl, 0, v, u, b), "0")
           = Reading("chunk_size", hd, 0, fl, 1, v, u, b)
<1>1. "chunk_size_start" \notin InBody
  BY DEF InBody
<1>2. http_parser_execute(Reading("chunk_size_start", hd, len, fl, 0, v, u, b), "0")
        = ReadByte(Reading("chunk_size_start", hd, len, fl, 1, v, u, b), "0")
  BY <1>1, Limits, CountedByte
<1>3. ReadByte(Reading("chunk_size_start", hd, len, fl, 1, v, u, b), "0")
        = Reading("chunk_size", hd, 0, fl, 1, v, u, b)
  BY SizeByte
<1>. QED  BY <1>2, <1>3

LEMMA SizeRead ==
  ASSUME NEW hd, NEW fl, "chunked" \in fl, NEW v, NEW u, NEW b, NEW len, 3 <= MaxHeader
  PROVE  http_parser_execute(Reading("chunk_size_start", hd, len, fl, 0, v, u, b), "1")
           = Reading("chunk_size", hd, 1, fl, 1, v, u, b)
<1>1. "chunk_size_start" \notin InBody
  BY DEF InBody
<1>2. http_parser_execute(Reading("chunk_size_start", hd, len, fl, 0, v, u, b), "1")
        = ReadByte(Reading("chunk_size_start", hd, len, fl, 1, v, u, b), "1")
  BY <1>1, Limits, CountedByte
<1>3. ReadByte(Reading("chunk_size_start", hd, len, fl, 1, v, u, b), "1")
        = Reading("chunk_size", hd, 1, fl, 1, v, u, b)
  BY SizeByte
<1>. QED  BY <1>2, <1>3

LEMMA SizeCrRead ==
  ASSUME NEW hd, NEW fl, "chunked" \in fl, NEW v, NEW u, NEW b, NEW len, 3 <= MaxHeader
  PROVE  http_parser_execute(Reading("chunk_size", hd, len, fl, 1, v, u, b), "CR")
           = Reading("chunk_size_almost_done", hd, len, fl, 2, v, u, b)
<1>1. "chunk_size" \notin InBody
  BY DEF InBody
<1>2. http_parser_execute(Reading("chunk_size", hd, len, fl, 1, v, u, b), "CR")
        = ReadByte(Reading("chunk_size", hd, len, fl, 2, v, u, b), "CR")
  BY <1>1, Limits, CountedByte
<1>3. ReadByte(Reading("chunk_size", hd, len, fl, 2, v, u, b), "CR")
        = Reading("chunk_size_almost_done", hd, len, fl, 2, v, u, b)
  BY SizeByte
<1>. QED  BY <1>2, <1>3

LEMMA SizeLfRead ==
  ASSUME NEW hd, NEW fl, "chunked" \in fl, NEW v, NEW u, NEW b, 3 <= MaxHeader
  PROVE  http_parser_execute(Reading("chunk_size_almost_done", hd, 1, fl, 2, v, u, b), "LF")
           = Reading("chunk_data", hd, 1, fl, 0, v, u, b)
<1>1. "chunk_size_almost_done" \notin InBody
  BY DEF InBody
<1>2. http_parser_execute(Reading("chunk_size_almost_done", hd, 1, fl, 2, v, u, b), "LF")
        = ReadByte(Reading("chunk_size_almost_done", hd, 1, fl, 3, v, u, b), "LF")
  BY <1>1, Limits, CountedByte
<1>3. ReadByte(Reading("chunk_size_almost_done", hd, 1, fl, 3, v, u, b), "LF")
        = Reading("chunk_data", hd, 1, fl, 0, v, u, b)
  BY SizeEndByte
<1>. QED  BY <1>2, <1>3

LEMMA DataRead ==
  ASSUME NEW hd, NEW fl, "chunked" \in fl, NEW v, NEW u, NEW b, NEW c, 3 <= MaxHeader
  PROVE  http_parser_execute(Reading("chunk_data", hd, 1, fl, 0, v, u, b), c)
           = Reading("chunk_data_almost_done", hd, 0, fl, 0, v, u, Append(b, c))
<1>1. "chunk_data" \in InBody
  BY DEF InBody
<1>2. http_parser_execute(Reading("chunk_data", hd, 1, fl, 0, v, u, b), c)
        = ReadByte(Reading("chunk_data", hd, 1, fl, 0, v, u, b), c)
  BY <1>1, Limits, BodyByte
<1>3. ReadByte(Reading("chunk_data", hd, 1, fl, 0, v, u, b), c)
        = Reading("chunk_data_almost_done", hd, 0, fl, 0, v, u, Append(b, c))
  BY DataByte
<1>. QED  BY <1>2, <1>3

LEMMA DataCrRead ==
  ASSUME NEW hd, NEW fl, "chunked" \in fl, NEW v, NEW u, NEW b, 3 <= MaxHeader
  PROVE  http_parser_execute(Reading("chunk_data_almost_done", hd, 0, fl, 0, v, u, b), "CR")
           = Reading("chunk_data_done", hd, 0, fl, 0, v, u, b)
<1>1. "chunk_data_almost_done" \in InBody
  BY DEF InBody
<1>2. http_parser_execute(Reading("chunk_data_almost_done", hd, 0, fl, 0, v, u, b), "CR")
        = ReadByte(Reading("chunk_data_almost_done", hd, 0, fl, 0, v, u, b), "CR")
  BY <1>1, Limits, BodyByte
<1>3. ReadByte(Reading("chunk_data_almost_done", hd, 0, fl, 0, v, u, b), "CR")
        = Reading("chunk_data_done", hd, 0, fl, 0, v, u, b)
  BY DataByte
<1>. QED  BY <1>2, <1>3

LEMMA DataLfRead ==
  ASSUME NEW hd, NEW fl, "chunked" \in fl, NEW v, NEW u, NEW b, NEW len, 3 <= MaxHeader
  PROVE  http_parser_execute(Reading("chunk_data_done", hd, len, fl, 0, v, u, b), "LF")
           = Reading("chunk_size_start", hd, len, fl, 0, v, u, b)
<1>1. "chunk_data_done" \in InBody
  BY DEF InBody
<1>2. http_parser_execute(Reading("chunk_data_done", hd, len, fl, 0, v, u, b), "LF")
        = ReadByte(Reading("chunk_data_done", hd, len, fl, 0, v, u, b), "LF")
  BY <1>1, Limits, BodyByte
<1>3. ReadByte(Reading("chunk_data_done", hd, len, fl, 0, v, u, b), "LF")
        = Reading("chunk_size_start", hd, len, fl, 0, v, u, b)
  BY DataByte
<1>. QED  BY <1>2, <1>3

LEMMA LastSizeLfRead ==
  ASSUME NEW hd, NEW fl, "chunked" \in fl, NEW v, NEW u, NEW b, 3 <= MaxHeader, NEW f, f = fl \cup {"trailing"}
  PROVE  http_parser_execute(Reading("chunk_size_almost_done", hd, 0, fl, 2, v, u, b), "LF")
           = Reading("field_start", hd, 0, f, 0, v, u, b)
<1>1. "chunk_size_almost_done" \notin InBody
  BY DEF InBody
<1>2. http_parser_execute(Reading("chunk_size_almost_done", hd, 0, fl, 2, v, u, b), "LF")
        = ReadByte(Reading("chunk_size_almost_done", hd, 0, fl, 3, v, u, b), "LF")
  BY <1>1, Limits, CountedByte
<1>3. ReadByte(Reading("chunk_size_almost_done", hd, 0, fl, 3, v, u, b), "LF")
        = Reading("field_start", hd, 0, f, 0, v, u, b)
  BY LastSizeEndByte
<1>. QED  BY <1>2, <1>3

LEMMA TrailerRead ==
  ASSUME NEW hd, NEW fl, NEW v, NEW u, NEW b, 3 <= MaxHeader
  PROVE  http_parser_execute(Reading("field_start", hd, 0, fl, 0, v, u, b), "CR")
           = Reading("headers_almost_done", hd, 0, fl, 1, v, u, b)
<1>1. "field_start" \notin InBody /\ "field_start" \notin InChunked
  BY DEF InBody, InChunked
<1>. DEFINE p == Reading("field_start", hd, 0, fl, 1, v, u, b)
<1>2. http_parser_execute(Reading("field_start", hd, 0, fl, 0, v, u, b), "CR") = ReadByte(p, "CR")
  <2>. DEFINE st == "field_start"
              z == 0
              m == 1
  <2>1. m = z + 1 /\ z \in Nat /\ m <= MaxHeader /\ st \notin InBody /\ st \notin InChunked
    BY <1>1, Limits
  <2>. HIDE DEF st, z, m
  <2>2. http_parser_execute(Reading(st, hd, 0, fl, z, v, u, b), "CR")
          = ReadByte(Reading(st, hd, 0, fl, m, v, u, b), "CR")
    BY <2>1, CountedByte
  <2>. QED  BY <2>2 DEF st, z, m
<1>3. ReadByte(p, "CR") = Reading("headers_almost_done", hd, 0, fl, 1, v, u, b)
  BY EmptyLineByte
<1>. QED  BY <1>2, <1>3

LEMMA TrailerEndRead ==
  ASSUME NEW hd, NEW fl, "trailing" \in fl, NEW v, NEW u, NEW b, 3 <= MaxHeader
  PROVE  http_parser_execute(Reading("headers_almost_done", hd, 0, fl, 1, v, u, b), "LF")
           = Complete(Reading("headers_almost_done", hd, 0, fl, 2, v, u, b))
<1>1. "headers_almost_done" \notin InBody /\ "headers_almost_done" \notin InChunked
  BY DEF InBody, InChunked
<1>. DEFINE p == Reading("headers_almost_done", hd, 0, fl, 2, v, u, b)
<1>2. http_parser_execute(Reading("headers_almost_done", hd, 0, fl, 1, v, u, b), "LF") = ReadByte(p, "LF")
  BY <1>1, Limits, CountedByte
<1>3. p.state = "headers_almost_done" /\ p.flags = fl
  BY DEF Reading, Rec
<1>. HIDE DEF p
<1>4. ReadByte(p, "LF") = Complete(p)
  BY <1>3 DEF ReadByte, HeadersAlmostDone
<1>. QED  BY <1>2, <1>4 DEF p

LEMMA ChunksStep ==
  ASSUME NEW r, IsRequest(r), NEW i \in Nat, NEW p, ChunksAt(r, i, p),
         NEW c, c = Payload(r)[i - Len(Header(r)) + 1], NEW q, q = http_parser_execute(p, c)
  PROVE  ChunksAt(r, i + 1, q) \/ LastChunkAt(r, i + 1, q)
<1>. DEFINE h == Len(Header(r))
            n == Len(r.body)
            f == Flags1(r)
            b(j) == SubSeq(r.body, 1, j)
            Is(st, hd, len, nread, j) == Reading(st, hd, len, f, nread, r.version, r.url, b(j))
<1>0. r.framing = "chunked" /\ "chunked" \in f /\ n \in Nat /\ r.body \in Seq(Words)
  BY RequestFields, FlagsFacts DEF ChunksAt
<1>1. PICK k \in 0..n, m \in 0..5 : i = h + 6 * k + m /\ ChunkAt(r, k, m, p)
  BY DEF ChunksAt
<1>2. h \in Nat /\ 3 <= MaxHeader /\ i - h + 1 = 6 * k + m + 1
  <2>1. h \in Nat /\ 8 <= h /\ h <= MaxHeader
    BY SizeOf
  <2>. QED  BY <1>1, <2>1, HttpParserAssumption
<1>3. /\ \A j \in 1..6 * n : Payload(r)[j] = Chunks(r.body)[j]
      /\ Payload(r)[6 * n + 1] = "0"
  BY <1>0, PayloadBytes
<1>4. \A j \in 0..n - 1, l \in 0..5 : Chunks(r.body)[6 * j + l + 1] = Chunk(r.body[j + 1])[l + 1]
  BY <1>0, ChunksBytes
<1>5. b(n) = r.body /\ \A j \in 0..n - 1 : Append(b(j), r.body[j + 1]) = b(j + 1)
  BY <1>0, Grows
<1>6. PICK hd : \/ m = 0 /\ \E len : p = Is("chunk_size_start", hd, len, 0, k)
                \/ k < n /\ \/ m = 1 /\ p = Is("chunk_size", hd, 1, 1, k)
                            \/ m = 2 /\ p = Is("chunk_size_almost_done", hd, 1, 2, k)
                            \/ m = 3 /\ p = Is("chunk_data", hd, 1, 0, k)
                            \/ m = 4 /\ p = Is("chunk_data_almost_done", hd, 0, 0, k + 1)
                            \/ m = 5 /\ p = Is("chunk_data_done", hd, 0, 0, k + 1)
  BY <1>1 DEF ChunkAt
<1>7. /\ q = Is("chunk_size_start", hd, 0, 0, k + 1) => ChunkAt(r, k + 1, 0, q)
      /\ k < n /\ q = Is("chunk_size", hd, 1, 1, k) => ChunkAt(r, k, 1, q)
      /\ k < n /\ q = Is("chunk_size_almost_done", hd, 1, 2, k) => ChunkAt(r, k, 2, q)
      /\ k < n /\ q = Is("chunk_data", hd, 1, 0, k) => ChunkAt(r, k, 3, q)
      /\ k < n /\ q = Is("chunk_data_almost_done", hd, 0, 0, k + 1) => ChunkAt(r, k, 4, q)
      /\ k < n /\ q = Is("chunk_data_done", hd, 0, 0, k + 1) => ChunkAt(r, k, 5, q)
  BY DEF ChunkAt
<1>8. \A j \in 0..n, l \in 0..5 : i + 1 = h + 6 * j + l /\ ChunkAt(r, j, l, q) => ChunksAt(r, i + 1, q)
  BY <1>0 DEF ChunksAt
<1>9. q = Reading("chunk_size", hd, 0, f, 1, r.version, r.url, r.body) /\ (i + 1) - h - 6 * n = 1
        => LastChunkAt(r, i + 1, q)
  BY <1>0 DEF LastChunkAt, EndAt
<1>10. k < n => c = Chunk(r.body[k + 1])[m + 1]
  <2>1. ASSUME k < n PROVE c = Chunk(r.body[k + 1])[m + 1]
    <3>1. k \in 0..n - 1 /\ 6 * k + m + 1 \in 1..6 * n
      BY <1>0, <2>1
    <3>2. c = Payload(r)[6 * k + m + 1]
      BY <1>2
    <3>. HIDE DEF n
    <3>3. c = Chunks(r.body)[6 * k + m + 1]
      BY <1>3, <3>1, <3>2
    <3>. QED  BY <1>4, <3>1, <3>3
  <2>. QED  BY <2>1
<1>. HIDE DEF h, n, f, b, Is
<1>11. CASE m = 0 /\ k = n
  <2>1. PICK len : p = Is("chunk_size_start", hd, len, 0, k)
    BY <1>1, <1>6, <1>11
  <2>2. c = "0" /\ (i + 1) - h - 6 * n = 1
    <3>1. i - h + 1 = 6 * n + 1
      BY <1>0, <1>2, <1>11
    <3>2. c = Payload(r)[6 * n + 1]
      BY <3>1 DEF h
    <3>. QED  BY <1>0, <1>1, <1>2, <1>3, <1>11, <3>2
  <2>3. p = Reading("chunk_size_start", hd, len, f, 0, r.version, r.url, r.body)
    BY <1>5, <1>11, <2>1 DEF Is
  <2>4. q = Reading("chunk_size", hd, 0, f, 1, r.version, r.url, r.body)
    BY <1>0, <1>2, <2>2, <2>3, LastSizeRead
  <2>. QED  BY <1>9, <2>2, <2>4
<1>12. CASE m = 0 /\ k < n
  <2>1. PICK len : p = Is("chunk_size_start", hd, len, 0, k)
    BY <1>1, <1>6, <1>12
  <2>2. c = "1"
    BY <1>10, <1>12, ByteOfChunk
  <2>3. q = Is("chunk_size", hd, 1, 1, k)
    BY <1>0, <1>2, <2>1, <2>2, SizeRead DEF Is
  <2>4. i + 1 = h + 6 * k + 1 /\ 1 \in 0..5
    BY <1>0, <1>1, <1>2, <1>12
  <2>. QED  BY <1>7, <1>8, <1>12, <2>3, <2>4
<1>13. CASE m = 1
  <2>1. k < n /\ p = Is("chunk_size", hd, 1, 1, k)
    BY <1>6, <1>13
  <2>2. c = "CR"
    BY <1>10, <1>13, <2>1, ByteOfChunk
  <2>3. q = Is("chunk_size_almost_done", hd, 1, 2, k)
    BY <1>0, <1>2, <2>1, <2>2, SizeCrRead DEF Is
  <2>4. i + 1 = h + 6 * k + 2 /\ 2 \in 0..5
    BY <1>0, <1>1, <1>2, <1>13
  <2>. QED  BY <1>7, <1>8, <2>1, <2>3, <2>4
<1>14. CASE m = 2
  <2>1. k < n /\ p = Is("chunk_size_almost_done", hd, 1, 2, k)
    BY <1>6, <1>14
  <2>2. c = "LF"
    BY <1>10, <1>14, <2>1, ByteOfChunk
  <2>3. q = Is("chunk_data", hd, 1, 0, k)
    BY <1>0, <1>2, <2>1, <2>2, SizeLfRead DEF Is
  <2>4. i + 1 = h + 6 * k + 3 /\ 3 \in 0..5
    BY <1>0, <1>1, <1>2, <1>14
  <2>. QED  BY <1>7, <1>8, <2>1, <2>3, <2>4
<1>15. CASE m = 3
  <2>1. k < n /\ p = Is("chunk_data", hd, 1, 0, k)
    BY <1>6, <1>15
  <2>2. c = r.body[k + 1]
    BY <1>10, <1>15, <2>1, ByteOfChunk
  <2>3. Append(b(k), c) = b(k + 1)
    BY <1>0, <1>5, <2>1, <2>2
  <2>4. q = Is("chunk_data_almost_done", hd, 0, 0, k + 1)
    <3>1. q = http_parser_execute(Reading("chunk_data", hd, 1, f, 0, r.version, r.url, b(k)), c)
      BY <2>1 DEF Is
    <3>2. q = Reading("chunk_data_almost_done", hd, 0, f, 0, r.version, r.url, Append(b(k), c))
      BY <1>0, <1>2, <3>1, DataRead
    <3>. QED  BY <2>3, <3>2 DEF Is
  <2>5. i + 1 = h + 6 * k + 4 /\ 4 \in 0..5
    BY <1>0, <1>1, <1>2, <1>15
  <2>. QED  BY <1>7, <1>8, <2>1, <2>4, <2>5
<1>16. CASE m = 4
  <2>1. k < n /\ p = Is("chunk_data_almost_done", hd, 0, 0, k + 1)
    BY <1>6, <1>16
  <2>2. c = "CR"
    BY <1>10, <1>16, <2>1, ByteOfChunk
  <2>3. q = Is("chunk_data_done", hd, 0, 0, k + 1)
    BY <1>0, <1>2, <2>1, <2>2, DataCrRead DEF Is
  <2>4. i + 1 = h + 6 * k + 5 /\ 5 \in 0..5
    BY <1>0, <1>1, <1>2, <1>16
  <2>. QED  BY <1>7, <1>8, <2>1, <2>3, <2>4
<1>17. CASE m = 5
  <2>1. k < n /\ p = Is("chunk_data_done", hd, 0, 0, k + 1)
    BY <1>6, <1>17
  <2>2. c = "LF"
    BY <1>10, <1>17, <2>1, ByteOfChunk
  <2>3. q = Is("chunk_size_start", hd, 0, 0, k + 1)
    BY <1>0, <1>2, <2>1, <2>2, DataLfRead DEF Is
  <2>4. i + 1 = h + 6 * (k + 1) + 0 /\ 0 \in 0..5 /\ k + 1 \in 0..n
    BY <1>0, <1>1, <1>2, <1>17, <2>1
  <2>. QED  BY <1>7, <1>8, <2>3, <2>4
<1>18. k < n \/ k = n
  BY <1>0
<1>. QED  BY <1>11, <1>12, <1>13, <1>14, <1>15, <1>16, <1>17, <1>18

\* The chunk of size 0 and the empty line after it.
LEMMA LastChunkStep ==
  ASSUME NEW r, IsRequest(r), NEW i \in Nat, NEW p, LastChunkAt(r, i, p),
         NEW c, c = Payload(r)[i - Len(Header(r)) + 1], NEW q, q = http_parser_execute(p, c)
  PROVE  LastChunkAt(r, i + 1, q) \/ (i + 1 = Len(Encode(r)) /\ DoneAt(r, i + 1, q))
<1>. DEFINE h == Len(Header(r))
            n == 6 * Len(r.body)
            f == Flags1(r)
            t == f \cup {"trailing"}
            m == i - h - n
            Is(st, hd, fl, nread) == Reading(st, hd, 0, fl, nread, r.version, r.url, r.body)
<1>0. r.framing = "chunked" /\ "chunked" \in f /\ "trailing" \in t
  BY FlagsFacts DEF LastChunkAt
<1>1. h \in Nat /\ n \in Nat /\ 3 <= MaxHeader /\ Len(Encode(r)) = h + n + 5
  BY <1>0, SizeOf, HttpParserAssumption
<1>2. /\ Payload(r)[n + 2] = "CR" /\ Payload(r)[n + 3] = "LF"
      /\ Payload(r)[n + 4] = "CR" /\ Payload(r)[n + 5] = "LF"
  BY <1>0, PayloadBytes
<1>3. \/ m = 1 /\ \E hd : p = Is("chunk_size", hd, f, 1)
      \/ m = 2 /\ \E hd : p = Is("chunk_size_almost_done", hd, f, 2)
      \/ m = 3 /\ \E hd : p = Is("field_start", hd, t, 0)
      \/ m = 4 /\ \E hd : p = Is("headers_almost_done", hd, t, 1)
  BY DEF LastChunkAt, EndAt
<1>4. (i + 1) - h - n = m + 1 /\ i - h + 1 = n + (m + 1) /\ i + 1 = h + n + m + 1 /\ m \in Int
  <2>. HIDE DEF h, n
  <2>. QED  BY <1>1
<1>6. c = Payload(r)[n + (m + 1)]
  BY <1>4
<1>5. (i + 1) - Len(Header(r)) - 6 * Len(r.body) = m + 1
  BY <1>4
<1>. HIDE DEF m
<1>14. EndAt(r, m + 1, q) => LastChunkAt(r, i + 1, q)
  BY <1>0, <1>5 DEF LastChunkAt
<1>11. m + 1 = 2 /\ (\E hd : q = Is("chunk_size_almost_done", hd, f, 2)) => EndAt(r, m + 1, q)
  BY DEF EndAt
<1>12. m + 1 = 3 /\ (\E hd : q = Is("field_start", hd, t, 0)) => EndAt(r, m + 1, q)
  BY DEF EndAt
<1>13. m + 1 = 4 /\ (\E hd : q = Is("headers_almost_done", hd, t, 1)) => EndAt(r, m + 1, q)
  BY DEF EndAt
<1>. HIDE DEF h, n, f, t
<1>7. CASE m = 1 /\ \E hd : p = Is("chunk_size", hd, f, 1)
  <2>1. PICK hd : p = Is("chunk_size", hd, f, 1)
    BY <1>7
  <2>2. c = "CR"
    BY <1>2, <1>6, <1>7
  <2>3. q = Is("chunk_size_almost_done", hd, f, 2)
    BY <1>0, <1>1, <2>1, <2>2, SizeCrRead
  <2>. QED  BY <1>7, <1>11, <1>14, <2>3
<1>8. CASE m = 2 /\ \E hd : p = Is("chunk_size_almost_done", hd, f, 2)
  <2>1. PICK hd : p = Is("chunk_size_almost_done", hd, f, 2)
    BY <1>8
  <2>2. c = "LF"
    BY <1>2, <1>6, <1>8
  <2>3. q = Is("field_start", hd, t, 0)
    BY <1>0, <1>1, <2>1, <2>2, LastSizeLfRead DEF t
  <2>. QED  BY <1>8, <1>12, <1>14, <2>3
<1>9. CASE m = 3 /\ \E hd : p = Is("field_start", hd, t, 0)
  <2>1. PICK hd : p = Is("field_start", hd, t, 0)
    BY <1>9
  <2>2. c = "CR"
    BY <1>2, <1>6, <1>9
  <2>3. q = Is("headers_almost_done", hd, t, 1)
    BY <1>1, <2>1, <2>2, TrailerRead
  <2>. QED  BY <1>9, <1>13, <1>14, <2>3
<1>10. CASE m = 4 /\ \E hd : p = Is("headers_almost_done", hd, t, 1)
  <2>1. PICK hd : p = Is("headers_almost_done", hd, t, 1)
    BY <1>10
  <2>2. c = "LF" /\ i + 1 = Len(Encode(r))
    BY <1>1, <1>2, <1>4, <1>6, <1>10
  <2>3. q = Complete(Is("headers_almost_done", hd, t, 2))
    BY <1>0, <1>1, <2>1, <2>2, TrailerEndRead
  <2>4. t \in {Flags1(r), Flags1(r) \cup {"trailing"}}
    BY DEF t, f
  <2>5. DoneAt(r, Len(Encode(r)), q)
    BY <2>3, <2>4, CompleteDone
  <2>. QED  BY <2>2, <2>5
<1>. QED  BY <1>3, <1>7, <1>8, <1>9, <1>10

-----------------------------------------------------------------------------
(* What a byte can do to the URL, the body and the count of requests *)

Shaped(p) == DOMAIN p = DOMAIN ParserStart

Same(p, q) == Shaped(q) /\ q.url = p.url /\ q.body = p.body /\ q.complete = p.complete

Adds(p, q, c) ==
  /\ Shaped(q) /\ q.url \in {p.url, Append(p.url, c)} /\ q.body \in {p.body, Append(p.body, c)}
  /\ q.complete \in {p.complete, p.complete + 1}

LEMMA SameAdds ==
  ASSUME NEW p, NEW q, NEW r, NEW c, Same(p, q)
  PROVE  /\ Adds(p, q, c) /\ (Same(q, r) => Same(p, r)) /\ (Adds(q, r, c) => Adds(p, r, c))
BY DEF Same, Adds

LEMMA FieldsAdd ==
  ASSUME NEW q, Shaped(q)
  PROVE  /\ Same(q, q) /\ Same(q, Error(q)) /\ \A s : Same(q, To(q, s)) /\ \A h : Same(q, Asserts(q, h))
         /\ Same(q, Flagged(q)) /\ \A x : Same(q, [q EXCEPT !.nread = x]) /\ Same(q, [q EXCEPT !.length = x])
         /\ \A k, s : Same(q, Expect(q, k, s))
BY DEF Shaped, Same, Error, To, Asserts, Flagged, Expect, ParserStart

LEMMA CompleteAdds ==
  ASSUME NEW q, Shaped(q), NEW c
  PROVE  Adds(q, Complete(q), c) /\ Adds(q, Error(Complete(q)), c)
BY DEF Shaped, Adds, Error, Complete, ParserStart

LEMMA UrlAdds ==
  ASSUME NEW q, Shaped(q), NEW c, NEW s
  PROVE  Adds(q, Url(q, s, c), c)
BY DEF Shaped, Adds, Url, ParserStart

LEMMA RequestLineAdds ==
  ASSUME NEW q, Shaped(q), NEW c
  PROVE  /\ Adds(q, StartReq(q, c), c) /\ Adds(q, ReqMethod(q, c), c) /\ Adds(q, ReqSpaces(q, c), c)
         /\ Adds(q, ReqPath(q, c), c) /\ Adds(q, ReqHttp(q, c), c) /\ Adds(q, ReqHttpEnd(q, c), c)
         /\ Adds(q, ReqLineDone(q, c), c)
<1>1. Adds(q, StartReq(q, c), c)
  BY DEF Shaped, Adds, StartReq, Error, ParserStart
<1>2. Adds(q, ReqMethod(q, c), c) /\ Adds(q, ReqLineDone(q, c), c)
  BY FieldsAdd, SameAdds DEF ReqMethod, ReqLineDone
<1>3. Adds(q, ReqSpaces(q, c), c)
  BY FieldsAdd, SameAdds, UrlAdds DEF ReqSpaces
<1>4. Adds(q, ReqPath(q, c), c)
  <2>1. /\ Adds(q, To(q, "req_http"), c) /\ Adds(q, Error(q), c) /\ Adds(q, Url(q, "req_path", c), c)
        /\ \A s, v : Adds(q, [q EXCEPT !.state = s, !.version = v], c)
    <3>1. \A s, v : Adds(q, [q EXCEPT !.state = s, !.version = v], c)
      BY DEF Shaped, Adds, ParserStart
    <3>. QED  BY <3>1, FieldsAdd, SameAdds, UrlAdds
  <2>. QED  BY <2>1 DEF ReqPath
<1>5. Adds(q, ReqHttp(q, c), c)
  BY DEF Shaped, Adds, ReqHttp, Error, ParserStart
<1>6. Adds(q, ReqHttpEnd(q, c), c)
  BY FieldsAdd, SameAdds DEF ReqHttpEnd
<1>. QED  BY <1>1, <1>2, <1>3, <1>4, <1>5, <1>6

LEMMA HeaderLinesAdd ==
  ASSUME NEW q, Shaped(q), NEW c
  PROVE  /\ Adds(q, HeadersAlmostDone(q, c), c) /\ Adds(q, FieldStart(q, c), c) /\ Adds(q, Field(q, c), c)
         /\ Adds(q, ValueStart(q, c), c) /\ Adds(q, HeaderAlmostDone(q, c), c) /\ Adds(q, Value(q, c), c)
         /\ Adds(q, ValueLws(q, c), c)
<1>1. \A p : Shaped(p) => Adds(p, HeadersDone(p), c)
  <2>1. SUFFICES ASSUME NEW p, Shaped(p) PROVE Adds(p, HeadersDone(p), c)
    OBVIOUS
  <2>. DEFINE z == [p EXCEPT !.nread = 0]
  <2>2. Same(p, z) /\ Shaped(z)
    BY <2>1, FieldsAdd DEF Same
  <2>3. Adds(z, Complete(z), c) /\ Adds(z, Error(Complete(z)), c) /\ \A s : Adds(z, To(z, s), c)
    BY <2>2, FieldsAdd, CompleteAdds, SameAdds
  <2>4. HeadersDone(p) \in {Complete(z), Error(Complete(z)), To(z, "chunk_size_start"), To(z, "body_identity")}
    BY DEF HeadersDone
  <2>. HIDE DEF z
  <2>. QED  BY <2>2, <2>3, <2>4, SameAdds
<1>2. \A p : Shaped(p) => Adds(p, HeadersAlmostDone(p, c), c)
  <2>1. SUFFICES ASSUME NEW p, Shaped(p) PROVE Adds(p, HeadersAlmostDone(p, c), c)
    OBVIOUS
  <2>2. Adds(p, Error(p), c) /\ Adds(p, Complete(p), c) /\ Adds(p, HeadersDone(p), c)
    BY <1>1, <2>1, FieldsAdd, CompleteAdds, SameAdds
  <2>. QED  BY <2>2 DEF HeadersAlmostDone
<1>3. \A p : Shaped(p) => Adds(p, FieldStart(p, c), c)
  <2>1. SUFFICES ASSUME NEW p, Shaped(p) PROVE Adds(p, FieldStart(p, c), c)
    OBVIOUS
  <2>2. Adds(p, Error(p), c) /\ Adds(p, HeadersAlmostDone(p, c), c) /\ \A s : Adds(p, To(p, s), c)
    BY <1>2, <2>1, FieldsAdd, SameAdds
  <2>3. \A h : Adds(p, [p EXCEPT !.state = "field", !.header = h], c)
    BY <2>1 DEF Shaped, Adds, ParserStart
  <2>. QED  BY <2>2, <2>3 DEF FieldStart
<1>4. Adds(q, Field(q, c), c)
  <2>1. Adds(q, Error(q), c) /\ \A s : Adds(q, To(q, s), c)
    BY FieldsAdd, SameAdds
  <2>. DEFINE g == [q EXCEPT !.header = "general"]
  <2>2. Same(q, g) /\ Shaped(g)
    BY DEF Shaped, Same, ParserStart
  <2>3. \A h : Adds(q, Asserts(g, h), c)
    <3>. HIDE DEF g
    <3>. QED  BY <2>2, FieldsAdd, SameAdds
  <2>4. Adds(q, Asserts(g, q.header \in Known \cup {"general"}), c)
    BY <2>3, Zenon
  <2>. QED  BY <2>1, <2>4 DEF Field
<1>5. Adds(q, ValueStart(q, c), c)
  <2>1. Adds(q, Error(q), c) /\ Adds(q, q, c) /\ \A s : Adds(q, To(q, s), c)
    BY FieldsAdd, SameAdds
  <2>2. /\ \A s, h : Adds(q, [q EXCEPT !.state = s, !.header = h], c)
        /\ \A s, l : Adds(q, [q EXCEPT !.state = s, !.length = l], c)
        /\ \A s, f, h : Adds(q, [q EXCEPT !.state = s, !.flags = f, !.header = h], c)
    BY DEF Shaped, Adds, ParserStart
  <2>. QED  BY <2>1, <2>2 DEF ValueStart
<1>6. Adds(q, HeaderAlmostDone(q, c), c)
  <2>1. Same(q, Flagged(q)) /\ Shaped(Flagged(q))
    BY FieldsAdd DEF Same
  <2>2. Adds(q, Error(q), c) /\ Adds(q, To(Flagged(q), "value_lws"), c)
    BY <2>1, FieldsAdd, SameAdds
  <2>. QED  BY <2>2 DEF HeaderAlmostDone
<1>7. Adds(q, Value(q, c), c)
  <2>1. Adds(q, Error(q), c) /\ Adds(q, q, c) /\ \A s : Adds(q, To(q, s), c)
    BY FieldsAdd, SameAdds
  <2>2. Adds(q, MoreDigits(q, c), c)
    BY <2>1 DEF MoreDigits, Shaped, Adds, ParserStart
  <2>3. \A h : Adds(q, Asserts(IF c = "SP" THEN q ELSE [q EXCEPT !.header = "general"], h), c)
    BY DEF Asserts, Shaped, Adds, ParserStart
  <2>. QED  BY <1>6, <2>1, <2>2, <2>3 DEF Value
<1>8. Adds(q, ValueLws(q, c), c)
  <2>1. \A s : Same(q, To(q, s)) /\ Shaped(To(q, s))
    BY FieldsAdd DEF Same
  <2>2. Adds(q, To(q, "value_start"), c) /\ Adds(q, FieldStart(To(q, "field_start"), c), c)
    BY <1>3, <2>1, SameAdds
  <2>. QED  BY <2>2 DEF ValueLws
<1>. QED  BY <1>2, <1>3, <1>4, <1>5, <1>6, <1>7, <1>8

LEMMA BodiesAdd ==
  ASSUME NEW q, Shaped(q), NEW c
  PROVE  /\ Adds(q, BodyIdentity(q, c), c) /\ Adds(q, ChunkSizeStart(q, c), c) /\ Adds(q, ChunkSize(q, c), c)
         /\ Adds(q, ChunkParameters(q, c), c) /\ Adds(q, ChunkSizeAlmostDone(q, c), c)
         /\ Adds(q, ChunkData(q, c), c) /\ Adds(q, ChunkDataAlmostDone(q, c), c)
         /\ Adds(q, ChunkDataDone(q, c), c)
<1>0. Adds(q, Error(q), c) /\ Adds(q, q, c) /\ \A s : Adds(q, To(q, s), c)
  BY FieldsAdd, SameAdds
<1>1. Adds(q, BodyIdentity(q, c), c)
  <2>. DEFINE t == TakeByte(q, c)
  <2>1. Shaped(t) /\ t.url = q.url /\ t.body = Append(q.body, c) /\ t.complete = q.complete
    BY DEF TakeByte, Asserts, Shaped, ParserStart
  <2>. HIDE DEF t
  <2>2. Adds(q, t, c) /\ Adds(q, Complete(t), c)
    BY <2>1 DEF Complete, Adds, Shaped, ParserStart
  <2>. QED  BY <2>2 DEF BodyIdentity, t
<1>2. Adds(q, ChunkSizeStart(q, c), c)
  <2>1. \A h : Adds(q, Asserts(Error(q), h), c)
    BY DEF Asserts, Error, Shaped, Adds, ParserStart
  <2>2. \A h, l : Adds(q, Asserts([q EXCEPT !.state = "chunk_size", !.length = l], h), c)
    BY DEF Asserts, Shaped, Adds, ParserStart
  <2>. QED  BY <2>1, <2>2 DEF ChunkSizeStart
<1>3. Adds(q, ChunkSize(q, c), c)
  <2>1. \A l : Adds(q, [q EXCEPT !.length = l], c)
    BY DEF Shaped, Adds, ParserStart
  <2>. QED  BY <1>0, <2>1 DEF ChunkSize
<1>4. Adds(q, ChunkParameters(q, c), c)
  BY <1>0 DEF ChunkParameters
<1>5. Adds(q, ChunkSizeAlmostDone(q, c), c)
  <2>1. /\ \A f : Adds(q, [q EXCEPT !.state = "field_start", !.nread = 0, !.flags = f], c)
        /\ Adds(q, [q EXCEPT !.state = "chunk_data", !.nread = 0], c)
    BY DEF Shaped, Adds, ParserStart
  <2>. QED  BY <1>0, <2>1 DEF ChunkSizeAlmostDone
<1>6. Adds(q, ChunkData(q, c), c)
  <2>. DEFINE t == TakeByte(q, c)
  <2>1. Shaped(t) /\ t.url = q.url /\ t.body = Append(q.body, c) /\ t.complete = q.complete
    BY DEF TakeByte, Asserts, Shaped, ParserStart
  <2>. HIDE DEF t
  <2>2. \A s : Adds(q, [t EXCEPT !.state = s], c)
    BY <2>1 DEF Adds, Shaped, ParserStart
  <2>. QED  BY <2>2 DEF ChunkData, t
<1>7. Adds(q, ChunkDataAlmostDone(q, c), c)
  <2>1. \A h : Adds(q, Asserts(Error(q), h), c) /\ Adds(q, Asserts(To(q, "chunk_data_done"), h), c)
    BY DEF Asserts, Error, To, Shaped, Adds, ParserStart
  <2>. QED  BY <2>1 DEF ChunkDataAlmostDone, Expect
<1>8. Adds(q, ChunkDataDone(q, c), c)
  <2>1. Same(q, [q EXCEPT !.nread = 0]) /\ Shaped([q EXCEPT !.nread = 0])
    BY FieldsAdd DEF Same
  <2>2. Adds(q, Expect([q EXCEPT !.nread = 0], c = "LF", "chunk_size_start"), c)
    BY <2>1, FieldsAdd, SameAdds
  <2>. QED  BY <2>2 DEF ChunkDataDone
<1>. QED  BY <1>1, <1>2, <1>3, <1>4, <1>5, <1>6, <1>7, <1>8

LEMMA ReadByteAdds ==
  ASSUME NEW q, Shaped(q), NEW c, q.state \in Heads \cup InChunked \cup {"body_identity"}
  PROVE  Adds(q, ReadByte(q, c), c)
<1>. USE DEF ReadByte
<1>1. CASE q.state \in {"dead", "start_req", "req_method", "req_spaces", "req_path", "req_http",
                       "req_http_end", "req_line_almost_done"}
  BY <1>1, RequestLineAdds
<1>2. CASE q.state \in {"field_start", "field", "value_start", "value", "header_almost_done", "value_lws",
                       "headers_almost_done"}
  BY <1>2, HeaderLinesAdd
<1>3. CASE q.state \in InChunked \cup {"body_identity"}
  BY <1>3, BodiesAdd DEF InChunked
<1>. QED  BY <1>1, <1>2, <1>3 DEF Heads

LEMMA ExecuteAdds ==
  ASSUME NEW p, ParserInv(p), NEW c
  PROVE  Adds(p, http_parser_execute(p, c), c)
<1>. DEFINE q == IF p.state \in InBody THEN p ELSE [p EXCEPT !.nread = @ + 1]
            r == AssertChunked(q)
<1>1. Shaped(p) /\ p.state \in Heads \cup InChunked \cup {"body_identity"}
  BY DEF ParserInv, Good, Typed, Shaped
<1>2. Same(p, q) /\ Shaped(q) /\ q.state = p.state
  BY <1>1 DEF Same, Shaped, ParserStart
<1>. HIDE DEF q
<1>3. Same(q, r) /\ Shaped(r) /\ r.state = q.state
  BY <1>2 DEF AssertChunked, Asserts, Same, Shaped, ParserStart
<1>. HIDE DEF r
<1>4. Adds(p, p, c) /\ Adds(p, Error(q), c)
  BY <1>1, <1>2, FieldsAdd, SameAdds
<1>5. Adds(p, ReadByte(r, c), c)
  <2>1. Adds(r, ReadByte(r, c), c)
    BY <1>1, <1>2, <1>3, ReadByteAdds
  <2>. QED  BY <1>2, <1>3, <2>1, SameAdds
<1>. QED  BY <1>4, <1>5 DEF http_parser_execute, q, r

\* An error is final, and nothing is read after a request that closes the connection.
Over(p) == p.stopped \/ p.state = "dead"

LEMMA OverStays ==
  ASSUME NEW p, ParserInv(p), Over(p), NEW c, NEW q, q = http_parser_execute(p, c)
  PROVE  Over(q) /\ q.url = p.url /\ q.body = p.body
<1>. DEFINE n == [p EXCEPT !.nread = @ + 1]
<1>1. CASE p.stopped
  BY <1>1 DEF http_parser_execute, Over
<1>2. CASE ~p.stopped /\ p.state = "dead"
  <2>1. Shaped(p) /\ p.state \notin InBody
    BY <1>2 DEF ParserInv, Good, Typed, Shaped, InBody
  <2>2. Shaped(n) /\ n.state = "dead" /\ n.url = p.url /\ n.body = p.body
    BY <1>2, <2>1 DEF Shaped, ParserStart
  <2>. HIDE DEF n
  <2>. DEFINE r == AssertChunked(n)
  <2>3. Shaped(r) /\ r.state = "dead" /\ r.url = p.url /\ r.body = p.body
    BY <2>2 DEF AssertChunked, Asserts, Shaped, ParserStart
  <2>4. q = IF n.nread > MaxHeader THEN Error(n) ELSE ReadByte(r, c)
    BY <1>2, <2>1 DEF http_parser_execute, n
  <2>. HIDE DEF r
  <2>5. ReadByte(r, c) \in {r, Error(r)}
    BY <2>3 DEF ReadByte, StartReq
  <2>6. \A s : Shaped(s) => Error(s).stopped = TRUE /\ Error(s).url = s.url /\ Error(s).body = s.body
    BY DEF Error, Shaped, ParserStart
  <2>7. q \in {Error(n), r, Error(r)}
    BY <2>4, <2>5
  <2>. QED  BY <2>2, <2>3, <2>6, <2>7 DEF Over
<1>. QED  BY <1>1, <1>2 DEF Over

LEMMA PrefixGrows ==
  ASSUME NEW s \in Seq(Words), NEW t \in Seq(Words), IsPrefix(s, t), NEW c \in Words
  PROVE  Append(t, c) \in Seq(Words) /\ IsPrefix(s, Append(t, c))
BY DEF IsPrefix

LEMMA DoneStep ==
  ASSUME NEW r, IsRequest(r), NEW i \in Nat, NEW p, ParserInv(p), DoneAt(r, i, p),
         NEW c \in Words, NEW q, q = http_parser_execute(p, c)
  PROVE  DoneAt(r, i + 1, q)
<1>1. /\ r.url \in Seq(Words) /\ r.body \in Seq(Words) /\ r.close \in BOOLEAN
      /\ Len(Encode(r)) \in Nat
  <2>1. Header(r) \in Seq(Words) /\ Payload(r) \in Seq(Words)
    BY HeaderBytes, PayloadBytes
  <2>. QED  BY <2>1, RequestFields, CatBytes DEF Encode
<1>2. /\ i >= Len(Encode(r)) /\ p.complete \in Nat \ {0} /\ p.url \in Seq(Words) /\ p.body \in Seq(Words)
      /\ IsPrefix(r.url, p.url) /\ IsPrefix(r.body, p.body)
      /\ r.close => p.url = r.url /\ p.body = r.body /\ Over(p)
  BY DEF DoneAt, Over
<1>3. /\ q.url \in {p.url, Append(p.url, c)} /\ q.body \in {p.body, Append(p.body, c)}
      /\ q.complete \in {p.complete, p.complete + 1}
  BY ExecuteAdds DEF Adds
<1>4. q.complete \in Nat \ {0} /\ i + 1 > Len(Encode(r))
  BY <1>1, <1>2, <1>3
<1>5. q.url \in Seq(Words) /\ IsPrefix(r.url, q.url)
  BY <1>1, <1>2, <1>3, PrefixGrows
<1>6. q.body \in Seq(Words) /\ IsPrefix(r.body, q.body)
  BY <1>1, <1>2, <1>3, PrefixGrows
<1>7. r.close => q.url = r.url /\ q.body = r.body /\ Over(q)
  BY <1>2, OverStays
<1>8. i + 1 >= Len(Encode(r)) /\ i + 1 # Len(Encode(r))
  BY <1>1, <1>4
<1>. QED  BY <1>4, <1>5, <1>6, <1>7, <1>8 DEF DoneAt, Over

-----------------------------------------------------------------------------
(* One byte of a stream *)

LEMMA NotComplete ==
  ASSUME NEW st, NEW hd, NEW len, NEW fl, NEW n, NEW v, NEW u, NEW b
  PROVE  Reading(st, hd, len, fl, n, v, u, b).complete = 0
BY DEF Reading, Rec

\* Where each part of the request ends.
LEMMA PartsEnd ==
  ASSUME NEW r, IsRequest(r)
  PROVE  /\ LineEnd(r) \in Nat /\ ClosingEnd(r) \in Nat /\ FramingEnd(r) \in Nat
         /\ LineEnd(r) <= ClosingEnd(r) /\ ClosingEnd(r) <= FramingEnd(r)
         /\ Len(RequestLine(r)) = LineEnd(r)
         /\ Len(Closing(r)) \in Nat /\ ClosingEnd(r) = LineEnd(r) + Len(Closing(r))
         /\ Len(Framing(r)) \in Nat /\ FramingEnd(r) = ClosingEnd(r) + Len(Framing(r))
<1>1. RequestLine(r) \in Seq(Words) /\ Closing(r) \in Seq(Words) /\ Framing(r) \in Seq(Words)
      /\ Len(RequestLine(r)) = LineEnd(r)
  BY LineBytes, ClosingBytes, FramingBytes
<1>2. Len(RequestLine(r)) \in Nat /\ Len(Closing(r)) \in Nat /\ Len(Framing(r)) \in Nat
  BY <1>1, LenProperties
<1>. QED  BY <1>1, <1>2 DEF ClosingEnd, FramingEnd

LEMMA LineIn ==
  ASSUME NEW r, IsRequest(r), NEW i \in Nat, NEW p, LineAt(r, i, p)
  PROVE  i < LineEnd(r) /\ p.complete = 0
<1>1. Len(r.url) \in Nat \ {0}
  BY RequestFields
<1>2. p.complete = 0
  BY NotComplete DEF LineAt
<1>3. i \in {0, 1, 2} \/ i - 2 \in 1..Len(r.url) \/ i \in {3 + Len(r.url), 4 + Len(r.url), 5 + Len(r.url)}
  BY DEF LineAt
<1>. QED  BY <1>1, <1>2, <1>3 DEF LineEnd

LEMMA ClosingIn ==
  ASSUME NEW r, IsRequest(r), NEW i \in Nat, NEW p, ClosingAt(r, i, p)
  PROVE  /\ i - LineEnd(r) + 1 \in 1..Len(Closing(r)) /\ p.complete = 0
<1>1. p.complete = 0
  BY NotComplete DEF ClosingAt, Between, InHeaders
<1>2. r.close = TRUE /\ i - LineEnd(r) \in 0..5
  <2>1. r.close /\ i - LineEnd(r) \in {0, 1, 2, 3, 4, 5}
    BY DEF ClosingAt
  <2>. QED  BY <2>1, RequestFields
<1>3. Len(Closing(r)) = 6
  BY <1>2, ClosingBytes
<1>. QED  BY <1>1, <1>2, <1>3

LEMMA FramingIn ==
  ASSUME NEW r, IsRequest(r), NEW i \in Nat, NEW p, FramingAt(r, i, p)
  PROVE  /\ i - ClosingEnd(r) + 1 \in 1..Len(Framing(r)) /\ p.complete = 0
<1>1. p.complete = 0
  BY NotComplete DEF FramingAt, Between, InHeaders
<1>. DEFINE k == i - ClosingEnd(r)
            d == Len(r.digits)
<1>2. \/ k = 0
      \/ r.framing = "none" /\ k \in {1, 2, 3, 4}
      \/ r.framing = "chunked" /\ k \in {1, 2, 3, 4, 5}
      \/ r.framing = "length" /\ (k \in {1, 2, 3} \/ k - 3 \in 1..d \/ k = 4 + d)
  BY DEF FramingAt
<1>3. r.framing = "none" => Len(Framing(r)) = 5
  BY FramingBytes
<1>4. r.framing = "chunked" => Len(Framing(r)) = 6
  BY FramingBytes DEF IsFour
<1>5. r.framing = "length" => Len(Framing(r)) = 5 + d /\ d \in Nat
  BY FramingBytes, RequestFields
<1>6. r.framing \in {"none", "length", "chunked"}
  BY DEF IsRequest
<1>7. k \in Int
  BY PartsEnd
<1>. HIDE DEF k, d
<1>8. k + 1 \in 1..Len(Framing(r))
  <2>1. CASE r.framing = "none"
    <3>1. k \in 0..4
      BY <1>2, <2>1
    <3>2. Len(Framing(r)) = 5
      BY <1>3, <2>1
    <3>. QED  BY <3>1, <3>2
  <2>2. CASE r.framing = "chunked"
    <3>1. k \in 0..5
      BY <1>2, <2>2
    <3>2. Len(Framing(r)) = 6
      BY <1>4, <2>2
    <3>. QED  BY <3>1, <3>2
  <2>3. CASE r.framing = "length"
    <3>1. k \in 0..4 + d /\ Len(Framing(r)) = 5 + d /\ d \in Nat
      <4>1. k = 0 \/ k \in {1, 2, 3} \/ k - 3 \in 1..d \/ k = 4 + d
        BY <1>2, <2>3
      <4>2. d \in Nat /\ Len(Framing(r)) = 5 + d
        BY <1>5, <2>3
      <4>. QED  BY <1>7, <4>1, <4>2
    <3>. QED  BY <3>1
  <2>. QED  BY <1>6, <2>1, <2>2, <2>3
<1>. QED  BY <1>1, <1>8 DEF k

LEMMA EmptyLineIn ==
  ASSUME NEW r, IsRequest(r), NEW i \in Nat, NEW p, EmptyLineAt(r, i, p)
  PROVE  i < Len(Header(r)) /\ p.complete = 0
<1>1. p.complete = 0
  BY NotComplete DEF EmptyLineAt, Between, InHeaders
<1>2. i = FramingEnd(r) \/ i = FramingEnd(r) + 1
  BY DEF EmptyLineAt
<1>. QED  BY <1>1, <1>2, SizeOf, PartsEnd

LEMMA IdentityIn ==
  ASSUME NEW r, IsRequest(r), NEW i \in Nat, NEW p, IdentityAt(r, i, p)
  PROVE  i - Len(Header(r)) + 1 \in 1..Len(Payload(r)) /\ Payload(r) = r.body /\ p.complete = 0
<1>1. p.complete = 0
  BY NotComplete DEF IdentityAt
<1>2. r.framing = "length" /\ i - Len(Header(r)) \in 0..Len(r.body) - 1
  BY DEF IdentityAt
<1>3. Payload(r) = r.body /\ Len(r.body) \in Nat /\ Len(Header(r)) \in Nat
  BY <1>2, PayloadBytes, SizeOf
<1>. QED  BY <1>1, <1>2, <1>3

LEMMA ChunksIn ==
  ASSUME NEW r, IsRequest(r), NEW i \in Nat, NEW p, ChunksAt(r, i, p) \/ LastChunkAt(r, i, p)
  PROVE  i - Len(Header(r)) + 1 \in 1..Len(Payload(r)) /\ p.complete = 0
<1>1. p.complete = 0
  BY NotComplete DEF ChunksAt, ChunkAt, LastChunkAt, EndAt
<1>2. r.framing = "chunked" /\ Len(r.body) \in Nat /\ Len(Header(r)) \in Nat
  BY SizeOf DEF ChunksAt, LastChunkAt
<1>3. Len(Payload(r)) = 6 * Len(r.body) + 5
  BY <1>2, PayloadBytes
<1>4. CASE ChunksAt(r, i, p)
  <2>1. PICK k \in 0..Len(r.body), m \in 0..5 :
          i = Len(Header(r)) + 6 * k + m /\ (m = 0 \/ k < Len(r.body))
    BY <1>4 DEF ChunksAt, ChunkAt
  <2>2. i - Len(Header(r)) = 6 * k + m /\ 6 * k + m + 1 \in 1..6 * Len(r.body) + 5
    BY <1>2, <2>1
  <2>. QED  BY <1>1, <1>3, <2>2
<1>5. CASE LastChunkAt(r, i, p)
  <2>. DEFINE m == i - Len(Header(r)) - 6 * Len(r.body)
  <2>1. m \in {1, 2, 3, 4}
    BY <1>5 DEF LastChunkAt, EndAt
  <2>2. i - Len(Header(r)) = 6 * Len(r.body) + m
    BY <1>2
  <2>. HIDE DEF m
  <2>3. 6 * Len(r.body) + m + 1 \in 1..6 * Len(r.body) + 5
    BY <1>2, <2>1
  <2>. QED  BY <1>1, <1>3, <2>2, <2>3
<1>. QED  BY <1>4, <1>5

-----------------------------------------------------------------------------
(* From one header line to the next *)

LEMMA AfterLine ==
  ASSUME NEW r, IsRequest(r), NEW q, Between(r, LineEnd(r), q, Unset, {})
  PROVE  HeaderAt(r, LineEnd(r), q)
<1>1. LineEnd(r) \in Nat /\ LineEnd(r) - LineEnd(r) = 0 /\ r.close \in BOOLEAN
  BY PartsEnd, RequestFields
<1>2. CASE r.close = TRUE
  BY <1>1, <1>2 DEF HeaderAt, ClosingAt
<1>3. CASE r.close = FALSE
  <2>1. ClosingEnd(r) = LineEnd(r) /\ Flags0(r) = {}
    BY <1>1, <1>3, ClosingBytes DEF ClosingEnd, Flags0
  <2>. QED  BY <1>1, <2>1 DEF HeaderAt, FramingAt
<1>. QED  BY <1>1, <1>2, <1>3

LEMMA AfterClosing ==
  ASSUME NEW r, IsRequest(r), NEW q, Between(r, ClosingEnd(r), q, Unset, Flags0(r))
  PROVE  HeaderAt(r, ClosingEnd(r), q)
<1>1. ClosingEnd(r) \in Nat /\ ClosingEnd(r) - ClosingEnd(r) = 0
  BY PartsEnd
<1>. QED  BY <1>1 DEF HeaderAt, FramingAt

\* A byte of the headers.
LEMMA HeaderStep ==
  ASSUME NEW r, IsRequest(r), NEW i \in Nat, NEW p, HeaderAt(r, i, p),
         NEW c, c = Header(r)[i + 1], NEW q, q = http_parser_execute(p, c)
  PROVE  \/ HeaderAt(r, i + 1, q) \/ IdentityAt(r, i + 1, q) \/ ChunksAt(r, i + 1, q)
         \/ i + 1 = Len(Encode(r)) /\ DoneAt(r, i + 1, q)
<1>. DEFINE h == Header(r)
<1>1. /\ \A j \in 1..LineEnd(r) : h[j] = RequestLine(r)[j]
      /\ \A j \in 1..Len(Closing(r)) : h[LineEnd(r) + j] = Closing(r)[j]
      /\ \A j \in 1..Len(Framing(r)) : h[ClosingEnd(r) + j] = Framing(r)[j]
  BY HeaderBytes
<1>2. Len(h) = FramingEnd(r) + 2 /\ Len(h) <= MaxHeader /\ MaxHeader \in Nat
  BY SizeOf, HttpParserAssumption
<1>. HIDE DEF h
<1>3. CASE LineAt(r, i, p)
  <2>1. i < LineEnd(r)
    BY <1>3, LineIn
  <2>2. i + 1 \in 1..LineEnd(r) /\ i + 1 <= MaxHeader
    BY <1>2, <2>1, PartsEnd, SMTT(60)
  <2>3. c = RequestLine(r)[i + 1]
    BY <1>1, <2>2 DEF h
  <2>4. LineAt(r, i + 1, q) \/ (i + 1 = LineEnd(r) /\ Between(r, i + 1, q, Unset, {}))
    BY <1>3, <2>2, <2>3, LineStep
  <2>. QED  BY <2>4, AfterLine DEF HeaderAt
<1>4. CASE ClosingAt(r, i, p)
  <2>1. i - LineEnd(r) + 1 \in 1..Len(Closing(r))
    BY <1>4, ClosingIn
  <2>2. i + 1 = LineEnd(r) + (i - LineEnd(r) + 1) /\ i + 1 <= MaxHeader
    <3>1. /\ LineEnd(r) \in Nat /\ Len(Closing(r)) \in Nat /\ FramingEnd(r) \in Nat
          /\ LineEnd(r) + Len(Closing(r)) <= FramingEnd(r)
      BY PartsEnd
    <3>2. i - LineEnd(r) + 1 <= Len(Closing(r))
      BY <2>1, <3>1
    <3>. QED  BY <1>2, <3>1, <3>2
  <2>3. c = Closing(r)[i - LineEnd(r) + 1]
    BY <1>1, <2>1, <2>2 DEF h
  <2>4. ClosingAt(r, i + 1, q) \/ (i + 1 = ClosingEnd(r) /\ Between(r, i + 1, q, Unset, Flags0(r)))
    BY <1>4, <2>2, <2>3, ClosingStep
  <2>. QED  BY <2>4, AfterClosing DEF HeaderAt
<1>5. CASE FramingAt(r, i, p)
  <2>1. i - ClosingEnd(r) + 1 \in 1..Len(Framing(r))
    BY <1>5, FramingIn
  <2>2. i + 1 = ClosingEnd(r) + (i - ClosingEnd(r) + 1) /\ i + 1 <= MaxHeader
    <3>1. ClosingEnd(r) \in Nat /\ Len(Framing(r)) \in Nat /\ FramingEnd(r) = ClosingEnd(r) + Len(Framing(r))
      BY PartsEnd
    <3>. QED  BY <1>2, <2>1, <3>1
  <2>3. c = Framing(r)[i - ClosingEnd(r) + 1]
    BY <1>1, <2>1, <2>2 DEF h
  <2>4. r.framing \in {"none", "length", "chunked"}
    BY DEF IsRequest
  <2>5. FramingAt(r, i + 1, q) \/ EmptyLineAt(r, i + 1, q)
    BY <1>5, <2>2, <2>3, <2>4, NoneStep, ChunkedStep, LengthStep
  <2>. QED  BY <2>5 DEF HeaderAt
<1>6. CASE EmptyLineAt(r, i, p)
  <2>1. i + 1 <= MaxHeader
    BY <1>2, <1>6, EmptyLineIn, PartsEnd DEF h
  <2>2. \/ EmptyLineAt(r, i + 1, q) \/ IdentityAt(r, i + 1, q) \/ ChunksAt(r, i + 1, q)
        \/ i + 1 = Len(Encode(r)) /\ DoneAt(r, i + 1, q)
    BY <1>6, <2>1, EmptyLineStep
  <2>. QED  BY <2>2 DEF HeaderAt
<1>. QED  BY <1>3, <1>4, <1>5, <1>6 DEF HeaderAt

LEMMA EncodeLen ==
  ASSUME NEW r, IsRequest(r)
  PROVE  /\ Len(Header(r)) \in Nat /\ Len(Payload(r)) \in Nat /\ Len(Encode(r)) \in Nat
         /\ Len(Encode(r)) = Len(Header(r)) + Len(Payload(r))
<1>1. Header(r) \in Seq(Words) /\ Payload(r) \in Seq(Words)
  BY HeaderBytes, PayloadBytes
<1>2. Encode(r) \in Seq(Words) /\ Len(Encode(r)) = Len(Header(r)) + Len(Payload(r))
  BY <1>1, CatBytes DEF Encode
<1>. QED  BY <1>1, <1>2, LenProperties

\* What has not been read whole is within the request, and no request is complete.
LEMMA WithinRequest ==
  ASSUME NEW r, IsRequest(r), NEW i \in Nat, NEW p,
         HeaderAt(r, i, p) \/ IdentityAt(r, i, p) \/ ChunksAt(r, i, p) \/ LastChunkAt(r, i, p)
  PROVE  i < Len(Encode(r)) /\ p.complete = 0
<1>. DEFINE h == Len(Header(r))
            n == Len(Payload(r))
<1>1. h \in Nat /\ n \in Nat /\ Len(Encode(r)) = h + n /\ h = FramingEnd(r) + 2
  BY EncodeLen, SizeOf
<1>. HIDE DEF h, n
<1>2. CASE LineAt(r, i, p)
  <2>1. i < LineEnd(r) /\ p.complete = 0
    BY <1>2, LineIn
  <2>2. LineEnd(r) \in Nat /\ FramingEnd(r) \in Nat /\ LineEnd(r) <= FramingEnd(r)
    BY PartsEnd
  <2>. QED  BY <1>1, <2>1, <2>2
<1>3. CASE ClosingAt(r, i, p)
  <2>1. i - LineEnd(r) + 1 \in 1..Len(Closing(r)) /\ p.complete = 0
    BY <1>3, ClosingIn
  <2>2. /\ LineEnd(r) \in Nat /\ Len(Closing(r)) \in Nat /\ ClosingEnd(r) = LineEnd(r) + Len(Closing(r))
        /\ FramingEnd(r) \in Nat /\ ClosingEnd(r) <= FramingEnd(r)
    BY PartsEnd
  <2>. QED  BY <1>1, <2>1, <2>2, SMTT(60)
<1>4. CASE FramingAt(r, i, p)
  <2>1. i - ClosingEnd(r) + 1 \in 1..Len(Framing(r)) /\ p.complete = 0
    BY <1>4, FramingIn
  <2>2. /\ ClosingEnd(r) \in Nat /\ Len(Framing(r)) \in Nat /\ FramingEnd(r) = ClosingEnd(r) + Len(Framing(r))
    BY PartsEnd
  <2>. QED  BY <1>1, <2>1, <2>2
<1>5. CASE EmptyLineAt(r, i, p)
  <2>1. i < h /\ p.complete = 0
    BY <1>5, EmptyLineIn DEF h
  <2>. QED  BY <1>1, <2>1
<1>6. CASE IdentityAt(r, i, p) \/ ChunksAt(r, i, p) \/ LastChunkAt(r, i, p)
  <2>1. i - h + 1 \in 1..n /\ p.complete = 0
    BY <1>6, IdentityIn, ChunksIn DEF h, n
  <2>. QED  BY <1>1, <2>1
<1>. QED  BY <1>2, <1>3, <1>4, <1>5, <1>6 DEF HeaderAt

LEMMA HeaderIn ==
  ASSUME NEW r, IsRequest(r), NEW i \in Nat, NEW p, HeaderAt(r, i, p)
  PROVE  i + 1 \in 1..Len(Header(r))
<1>1. Len(Header(r)) \in Nat /\ Len(Header(r)) = FramingEnd(r) + 2
  BY SizeOf
<1>2. CASE LineAt(r, i, p)
  <2>1. i < LineEnd(r)
    BY <1>2, LineIn
  <2>2. LineEnd(r) \in Nat /\ FramingEnd(r) \in Nat /\ LineEnd(r) <= FramingEnd(r)
    BY PartsEnd
  <2>. QED  BY <1>1, <2>1, <2>2
<1>3. CASE ClosingAt(r, i, p)
  <2>1. i - LineEnd(r) + 1 \in 1..Len(Closing(r))
    BY <1>3, ClosingIn
  <2>2. /\ LineEnd(r) \in Nat /\ Len(Closing(r)) \in Nat /\ ClosingEnd(r) = LineEnd(r) + Len(Closing(r))
        /\ FramingEnd(r) \in Nat /\ ClosingEnd(r) <= FramingEnd(r)
    BY PartsEnd
  <2>. QED  BY <1>1, <2>1, <2>2
<1>4. CASE FramingAt(r, i, p)
  <2>1. i - ClosingEnd(r) + 1 \in 1..Len(Framing(r))
    BY <1>4, FramingIn
  <2>2. /\ ClosingEnd(r) \in Nat /\ Len(Framing(r)) \in Nat /\ FramingEnd(r) = ClosingEnd(r) + Len(Framing(r))
    BY PartsEnd
  <2>. QED  BY <1>1, <2>1, <2>2
<1>5. CASE EmptyLineAt(r, i, p)
  BY <1>1, <1>5, EmptyLineIn
<1>. QED  BY <1>2, <1>3, <1>4, <1>5 DEF HeaderAt

\* The next byte of a stream takes its request on.
LEMMA RequestStep ==
  ASSUME NEW s \in Streams, s.at = 0, NEW i \in Nat, i < Len(BytesOf(s)), NEW p, ParserInv(p),
         RequestAt(s.request, i, p),
         NEW c, c = BytesOf(s)[i + 1], NEW q, q = http_parser_execute(p, c)
  PROVE  RequestAt(s.request, i + 1, q)
<1>. DEFINE r == s.request
            h == Len(Header(r))
            n == Len(Payload(r))
            w == Len(Encode(r))
            b == BytesOf(s)
<1>0. IsRequest(r) /\ s.more \in Seq(STRING)
  BY StreamsAssumption
<1>1. /\ h \in Nat /\ n \in Nat /\ w = h + n /\ w \in Nat
      /\ \A j \in 1..h : b[j] = Header(r)[j]
      /\ \A j \in 1..n : b[h + j] = Payload(r)[j]
      /\ \A j \in 1..Len(b) : b[j] \in Words
  <2>1. /\ h \in Nat /\ n \in Nat /\ w = h + n
        /\ \A j \in 1..h : b[j] = Header(r)[j]
        /\ \A j \in 1..n : b[h + j] = Payload(r)[j]
        /\ \A j \in 1..Len(b) : b[j] \in Words
    BY <1>0, StreamBytes, Zenon
  <2>. HIDE DEF h, n, w, b, r
  <2>2. w \in Nat
    BY <2>1
  <2>. QED  BY <2>1, <2>2
<1>2. c \in Words
  <2>1. b \in Seq(Words)
    <3>1. Header(r) \in Seq(Words) /\ Payload(r) \in Seq(Words)
      BY <1>0, HeaderBytes, PayloadBytes
    <3>2. Encode(r) \in Seq(Words)
      BY <3>1, CatBytes DEF Encode
    <3>3. STRING \subseteq Words
      BY DEF Words
    <3>4. s.more \in Seq(Words)
      BY <1>0, <3>3, SeqMonotonic
    <3>. QED  BY <3>2, <3>4, CatBytes DEF BytesOf
  <2>2. i + 1 \in 1..Len(b)
    BY <2>1, LenProperties
  <2>. QED  BY <2>1, <2>2, ElementOfSeq
<1>3. ASSUME HeaderAt(r, i + 1, q) \/ IdentityAt(r, i + 1, q) \/ ChunksAt(r, i + 1, q) \/ LastChunkAt(r, i + 1, q)
      PROVE  RequestAt(r, i + 1, q)
  BY <1>0, <1>3, WithinRequest DEF RequestAt
<1>4. DoneAt(r, i + 1, q) => RequestAt(r, i + 1, q)
  BY DEF RequestAt
<1>. HIDE DEF r, h, n, w, b
<1>5. CASE HeaderAt(r, i, p)
  <2>1. i + 1 \in 1..h
    BY <1>0, <1>5, HeaderIn DEF h
  <2>2. c = Header(r)[i + 1]
    BY <1>1, <2>1 DEF b
  <2>3. \/ HeaderAt(r, i + 1, q) \/ IdentityAt(r, i + 1, q) \/ ChunksAt(r, i + 1, q)
        \/ i + 1 = Len(Encode(r)) /\ DoneAt(r, i + 1, q)
    BY <1>0, <1>5, <2>2, HeaderStep
  <2>. QED  BY <1>3, <1>4, <2>3 DEF r
<1>6. ASSUME i - h + 1 \in 1..n PROVE c = Payload(r)[i - h + 1]
  <2>1. i + 1 = h + (i - h + 1)
    BY <1>1
  <2>. QED  BY <1>1, <1>6, <2>1 DEF b
<1>7. CASE IdentityAt(r, i, p)
  <2>1. i - h + 1 \in 1..n /\ Payload(r) = r.body
    BY <1>0, <1>7, IdentityIn DEF h, n
  <2>2. c = r.body[i - Len(Header(r)) + 1]
    BY <1>6, <2>1 DEF h
  <2>3. IdentityAt(r, i + 1, q) \/ (i + 1 = Len(Encode(r)) /\ DoneAt(r, i + 1, q))
    BY <1>0, <1>7, <2>2, IdentityStep
  <2>. QED  BY <1>3, <1>4, <2>3 DEF r
<1>8. CASE ChunksAt(r, i, p) \/ LastChunkAt(r, i, p)
  <2>1. i - h + 1 \in 1..n
    BY <1>0, <1>8, ChunksIn DEF h, n
  <2>2. c = Payload(r)[i - Len(Header(r)) + 1]
    BY <1>6, <2>1 DEF h
  <2>3. \/ ChunksAt(r, i + 1, q) \/ LastChunkAt(r, i + 1, q)
        \/ (i + 1 = Len(Encode(r)) /\ DoneAt(r, i + 1, q))
    BY <1>0, <1>8, <2>2, ChunksStep, LastChunkStep
  <2>. QED  BY <1>3, <1>4, <2>3 DEF r
<1>9. CASE DoneAt(r, i, p)
  <2>1. DoneAt(r, i + 1, q)
    BY <1>0, <1>2, <1>9, DoneStep
  <2>. QED  BY <1>4, <2>1 DEF r
<1>10. HeaderAt(r, i, p) \/ IdentityAt(r, i, p) \/ ChunksAt(r, i, p) \/ LastChunkAt(r, i, p) \/ DoneAt(r, i, p)
  BY DEF RequestAt, r
<1>. QED  BY <1>5, <1>7, <1>8, <1>9, <1>10

-----------------------------------------------------------------------------
(* The theorem *)

RequestInv ==
  /\ stream \in Streams /\ arrived \in Nat /\ ParserInv(parser)
  /\ stream.at = 0 => RequestAt(stream.request, arrived, parser)

LEMMA RequestInit == ParserInit => RequestInv
<1>. SUFFICES ASSUME ParserInit PROVE RequestInv
  OBVIOUS
<1>1. stream \in Streams /\ arrived = 0 /\ parser = ParserStart /\ ParserInv(parser)
  BY ParserInitEstablishes DEF ParserInit
<1>2. ASSUME stream.at = 0 PROVE RequestAt(stream.request, 0, ParserStart)
  <2>. DEFINE r == stream.request
  <2>1. IsRequest(r)
    BY <1>1, <1>2, StreamsAssumption
  <2>2. LineAt(r, 0, ParserStart)
    BY StartIs DEF LineAt
  <2>. HIDE DEF r
  <2>3. HeaderAt(r, 0, ParserStart)
    BY <2>2 DEF HeaderAt
  <2>4. 0 < Len(Encode(r)) /\ ParserStart.complete = 0
    BY <2>1, <2>3, WithinRequest
  <2>. QED  BY <2>3, <2>4 DEF RequestAt, r
<1>. QED  BY <1>1, <1>2 DEF RequestInv

LEMMA RequestNext == RequestInv /\ [ParserNext]_parserVars => RequestInv'
<1>. SUFFICES ASSUME RequestInv, [ParserNext]_parserVars PROVE RequestInv'
  OBVIOUS
<1>. USE DEF RequestInv
<1>1. CASE ByteArrives
  <2>1. /\ stream' = stream /\ arrived' = arrived + 1 /\ arrived < Len(BytesOf(stream))
        /\ parser' = http_parser_execute(parser, BytesOf(stream)[arrived + 1])
    BY <1>1 DEF ByteArrives
  <2>2. ParserInv(parser')
    BY <2>1, ExecuteKeeps
  <2>3. ASSUME stream.at = 0 PROVE RequestAt(stream.request, arrived + 1, parser')
    BY <2>1, <2>3, RequestStep
  <2>. QED  BY <2>1, <2>2, <2>3
<1>2. CASE UNCHANGED parserVars
  BY <1>2 DEF parserVars
<1>. QED  BY <1>1, <1>2 DEF ParserNext

LEMMA RequestWhole == RequestInv => WholeRequests
<1>. SUFFICES ASSUME RequestInv, stream.at = 0
              PROVE  LET r == stream.request
                         whole == Len(Encode(r))
                         alone == arrived = whole \/ r.close
                     IN /\ parser.complete > 0 <=> arrived >= whole
                        /\ arrived >= whole =>
                             /\ IsPrefix(r.url, parser.url) /\ IsPrefix(r.body, parser.body)
                             /\ alone => parser.url = r.url /\ parser.body = r.body
  BY DEF WholeRequests
<1>. DEFINE r == stream.request
            w == Len(Encode(r))
<1>1. IsRequest(r) /\ w \in Nat /\ arrived \in Nat
  <2>1. IsRequest(r)
    BY StreamsAssumption DEF RequestInv
  <2>. QED  BY <2>1, EncodeLen DEF RequestInv
<1>2. RequestAt(r, arrived, parser)
  BY DEF RequestInv
<1>3. \/ arrived < w /\ parser.complete = 0
      \/ DoneAt(r, arrived, parser)
  BY <1>2 DEF RequestAt
<1>4. DoneAt(r, arrived, parser) =>
        /\ arrived >= w /\ parser.complete \in Nat \ {0}
        /\ IsPrefix(r.url, parser.url) /\ IsPrefix(r.body, parser.body)
        /\ arrived = w \/ r.close => parser.url = r.url /\ parser.body = r.body
  BY DEF DoneAt
<1>. HIDE DEF r, w
<1>5. /\ parser.complete > 0 <=> arrived >= w
      /\ arrived >= w => DoneAt(r, arrived, parser)
  BY <1>1, <1>3, <1>4
<1>. QED  BY <1>4, <1>5 DEF r, w

\* However a request is cut into segments it is complete with its last byte and
\* not before, and the parser has its URL and its body (http_parser.cc:620): for
\* every request that fits, framed by a length, in chunks or without a body,
\* whatever bytes follow it.
THEOREM RequestsAreWhole == ParserSpec => []WholeRequests
BY RequestInit, RequestNext, RequestWhole, PTL DEF ParserSpec

=============================================================================
