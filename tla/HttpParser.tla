----------------------------- MODULE HttpParser -----------------------------
(***************************************************************************)
(* What CHttpParserWrapper makes of the bytes a connection has received    *)
(* so far.  OnRead gives it the whole buffer each time and a handler runs  *)
(* once it says that a request is complete.  http_parser takes a byte at a *)
(* time; a word it compares letter by letter (a method, the version, the   *)
(* names and values it knows) is one byte here.  "BIN" stands for the      *)
(* bytes that neither a URL nor a token may have: control characters other *)
(* than tab and the line ends, and whatever is not ASCII.                  *)
(***************************************************************************)
EXTENDS Integers, Sequences, SequencesExt

CONSTANTS
  Width,       \* content_length has this many bits
  MaxHeader,   \* HTTP_MAX_HEADER_SIZE
  Streams      \* what clients send: see BytesOf

\* A digit is never the value that stands for no length.
ASSUME HttpParserAssumption ==
  Width \in Nat /\ 2^Width \in Nat \ 0..4 /\ MaxHeader \in Nat

VARIABLES
  stream,      \* the bytes a client sends, and the request they begin with
  arrived,     \* how many of them the buffer holds
  parser,      \* the parser after those bytes
  marks        \* url_mark, header_field_mark, ...: those that are set after them

parserVars == <<stream, arrived, parser, marks>>

Unset  == 2^Width - 1           \* ULLONG_MAX: no Content-Length
Digit  == [d \in {"0", "1", "2", "3"} |-> CASE d = "0" -> 0 [] d = "1" -> 1 [] d = "2" -> 2 [] OTHER -> 3]
Methods  == {"POST", "GET"}
Versions == {"HTTP/1.1", "HTTP/1.0"}
Known    == {"Content-Length", "Transfer-Encoding", "Connection", "Upgrade"}
Token    == {"a", "chunked", "close", "keep-alive"} \cup DOMAIN Digit \cup Known \cup Methods

-----------------------------------------------------------------------------
(* http_parser_init, the errors and NEW_MESSAGE *)

ParserStart ==
  [state |-> "start_req", header |-> "general", length |-> Unset, flags |-> {}, nread |-> 0,
   version |-> "HTTP/1.0", url |-> <<>>, body |-> <<>>, complete |-> 0, stopped |-> FALSE,
   sane |-> TRUE]

\* The rest of the buffer is not looked at: an error, or another protocol.
Error(p)     == [p EXCEPT !.stopped = TRUE]
Asserts(p, holds) == [p EXCEPT !.sane = @ /\ holds]
To(p, s)     == [p EXCEPT !.state = s]
Expect(p, ok, s) == IF ok THEN To(p, s) ELSE Error(p)

KeepAlive(p) ==
  IF p.version = "HTTP/1.1" THEN "close" \notin p.flags ELSE "keep-alive" \in p.flags

\* NEW_MESSAGE and on_message_complete.
Complete(p) ==
  [p EXCEPT !.state = IF KeepAlive(p) THEN "start_req" ELSE "dead", !.complete = @ + 1]

-----------------------------------------------------------------------------
(* The request line *)

\* s_dead and s_start_req.
StartReq(p, b) ==
  IF b \in {"CR", "LF"} THEN p
  ELSE IF p.state = "start_req" /\ b \in Methods
  THEN [p EXCEPT !.state = "req_method", !.flags = {}, !.length = Unset]
  ELSE Error(p)

ReqMethod(p, b) == Expect(p, b = "SP", "req_spaces")

Url(p, s, b) == [p EXCEPT !.state = s, !.url = Append(@, b)]

\* s_req_spaces_before_url and parse_url_char: paths only, no absolute URIs.
ReqSpaces(p, b) ==
  IF b = "SP" THEN p ELSE IF b = "/" THEN Url(p, "req_path", b) ELSE Error(p)

\* A space ends the URL; a line that ends here is a request of HTTP/0.9.  What may
\* be in a path may be in a query and in a fragment, and the other way round.
ReqPath(p, b) ==
  CASE b = "SP"  -> To(p, "req_http")
    [] b = "CR" -> [p EXCEPT !.state = "req_line_almost_done", !.version = "HTTP/1.0"]
    [] b = "LF" -> [p EXCEPT !.state = "field_start", !.version = "HTTP/1.0"]
    [] b = "BIN" -> Error(p)
    [] OTHER    -> Url(p, "req_path", b)

ReqHttp(p, b) ==
  IF b = "SP" THEN p
  ELSE IF b \in Versions THEN [p EXCEPT !.version = b, !.state = "req_http_end"] ELSE Error(p)

ReqHttpEnd(p, b) ==
  IF b = "CR" THEN To(p, "req_line_almost_done") ELSE Expect(p, b = "LF", "field_start")

ReqLineDone(p, b) == Expect(p, b = "LF", "field_start")

-----------------------------------------------------------------------------
(* Headers *)

\* s_headers_done: what follows the headers, and on_headers_complete.
HeadersDone(p) ==
  LET q == [p EXCEPT !.nread = 0]
  IN CASE "upgrade" \in p.flags -> Error(Complete(q))
       [] "upgrade" \notin p.flags /\ "chunked" \in p.flags -> To(q, "chunk_size_start")
       [] "upgrade" \notin p.flags /\ "chunked" \notin p.flags ->
            IF p.length \in {0, Unset} THEN Complete(q) ELSE To(q, "body_identity")

\* s_headers_almost_done; trailers end a chunked request.
HeadersAlmostDone(p, b) ==
  IF b # "LF" THEN Error(p)
  ELSE IF "trailing" \in p.flags THEN Complete(p) ELSE HeadersDone(p)

FieldStart(p, b) ==
  CASE b = "CR" -> To(p, "headers_almost_done")
    [] b = "LF" -> HeadersAlmostDone(p, b)
    [] b \in Token -> [p EXCEPT !.state = "field", !.header = IF b \in Known THEN b ELSE "general"]
    [] OTHER -> Error(p)

\* Letters after a known name make it an unknown one.
Field(p, b) ==
  CASE b \in Token -> Asserts([p EXCEPT !.header = "general"], p.header \in Known \cup {"general"})
    [] b = ":"  -> To(p, "value_start")
    [] b = "CR" -> To(p, "header_almost_done")
    [] b = "LF" -> To(p, "field_start")
    [] OTHER    -> Error(p)

ValueStart(p, b) ==
  CASE b = "SP"  -> p
    [] b = "CR" -> [p EXCEPT !.state = "header_almost_done", !.header = "general"]
    [] b = "LF" -> To(p, "field_start")
    [] b \notin {"SP", "CR", "LF"} /\ p.header = "Content-Length" ->
         IF b \in DOMAIN Digit THEN [p EXCEPT !.state = "value", !.length = Digit[b]] ELSE Error(p)
    [] OTHER -> [p EXCEPT !.state = "value",
         !.flags  = IF p.header = "Upgrade" THEN @ \cup {"upgrade"} ELSE @,
         !.header = IF \/ p.header = "Transfer-Encoding" /\ b = "chunked"
                       \/ p.header = "Connection" /\ b \in {"close", "keep-alive"}
                    THEN b ELSE "general"]

\* Mutant: the digits read before are forgotten.
MoreDigits_Last(p, b) == [p EXCEPT !.length = Digit[b]]

MoreDigits(p, b) ==
  LET t == (p.length * 10 + Digit[b]) % 2^Width
  IN IF t < p.length \/ t = Unset THEN Error(p) ELSE [p EXCEPT !.length = t]

\* s_header_almost_done has set the flags of the value by the next byte.
Flagged(p) == [p EXCEPT !.flags = @ \cup ({p.header} \cap {"chunked", "close", "keep-alive"})]

HeaderAlmostDone(p, b) == IF b # "LF" THEN Error(p) ELSE To(Flagged(p), "value_lws")

Value(p, b) ==
  CASE b = "CR" -> To(p, "header_almost_done")
    [] b = "LF" -> HeaderAlmostDone(p, b)
    [] b \notin {"CR", "LF"} /\ p.header = "Content-Length" ->
         IF b = "SP" THEN p ELSE IF b \in DOMAIN Digit THEN MoreDigits(p, b) ELSE Error(p)
    [] OTHER -> Asserts(IF b = "SP" THEN p ELSE [p EXCEPT !.header = "general"],
                        p.header \notin {"Connection", "Transfer-Encoding"})

\* A line that begins with a space continues the value before.
ValueLws(p, b) ==
  IF b = "SP" THEN To(p, "value_start") ELSE FieldStart(To(p, "field_start"), b)

-----------------------------------------------------------------------------
(* Bodies *)

\* s_body_identity and s_message_done: the last byte completes the request.
TakeByte(p, b) ==
  Asserts([p EXCEPT !.body = Append(@, b), !.length = @ - 1], p.length \notin {0, Unset})

BodyIdentity(p, b) ==
  LET q == TakeByte(p, b) IN IF q.length = 0 THEN Complete(q) ELSE q

ChunkSizeStart(p, b) ==
  Asserts(IF b \in DOMAIN Digit
          THEN [p EXCEPT !.state = "chunk_size", !.length = Digit[b]] ELSE Error(p),
          p.nread = 1)

ChunkSize(p, b) ==
  CASE b = "CR" -> To(p, "chunk_size_almost_done")
    [] b = "SP"  -> To(p, "chunk_parameters")
    [] b \in DOMAIN Digit ->
         LET t == (p.length * 16 + Digit[b]) % 2^Width
         IN IF t < p.length \/ t = Unset THEN Error(p) ELSE [p EXCEPT !.length = t]
    [] OTHER -> Error(p)

ChunkParameters(p, b) == IF b = "CR" THEN To(p, "chunk_size_almost_done") ELSE p

\* Length 0 is the last chunk: trailers, or the empty line, follow.
ChunkSizeAlmostDone(p, b) ==
  CASE b # "LF" -> Error(p)
    [] b = "LF" /\ p.length = 0 ->
         [p EXCEPT !.state = "field_start", !.nread = 0, !.flags = @ \cup {"trailing"}]
    [] b = "LF" /\ p.length # 0 -> [p EXCEPT !.state = "chunk_data", !.nread = 0]

ChunkData(p, b) ==
  [TakeByte(p, b) EXCEPT !.state = IF p.length = 1 THEN "chunk_data_almost_done" ELSE @]

ChunkDataAlmostDone(p, b) == Asserts(Expect(p, b = "CR", "chunk_data_done"), p.length = 0)

\* Mutant: nread goes on counting.
ChunkDataDone_Counts(p, b) == Expect([p EXCEPT !.nread = @ + 1], b = "LF", "chunk_size_start")

ChunkDataDone(p, b) == Expect([p EXCEPT !.nread = 0], b = "LF", "chunk_size_start")

-----------------------------------------------------------------------------
(* A byte at a time *)

InBody    == {"body_identity", "chunk_data", "chunk_data_almost_done", "chunk_data_done"}
InChunked == {"chunk_size_start", "chunk_size", "chunk_parameters", "chunk_size_almost_done",
              "chunk_data", "chunk_data_almost_done", "chunk_data_done"}

ReadByte(p, b) ==
  CASE p.state \in {"dead", "start_req"}  -> StartReq(p, b)
    [] p.state = "req_method"             -> ReqMethod(p, b)
    [] p.state = "req_spaces"             -> ReqSpaces(p, b)
    [] p.state = "req_path"               -> ReqPath(p, b)
    [] p.state = "req_http"               -> ReqHttp(p, b)
    [] p.state = "req_http_end"           -> ReqHttpEnd(p, b)
    [] p.state = "req_line_almost_done"   -> ReqLineDone(p, b)
    [] p.state = "field_start"            -> FieldStart(p, b)
    [] p.state = "field"                  -> Field(p, b)
    [] p.state = "value_start"            -> ValueStart(p, b)
    [] p.state = "value"                  -> Value(p, b)
    [] p.state = "header_almost_done"     -> HeaderAlmostDone(p, b)
    [] p.state = "value_lws"              -> ValueLws(p, b)
    [] p.state = "headers_almost_done"    -> HeadersAlmostDone(p, b)
    [] p.state = "body_identity"          -> BodyIdentity(p, b)
    [] p.state = "chunk_size_start"       -> ChunkSizeStart(p, b)
    [] p.state = "chunk_size"             -> ChunkSize(p, b)
    [] p.state = "chunk_parameters"       -> ChunkParameters(p, b)
    [] p.state = "chunk_size_almost_done" -> ChunkSizeAlmostDone(p, b)
    [] p.state = "chunk_data"             -> ChunkData(p, b)
    [] p.state = "chunk_data_almost_done" -> ChunkDataAlmostDone(p, b)
    [] p.state = "chunk_data_done"        -> ChunkDataDone(p, b)
    [] OTHER                              -> Asserts(Error(p), FALSE)

AssertChunked(p) == Asserts(p, p.state \in InChunked => "chunked" \in p.flags)

http_parser_execute(p, b) ==
  LET q == IF p.state \in InBody THEN p ELSE [p EXCEPT !.nread = @ + 1]
  IN IF p.stopped THEN p
     ELSE IF q.nread > MaxHeader THEN Error(q) ELSE ReadByte(AssertChunked(q), b)

\* MARK: the text that byte b begins, or goes on with, when p reads it.
Marked(p, b) ==
  CASE p.state = "req_spaces" /\ b # "SP"                       -> {"url"}
    [] p.state \in {"field_start", "value_lws"} /\ b \in Token -> {"header_field"}
    [] p.state = "value_start" /\ b # "SP"                      -> {"header_value"}
    [] p.state \in {"body_identity", "chunk_data"}              -> {"body"}
    [] OTHER                                                    -> {}

\* CALLBACK_DATA: the text that ends with it.
Delivered(p, b) ==
  CASE p.state = "req_path" /\ b \in {"SP", "CR", "LF"}           -> {"url"}
    [] p.state = "field" /\ b \in {":", "CR", "LF"}               -> {"header_field"}
    [] p.state \in {"value_start", "value"} /\ b \in {"CR", "LF"} -> {"header_value"}
    [] p.state = "body_identity" /\ p.length = 1                  -> {"body"}
    [] p.state = "chunk_data_almost_done"                         -> {"body"}
    [] OTHER                                                      -> {}

-----------------------------------------------------------------------------
(* Requests as a client writes them *)

CRLF == <<"CR", "LF">>

\* body is sent with its length or in chunks, or is empty.
RequestLine(r) == <<"POST", "SP">> \o r.url \o <<"SP", r.version>> \o CRLF
Framing(r) ==
  CASE r.framing = "length"  -> <<"Content-Length", ":", "SP">> \o r.digits \o CRLF
    [] r.framing = "chunked" -> <<"Transfer-Encoding", ":", "SP", "chunked">> \o CRLF
    [] r.framing = "none"    -> <<"a", ":", "a">> \o CRLF
Closing(r) == IF r.close THEN <<"Connection", ":", "SP", "close">> \o CRLF ELSE <<>>
Header(r)  == RequestLine(r) \o Closing(r) \o Framing(r) \o CRLF
\* A chunk of one byte takes six.
Chunk(b)    == <<"1", "CR", "LF", b, "CR", "LF">>
Chunks(s)   == [i \in 1..6 * Len(s) |-> Chunk(s[((i - 1) \div 6) + 1])[((i - 1) % 6) + 1]]
Payload(r)  == IF r.framing = "chunked" THEN Chunks(r.body) \o <<"0">> \o CRLF \o CRLF ELSE r.body
Encode(r) == Header(r) \o Payload(r)

\* The digits denote n, which is a length that content_length can hold: v[j] is
\* what the first j of them denote.
Denote(digits, n) ==
  /\ digits \in Seq(DOMAIN Digit) /\ digits # <<>>
  /\ \E v \in [DOMAIN digits -> 0..Unset - 1] :
       /\ v[1] = Digit[digits[1]] /\ v[Len(digits)] = n
       /\ \A j \in 2..Len(digits) : v[j] = v[j - 1] * 10 + Digit[digits[j]]

\* What the program's clients send: a path, a body that is framed as it is long,
\* and headers within the limit.
IsRequest(r) ==
  /\ r.url \in Seq(STRING) /\ r.url # <<>> /\ r.url[1] = "/"
  /\ \A i \in DOMAIN r.url : r.url[i] \notin {"SP", "CR", "LF", "BIN"}
  /\ r.body \in Seq(STRING) /\ r.version \in Versions /\ r.close \in BOOLEAN
  /\ r.framing \in {"none", "length", "chunked"}
  /\ r.framing = "none" => r.body = <<>>
  /\ r.framing = "length" => Denote(r.digits, Len(r.body))
  /\ Len(Header(r)) <= MaxHeader

\* A stream: a request, what follows it, and one byte that may have been changed.
BytesOf(s) ==
  LET sent == Encode(s.request) \o s.more
  IN IF s.at = 0 THEN sent ELSE [sent EXCEPT ![s.at] = s.byte]

\* What is sent unchanged is a request, and any bytes may follow.
ASSUME StreamsAssumption ==
  \A s \in Streams : s.at = 0 => IsRequest(s.request) /\ s.more \in Seq(STRING)

ParserInit ==
  /\ stream \in Streams
  /\ arrived = 0 /\ parser = ParserStart /\ marks = {}

\* A segment may end after any byte.  OnRead parses the whole buffer again from
\* the start, so what it finds depends on the bytes alone, not on the segments.
ByteArrives ==
  /\ arrived < Len(BytesOf(stream))
  /\ arrived' = arrived + 1
  /\ LET b == BytesOf(stream)[arrived + 1]
     IN /\ parser' = http_parser_execute(parser, b)
        /\ marks' = (marks \cup Marked(parser, b)) \ Delivered(parser, b)
  /\ UNCHANGED stream

ParserNext == ByteArrives

ParserSpec == ParserInit /\ [][ParserNext]_parserVars

-----------------------------------------------------------------------------
(* Properties *)

\* However a request is cut into segments its handler runs when the last byte is
\* there and not before, with the URL and the body that were sent.  What follows
\* on the connection can only add to them, and only if it is kept alive.
WholeRequests ==
  LET r == stream.request
      whole == Len(Encode(r))
      alone == arrived = whole \/ r.close
  IN stream.at = 0 =>
       /\ parser.complete > 0 <=> arrived >= whole
       /\ arrived >= whole =>
            /\ IsPrefix(r.url, parser.url) /\ IsPrefix(r.body, parser.body)
            /\ alone => parser.url = r.url /\ parser.body = r.body

\* The assertions of http_parser_execute hold whatever byte is changed on the way:
\* those of its states, the unhandled one included, and at the end of each segment
\* that it has read to its end the one that at most one mark is set, or it would
\* deliver a text twice.
AssertionsHold ==
  /\ parser.sane
  /\ ~parser.stopped => \A m, n \in marks : m = n
=============================================================================
