----------------------------- MODULE LegacyHttp -----------------------------
(***************************************************************************)
(* The reactor's HTTP server on one connection (src_epoll/http): onMessage *)
(* reads the input buffer through the connection's HttpContext line by     *)
(* line, however the client's bytes are cut into reads, and answers each   *)
(* request.  A byte is a token: "CR", "LF", "SP", ":", "?" or a word; the  *)
(* code looks at nothing inside a word.                                    *)
(*                                                                         *)
(* The client sends Messages, each with the request a reader of the        *)
(* protocol takes it for: NoRequest for a line that is none.  A message    *)
(* ends with a line, and MessagesAssumption says that a parser which is    *)
(* given it alone and as a whole takes it for that request.                *)
(***************************************************************************)
EXTENDS Buffer, SequencesExt, TLC

CONSTANTS
  Messages,      \* records [bytes, request], the bytes in Bytes
  MaxMessages,   \* bound on the messages of a connection
  NoRequest,
  Bodies,        \* what the callback may answer
  NoLength       \* a response without Content-Length

VARIABLES
  callback,   \* whether setHttpCallback was called before start()
  stream,     \* the messages of this client
  sent,       \* their bytes
  received,   \* how many of their bytes have been read
  input,      \* the connection's input buffer
  context,    \* its HttpContext: [state, request]
  pc,         \* where onMessage is; "poll": outside
  connected,  \* TcpConnection::connected()
  called,     \* history: requests handed to onRequest
  out         \* responses sent, each with the request it answers

httpVars == <<callback, stream, sent, received, input, context, pc, connected, called, out>>

\* Where the k-th message ends: the bytes of the first k.
Ends ==
  LET end[k \in 0..Len(stream)] ==
        IF k = 0 THEN 0 ELSE end[k - 1] + Len(stream[k].bytes)
  IN end

\* The bytes of the messages, one message behind the other.
StreamBytes ==
  LET end == Ends IN
  [i \in 1..end[Len(stream)] |->
     LET k == CHOOSE k \in 1..Len(stream) : end[k - 1] < i /\ i <= end[k]
     IN stream[k].bytes[i - end[k - 1]]]

-----------------------------------------------------------------------------
\* The parser.

Find(s, t) == SelectInSeq(s, LAMBDA x : x = t)
Before(s, i) == SubSeq(s, 1, i - 1)
After(s, i)  == SubSeq(s, i + 1, Len(s))

\* A line ends with the byte at n.
LineEnds(s, n) == n \in 2..Len(s) /\ s[n - 1] = "CR" /\ s[n] = "LF"

\* findCRLF: where the first CR LF begins, or 0.
FindCRLF(s) ==
  LET ends == {n \in 2..Len(s) : LineEnds(s, n)} IN
  IF ends = {} THEN 0 ELSE Min(ends) - 1

NewRequest == [method  |-> "Invalid", path |-> <<>>, query |-> <<>>,
               version |-> "Unknown", headers |-> <<>>]

NewContext == [state |-> "ExpectRequestLine", request |-> NewRequest]

OneOf(s, words, other) == IF Len(s) = 1 /\ s[1] \in words THEN s[1] ELSE other

\* setPath and setQuery: the query keeps what it was when there is none.
WithTarget(request, target) ==
  LET q == Find(target, "?") IN
  IF q = 0 THEN [request EXCEPT !.path = target]
  ELSE [request EXCEPT !.path = Before(target, q), !.query = After(target, q)]

\* processRequestLine: METHOD SP PATH SP VERSION.  The method is stored even
\* when the rest of the line is malformed.
ProcessRequestLine(request, line) ==
  LET sp   == Find(line, "SP")
      with == [request EXCEPT
                 !.method = OneOf(Before(line, sp), {"GET", "POST", "HEAD"}, "Invalid")]
      rest == After(line, sp)
      sp2  == Find(rest, "SP") IN
  IF sp = 0 THEN [ok |-> FALSE, request |-> request]
  ELSE IF sp2 = 0 THEN [ok |-> FALSE, request |-> with]
  ELSE [ok |-> TRUE,
        request |-> [WithTarget(with, Before(rest, sp2)) EXCEPT
           !.version = OneOf(After(rest, sp2), {"1.0", "1.1"}, "Unknown")]]

\* The value without the blanks around it.
Trim(s) ==
  LET words == {i \in 1..Len(s) : s[i] # "SP"} IN
  IF words = {} THEN <<>>
  ELSE SubSeq(s, CHOOSE i \in words : \A j \in words : i <= j,
                 CHOOSE i \in words : \A j \in words : j <= i)

\* One header line; a line without a colon is passed over.
ProcessHeader(request, line) ==
  LET colon == Find(line, ":") IN
  IF colon = 0 THEN request
  ELSE [request EXCEPT !.headers =
          (Before(line, colon) :> Trim(After(line, colon))) @@ @]

\* What parseRequest makes of one line.
ReadLine(c, line) ==
  IF c.state = "ExpectRequestLine"
  THEN LET r == ProcessRequestLine(c.request, line) IN
       [state |-> IF r.ok THEN "ExpectHeaders" ELSE c.state, request |-> r.request]
  ELSE IF line = <<>> THEN [state |-> "GotAll", request |-> c.request]
  ELSE [state |-> c.state, request |-> ProcessHeader(c.request, line)]

\* The line that ends with the byte at n.
LineTo(s, n) ==
  SubSeq(s, Max({0} \union {q \in 2..(n - 1) : LineEnds(s, q)}) + 1, n - 2)

\* The contexts of a parser that is given these bytes and no others.
Alone(bytes) ==
  LET after[n \in 0..Len(bytes)] ==
        IF n = 0 THEN NewContext
        ELSE IF LineEnds(bytes, n) THEN ReadLine(after[n - 1], LineTo(bytes, n))
        ELSE after[n - 1]
  IN after

\* m is one request and ends with its empty line, or one malformed line.
IsMessage(m) ==
  LET size == Len(m.bytes)
      inner == {n \in 1..(size - 1) : LineEnds(m.bytes, n)}
      after == Alone(m.bytes) IN
  /\ m.bytes \in Seq(Bytes) /\ LineEnds(m.bytes, size)
  /\ IF m.request = NoRequest
     THEN inner = {} /\ after[size].state = "ExpectRequestLine"
     ELSE /\ \A n \in inner : after[n].state = "ExpectHeaders"
          /\ after[size] = [state |-> "GotAll", request |-> m.request]

ASSUME MessagesAssumption == \A m \in Messages : IsMessage(m)

-----------------------------------------------------------------------------
\* The answer.

GetHeader(request, key) ==
  IF key \in DOMAIN request.headers THEN request.headers[key] ELSE <<>>

ShouldClose(request) ==
  LET connection == GetHeader(request, <<"Connection">>) IN
  \/ connection = <<"close">>
  \/ request.version = "1.0" /\ connection # <<"Keep-Alive">>

\* appendToBuffer: an empty body gets no Content-Length.
Serialize(request, status, close, body) ==
  [to |-> request, status |-> status, close |-> close, body |-> body,
   length |-> IF body = <<>> THEN NoLength ELSE Len(body)]

Answers(request) ==
  IF request.method = "Invalid" \/ request.version = "Unknown"
  THEN {Serialize(request, 400, TRUE, <<"Bad">>)}
  ELSE IF callback
  THEN {Serialize(request, 200, r[1], r[2]) : r \in {TRUE, ShouldClose(request)} \X Bodies}
  ELSE {Serialize(request, 404, ShouldClose(request), <<"Not">>)}

-----------------------------------------------------------------------------
\* The connection.

HttpInit ==
  /\ callback \in BOOLEAN
  /\ stream \in UNION {[1..n -> Messages] : n \in 1..MaxMessages}
  /\ sent = StreamBytes
  /\ received = 0 /\ input = NewBuffer
  /\ context = NewContext           \* onConnection
  /\ pc = "poll" /\ connected = TRUE
  /\ called = <<>> /\ out = <<>>

\* handleRead: readFd takes some of what has come, then onMessage.
Receive(n) ==
  /\ pc = "poll" /\ received + n <= Len(sent)
  /\ n <= ReadRoom(input)
  /\ input' = ReadFd(input, SubSeq(sent, received + 1, received + n))
  /\ received' = received + n
  /\ pc' = "loop"
  /\ UNCHANGED <<callback, stream, sent, context, connected, called, out>>

\* onMessage's loop: while there are bytes, parse.
Loop ==
  /\ pc = "loop"
  /\ pc' = IF Readable(input) > 0 THEN "parse" ELSE "poll"
  /\ UNCHANGED <<callback, stream, sent, received, input, context, connected, called, out>>

Line == LET s == Peek(input) IN Before(s, FindCRLF(s))

HasLine == FindCRLF(Peek(input)) # 0

\* retrieveUntil(crlf + 2).
TakeLine(b) == RetrieveUntil(b, b.reader + FindCRLF(Peek(b)) + 1)

\* No CR LF: parseRequest returns false and onMessage waits for the next read.
NeedMore ==
  /\ pc = "parse" /\ ~HasLine
  /\ pc' = "poll"
  /\ UNCHANGED <<callback, stream, sent, received, input, context, connected, called, out>>

\* A malformed request line is dropped, and onMessage leaves its loop too.
RequestLine ==
  /\ pc = "parse" /\ HasLine /\ context.state = "ExpectRequestLine"
  /\ context' = ReadLine(context, Line)
  /\ pc' = IF context'.state = "ExpectHeaders" THEN pc ELSE "poll"
  /\ input' = TakeLine(input)
  /\ UNCHANGED <<callback, stream, sent, received, connected, called, out>>

HeaderLine ==
  /\ pc = "parse" /\ HasLine /\ context.state = "ExpectHeaders" /\ Line # <<>>
  /\ context' = ReadLine(context, Line)
  /\ input' = TakeLine(input)
  /\ UNCHANGED <<callback, stream, sent, received, pc, connected, called, out>>

EmptyLine ==
  /\ pc = "parse" /\ HasLine /\ context.state = "ExpectHeaders" /\ Line = <<>>
  /\ context' = ReadLine(context, Line)
  /\ input' = TakeLine(input)
  /\ pc' = "request"
  /\ UNCHANGED <<callback, stream, sent, received, connected, called, out>>

\* Mutant: the request of before is kept.
ResetState(c) == [c EXCEPT !.state = "ExpectRequestLine"]

\* HttpContext::reset, after onRequest.
Reset(c) == NewContext

\* Mutant: a response that closes does not shut down.
SendAnswerOnly(answer) ==
  /\ out' = IF connected THEN Append(out, answer) ELSE out
  /\ UNCHANGED connected

\* send() drops its data and shutdown() does nothing unless still connected.
SendAnswer(answer) ==
  /\ out' = IF connected THEN Append(out, answer) ELSE out
  /\ connected' = (connected /\ ~answer.close)

OnRequest ==
  /\ pc = "request"
  /\ called' = Append(called, context.request)
  /\ \E answer \in Answers(context.request) : SendAnswer(answer)
  /\ context' = Reset(context)
  /\ pc' = "loop"
  /\ UNCHANGED <<callback, stream, sent, received, input>>

HttpNext == \/ \E n \in 1..Len(sent) : Receive(n)
        \/ Loop \/ NeedMore \/ RequestLine \/ HeaderLine \/ EmptyLine \/ OnRequest

HttpSpec == HttpInit /\ [][HttpNext]_httpVars

-----------------------------------------------------------------------------
IsServed(k) == stream[k].request # NoRequest

\* How many of the first k messages are requests.
Rank(k) == Cardinality({i \in 1..k : IsServed(i)})

(* However the bytes are cut into reads, between CR and LF or with several *)
(* requests in one, the requests onRequest sees are those of the messages, *)
(* in order and with nothing left over from the one before; and when       *)
(* onMessage has returned, each complete one was served, unless the client *)
(* has sent a malformed line.                                              *)
ServedAsSent ==
  \E served \in 0..Len(stream) :
    /\ Ends[served] <= received
    /\ Len(called) = Rank(served)
    /\ \A k \in 1..served : IsServed(k) => called[Rank(k)] = stream[k].request
    /\ pc = "poll" /\ (\A k \in 1..Len(stream) : IsServed(k))
         => \A k \in (served + 1)..Len(stream) : received < Ends[k]

(* Each response answers the request at its place; after the first that    *)
(* closes there is none, and before it none is missing.                    *)
AnsweredUntilClose ==
  /\ \A k \in 1..Len(out) : out[k].to = called[k]
  /\ \A k \in 1..Len(out) : out[k].close <=> k = Len(out) /\ ~connected
  /\ Len(out) = Len(called) \/ ~connected

(* include/csl/http/HttpServer.h:7 promises keep-alive: a response on a    *)
(* connection that stays open says where it ends.                          *)
ResponsesEnd ==
  \A k \in 1..Len(out) : out[k].close \/ out[k].length = Len(out[k].body)
=============================================================================
