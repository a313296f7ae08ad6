----------------------------- MODULE HttpParser -----------------------------
(***************************************************************************)
(* http_parser.cpp: what the asio server makes of a request's head, and of *)
(* its body once that is read.  A head is a record with its size, the      *)
(* number of words of its request line and the first three of them, and    *)
(* its header lines [key, value], whose key is in lower case, "" when the  *)
(* name is empty and "no colon" when the line has none.  The value of      *)
(* Connection is the set of words in it, of Content-Length a numeral, of   *)
(* Content-Type a media type without its parameters.                       *)
(***************************************************************************)
EXTENDS StdLib

AllowedContentTypes == {"text/plain", "application/json", "application/x-www-form-urlencoded"}

\* isTokenChar, of every character: the one method used here that has another.
IsToken(method) == method # "G@T"

\* The target begins with '/', before anything is decoded.
IsTarget(path) == path # <<>> /\ path[1].sep = "/"

\* Whether the body of a POST has a media type that is served.
TypeStatus(method, length, type) ==
  IF method = "POST" /\ length > 0 /\ type \notin AllowedContentTypes THEN "UnsupportedMediaType" ELSE "Ok"

\* HttpRequest, as it is constructed.
NoRequest == [method |-> "", path |-> <<>>, length |-> 0, type |-> "", keepAlive |-> FALSE, body |-> 0]

Result(status, request) == [status |-> status, request |-> request]

\* A bug: the limit is forgotten.
LengthStatusUnlimited(text, maxBody) == IF Stoull(text) = {} THEN "BadRequest" ELSE "Ok"

\* parseContentLength, and the limit on its value.
LengthStatus(text, maxBody) ==
  IF Stoull(text) = {} THEN "BadRequest"
  ELSE IF \A length \in Stoull(text) : length > maxBody THEN "BodyTooLarge"
  ELSE "Ok"

\* What one line of the headers makes of the parse.
LineStatus(line, maxBody) ==
  CASE line.key \in {"no colon", ""} -> "BadRequest"
    [] line.key = "content-length"   -> LengthStatus(line.value, maxBody)
    [] OTHER                         -> "Ok"

\* The loop over the headers: the first bad line ends it.
HeadersStatus(lines, maxBody) ==
  LET bad == {i \in DOMAIN lines : LineStatus(lines[i], maxBody) # "Ok"}
  IN  IF bad = {} THEN "Ok" ELSE LineStatus(lines[Min(bad)], maxBody)

\* What the loop leaves of a key: a later line replaces an earlier one.
HeaderValue(lines, key, default) ==
  LET named == {i \in DOMAIN lines : lines[i].key = key}
  IN  IF named = {} THEN default ELSE lines[Max(named)].value

ContentLength(lines) ==
  CHOOSE length \in Stoull(HeaderValue(lines, "content-length", Numeral("", 0))) : TRUE

\* parseHttpRequestHead.  What is refused keeps the method, which decides
\* whether the answer has a body.
ParseHttpRequestHead(head, config) ==
  LET named == [NoRequest EXCEPT !.method = head.method]
      status == HeadersStatus(head.lines, config.max_body_bytes)
      connection == HeaderValue(head.lines, "connection", {})
      keepAlive == IF head.version = "HTTP/1.1" THEN "close" \notin connection ELSE "keep-alive" \in connection
      length == ContentLength(head.lines)
      type == HeaderValue(head.lines, "content-type", "")
      request == [named EXCEPT !.path = head.path, !.length = length, !.type = type, !.keepAlive = keepAlive]
  IN  IF head.size > config.max_header_bytes THEN Result("HeaderTooLarge", NoRequest)
      ELSE IF head.words # 3 \/ ~IsToken(head.method) \/ ~IsTarget(head.path) THEN Result("BadRequest", named)
      ELSE IF status # "Ok" THEN Result(status, named)
      ELSE IF head.version \notin {"HTTP/1.1", "HTTP/1.0"} THEN Result("BadRequest", named)
      ELSE Result(TypeStatus(head.method, length, type), request)

\* A bug: what was read is taken for the body.
AssignWhatCame(request, size, config) ==
  IF size > config.max_body_bytes THEN "BodyTooLarge" ELSE TypeStatus(request.method, size, request.type)

\* assignRequestBody: the same limits on the body that was read.
AssignRequestBody(request, size, config) ==
  IF size > config.max_body_bytes THEN "BodyTooLarge"
  ELSE IF size # request.length THEN "BadRequest"
  ELSE TypeStatus(request.method, size, request.type)

StatusCodeForParseError(status) ==
  CASE status = "Ok" -> 200
    [] status = "BadRequest" -> 400
    [] status = "HeaderTooLarge" -> 431
    [] status = "BodyTooLarge" -> 413
    [] status = "UnsupportedMediaType" -> 415
=============================================================================
