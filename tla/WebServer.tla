----------------------------- MODULE WebServer ------------------------------
(***************************************************************************)
(* apps/web_server/main.cpp and the request path of the asio server: load  *)
(* the configuration, prepare the server, and then, request by request,    *)
(* parse the head, read the body, route and answer.  The asynchronous      *)
(* operations and the timer of a session are in HttpSession, the accept    *)
(* loop in AsioServer; here is what one connection's requests are answered.*)
(***************************************************************************)
EXTENDS ServerConfig, HttpParser, Router

CONSTANTS Setups,   \* where the program may be started: [cwd, files], with INI files by path
          Heads,    \* the heads a client may send
          Dirs      \* the directories that exist

IsList(s) == Len(s) \in Nat /\ DOMAIN s = 1 .. Len(s)

\* The current directory is absolute and without dots, as getcwd gives it.  The
\* values that are read as paths are paths.
ASSUME SetupsAssumption ==
  \A s \in Setups :
    /\ IsNormal(s.cwd)
    /\ \A file \in DOMAIN s.files :
         /\ IsList(s.files[file])
         /\ \A i \in DOMAIN s.files[file] :
              LET line == s.files[file][i]
              IN  line.kind = "entry" /\ line.key \in {"document_root", "index"} => line.value \in Paths

\* The lines of a head are in a sequence, and so are the pieces of its path.
ASSUME HeadsAssumption ==
  \A head \in Heads :
    /\ IsList(head.lines) /\ IsList(head.path)
    /\ \A i \in DOMAIN head.path : head.path[i].name \in Name

VARIABLES stage,      \* of the program, and then of the connection's session
          setup,      \* the current directory and the INI files, until the server runs
          config, documentRoot, dirs,
          limit,      \* buffer_.max_size()
          room,       \* what the buffer can hold behind the head
          request,
          taken,      \* how much of the request was taken off the stream
          response

vars == <<stage, setup, config, documentRoot, dirs, limit, room, request, taken, response>>

Requested == <<"config", "server.ini">>
NoSetup == [cwd |-> Root, files |-> <<>>]
NoResponse == [status |-> 0, body |-> NoBody, close |-> FALSE]

Init ==
  /\ stage = "start" /\ setup \in Setups
  /\ config = Defaults /\ documentRoot = Root /\ dirs = Dirs
  /\ limit = 0 /\ room = 0
  /\ request = NoRequest /\ taken = "none" /\ response = NoResponse

\* loadServerConfig; what it throws ends the program.
Load ==
  /\ stage = "start"
  /\ LET loaded == LoadServerConfig(setup.cwd, Requested, setup.files)
     IN  \/ loaded = {} /\ stage' = "failed" /\ UNCHANGED config
         \/ config' \in loaded /\ stage' = "loaded"
  /\ UNCHANGED <<setup, documentRoot, dirs, limit, room, request, taken, response>>

Ancestors(path) == {SubSeq(path, 1, n) : n \in 1 .. Len(path)}

\* prepareRuntimeDirectories and initializeLogger: the document root and the
\* log's directory are created, and the log file is opened.
LogPath == LexicallyNormal(Absolute(setup.cwd, config.file))
Created == Ancestors(WithoutSlash(LexicallyNormal(Absolute(setup.cwd, config.document_root))))
             \cup IF config.file = <<>> THEN {} ELSE Ancestors(Front(LogPath))
CanStart ==
  /\ Created \cap Files = {}
  /\ config.level \in LogLevels
  /\ config.file # <<>> => ~IsDirectory(LogPath, dirs \cup Created)

\* Router's and HttpServer's constructors, and run().
Start ==
  /\ stage = "loaded" /\ CanStart
  /\ documentRoot' = LexicallyNormal(Absolute(setup.cwd, config.document_root))
  /\ dirs' = dirs \cup Created
  /\ limit' = (config.max_header_bytes + config.max_body_bytes + 4) % Word
  /\ setup' = NoSetup
  /\ stage' = "head"
  /\ UNCHANGED <<config, room, request, taken, response>>

\* The port is in use, a directory cannot be created, the level is unknown or
\* the log cannot be opened.
StartFails ==
  /\ stage = "loaded" /\ stage' = "failed"
  /\ UNCHANGED <<setup, config, documentRoot, dirs, limit, room, request, taken, response>>

\* writeResponse: a HEAD request gets no body.
Respond(req, answer, close) ==
  /\ response' = [status |-> answer.status, close |-> close,
                  body |-> IF req.method = "HEAD" THEN NoBody ELSE answer.body]
  /\ stage' = "write"
  /\ request' = NoRequest

\* makeParseErrorResponse.
RespondError(req, status) == Respond(req, ErrorAnswer(StatusCodeForParseError(status)), TRUE)

\* async_read_until fills the buffer before it finds the end of the head.
HeadFillsBuffer(head) ==
  /\ stage = "head" /\ head.size > limit
  /\ stage' = "closed"
  /\ UNCHANGED <<setup, config, documentRoot, dirs, limit, room, request, taken, response>>

\* handleHead: a long head stays in the buffer, and is answered all the same.
LongHead(head) ==
  /\ stage = "head" /\ head.size \in config.max_header_bytes + 1 .. limit
  /\ RespondError(NoRequest, "HeaderTooLarge")
  /\ UNCHANGED <<setup, config, documentRoot, dirs, limit, room, taken>>

\* handleHead: the head is taken and parsed.
HandleHead(head) ==
  /\ stage = "head" /\ head.size <= limit /\ head.size <= config.max_header_bytes
  /\ taken' = "head"
  /\ LET parsed == ParseHttpRequestHead(head, config)
     IN  \/ /\ parsed.status # "Ok"
            /\ RespondError(parsed.request, parsed.status)
            /\ UNCHANGED room
         \/ /\ parsed.status = "Ok"
            /\ request' = parsed.request
            /\ room' = limit - head.size
            /\ stage' = "body"
            /\ UNCHANGED response
  /\ UNCHANGED <<setup, config, documentRoot, dirs, limit>>

\* The size of the body that is handed on when `already' bytes of it came with
\* the head: a read of the rest ends early, without an error, on a full buffer.
BodySize(already) ==
  LET rest == request.length - already IN already + (IF rest > limit THEN limit ELSE rest)

\* doReadBody and handleRequest.
HandleRequest(already) ==
  /\ stage = "body"
  /\ already <= request.length /\ already <= room
  /\ taken' = IF BodySize(already) = request.length THEN "all" ELSE "part"
  /\ LET status == AssignRequestBody(request, BodySize(already), config)
     IN  IF status # "Ok" THEN RespondError(request, status)
         ELSE IF HandleThrows(request, documentRoot, config.index, dirs)
              THEN Respond(request, ErrorAnswer(500), TRUE)
         ELSE Respond(request, Handle(request, documentRoot, config.index, dirs), ~request.keepAlive)
  /\ room' = 0
  /\ UNCHANGED <<setup, config, documentRoot, dirs, limit>>

\* writeResponse's handler: the next request, or the end.
Written ==
  /\ stage = "write"
  /\ stage' = IF response.close THEN "closed" ELSE "head"
  /\ taken' = "none" /\ response' = NoResponse
  /\ UNCHANGED <<setup, config, documentRoot, dirs, limit, room, request>>

Next ==
  \/ Load \/ Start \/ StartFails
  \/ \E head \in Heads : HeadFillsBuffer(head) \/ LongHead(head) \/ HandleHead(head)
  \/ \E already \in 0 .. request.length : HandleRequest(already)
  \/ Written

Spec == Init /\ [][Next]_vars
-----------------------------------------------------------------------------
\* The entries of a file with this key, in this section.
EntriesOf(lines, section, key) ==
  {i \in DOMAIN lines :
     /\ lines[i].kind = "entry" /\ lines[i].key = key
     /\ \E j \in 1 .. i - 1 : /\ lines[j].kind = "section" /\ lines[j].name = section
                              /\ \A k \in j + 1 .. i - 1 : lines[k].kind # "section"}

\* What the file says of a key: its last entry, or the default.
ValueOf(lines, section, key) ==
  LET entries == EntriesOf(lines, section, key)
  IN  IF entries = {} THEN Defaults[key] ELSE lines[CHOOSE i \in entries : \A j \in entries : j <= i].value

\* The directory whose config/server.ini is the one to use.
ProjectDirs == {dir \in Ancestors(setup.cwd) :
                  Len(setup.cwd) - Len(dir) \in 0 .. 2 /\ dir \o Requested \in DOMAIN setup.files}
ProjectDir == CHOOSE dir \in ProjectDirs : \A other \in ProjectDirs : Len(other) <= Len(dir)

\* A configuration that was loaded is the file's own, wherever the program is
\* started: the port it names, not truncated, and the document root it names,
\* seen from the project's directory; without a file it is the default one.
\* loadServerConfig with findConfigPath, parseIni, configBaseDirectory and
\* resolveRelativePath has to get all of that right together.
LoadedConfigIsSound ==
  stage = "loaded" =>
    IF ProjectDirs = {} THEN config = Defaults
    ELSE LET lines == setup.files[ProjectDir \o Requested]
         IN  /\ config.port \in 1 .. MaxPort
             /\ EntriesOf(lines, "server", "port") # {} =>
                  config.port \in Stoull(ValueOf(lines, "server", "port"))
             /\ config.document_root =
                  LexicallyNormal(Join(ProjectDir, ValueOf(lines, "server", "document_root")))

\* Whatever the request's path spells - escapes, "..", a second separator, a
\* directory - a static file that is served lies under the document root.
\* Router::resolveStaticPath tests it after decoding, joining and adding the
\* index file.
StaticFilesStayInRoot ==
  response.body.kind = "file" => IsPrefix(WithoutSlash(documentRoot), response.body.of)

\* A connection is kept only when the head and the whole body of the request
\* were taken off its stream, so that the next request is cut where it begins;
\* and a request that was read in full is not refused for its body any more:
\* what handleHead's parser let pass, assignRequestBody lets pass.
RequestsAreFramed ==
  stage = "write" =>
    /\ ~response.close => taken = "all"
    /\ taken = "all" => response.status \notin {400, 413, 415, 431}

\* The configured document root is never empty (server_config.cpp:204).  Not
\* so: the test comes after the value was resolved.
DocumentRootIsNamed ==
  stage = "loaded" /\ ProjectDirs # {} =>
    ValueOf(setup.files[ProjectDir \o Requested], "server", "document_root") # <<>>
=============================================================================
