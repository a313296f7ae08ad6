------------------------------- MODULE Router -------------------------------
(***************************************************************************)
(* router.cpp: the answer to a request that was read in full.  A request's *)
(* path is a sequence of pieces, each a separator and the name that        *)
(* follows, where `sep' tells how the separator is written ("/" or "%2f")  *)
(* and `form' how the name is: plain, escaped (some characters as %XX) or  *)
(* broken (a % without two digits).  Of the names the router treats        *)
(* apart, "nul" and "back" stand for those that hold a NUL or a backslash. *)
(***************************************************************************)
EXTENDS StdLib, FiniteSets

CONSTANT Files   \* the regular files, as normal absolute paths

NoBody == [kind |-> "none", of |-> Root]
Answer(status, body) == [status |-> status, body |-> body]
ErrorBody == [kind |-> "error", of |-> Root]
ErrorAnswer(status) == Answer(status, ErrorBody)

Plain(name) == [sep |-> "/", name |-> name, form |-> "plain"]
StatusPath == <<Plain("api"), Plain("status")>>
EchoPath == <<Plain("api"), Plain("echo")>>

\* urlDecodePath: the names of the path, or nothing.
UrlDecodePath(path) ==
  IF \E i \in DOMAIN path : path[i].form = "broken" THEN {}
  ELSE {[i \in DOMAIN path |-> path[i].name]}

\* The names of a path that are not empty.
NonEmpty(names) ==
  LET kept[n \in 0 .. Len(names)] ==
        IF n = 0 THEN <<>>
        ELSE IF names[n] = "" THEN kept[n - 1] ELSE Append(kept[n - 1], names[n])
  IN  kept

\* The path that std::filesystem makes of the decoded text after its first
\* separator: it is absolute when a second separator follows.
FilePath(names) ==
  LET rest == NonEmpty(names)[Len(names)]
      slash == IF rest # <<>> /\ Last(names) = "" THEN <<"">> ELSE <<>>
  IN  (IF Len(names) > 1 /\ Head(names) = "" THEN Root ELSE <<>>) \o rest \o slash

IsDirectory(path, dirs) == WithoutSlash(path) \in dirs
IsRegularFile(path) == path \in Files

\* is_directory throws when the kernel refuses the name of an entry.
IsRefused(path, dirs) ==
  \E n \in 2 .. Len(path) : path[n] = "too long" /\ SubSeq(path, 1, n - 1) \in dirs

\* A bug: only a path shorter than the root is taken for an escape.
IsAboveRoot(root, candidate) == Len(candidate) < Len(root)

\* pathEscapesRoot.
PathEscapesRoot(root, candidate) == Head(LexicallyRelative(candidate, root)) = ".."

\* resolveStaticPath without its last test: the candidate, if the path has one.
Candidates(path, root, index) ==
  LET usable == {names \in UrlDecodePath(path) : {"nul", "back"} \cap {names[i] : i \in DOMAIN names} = {}}
      relatives == {IF FilePath(names) = <<>> THEN index ELSE FilePath(names) : names \in usable}
  IN  {LexicallyNormal(Join(root, relative)) : relative \in relatives}

ResolveStaticPath(path, root, index, dirs) ==
  LET resolved == {IF IsDirectory(candidate, dirs) THEN LexicallyNormal(Join(candidate, index)) ELSE candidate :
                     candidate \in Candidates(path, root, index)}
  IN  {candidate \in resolved : ~PathEscapesRoot(root, candidate)}

HandleStatus(request) ==
  IF request.method \notin {"GET", "HEAD"} THEN ErrorAnswer(405)
  ELSE Answer(200, [kind |-> "status", of |-> Root])

HandleEcho(request) ==
  IF request.method # "POST" THEN ErrorAnswer(405)
  ELSE Answer(200, [kind |-> "echo", of |-> Root])

HandleStaticFile(request, root, index, dirs) ==
  LET resolved == ResolveStaticPath(request.path, root, index, dirs)
  IN  IF request.method \notin {"GET", "HEAD"} THEN ErrorAnswer(405)
      ELSE IF resolved = {} THEN ErrorAnswer(403)
      ELSE IF \A path \in resolved : ~IsRegularFile(path) THEN ErrorAnswer(404)
      ELSE Answer(200, [kind |-> "file", of |-> CHOOSE path \in resolved : TRUE])

\* Router::handle, when it throws nothing.
Handle(request, root, index, dirs) ==
  CASE request.method \notin {"GET", "HEAD", "POST"} -> ErrorAnswer(405)
    [] request.method \in {"GET", "HEAD", "POST"} /\ request.path = StatusPath -> HandleStatus(request)
    [] request.method \in {"GET", "HEAD", "POST"} /\ request.path = EchoPath -> HandleEcho(request)
    [] OTHER -> HandleStaticFile(request, root, index, dirs)

\* Whether resolveStaticPath throws.
HandleThrows(request, root, index, dirs) ==
  /\ request.method \in {"GET", "HEAD"}
  /\ request.path \notin {StatusPath, EchoPath}
  /\ \E path \in Candidates(request.path, root, index) : IsRefused(path, dirs)
=============================================================================
