---------------------------- MODULE ServerConfig ----------------------------
(***************************************************************************)
(* server_config.cpp: how the web server finds its INI file and what        *)
(* configuration it makes of it.  A line of the file is a record            *)
(*   [kind |-> "skip"]                    a blank line or a comment         *)
(*   [kind |-> "section", name |-> ...]   [name], "" for an empty one       *)
(*   [kind |-> "entry", key, value]       key = value                       *)
(*   [kind |-> "junk"]                    a line without '='                *)
(* in the lower case and without the blanks that parseIni removes.  The     *)
(* value of a number is a numeral of StdLib, of a path or a file a path,    *)
(* and a word otherwise.                                                    *)
(***************************************************************************)
EXTENDS StdLib, FiniteSets

CONSTANTS MaxPort,   \* 65535
          Defaults   \* the initial values of HttpServerConfig

ASSUME MaxPortAssumption == MaxPort \in Nat
ASSUME DefaultsAssumption ==
  Defaults.max_body_bytes \in Nat /\ Defaults.document_root \in Paths /\ Defaults.index \in Paths

LogLevels == {"trace", "debug", "info", "warn", "warning", "error", "off"}

\* The data with an entry, which replaces an earlier one of that section and key.
WithEntry(data, at, value) ==
  [place \in DOMAIN data \cup {at} |-> IF place = at THEN value ELSE data[place]]

\* parseIni: what a line adds to the section and the data read so far.
WithLine(ini, line) ==
  [section |-> IF line.kind = "section" THEN line.name ELSE ini.section,
   data    |-> IF line.kind = "entry"
               THEN WithEntry(ini.data, <<ini.section, line.key>>, line.value)
               ELSE ini.data]

\* The first bad line fails the whole file.
IsBad(line, ini) ==
  \/ line.kind = "junk"
  \/ line.kind = "section" /\ line.name = ""
  \/ line.kind = "entry" /\ (ini.section = "" \/ line.key = "")

Unread == [section |-> "", data |-> <<>>]

Inis(lines) ==
  LET after[n \in 0 .. Len(lines)] ==
        IF n = 0 THEN {Unread}
        ELSE {WithLine(ini, lines[n]) : ini \in {i \in after[n - 1] : ~IsBad(lines[n], i)}}
  IN  after

ParseIni(lines) == {ini.data : ini \in Inis(lines)[Len(lines)]}

\* parseString, parseSize and parseBool.
ParseString(data, section, key, default) ==
  IF <<section, key>> \in DOMAIN data THEN data[<<section, key>>] ELSE default

ParseSize(data, key, default) ==
  IF <<"server", key>> \in DOMAIN data THEN Stoull(data[<<"server", key>>]) ELSE {default}

ParseBool(data, key, default) ==
  LET word == ParseString(data, "log", key, IF default THEN "true" ELSE "false")
  IN  CASE word \in {"true", "1", "yes", "on"}  -> {TRUE}
        [] word \in {"false", "0", "no", "off"} -> {FALSE}
        [] OTHER                                -> {}

\* findConfigPath: the requested file, or one of that name in the current
\* directory or in one of the two above it.
FindConfigPath(cwd, requested, exists) ==
  LET Ups(n) == [i \in 1 .. n |-> ".."]
      At(n) == LexicallyNormal(Join(cwd \o Ups(n), requested))
      found == {n \in IF IsAbsolute(requested) THEN {0} ELSE 0 .. 2 : At(n) \in exists}
  IN  {At(n) : n \in {k \in found : \A l \in found : k <= l}}

\* A bug: config/ is taken for the base, as any other directory.
BaseDirectoryOfFile(configPath) == ParentPath(configPath)

\* configBaseDirectory: the directory of the file, or the one above a config/.
ConfigBaseDirectory(configPath) ==
  LET dir == ParentPath(configPath)
  IN  IF Last(dir) = "config" THEN ParentPath(dir) ELSE dir

ResolveRelativePath(base, path) == LexicallyNormal(Join(base, path))

\* A bug: the upper end is left to the conversion to unsigned short.
PortIsNotZero(port) == port # 0

\* The range of the port; an unsigned short keeps it as it is.
PortIsValid(port) == port \in 1 .. MaxPort

ToUnsignedShort(port) == port % (MaxPort + 1)

\* The configuration a file makes, with the two paths resolved against its project
\* directory.  The emptiness tests come after the paths were resolved.
ConfigOf(path, data) ==
  LET Size(key) == ParseSize(data, key, Defaults[key])
      base == ConfigBaseDirectory(path)
      log == ParseString(data, "log", "file", Defaults.file)
  IN  {[port |-> ToUnsignedShort(port), threads |-> IF threads = 0 THEN 1 ELSE threads,
        keep_alive_timeout_ms |-> timeout, max_header_bytes |-> header, max_body_bytes |-> body,
        document_root |-> root, index |-> index,
        level |-> ParseString(data, "log", "level", Defaults.level), console |-> console,
        file |-> IF log = <<>> THEN log ELSE ResolveRelativePath(base, log)] :
         port \in {p \in Size("port") : PortIsValid(p)}, threads \in Size("threads"),
         timeout \in Size("keep_alive_timeout_ms"), body \in Size("max_body_bytes"),
         header \in Size("max_header_bytes") \ {0},
         console \in ParseBool(data, "console", Defaults.console),
         root \in {ResolveRelativePath(base,
                     ParseString(data, "server", "document_root", Defaults.document_root))} \ {<<>>},
         index \in {ParseString(data, "server", "index", Defaults.index)} \ {<<>>}}

\* loadServerConfig: the defaults without a file, otherwise the file's values.
LoadServerConfig(cwd, requested, files) ==
  LET found == FindConfigPath(cwd, requested, DOMAIN files)
  IN  IF found = {} THEN {Defaults}
      ELSE UNION {UNION {ConfigOf(path, data) : data \in ParseIni(files[path])} : path \in found}
=============================================================================
