---------------------------- MODULE MCWebServer -----------------------------
(* A project /s with a public directory p that holds i and d/i, a secret /s/k *)
(* and a config/server.ini that differs from a plain one in one entry or line.*)
EXTENDS WebServer, TLC

MCDefaults ==
  [port |-> 5, threads |-> 2, document_root |-> <<"public">>, index |-> <<"i">>,
   keep_alive_timeout_ms |-> 9, max_header_bytes |-> 3, max_body_bytes |-> 4,
   level |-> "info", file |-> <<"logs", "log">>, console |-> TRUE]

At(names) == Root \o names
Ini == At(<<"s", "config", "server.ini">>)
MCFiles == {Ini, At(<<"s", "k">>), At(<<"s", "p", "i">>), At(<<"s", "p", "d", "i">>)}
MCDirs == {Root, At(<<"s">>), At(<<"s", "config">>), At(<<"s", "p">>), At(<<"s", "p", "d">>),
           At(<<"s", "b">>), At(<<"s", "b", "x">>), At(<<"s", "b", "x", "y">>)}

Section(name) == [kind |-> "section", name |-> name]
Entry(key, value) == [kind |-> "entry", key |-> key, value |-> value]
Skip == [kind |-> "skip"]
Junk == [kind |-> "junk"]

PlainIni == <<Section("server"), Skip, Entry("document_root", <<"p">>), Entry("port", Numeral("", 3))>>

Sizes == {Numeral("", 0), Numeral("", 2), Numeral("", Word), Numeral("-", 1), NoNumeral}
Ports == {Numeral("+", 1), Numeral("", 6), Numeral("", 7), Numeral("-", 1), Numeral("", 0)}
Roots == {<<>>, <<".">>, <<"p", "">>, <<"..", "s", "p">>, At(<<"s", "p">>), At(<<"s", "k">>)}

Variants ==
  {<<Entry("port", n)>> : n \in Ports} \cup {<<Entry(key, n)>> :
     key \in {"threads", "keep_alive_timeout_ms", "max_header_bytes", "max_body_bytes"}, n \in Sizes}
  \cup {<<Entry("document_root", root)>> : root \in Roots}
  \cup {<<Entry("index", index)>> : index \in {<<>>, <<"d">>, <<"..", "k">>, <<"d", "i">>}}
  \cup {<<Section("log"), Entry("level", level)>> : level \in {"off", "loud"}}
  \cup {<<Section("log"), Entry("console", word)>> : word \in {"no", "maybe"}}
  \cup {<<Section("log"), Entry("file", file)>> : file \in {<<>>, <<"p">>, <<"k", "log">>}}
  \cup {<<Section("log"), Entry("port", Numeral("", 4))>>, <<Junk>>, <<Section("")>>, <<Entry("", <<>>)>>}

MCInis == {PlainIni} \cup {PlainIni \o variant : variant \in Variants}
          \cup {<<Entry("port", Numeral("", 3))>>}

MCSetups == [cwd : {At(<<"s">>), At(<<"s", "b">>), At(<<"s", "b", "x">>), At(<<"s", "b", "x", "y">>), At(<<"s", "config">>)},
             files : {Ini :> ini : ini \in MCInis}]

Get(path) == [size |-> 3, words |-> 3, method |-> "GET", path |-> path, version |-> "HTTP/1.1", lines |-> <<>>]
Post(lines) == [Get(EchoPath) EXCEPT !.method = "POST", !.lines = lines]
Named(names) == [n \in DOMAIN names |-> Plain(names[n])]
SeqsUpTo(S, n) == UNION {[1 .. k -> S] : k \in 1 .. n}

Odd == [sep : {"/", "%2f"}, name : {"..", "d", "k", "nul", "back", "too long"}, form : {"plain", "escaped", "broken"}]
RequestPaths == {Named(names) : names \in SeqsUpTo({"", ".", "..", "d", "i", "k", "s", "p"}, 3)}
           \cup {Named(names) : names \in {"", "d"} \X {"s", ".."} \X {"p", "k", ".."} \X {"i", "k", "d", ".."}}
           \cup SeqsUpTo(Odd, 2) \cup {<<>>, StatusPath, EchoPath}

Line(key, value) == [key |-> key, value |-> value]
Lines == {Line("connection", {"close"}), Line("connection", {"keep-alive"}), Line("content-type", "text/plain"),
          Line("content-type", "image/png"), Line("", ""), Line("no colon", ""), Line("host", "")}
           \cup {Line("content-length", Numeral("", n)) : n \in {0, 1, 4, 5, Word}}
           \cup {Line("content-length", Numeral("-", n)) : n \in {1, Word - 1}} \cup {Line("content-length", NoNumeral)}

MCHeads ==
  {Get(path) : path \in RequestPaths}
  \cup {[Get(<<Plain("i")>>) EXCEPT !.size = size] : size \in {0, 4, 6, 7, 11, 12}}
  \cup {[Get(<<Plain("i")>>) EXCEPT !.words = words] : words \in {0, 2, 4}}
  \cup {[Get(path) EXCEPT !.method = method, !.version = version] :
          path \in {<<Plain("i")>>, StatusPath, EchoPath}, method \in {"GET", "HEAD", "POST", "PUT", "G@T"},
          version \in {"HTTP/1.0", "HTTP/1.1", "HTTP/2"}}
  \cup {Post(lines) : lines \in SeqsUpTo(Lines, 3)}
=============================================================================
