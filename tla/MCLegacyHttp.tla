---------------------------- MODULE MCLegacyHttp ----------------------------
(* Clients of LegacyHttp: messages with what they mean.                    *)
EXTENDS LegacyHttp

Crlf == <<"CR", "LF">>

Meaning(method, path, query, version, headers) ==
  [method |-> method, path |-> path, query |-> query, version |-> version,
   headers |-> headers]

\* GET / HTTP/1.1 without headers.
Plain == [bytes |-> <<"GET", "SP", "/", "SP", "1.1">> \o Crlf \o Crlf,
          request |-> Meaning("GET", <<"/">>, <<>>, "1.1", <<>>)]

\* POST /?q HTTP/1.1 with Connection: close, and a line without a colon.
Closing == [bytes |-> <<"POST", "SP", "/", "?", "q", "SP", "1.1">> \o Crlf
                        \o <<"Connection", ":", "SP", "close">> \o Crlf
                        \o <<"junk">> \o Crlf \o Crlf,
            request |-> Meaning("POST", <<"/">>, <<"q">>, "1.1",
                                <<"Connection">> :> <<"close">>)]

\* An old client that keeps the connection, with a header sent twice.
Old == [bytes |-> <<"HEAD", "SP", "/", "SP", "1.0">> \o Crlf
                    \o <<"Connection", ":", "x">> \o Crlf
                    \o <<"Connection", ":", "SP", "Keep-Alive", "SP">> \o Crlf \o Crlf,
        request |-> Meaning("HEAD", <<"/">>, <<>>, "1.0",
                            <<"Connection">> :> <<"Keep-Alive">>)]

\* An unknown method, and a version with a stray CR behind it.
Unknown == [bytes |-> <<"PUT", "SP", "SP", "1.1", "CR">> \o Crlf \o Crlf,
            request |-> Meaning("Invalid", <<>>, <<>>, "Unknown", <<>>)]

\* A request line without a path.
Malformed == [bytes |-> <<"POST", "SP", "1.1">> \o Crlf, request |-> NoRequest]

MCBytes == {"GET", "POST", "HEAD", "PUT", "1.0", "1.1", "/", "?", "q", "Connection",
            "close", "Keep-Alive", "x", "junk", ":", "SP", "CR", "LF"}
MCMessages == {Plain, Closing, Old, Unknown, Malformed}
MCBodies == {<<"page">>, <<>>}
=============================================================================
