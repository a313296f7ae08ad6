---------------------------- MODULE MCEchoServer ----------------------------
(* Two clients of EchoServer: one that talks and one that only comes and   *)
(* goes.                                                                   *)
EXTENDS EchoServer, TLC

CONSTANTS talker, visitor

MCClients == {talker, visitor}
MCMaxBytes == talker :> 2 @@ visitor :> 0
=============================================================================
