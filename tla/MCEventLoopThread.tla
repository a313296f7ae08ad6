-------------------------- MODULE MCEventLoopThread --------------------------
(* The instances of EventLoopThread that TLC checks.                       *)
EXTENDS EventLoopThread, TLC
=============================================================================
