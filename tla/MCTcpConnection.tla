--------------------------- MODULE MCTcpConnection ---------------------------
(* The instances of TcpConnection that TLC checks: MCTcpConnection.cfg and *)
(* the smaller ones for single claims of the code's comments.              *)
EXTENDS TcpConnection, TLC
=============================================================================
