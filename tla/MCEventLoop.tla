----------------------------- MODULE MCEventLoop -----------------------------
(* The instance of EventLoop that TLC checks: see MCEventLoop.cfg.         *)
EXTENDS EventLoop, TLC
=============================================================================
