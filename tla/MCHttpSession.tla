---------------------------- MODULE MCHttpSession ----------------------------
(* The instances of HttpSession that TLC checks: two workers in            *)
(* MCHttpSession.cfg, one worker in MCHttpSessionStale.cfg.                *)
EXTENDS HttpSession, TLC
=============================================================================
