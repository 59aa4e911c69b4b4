---------------------------- MODULE MCBakedQueue ----------------------------
(***************************************************************************)
(* Requests for the daemon: two that run something and one that is         *)
(* answered at once, or three that run something.                          *)
(***************************************************************************)
EXTENDS BakedQueue

CONSTANTS r1, r2, r3

MCRequests == {r1, r2, r3}
OneControl == {r3}
=============================================================================
