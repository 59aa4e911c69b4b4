---------------------------- MODULE MCInputWatch ----------------------------
(***************************************************************************)
(* Two inputs and a few edits: enough for a change during the first run,   *)
(* one while a timer is armed and one while its run is under way.          *)
(***************************************************************************)
EXTENDS InputWatch

CONSTANTS src, lib

MCPaths == {src, lib}
=============================================================================
