--------------------------- MODULE MCEventStream ---------------------------
(***************************************************************************)
(* Two dependencies of one level that emit their events concurrently, and  *)
(* which of them run silent steps.                                         *)
(***************************************************************************)
EXTENDS EventStream

CONSTANTS lib, tool

MCEmitters == {lib, tool}
ToolQuiet == {tool}
=============================================================================
