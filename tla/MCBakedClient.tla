--------------------------- MODULE MCBakedClient ---------------------------
(***************************************************************************)
(* Two commands, and two or three daemon processes.                        *)
(***************************************************************************)
EXTENDS BakedClient

CONSTANTS build, test, d1, d2, d3

TwoCommands == {build, test}
OneCommand == {build}
TwoDaemons == {d1, d2}
ThreeDaemons == {d1, d2, d3}
=============================================================================
