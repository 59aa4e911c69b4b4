---------------------------- MODULE MCHotReload ----------------------------
(***************************************************************************)
(* A Bakefile that goes between two contents and one that does not parse,  *)
(* with one daemon that changes and one that comes and goes.               *)
(***************************************************************************)
EXTENDS HotReload

CONSTANTS before, after, broken, db, web, v1, v2, t1, t2

MCContents == {before, after, broken}
MCInvalid == {broken}
MCNames == {db, web}
MCDaemon == [c \in {before, after} |->
               [n \in MCNames |-> CASE n = db -> (IF c = before THEN v1 ELSE v2)
                                    [] n = web -> (IF c = before THEN None ELSE v1)]]
TwoReloads == {t1, t2}
=============================================================================
