---------------------------- MODULE MCContainers ----------------------------
(***************************************************************************)
(* Two targets of one run that name a common network, in different         *)
(* orders, and a daemon that names one of them too.                        *)
(***************************************************************************)
EXTENDS Containers

CONSTANTS app, test, db, run, own, front, back

MCTargets == {app, test}
MCDaemons == {db}
MCNames == {front, back}
MCNets == [a \in Actors |-> CASE a = app -> <<front, back>>
                              [] a = test -> <<back>>
                              [] a = db -> <<back, front>>]
MCSteps == [t \in Targets |-> IF t = test THEN 2 ELSE 1]
MCRegistry == [a \in Actors |-> IF a \in Daemons THEN own ELSE run]
=============================================================================
