--------------------------- MODULE MCDaemonState ---------------------------
(***************************************************************************)
(* Who touches state.json.                                                 *)
(***************************************************************************)
EXTENDS DaemonState

CONSTANTS db, web, p1, p2, p3, up, again, down, health, reload

TwoNames == {db, web}
OneName == {db}
TwoPids == {p1, p2}
EitherPid == {p1, p3}
ThreePids == {p1, p2, p3}

MCKind == [a \in Actors |-> CASE a \in {up, again} -> "up" [] a = down -> "down"
                              [] a = health -> "health" [] a = reload -> "reload"]

\* Requests to the daemon, and its health checker.
UpAndDown == {up, down}
\* Everything in the daemon; commands run with --no-daemon next to a running daemon.
UpAndHealth == {up, health}
Everyone == {up, down, health, reload}
TwoUps == {up, again, health}
Checker == {health}
TwoUpRequests == {up, again}
OneRequest == {up}
NoRequests == {}
NoContainers == {}
OneContainer == {p3}
\* Bounds: a hot reload runs only while there was no fault, and beside the checker or
\* requests, not both.
FewAtOnce == Running(reload) =>
    /\ faults = 0
    /\ Running(health) => ~Running(up) /\ ~Running(down)

\* The workflow names the daemons.  One Bakefile has one daemon, twice, the other both.
Says(w) == [daemons |-> {w[k] : k \in DOMAIN w}, workflow |-> w]
OneOrBoth == {Says(<<db, db>>), Says(<<db, web>>)}
Repeated == {Says(<<db, db>>)}
Once == {Says(<<db>>)}
Both == {Says(<<db, web>>)}
=============================================================================
