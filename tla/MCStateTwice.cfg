SPECIFICATION Spec
CONSTANTS
    db = db  web = web  p1 = p1  p2 = p2  p3 = p3
    up = up  again = again  down = down  health = health  reload = reload
    None = None
    Names <- TwoNames
    Pids <- ThreePids
    Containers <- NoContainers
    Actors <- TwoUpRequests
    Kind <- MCKind
    Baked <- TwoUpRequests
    Locked <- TwoUpRequests
    Configs <- Both
    MaxFaults = 0
    Deaths = FALSE
INVARIANT AllRecorded
\* Every activity but the health checker comes to an end.
CHECK_DEADLOCK FALSE
