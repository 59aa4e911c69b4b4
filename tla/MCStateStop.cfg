SPECIFICATION Spec
CONSTANTS
    db = db  web = web  p1 = p1  p2 = p2  p3 = p3
    up = up  again = again  down = down  health = health  reload = reload
    None = None
    Names <- OneName
    Pids <- TwoPids
    Containers <- NoContainers
    Actors <- UpAndDown
    Kind <- MCKind
    Baked <- UpAndDown
    Locked <- UpAndDown
    Configs <- Once
    MaxFaults = 0
    Deaths = FALSE
INVARIANT StopsAreSeen
\* Every activity but the health checker comes to an end.
CHECK_DEADLOCK FALSE
