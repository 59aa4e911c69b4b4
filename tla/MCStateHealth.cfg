SPECIFICATION FairSpec
CONSTANTS
    db = db  web = web  p1 = p1  p2 = p2  p3 = p3
    up = up  again = again  down = down  health = health  reload = reload
    None = None
    Names <- OneName
    Pids <- TwoPids
    Containers <- NoContainers
    Actors <- TwoUps
    Kind <- MCKind
    Baked <- Checker
    Locked <- NoRequests
    Configs <- Once
    MaxFaults = 0
    Deaths = TRUE
PROPERTY HealthRemovesDead
\* Every activity but the health checker comes to an end.
CHECK_DEADLOCK FALSE
