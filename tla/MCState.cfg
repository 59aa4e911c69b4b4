SPECIFICATION Spec
CONSTANTS
    db = db  web = web  p1 = p1  p2 = p2  p3 = p3
    up = up  again = again  down = down  health = health  reload = reload
    None = None
    Names <- TwoNames
    Pids <- EitherPid
    Containers <- OneContainer
    Actors <- Everyone
    Kind <- MCKind
    Baked <- Everyone
    Locked <- UpAndDown
    Configs <- OneOrBoth
    MaxFaults = 1
    Deaths = TRUE
INVARIANTS NoOrphan DownStops EntriesAreReal
CONSTRAINT FewAtOnce
\* Every activity but the health checker comes to an end.
CHECK_DEADLOCK FALSE
