SPECIFICATION FairSpec
CONSTANTS
    before = before  after = after  broken = broken
    db = db  web = web  v1 = v1  v2 = v2  t1 = t1  t2 = t2
    None = None
    Contents <- MCContents
    Invalid <- MCInvalid
    Names <- MCNames
    Daemon <- MCDaemon
    Reloads <- TwoReloads
    Renames = TRUE
    MaxEdits = 2
    MaxForces = 1
INVARIANTS Settled OneProcess
PROPERTY EditsTakeEffect
\* The user may leave the file alone.
CHECK_DEADLOCK FALSE
