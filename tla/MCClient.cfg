SPECIFICATION FairSpec
CONSTANTS
    build = build  test = test  d1 = d1  d2 = d2  d3 = d3
    None = None
    Commands <- TwoCommands
    Daemons <- ThreeDaemons
    MaxKills = 1
    MaxStops = 1
INVARIANTS OneRoute DoneMeansRun
PROPERTY CommandsEnd
\* Commands end, and a daemon nobody talks to only waits.
CHECK_DEADLOCK FALSE
