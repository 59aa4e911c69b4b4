SPECIFICATION Spec
CONSTANTS
    build = build  test = test  d1 = d1  d2 = d2  d3 = d3
    None = None
    Commands <- OneCommand
    Daemons <- TwoDaemons
    MaxKills = 1
    MaxStops = 0
INVARIANT NeverPanics
\* Commands end, and a daemon nobody talks to only waits.
CHECK_DEADLOCK FALSE
