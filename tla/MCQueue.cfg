SPECIFICATION FairSpec
CONSTANTS
    r1 = r1  r2 = r2  r3 = r3
    None = None  Replay = Replay
    Requests <- MCRequests
    Control <- OneControl
    MaxCrashes = 2
INVARIANTS Durable AnsweredNotReplayed OneRunAtATime AtMostOncePerLife
PROPERTIES EventuallyRun EventuallyAnswered
\* The requests are finitely many; when all are done the daemon only waits.
CHECK_DEADLOCK FALSE
