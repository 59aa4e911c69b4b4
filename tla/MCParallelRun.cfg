SPECIFICATION FairSpec
CONSTANTS
    a = a  b = b  c = c  d = d  e = e
    docker = docker  db = db
    Unnamed = Unnamed  NoTarget = NoTarget
    Targets <- MCTargets
    Deps <- MCDeps
    Level <- MCLevel
    MaxParallel = 2
    Pool <- MCPool
    Mutex <- MCMutex
    Guarded <- MCGuarded
    Incremental <- MCIncremental
    Cancellable = TRUE
INVARIANTS DepsSettled LimitsKept CleanReturn HonestVerdict
PROPERTIES Termination ImplementsDagExec
\* Run returns and nothing is left to do.
CHECK_DEADLOCK FALSE
