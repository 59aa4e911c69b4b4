SPECIFICATION FairSpec
CONSTANTS
    app = app  test = test  db = db  run = run  own = own  front = front  back = back
    None = None
    Targets <- MCTargets
    Daemons <- MCDaemons
    Names <- MCNames
    Nets <- MCNets
    Steps <- MCSteps
    Registry <- MCRegistry
INVARIANTS CleanedUp OwnNetworks HonestResult
PROPERTY Returns
\* Everybody is done in the end.
CHECK_DEADLOCK FALSE
