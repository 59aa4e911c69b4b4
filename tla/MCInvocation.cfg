SPECIFICATION Spec
CONSTANTS
    Targets <- MCTargets
    Deps <- MCDeps
    Order <- MCOrder
    Docker = TRUE
    Configs <- MCConfigs
    Root = "d"
    Requests <- MCRequests
INVARIANTS
    RunsAsPlanned
    ExitHonest
PROPERTIES
    ImplementsDagExec
