SPECIFICATION Spec
CONSTANTS
    Targets <- MCTargets
    Deps <- MCDeps
    Order <- MCOrder
    Docker = TRUE
    Configs <- MCConfigs
    Root = "d"
    Requests <- MCRequests
INVARIANT DryRunRunsNothing
