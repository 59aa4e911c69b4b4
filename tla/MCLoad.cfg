SPECIFICATION SpecLoaded
CONSTANTS
    MaxName = 4
    Files <- MCFiles
    Main = 1
    Loaders <- TwoLoaders
    Scenarios <- MCScenarios
    MaxSaves = 1
    Root = 1
    Given <- AllGraphs
    Texts <- MCTexts
INVARIANTS AsWritten DepsResolve OrderIsClosure Layered
PROPERTIES LoadIsReference LoadsEnd
\* Loads and searches return.
CHECK_DEADLOCK FALSE
