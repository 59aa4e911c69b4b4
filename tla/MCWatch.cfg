SPECIFICATION FairWatch
CONSTANTS
    src = src  lib = lib  None = None
    Paths <- MCPaths
    MaxEdits = 3
INVARIANT NoticedIsRun
PROPERTY ChangesAreRun
\* The process exits.
CHECK_DEADLOCK FALSE
