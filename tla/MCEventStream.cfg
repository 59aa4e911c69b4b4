SPECIFICATION FairStream
CONSTANTS
    lib = lib  tool = tool
    Emitters <- MCEmitters
    Silent <- ToolQuiet
    MaxEvents = 2
INVARIANTS BodiesWhole
PROPERTY AllDelivered
\* The run ends.
CHECK_DEADLOCK FALSE
