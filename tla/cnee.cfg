SPECIFICATION CneeSpec
CONSTANTS
    Options <- MCOptions
    Values <- MCValues
    HandWritten <- MCHandWritten
    MaxProcesses = 3
    MaxOptions = 5
    Numbers = {"default", "1"}
    Truths = {"true", "1"}
    Falsehoods = {"false"}
    Sizes = {"640x480"}
    Pairs = {"1,2"}
    Lists = {"2-3", "4-6", "7-31", "21"}
    Displays = {"d"}
    Plugins = {"d"}
INVARIANTS
    WrittenIsRead
    OwnIsReadable
PROPERTIES
    RefusedRunsNot
CHECK_DEADLOCK FALSE
