SPECIFICATION Spec
CONSTANTS
    Spins = {"events-to-record", "seconds-to-record", "max-threshold"}
    Toggles = {"sync", "recall-window-position"}
    Combos = {"stop-key"}
    Items <- MCItems
    Prefixes <- MCPrefixes
    Predefined <- MCPredefined
    SpinValues = {"5"}
    KeyNames = {"F1"}
    HandWritten <- MCHandWritten
    Recordings <- MCRecordings
    MaxActs = 4
    Numbers = {"default", "-1", "0", "5", "20", "-20", "100"}
    Truths = {"true", "1"}
    Falsehoods = {"false"}
    Sizes = {"640x480"}
    Pairs = {"1,2"}
    Lists = {"2-3", "4-6", "7-31", "21", "1", "2", "31", "33"}
    Displays = {}
    Plugins = {}
INVARIANTS
    GuiReflects
    EventsRecorded
    KeysGrabbed
    LostAfterSession
CHECK_DEADLOCK FALSE
