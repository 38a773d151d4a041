SPECIFICATION RangesSpec
CONSTANTS
    Entries <- MCEntries
    Excludes <- MCExcludes
    Servers <- MCServers
    MaxNumber = 33
    MaxEdits = 3
    MaxCalls = 3
    MaxStarts = 2
INVARIANTS
    ListIsWanted
    ToldWasAsked
PROPERTIES
    AskedIsTold
CHECK_DEADLOCK FALSE
