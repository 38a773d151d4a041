SPECIFICATION TripSpec
CONSTANTS
    Keys = {"kA", "kStop"}
    Buttons = {"b"}
    Recordings <- MCRecordings
    Places = {0, 1}
    MaxActs = 2
    Displays = {"second"}
    Size = 2
    Asked = {4}
    Unset = 1
    KeyOf <- MCKeyOf
    Under <- MCUnder
    Texts <- MCTexts
    Fakings <- MCFakings
    Scripts <- MCScripts
    MaxFakings = 2
    MaxRecordings = 1
INVARIANTS
    SameActs
    SamePlaces
    LastIsKept
    TypedRight
PROPERTIES
    NothingHeld
CONSTRAINTS
    FilesApart
CHECK_DEADLOCK FALSE
