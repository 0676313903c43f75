SPECIFICATION DSpec
CONSTANTS
    EntityTypes <- MCTypes
    TypeOf <- MCTypeOf
    EntityOrder <- MCOrder
    InitialDb <- MCDb
    Values <- MCValues
    BadValue = 0
    ConfigObjects <- MCObjects
    InitialLive <- MCLive
    PageSize = 1
    Sessions <- MCSessions
    JsonDrafts <- MCJson
    OtherFacts <- MCOther
    MaxFlight = 2
INVARIANTS
    ScreenConsistent
    
CHECK_DEADLOCK FALSE
