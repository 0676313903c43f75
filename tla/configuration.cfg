SPECIFICATION ConfigurationSpec
CONSTANTS
    NoSchema = NoSchema
    NoParent = NoParent
    NoRef = NoRef
    Absent = Absent
    SUBJECT = SUBJECT
    Missing = Missing
    Unregistered = Unregistered
    Services = {"store", "validation", "reactor", "cache", "types"}
    SlotOrder <- MCSlotOrder
    ProvenCompatible <- MCProvenCompatible
    Callers = {"c1", "c2"}
    Requests <- MCRequests
    MaxCalls = 3
    Validators = {"v1"}
    Subjects = {"s1", "s2"}
    Values = {"a", "b"}
    Snapshots = {"p1", "p2", "p3"}
    Malformed = {"p3"}
    Accepts <- MCAccepts
    Unique = {"p1"}
    Overlap = FALSE
    MaxWrites = 2
    MaxRuns = 2
    DayLength = 2
    Interests = {"k1"}
    Questions <- MCQuestions
    People = {"e1"}
    Entities = {"e1"}
    Attributes = {"a", "b"}
    RuleKeys = {"r1", "r2"}
    Bodies <- MCBodies
    Instants = {1, 2, 3}
    FactValues = {1}
    MaxChanges = 3
    TypeFamily <- MCTypeFamily
    ValueFamily <- MCValueFamily
    PatternRank <- MCPatternRank
CHECK_DEADLOCK FALSE
INVARIANTS
    
    
    
    
    CompatibleIsProven
