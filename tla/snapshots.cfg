SPECIFICATION Spec
CHECK_DEADLOCK FALSE
CONSTANTS
    Writers = {w1, w2}
    Adapters = {"postgres", "sqlite"}
    Templates <- MCTemplates
    Facts <- MCFacts
    Instants = {1, 2}
    MaxTx = 3
    MaxBackfills = 1
    Null = Null
INVARIANTS
    
    CurrentIsNewest
PROPERTIES
    
    PinnedReadsRepeat
SYMMETRY WriterSymmetry
