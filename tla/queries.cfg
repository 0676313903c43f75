CONSTANTS
    DefaultDepth = 2
    HashThreshold = 1
    Dialects = {"sqlite", "postgresql"}
    FactInputs <- MCFactInputs
    Batches <- MCBatches
    MaxPos = 2
    Queries <- MCQueries
    Permuted <- MCPermuted
    PagedQueries <- MCPaged
    TextBytes <- MCTextBytes
    TypeOf <- MCTypeOf
    None = None
SPECIFICATION Spec
INVARIANTS
    
    
    ClauseOrderIrrelevant
    ScansExact
CHECK_DEADLOCK FALSE
