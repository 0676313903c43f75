SPECIFICATION Spec
CHECK_DEADLOCK FALSE
CONSTANTS
    Definitions <- MCDefinitions
    FactInputs <- MCFactInputs
    Materializers = {m1, m2}
    None = None
    ValidTimes = {1, 2}
    Forever = 9
    MaxPosition = 4
    Overlays <- MCOverlays
INVARIANTS
    RunsAreTrue
PROPERTIES
    
    HeadNeverRegresses
SYMMETRY MaterializerSymmetry
