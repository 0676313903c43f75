SPECIFICATION Spec
CONSTANTS
    None = None
    NoTx = NoTx
    NoDatom = NoDatom
    e1 = e1
    e2 = e2
    a = a
    r = r
    txa = txa
    T = T
    U = U
    txT = txT
    Clients = {w1}
    TripleIds = {1, 2, 3, 4}
    EntityIds = {e1, e2}
    Attributes = {a, r, txa}
    EntityTypes = {T, U, txT}
    ReservedEntityIds = {}
    ReservedAttributes = {txa}
    ReservedEntityTypes = {txT}
    TransactionType = txT
    TxAttribute = txa
    CommandIds = {}
    InvalidCommandIds = {}
    Instants = {1, 2, 3}
    MaxPosition = 3
    Values <- MCValues
    Rules <- MCRules
    CommitAnswers = {"Committed"}
    Requests <- MCRequests
PROPERTIES
    EnforcedRulesKept
