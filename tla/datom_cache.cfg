SPECIFICATION DSpec
CONSTANTS
    None = None
    NoTx = NoTx
    NoDatom = NoDatom
    r1 = r1
    r2 = r2
    w1 = w1
    w2 = w2
    e1 = e1
    a = a
    txa = txa
    T = T
    txT = txT
    Clients = {w1, w2}
    Readers = {r1, r2}
    Backends = {"in-memory", "networked"}
    TripleIds = {1, 2}
    EntityIds = {e1}
    Attributes = {a, txa}
    EntityTypes = {T, txT}
    ReservedEntityIds = {}
    ReservedAttributes = {txa}
    ReservedEntityTypes = {txT}
    TransactionType = txT
    TxAttribute = txa
    CommandIds = {}
    InvalidCommandIds = {}
    Instants = {1}
    MaxPosition = 3
    Values <- MCValues
    Rules = {}
    CommitAnswers = {"Committed"}
    Requests <- MCRequests
SYMMETRY Symmetry
INVARIANTS
    CacheErrsOneSided
