SPECIFICATION Spec
CONSTANTS
    None = None
    NoTx = NoTx
    NoDatom = NoDatom
    e1 = e1
    sys = sys
    a = a
    txa = txa
    T = T
    sysT = sysT
    txT = txT
    c1 = c1
    c2 = c2
    badc = badc
    Clients = {w1}
    TripleIds = {1, 2, 3, 4, 5, 6, 7, 8}
    EntityIds = {e1, sys}
    Attributes = {a, txa}
    EntityTypes = {T, sysT, txT}
    ReservedEntityIds = {sys}
    ReservedAttributes = {txa}
    ReservedEntityTypes = {sysT, txT}
    TransactionType = txT
    TxAttribute = txa
    CommandIds = {c1, c2, badc}
    InvalidCommandIds = {badc}
    Instants = {1, 2}
    MaxPosition = 3
    Rules = {}
    Values <- MCValues
    CommitAnswers = {"Committed", "TimedOut", None}
    Requests <- MCRequests
INVARIANTS
    TypeOK
    JournalFaithful
    CommandCommitsOnce
    NoTornTransaction
PROPERTIES
    SnapshotStable
    FeedAppendOnly
    ImplementsVersions
