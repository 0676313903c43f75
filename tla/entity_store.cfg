SPECIFICATION ESpec
CONSTANTS
    None = None
    NoTx = NoTx
    NoDatom = NoDatom
    e1 = e1
    e2 = e2
    a = a
    h = h
    txa = txa
    T = T
    txT = txT
    w1 = w1
    Clients = {w1, env}
    Callers = {w1}
    Writers = {env}
    Listers = {l1}
    TripleIds = {1, 2, 3, 4, 5}
    EntityIds = {e1, e2}
    Attributes = {a, h, txa}
    EntityTypes = {T, txT}
    ReservedEntityIds = {}
    ReservedAttributes = {txa}
    ReservedEntityTypes = {txT}
    TransactionType = txT
    TxAttribute = txa
    CommandIds = {}
    InvalidCommandIds = {}
    Instants = {1, 2}
    MaxPosition = 3
    Rules = {}
    DocType = T
    Exposed = {a}
    Required = {a}
    PageLimit = 1
    Values <- MCValues
    CommitAnswers = {"Committed"}
    Requests <- MCRequests
    Bodies <- MCBodies
    EntityOrder <- MCEntityOrder
INVARIANTS
    PagesFormSnapshot
PROPERTIES
    DeleteLeavesNothing
    ReplaceIsExclusive
