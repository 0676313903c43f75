SPECIFICATION CSpec
CONSTANTS
    None = None
    NoTx = NoTx
    NoDatom = NoDatom
    w1 = w1
    w2 = w2
    app = app
    e1 = e1
    ck = ck
    a = a
    nm = nm
    ps = ps
    txa = txa
    T = T
    ckT = ckT
    txT = txT
    init = init
    consumer = consumer
    Clients = {w1, w2, app}
    Workers = {w1, w2}
    Appenders = {app}
    TripleIds = {1, 2, 3, 4, 5, 6}
    EntityIds = {e1, ck}
    Attributes = {a, nm, ps, txa}
    EntityTypes = {T, ckT, txT}
    ReservedEntityIds = {ck}
    ReservedAttributes = {nm, ps, txa}
    ReservedEntityTypes = {ckT, txT}
    TransactionType = txT
    TxAttribute = txa
    CommandIds = {init}
    InvalidCommandIds = {}
    Instants = {1}
    MaxPosition = 5
    Values <- MCValues
    Rules = {}
    CommitAnswers = {"Committed", "TimedOut"}
    Requests <- MCRequests
    CheckpointEntity = ck
    CheckpointType = ckT
    NameAttribute = nm
    PositionAttribute = ps
    ConsumerName <- Name
    InitCommand = init
    FeedLimit = 2
    RangePageSize = 2
    KeyOrder <- InOrder
SYMMETRY Symmetry
VIEW WithoutAppenders
INVARIANTS
    OneCheckpoint
    NoSkippedTransaction
PROPERTIES
    CheckpointMovesForward
