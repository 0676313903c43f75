SPECIFICATION SubscriptionsSpec
CONSTANTS
    Var = Var
    Wildcard = Wildcard
    NoType = NoType
    NoDatabase = NoDatabase
    NoHash = NoHash
    alice = alice
    bob = bob
    name = name
    age = age
    size = size
    emp = emp
    dept = dept
    f1 = f1
    f2 = f2
    q1 = q1
    q2 = q2
    s1 = s1
    s2 = s2
    reach = reach
    qAlice = qAlice
    qAll = qAll
    qSizes = qSizes
    c1 = c1
    c2 = c2
    d1 = d1
    w1 = w1
    w2 = w2
    h1 = h1
    h2 = h2
    TypeOf <- MCTypeOf
    PrefixOf <- MCPrefixOf
    AttributeOf <- MCAttributeOf
    Databases = {d1}
    Connections = {c1, c2}
    QueryIds = {q1}
    Queries <- MCQueries
    TextOf <- MCTextOf
    Changes <- MCChanges
    Events <- MCEvents
    Attachments <- MCAttachments
    MaxPending = 2
    Writers = {w1, w2}
    FactIds = {f1, f2}
    Batches <- MCBatches
    Fibers = {w1, w2}
    Hashes = {h1, h2}
    OwnIds <- MCOwnIds
    Keys <- MCKeys
    Signals <- MCSignals
    MaxVersion = 3
    QueryFamily <- MCQueryFamily
INVARIANTS
    InvalidationSound
    HubKeepsWhatIsDue
    
    
    OnlyTheRearmWindowLosesHints
PROPERTIES
    DueIsSettled
    WatchedBumpsArrive
CHECK_DEADLOCK FALSE
