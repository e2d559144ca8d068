SPECIFICATION FairSpec
CONSTANTS
    Names = {n1, n2, n3}
    Callbacks = {cb}
    Null = null
    Servers = {s1}
    NoServer = any
    TxIds = {1, 2}
    TableSize = 2
    MaxRetries = 1
    TTLs = {0, 1}
    SeqMod = 3
INVARIANTS QueriesSound
PROPERTIES ResolverImplemented 
