\* The reading of the test suite: deleteApiKey stops a key at once.
SPECIFICATION Spec
CONSTANTS
    Tokens = {t1}
    Indexes = {x1}
    Users = {u1}
    Instances = {i1}
    Requests = {r1, r2}
    NoRow = NoRow
    NoKey = NoKey
    NoEntry = NoEntry
    NoVerdict = NoVerdict
    NoInstance = NoInstance
    POSITIVE_TTL = 2
    NEGATIVE_TTL = 1
    MAX_CACHE_ENTRIES = 1
    MaxTime = 3
PROPERTIES
    DeletedKeyStopsAtOnce
