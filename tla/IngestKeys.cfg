\* One process: two tokens compete for one cache entry, and a lookup races an
\* administrator.  Two processes with a cache each: what a flush on one leaves
\* in the other.
SPECIFICATION PartsSpec
CONSTANTS
    Tokens = {t1, t2}
    Indexes = {x1}
    Users = {u1}
    Instances = {i1, i2}
    Requests = {r1}
    NoRow = NoRow
    NoKey = NoKey
    NoEntry = NoEntry
    NoVerdict = NoVerdict
    NoInstance = NoInstance
    POSITIVE_TTL = 2
    NEGATIVE_TTL = 1
    MAX_CACHE_ENTRIES = 1
    MaxTime = 3
SYMMETRY Interchangeable
INVARIANTS
    WellFormed
    StalenessBounded
    RevokedUnlessRaced
PROPERTIES
    ImplementsRevocation
