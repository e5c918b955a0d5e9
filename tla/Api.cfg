\* The API, one part at a time.
SPECIFICATION ApiSpec
CONSTANTS
    Members = {h1}
    ServiceAccounts = {v1}
    KeyIds = {i1, i2}
    Readers = {r1}
    KeyAdmins = {a1, a2}
    NoOwner = NoOwner
    NoKeyId = NoKeyId
    Processes = {q1, q2}
    EnvSecret = EnvSecret
    NoSecret = NoSecret
    CONNECT_RETRY_COUNT = 2
    PROBE_RETRY = 2
    MaxBoots = 2
    MaxOutages = 1
    Identities <- ApiIdentities
    People = {"alice", "bob", "carol"}
    Person <- ApiPerson
    NoIdentity = NoIdentity
    NoOne = NoOne
    NoChange = NoChange
    MaxSignIns = 2
    MaxChanges = 3
    SettingFields = {f1, f2}
    NotRead = NotRead
    MaxGenerations = 2
    MaxWrites = 2
    NewFields = {"g1", "g2"}
    Unset = Unset
    Mask = Mask
    Secrets = {k1, k2}
    NoSource = NoSource
    NotFetched = NotFetched
    MaxConfigActs = 3
    BatchSize = 2
    MaxAttempts = 3
    SourceCount = 3
    SpanStores <- HealthStores
    LateSpansOf <- HealthLateSpans
    Services = {"a", "b"}
    AllServices = AllServices
    Absent = Absent
    Empty = ""
    Others = Others
    SERVICE_LIMIT = 2
    Unanswered = Unanswered
    CANDIDATES = 2
    NAMES = 2
    ENDPOINT_LIMIT = 4
\* Every part stops at its bounds.
CHECK_DEADLOCK FALSE
SYMMETRY Interchangeable
INVARIANTS
    ApiTypeOK
    KeysRightful
    OneSecretKept
    NothingOfOldIdentity
    RightPerson
    
    SettingsLand
    FieldsMappedOnce
    UntouchedFormKeeps
    SourceAsAsked
    BatchesAccountedFor
    NumbersAddUp
