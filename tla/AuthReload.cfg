\* Two settings requests, two issuers that come and go, OIDC_* that changes over
\* restarts, reloads that fail on the database: the order of the reloads, and
\* what the retry restores when the event loop is fair.
SPECIFICATION FairSpec
CONSTANTS
    Writers = {w1, w2}
    Issuers = {i1, i2}
    NoIssuer = NoIssuer
    NoInstance = NoInstance
    NoJob = NoJob
    Boot = Boot
    Timer = Timer
    MaxVersion = 3
    MaxQueue = 3
INVARIANTS
    TypeOK
    AckedIsLive
    MismatchWatched
PROPERTIES
    NeverBackwards
    SsoRestored
