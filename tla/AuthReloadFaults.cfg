\* The database may fail a reload: the retry of an outage is consumed.
SPECIFICATION Spec
CONSTANTS
    Writers = {w1}
    Issuers = {i1}
    NoIssuer = NoIssuer
    NoInstance = NoInstance
    NoJob = NoJob
    Boot = Boot
    Timer = Timer
    MaxVersion = 1
    MaxQueue = 2
INVARIANTS
    OutageNeverStrands
