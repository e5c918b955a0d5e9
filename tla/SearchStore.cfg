\* View changes, sort toggles, ticks and pages over two indexes.
SPECIFICATION Spec
CONSTANTS
    Indexes = {x1, x2}
    NoIndex = NoIndex
    NoHits = NoHits
    NoHistogram = NoHistogram
    MaxPages = 2
    Totals = {1, 3}
    MaxClock = 3
SYMMETRY Interchangeable
INVARIANTS
    TypeOK
    ShownIsCurrent
    BusyIffInFlight
