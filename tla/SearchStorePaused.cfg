\* A search fails while a fold is open.
SPECIFICATION Spec
CONSTANTS
    Indexes = {x1}
    NoIndex = NoIndex
    NoHits = NoHits
    NoHistogram = NoHistogram
    MaxPages = 2
    Totals = {1, 3}
    MaxClock = 3
INVARIANTS
    PausedIsExplained
