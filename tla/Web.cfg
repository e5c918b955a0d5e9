\* The web app, one part at a time.
SPECIFICATION WebSpec
CONSTANTS
    PrefIndexes = {x1, x2}
    Columns = {k1}
    Defaults = Defaults
    NoLoad = NoLoad
    NoSave = NoSave
    MaxActs = 3
    LogRows <- WebLogs
    Corpora <- WebCorpora
    Anchors <- WebAnchors
    LateRows <- WebLate
    NoRow = NoRow
    PAGE_SIZE = 2
    WINDOW_SECONDS = 2
    MAX_EMPTY_SLIDES = 2
    MAX_OFFSET = 3
    MaxLate = 1
    MaxFetchSeq = 2
    Scopes = {f1, f2}
    NoScope = NoScope
    FirstSpans = {10, 20, 30}
    LateSpans = {5, 25}
    EXPLORE_PAGE_SIZE = 1
    MAX_EXPLORE_OFFSET = 1
    MaxRequests = 6
    ViewIndexes = {x1, x2}
    ViewNames = {n1, n2}
    NoViewId = NoViewId
    MaxViewActs = 4
    SpanIds = {s1, s2, s3}
    NoSpanId = NoSpanId
    Times = {0, 1, 3}
    Unreadable = Unreadable
    MAX_TRACE_SPANS = 3
    z1 = z1
    z2 = z2
    d1 = d1
    d2 = d2
    g1 = g1
    e1 = e1
    PanelIndexes = {z1, z2}
    Queries = {g1, g2}
    RangesAsked = {e1, e2}
    PanelFields = {d1, d2}
    FieldsOf <- WebFieldsOf
    NoKey = NoKey
    MaxPanelActs = 3
    MaxFetches = 2
\* Every part stops at its bounds.
CHECK_DEADLOCK FALSE
SYMMETRY Interchangeable
INVARIANTS
    WebTypeOK
    EditsLandWhereMade
    SettledShowsStored
    Gapless
    EndIsTrue
    NoSpinnerForever
    PagesOfScope
    ListIsStored
    WaterfallComplete
    SelfTimeIsUncovered
    ValuesAreCurrent
