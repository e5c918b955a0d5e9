\* Two indexes, one of them with columns of its own.
SPECIFICATION PrefsSpec
CONSTANTS
    PrefIndexes = {x1, x2}
    Columns = {k1}
    Defaults = Defaults
    NoLoad = NoLoad
    NoSave = NoSave
    MaxActs = 2
\* Everything stops at its bounds.
CHECK_DEADLOCK FALSE
INVARIANTS
    DefaultsStayDefault
