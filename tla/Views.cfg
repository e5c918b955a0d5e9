\* A view is created, and another index selected before the answer.
SPECIFICATION ViewsSpec
CONSTANTS
    ViewIndexes = {x1, x2}
    ViewNames = {n1}
    NoViewId = NoViewId
    MaxViewActs = 3
\* Everything stops at its bounds.
CHECK_DEADLOCK FALSE
INVARIANTS
    ViewsOfThisIndex
