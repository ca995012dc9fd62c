\* Three rows for the two games, and no request that fails.
SPECIFICATION Spec
CONSTANTS
    e1 = e1
    e2 = e2
    Events = {e1, e2}
    First = e1
    Day <- BackToBack
    Today = 1
    Rows = {1, 2, 3}
    Quotes = {1, 2}
    Faults = {{}}
    None = None
PROPERTY BackToBacksKept
CHECK_DEADLOCK FALSE
