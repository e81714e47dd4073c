CONSTANTS
    NumPages = 6
    Sizes = {1, 2, 3}
    Aligns = {1, 2}
SPECIFICATION FirstUseSpec
INVARIANT PagesExact
CHECK_DEADLOCK FALSE
