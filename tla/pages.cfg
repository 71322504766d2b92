SPECIFICATION FocusedSpec
CONSTANTS
    N = 4
    Readable = {1, 4, 6, 15}
    PageCount = 3
    Titles = {1, 2, 3}
    Numbers = {2, 5}
    Kinds = {"opener", "other"}
    Blank = Blank
INVARIANTS EstimatesRise EstimatesFit EveryPageHasASection ScannedSectionsApart
CHECK_DEADLOCK FALSE
