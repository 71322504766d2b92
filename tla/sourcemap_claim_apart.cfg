SPECIFICATION MappedSpec
CONSTANTS
    N = 1
    Readable = {}
    PageCount = 2
    Titles = {1, 2, 3}
    Numbers = {2, 5, 9}
    Kinds = {"contents", "other"}
    Blank = Blank
INVARIANT SectionsNeverOverlap
CHECK_DEADLOCK FALSE
