SPECIFICATION Spec
CONSTANTS
    None = None
    Other = Other
    Broken = Broken
    a = a
    b = b
    fa = fa
    fb = fb
    Ids = {a, b}
    Files = {fa, fb}
    FileName <- FileNames
    ItemFile = fb
    Library <- WithoutNotes
    TypedLines <- Typed
    TypedHeads <- Heads
    PageIds = {a}
    Page = Page
    NoFile = NoFile
    Absent = Absent
    Saved = Saved
    MaxMade = 1
    Budgets <- OneRun
INVARIANT BlockIsComment
CHECK_DEADLOCK FALSE
