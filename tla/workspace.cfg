SPECIFICATION BoundedSpec
CONSTANTS
    None = None
    Other = Other
    Broken = Broken
    a = a
    b = b
    fa = fa
    fb = fb
    Ids = {a, b}
    Files = {fa, fb}
    FileName <- FileNames
    ItemFile = fb
    Library <- Plainer
    TypedLines <- Typed
    TypedHeads <- Heads
    PageIds = {a}
    Page = Page
    NoFile = NoFile
    Absent = Absent
    Saved = Saved
    MaxMade = 1
    Budgets <- Plans
INVARIANTS UneditedSaveKeeps CompleteHasEveryRecipe GotoFindsRecipes DirectivesIdentify
PROPERTIES OnlyPostCreates SavesKeepHistory
CHECK_DEADLOCK FALSE
