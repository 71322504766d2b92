SPECIFICATION FocusedSpec
CONSTANTS
    i1 = i1
    i2 = i2
    p1 = p1
    p2 = p2
    Imports = {i1, i2}
    Pages = {p1, p2}
    PageImport <- PageInEach
    Slots = {s1}
    Recipes = {kimchi}
    Drafts = {d1}
    Runs = {r1, r2}
    NoRun = NoRun
    NoImport = NoImport
    ByUser = ByUser
    MaxMade = 2
SYMMETRY RunSymmetry
INVARIANTS StatusTellsRecipes GraphIsOneRun
PROPERTIES MadeTracksCookLog HistoryKept DeletedIsUnplanned DraftCommitsRecipe AcceptedContentKept EditsOutliveLaterRuns
CHECK_DEADLOCK FALSE
