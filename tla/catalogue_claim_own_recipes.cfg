SPECIFICATION RunsSpec
CONSTANTS
    i1 = i1
    i2 = i2
    p1 = p1
    p2 = p2
    Imports = {i1, i2}
    Pages = {p1, p2}
    PageImport <- PageInEach
    Slots = {}
    Recipes = {kimchi}
    Drafts = {}
    Runs = {r1, r2}
    NoRun = NoRun
    NoImport = NoImport
    ByUser = ByUser
    MaxMade = 1
PROPERTY RunsTouchOwnRecipes
CHECK_DEADLOCK FALSE
