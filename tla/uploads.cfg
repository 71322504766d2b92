SPECIFICATION FocusedSpec
CONSTANTS
    Uploads = {u1, u2, u3}
    Images = {x1, x2}
    NoImage = NoImage
    NoHash = NoHash
    Viewers = {v1, v2}
    Archives <- ShortArchives
    MaxPages = 2
SYMMETRY Symmetry
INVARIANTS ImagesUnique PagesHaveFiles DerivativesWhole ArchiveInOrder AnswersAreTrue ConflictIsTrue
CHECK_DEADLOCK FALSE
