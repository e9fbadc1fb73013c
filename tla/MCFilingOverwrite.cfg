\* Two approvals pick the same free archive name.
SPECIFICATION Spec
CONSTANTS
    d1 = d1  d2 = d2  b1 = b1  b2 = b2  t1 = t1  t2 = t2
    Docs = {d1, d2}
    Sums = {b1, b2}
    Bytes <- MCDistinct
    Paths = {1, 2}
    MaxNames = 2
    MaxReviews = 2
    Reviewers = {t1, t2}
    Worker = Worker
    ApprovalSettings = {TRUE}
    AllowClear = FALSE
    AllowCrash = FALSE
    None = None
PROPERTY ArchiveNeverOverwritten
CHECK_DEADLOCK FALSE
