\* One reviewer, approval always required, no clearing of the inbox; the
\* server may crash at any point.
SPECIFICATION FairSpec
CONSTANTS
    d1 = d1  d2 = d2  b1 = b1  b2 = b2  t1 = t1  t2 = t2
    Docs = {d1, d2}
    Sums = {b1, b2}
    Bytes <- MCDistinct
    Paths = {1, 2}
    MaxNames = 2
    MaxReviews = 2
    Reviewers = {t1}
    Worker = Worker
    ApprovalSettings = {TRUE}
    AllowClear = FALSE
    AllowCrash = TRUE
    None = None
INVARIANTS RowsBacked
PROPERTIES KeepsCustody OnlyRejectDiscards JobEnds RequestEnds
CHECK_DEADLOCK FALSE
