\* A cancelled read, or a failing index, ends an approval without a release.
SPECIFICATION Spec
CONSTANTS
    d1 = d1  d2 = d2  b1 = b1  b2 = b2  t1 = t1  t2 = t2
    Docs = {d1, d2}
    Sums = {b1, b2}
    Bytes <- MCDistinct
    Paths = {1, 2}
    MaxNames = 2
    MaxReviews = 2
    Reviewers = {t1, t2}
    Worker = Worker
    ApprovalSettings = {TRUE, FALSE}
    AllowClear = TRUE
    AllowCrash = FALSE
    None = None
INVARIANT ClaimOwned
CHECK_DEADLOCK FALSE
