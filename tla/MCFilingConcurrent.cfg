\* Two reviewers and the worker file at once; the approval setting is toggled
\* and the inbox may be cleared.
SPECIFICATION Spec
CONSTANTS
    d1 = d1  d2 = d2  b1 = b1  b2 = b2  t1 = t1  t2 = t2
    Docs = {d1, d2}
    Sums = {b1, b2}
    Bytes <- MCDistinct
    Paths = {1, 2}
    MaxNames = 2
    MaxReviews = 2
    Reviewers = {t1, t2}
    Worker = Worker
    ApprovalSettings = {TRUE, FALSE}
    AllowClear = TRUE
    AllowCrash = FALSE
    None = None
SYMMETRY ReviewerSymmetry
INVARIANTS ClaimExclusive ApprovedHasRow RejectedNeverFiled
PROPERTIES ResolvedFinal
CHECK_DEADLOCK FALSE
