\* The bus: two files, then another or a Retry, watched by a page that may be slow
\* and may connect twice, or lose its connection, at any moment.  The strip: two
\* files, two steps, five events, one connection made anew.
SPECIFICATION ProgressSpec
CONSTANTS
    Sizes <- JobSizes
    MaxJobs = 2
    MaxSteps = 1
    c1 = c1
    Pages = {c1}
    MaxConnects = 2
    BufferSize = 4
    QueueSize = 5
    None = None
    FileIds = {f1, f2}
    StepIds = {s1, s2}
    NoFile = NoFile
    MaxEvents = 5
    MaxHellos = 1
INVARIANTS
    TypeOK
    NothingMissed
    StripHonest
    StripSettles
PROPERTIES
    BusyEnds
CHECK_DEADLOCK FALSE
