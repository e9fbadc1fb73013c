\* One of six parts at a time: two logins and two handlers; two uploads of one
\* name; one media job; two processes on one settings file; two switches; two
\* callers of the daemon.
SPECIFICATION ServicesSpec
CONSTANTS
    Logins = {o1, o2}
    Requests = {h1, h2}
    MaxTurns = 2
    Scans = {s1, s2}
    MaxName = 2
    ListLimit = 1
    Outside = {s2}
    NoScan = NoScan
    Processes = {"server", "watcher"}
    Values = {v1}
    Default = Default
    FoldersFail = TRUE
    Routes = {r1, r2}
    b1 = b1
    Backends = {b1, b2}
    NoBackend = NoBackend
    Callers = {c1, c2}
    Models = {m1}
INVARIANTS
    ChoiceStands
    StoredTokenLive
    UploadKept
    
    MediaHonest
    SettingsKept
    ProviderAgrees
    PullIsSeen
PROPERTIES
    MediaEnds
CHECK_DEADLOCK FALSE
