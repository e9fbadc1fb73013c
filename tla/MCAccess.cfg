\* Two exchanges on a clock of six seconds; two launchers, three ports.
SPECIFICATION AccessSpec
CONSTANTS
    x1 = x1  x2 = x2  l1 = l1  l2 = l2
    Exchanges = {x1, x2}
    AttemptLimit = 3
    AttemptWindow = 3
    FailureLimit <- MCFailureLimit
    FailureWindow <- MCFailureWindow
    Lockout <- MCLockout
    MaxTime = 6
    MaxStamps = 5
    Launchers = {l1, l2}
    Installations <- MCInstallations
    Ports = {p1, p2, p3}
    HomePort = p1
    Nobody = Nobody
    Foreign = Foreign
    MaxKept = 1
INVARIANTS
    LockoutEnds
    NonceOnce
    RefusedForReason
    ServersAccountedFor
PROPERTIES
    LaunchEnds
CHECK_DEADLOCK FALSE
