\* Two requests, three releases, any number of crashes and failures.
SPECIFICATION Spec
CONSTANTS
    t1 = t1
    t2 = t2
    Threads = {t1, t2}
    LastRelease = 3
    Contents <- ThreeReleases
    ListFile = 1
    VersionFile = 4
    Foreign = Foreign
    None = None
INVARIANTS
    InstalledWhole
    InstalledComplete
    HalfInstallNoticed
