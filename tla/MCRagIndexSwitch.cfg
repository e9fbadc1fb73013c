\* One filing, overtaken by one switch of the backend; a search looks on.
SPECIFICATION Spec
CONSTANTS
    d1 = d1  d2 = d2  b1 = b1  b2 = b2  i1 = i1  i2 = i2  s1 = s1
    Docs = {d1}
    Backends = {b1, b2}
    Dim <- OneLength
    Known = {b2}
    Indexers = {i1}
    Searchers = {s1}
    MaxSwitches = 1
    None = None
INVARIANTS
    MismatchDetected
