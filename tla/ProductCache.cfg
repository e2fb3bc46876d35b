SPECIFICATION Spec
CONSTANTS
    Instances = {i1, i2}
    Slots = {s1, s2}
    Writers = {w1, w2}
    LoadTimeout = 1
    CacheTTL = 3
    NegTTL = 2
    Failures = {"cache", "store", "disconnect"}
    MaxVersion = 3
SYMMETRY Symmetric
INVARIANTS
    NoOldFill
    ReadsSeeInvalidated
    SettledIsFresh
