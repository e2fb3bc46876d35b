SPECIFICATION Spec
CONSTANTS
    Instances = {i1}
    Slots = {s1}
    Writers = {w1}
    LoadTimeout = 1
    CacheTTL = 3
    NegTTL = 2
    Failures = {"disconnect"}
    MaxVersion = 3
INVARIANT
    CoherentWhenSettled
