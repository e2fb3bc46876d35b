SPECIFICATION FairSpec
CONSTANTS
    Instances = {i1}
    Slots = {s1, s2}
    Writers = {w1}
    LoadTimeout = 1
    CacheTTL = 2
    NegTTL = 2
    Failures = {"cache", "store", "disconnect", "evict"}
    MaxVersion = 3
PROPERTIES
    EventuallyCoherent
    ReadsFinish
