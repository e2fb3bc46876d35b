SPECIFICATION Spec
SYMMETRY Symmetric
CONSTANTS
    Instances = {i1}
    Migrators = {m1, m2}
    Releases = {2, 4}
    Settings <- MCSettings
    Millisecond <- Tenth
    NoOne = NoOne
INVARIANTS
    SchemaHasNoGap
    SchemaIsComplete
