SPECIFICATION Spec
CONSTANTS
    Instances = {i1, i2}
    Contexts = {c1, c2, c3}
    NoContext = NoContext
    AppContext = AppContext
    Builds = {"v4", "dual"}
    MaxCount = 8
INVARIANTS
    ContextOutlivesUsers
    MutexOutlivesUsers
CHECK_DEADLOCK FALSE
SYMMETRY Symmetry
