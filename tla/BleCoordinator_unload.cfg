CONSTANTS
    Workers = {w1}
    Links = {l1, l2}
    None = None
SPECIFICATION Spec
CHECK_DEADLOCK FALSE
INVARIANTS
    UnloadDisconnects
