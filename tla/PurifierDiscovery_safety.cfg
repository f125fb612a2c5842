CONSTANTS
    Entries = {e1, e2, e3}
    Scans = {s1}
    Listeners = {l1, l2, l3, l4}
    Ports = 2
    None = None
    MaxUsers = 4
SPECIFICATION Spec
CONSTRAINT UsersBounded
SYMMETRY Symmetry
INVARIANTS
    TypeOK
    NeverUndercounted
    Served
PROPERTIES
    SharedKeepsListening
