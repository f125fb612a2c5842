\* One caller and one library object; no symmetry, which liveness excludes.
CONSTANTS
    Callers = {c1}
    Configs = {s1, s2}
    Conns = {k1}
    Versions = 2
    Speaks = 1
    NoConn = NoConn
    Nowhere = Nowhere
SPECIFICATION FairSpec
PROPERTIES
    Recovers
    LinkIsLive
