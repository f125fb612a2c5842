\* Two callers, two settings, two protocol versions of which the device
\* speaks the second.
CONSTANTS
    Callers = {c1, c2}
    Configs = {s1, s2}
    Conns = {k1, k2}
    Versions = 2
    Speaks = 2
    NoConn = NoConn
    Nowhere = Nowhere
SPECIFICATION Spec
SYMMETRY Symmetry
INVARIANTS
    TypeOK
    OneSocket
    ConnectedToConfigured
    AvailableMeansConnected
    ConnectedMeansAvailable
    ClosedIsClean
    ReadBackScheduled
PROPERTIES
    NoJobAfterShutdown
    ImplementsLink
