\* Two tasks beside the setup and the unload: one in an attempt, one waiting
\* for the lock; three links, so that an orphan link leaves two to use.
CONSTANTS
    Workers = {w1, w2}
    Links = {l1, l2, l3}
    None = None
SPECIFICATION FairSpec
\* An entry that is unloaded, with no link left, stops.
CHECK_DEADLOCK FALSE
INVARIANTS
    TypeOK
    NoOrphanLink
    ServicesOfClient
    ConnectedIsShown
PROPERTIES
    AttemptsEnd
