CONSTANTS
    Hosts = {h1, h2}
    Strangers = {h2}
    Nowhere = Nowhere
    Limit = 2
    MaxInterval = 2
SPECIFICATION Spec
INVARIANTS
    TypeOK
    NoNeedlessReauth
    OutageFromScratch
PROPERTIES
    RunningReauthIsConsecutive
