CONSTANTS
    Hosts = {h1, h2}
    Strangers = {h2}
    Nowhere = Nowhere
    Limit = 2
    MaxInterval = 1
SPECIFICATION FairSpec
PROPERTIES
    FoundAgain
    AsksForKey
