\* Two flows, a purifier and another device, two addresses tried at once.
CONSTANTS
    Searches = {f1, f2}
    h1 = h1
    h2 = h2
    p1 = p1
    l1 = l1
    Hosts = {h1, h2}
    NoHost = NoHost
    Concurrency = 2
    Ids <- MCIds
    Podiums <- MCPodiums
    At <- MCAt
    NoId = NoId
    None = None
    MaxSubmissions = 2
SPECIFICATION Spec
INVARIANTS
    TypeOK
    OverIsOver
    KeyRegistered
    StepsHaveTheirData
PROPERTIES
    NeverReplaced
    OnlyProven
    RemovalStopsSearch
    Answered
