CONSTANTS
    None = None
    Nobody = Nobody
    Bridge = Bridge
    Agents = {a1}
    Callers = {c1}
    Threads = {t}
    Externals = {}
    MapSize = 1
    MaxHistory = 2
    MaxAsks = 0
    MaxAnswers = 2
    MaxLines = 1
    MaxMessages = 4
    Ids <- McIds
    Keys <- McKeys
SPECIFICATION FairSpec
CONSTRAINT Scenarios
PROPERTIES RequestResolves
CHECK_DEADLOCK FALSE
