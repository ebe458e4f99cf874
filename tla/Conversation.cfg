CONSTANTS
    None = None
    Nobody = Nobody
    Bridge = Bridge
    Agents = {a1, a2}
    Callers = {c1, c2}
    Threads = {t}
    Externals = {x1}
    MapSize = 1
    MaxHistory = 2
    MaxAsks = 2
    MaxAnswers = 2
    MaxLines = 1
    MaxMessages = 4
    Ids <- McIds
    Keys <- McKeys
SPECIFICATION FairSpec
CONSTRAINT Scenarios
INVARIANTS TypeOK AnswersGoHome AnswersAreNotLeaked FuturesSettled HistoryIsRecent
PROPERTIES LinesAreRead
CHECK_DEADLOCK FALSE
