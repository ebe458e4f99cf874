CONSTANTS
    Senders = {t1, t2}
    Destinations = {d1, d2}
    Incoming = {i1, i2}
    None = None
    MaxConns = 2
    MaxStarts = 2
SPECIFICATION FairSpec
CONSTRAINT Scenarios
INVARIANTS OpenIsPooled StoppedIsQuiet
PROPERTY StopEnds
CHECK_DEADLOCK FALSE
