CONSTANTS
    Senders = {t1, t2}
    Destinations = {d1, d2}
    Incoming = {i1}
    None = None
    MaxConns = 2
    MaxStarts = 1
SPECIFICATION FairSpec
PROPERTY StopClosesHandlers
CHECK_DEADLOCK FALSE
