CONSTANTS
    Senders = {t1}
    Destinations = {d1}
    Incoming = {i1}
    None = None
    MaxConns = 1
    MaxStarts = 1
SPECIFICATION Spec
INVARIANT StoppedIsClean
CHECK_DEADLOCK FALSE
