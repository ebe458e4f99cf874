CONSTANTS
    Nameless = Nameless
    Senders = {s1}
    Names = {n1, n2}
    MaxRetries = 3
    MaxConns = 3
    MaxStarts = 2
SPECIFICATION FairSpec
INVARIANTS StatusHonest TableSound
PROPERTIES ImplementsRemoteCall CallsReturn
CHECK_DEADLOCK FALSE
