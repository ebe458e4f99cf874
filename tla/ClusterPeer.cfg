CONSTANTS
    Calls = {c1, c2}
    Threshold = 2
    Recovery = 1
    MaxRetries = 1
    MaxCount = 3
    MaxCancels = 1
SPECIFICATION FairSpec
INVARIANTS TypeOK
PROPERTIES ImplementsRemoteCall TripsExactly WindowRespected Recovers
