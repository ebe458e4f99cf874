CONSTANTS
    Nodes = {n1, n2}
    RemoteAgents = {r1}
    None = None
    Period = 1
    Timeout = 1
    Limit = 2
    MaxAdds = 2
    MaxStarts = 2
SPECIFICATION FairSpec
INVARIANT NoDanglingRoute
PROPERTIES LivePeerKept DeadPeerForgotten
