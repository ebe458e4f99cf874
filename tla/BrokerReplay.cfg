CONSTANTS
    a1 = a1
    a2 = a2
    request = request
    notice = notice
    back = back
    shout = shout
    routed = routed
    far = far
    pattern = pattern
    elsewhere = elsewhere
    None = None
    Agents <- McAgents
    Addresses <- McAddresses
    Envelope <- McEnvelope
    Routes <- McRoutes
    Users = {u1, u2}
    Messages = {notice, shout, far}
    Remote = {elsewhere}
    MayLeave = {a2}
    Capacity = 2
    MaxAttempts <- McResent
    MaxTime = 1
    ClockStepsBack = FALSE
SPECIFICATION Spec
INVARIANTS TypeOK NoDuplicateDelivery SenderOrder
           FailedMeansUndelivered FailedIsKept
PROPERTIES ImplementsMailbox ImplementsMembership
CHECK_DEADLOCK FALSE
SYMMETRY UserSymmetry
