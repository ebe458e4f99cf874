CONSTANTS
    a1 = a1
    a2 = a2
    request = request
    notice = notice
    back = back
    shout = shout
    routed = routed
    far = far
    pattern = pattern
    elsewhere = elsewhere
    None = None
    Agents <- McAgents
    Addresses <- McAddresses
    Envelope <- McEnvelope
    Routes <- McRoutes
    Users = {u1}
    Messages = {notice, far}
    Remote = {elsewhere}
    MayLeave = {a2}
    Capacity = 1
    MaxAttempts <- McOnce
    MaxTime = 1
    ClockStepsBack = TRUE
SPECIFICATION Spec
INVARIANT FailedIsDeadLettered
CHECK_DEADLOCK FALSE
