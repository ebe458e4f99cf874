CONSTANTS
    a1 = a1
    a2 = a2
    request = request
    notice = notice
    back = back
    shout = shout
    routed = routed
    far = far
    pattern = pattern
    elsewhere = elsewhere
    None = None
    Agents <- McAgents
    Addresses <- McAddresses
    Envelope <- McEnvelope
    Routes <- McRoutes
    Users = {u1}
    Messages = {request, back, routed}
    Remote = {elsewhere, a2}
    MayLeave = {a2}
    Capacity = 1
    MaxAttempts <- McOnce
    MaxTime = 0
    ClockStepsBack = FALSE
SPECIFICATION FairSpec
INVARIANTS DeliveredMeansPlaced OnlyTrappedStall
PROPERTIES FanOutComplete SendsEndOrAreTrapped MailIsReceived
CHECK_DEADLOCK FALSE
