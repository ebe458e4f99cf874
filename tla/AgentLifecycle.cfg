CONSTANTS
    i1 = i1
    i2 = i2
    i3 = i3
    x = x
    y = y
    c = c
    None = None
    Instances <- MCInstances
    Ids = {x, y}
    IdOf <- MCIdOf
    Capabilities = {c}
    CapsOf <- MCCapsOf
    MaxConnects = 4
    MaxMail = 1
SPECIFICATION FairSpec
INVARIANTS TypeOK DirectoryConsistent OwnerHoldsBroker OrderlyService
PROPERTIES OrderlyMembership LoopsEnd MailIsTaken
CHECK_DEADLOCK FALSE
