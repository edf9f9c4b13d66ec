SPECIFICATION FairSpec
CONSTANTS
    NoClient = NoClient
    NoCharacter = NoCharacter
    BufSize = 1
    Client = {c1, c2}
    Character = {x1}
CHECK_DEADLOCK FALSE
INVARIANTS ClosedOnce MappingHeld
PROPERTIES HubServes DroppedClientsEnd
