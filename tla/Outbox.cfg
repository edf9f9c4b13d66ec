SPECIFICATION RelaySpec
CONSTANTS
    w1 = w1
    w2 = w2
    n1 = n1
    n2 = n2
    None = None
    Worker = {w1, w2}
    Node = {n1, n2}
    Character = {c1, c2}
    NodeOf <- MCNodeOf
    Decodable = {"RewardsGranted"}
    Batch = 2
    MaxEvents = 2
    MaxCrashes = 1
CHECK_DEADLOCK FALSE
INVARIANTS NoEventDropped PublishedInOrder StateAndEventsAgree OutboxIInv
PROPERTY BacklogDrains
