SPECIFICATION Spec
CONSTANTS
    n1 = n1
    p1 = p1
    p2 = p2
    c1 = c1
    c2 = c2
    c3 = c3
    Node = {n1}
    Request = {p1, p2}
    NodeOf <- MCNodeOf
    ann = ann
    ANN = ANN
    k1 = k1
    User = {ann, ANN}
    LimiterKey = {k1}
    KeyOf <- MCKeyOf
    NoUser = NoUser
    Name = {c1, c2, c3}
    MaxFailures = 2
    MaxCharacters = 1
    MaxTokens = 2
    MaxLogins = 3
    MaxCrashes = 1
SYMMETRY Symmetry
CHECK_DEADLOCK FALSE
INVARIANTS OneSessionPerLogin LoginLimited CharactersLimitedUpToOverlap
