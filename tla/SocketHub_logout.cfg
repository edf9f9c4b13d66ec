SPECIFICATION Spec
CONSTANTS
    NoClient = NoClient
    NoCharacter = NoCharacter
    BufSize = 1
    Client = {c1, c2}
    Character = {x1, x2}
CHECK_DEADLOCK FALSE
PROPERTY DropsReported
