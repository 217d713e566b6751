CONSTANTS
    a = a
    b = b
    lobby = lobby
    den = den
    Clients = {a, b}
    Owners = {a}
    Lowercase = {b}
    Names = {lobby}
    FirstPort = 1
    BasePort = 2
    MaxShort = 3
    MaxRooms = 2
    MaxConns = 6
    MaxSaid = 2
    MaxQuits = 1
SPECIFICATION Spec
CHECK_DEADLOCK FALSE
INVARIANT LeavingIsHarmless
