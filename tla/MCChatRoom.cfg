CONSTANTS
    a = a
    b = b
    lobby = lobby
    den = den
    Clients = {a, b}
    Owners = {a}
    Lowercase = {b}
    Names = {lobby, den}
    FirstPort = 1
    BasePort = 3
    MaxShort = 4
    MaxRooms = 3
    MaxConns = 10
    MaxSaid = 2
    MaxQuits = 1
SPECIFICATION OpenSpec
CHECK_DEADLOCK FALSE
INVARIANT ChatTypeOK
INVARIANT OwnPorts
INVARIANT RoomIsolated
INVARIANT HeardInOrder
PROPERTY DeleteEnds
