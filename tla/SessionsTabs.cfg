SPECIFICATION Spec
CONSTANTS
    Sockets = {s1, s2}
    Few = {s1, s2}
    Rooms = {gate, cave}
    SafeRooms = {gate}
    Portal = gate
    Items = {sword}
    Uses <- TabUses
    None = None
    s1 = s1
    s2 = s2
    gate = gate
    cave = cave
    sword = sword
PROPERTIES
    InventoryKept
CHECK_DEADLOCK FALSE
