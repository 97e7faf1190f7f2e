\* Two sockets and a heartbeat, two handlers at a time; a tick is 30 seconds.
SPECIFICATION Spec
CONSTANTS
    u1 = u1
    w1 = w1
    w2 = w2
    c1 = c1
    c2 = c2
    User <- MCUser
    Socket <- MCSocket
    Slot <- MCSlot
    Ttl = 3
    Debounce = 1
    Fallback = 2
    SweepPeriod = 2
    Window = 4
    MaxTroubles = 2
SYMMETRY Symmetric
INVARIANTS TypeOK CalmUsersShown LastSeenCoversKeys
