\* Two sockets of one controller, each a poll, a stream or for requests only.
SPECIFICATION Spec
CONSTANTS
    k1 = k1
    k2 = k2
    None = None
    Conns = {k1, k2}
    MaxEvents = 2
    Hold = 1
    KeepAlive = 2
    Grace = 1
    AutoKill = 2
SYMMETRY Symmetry
INVARIANTS TypeOK CountTrue OnceInOrder
PROPERTIES ReapsOnlyAway
CHECK_DEADLOCK FALSE
