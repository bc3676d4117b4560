\* Two sockets and one event: what must happen when the controller leaves, or stays.
SPECIFICATION FairSpec
CONSTANTS
    k1 = k1
    k2 = k2
    None = None
    Conns = {k1, k2}
    MaxEvents = 1
    Hold = 1
    KeepAlive = 1
    Grace = 1
    AutoKill = 2
PROPERTIES Forgotten QueueServed
CHECK_DEADLOCK FALSE
