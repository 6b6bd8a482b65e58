\* After a read error, does run give up the address it listens on?
CONSTANTS
    Peers = {p1}
    Ids = {s1}
    Nil = Nil
    Idle = 1
SPECIFICATION FairSpec
CHECK_DEADLOCK FALSE
PROPERTIES ListenerReleased
