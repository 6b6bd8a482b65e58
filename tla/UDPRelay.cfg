\* Two peers and two session objects, so that an old session can still be winding
\* down beside its successor, and be used again for another peer.  A session is
\* idle one tick after it was touched.
CONSTANTS
    Peers = {p1, p2}
    Ids = {s1, s2}
    Nil = Nil
    Idle = 0
SPECIFICATION FairSpec
CHECK_DEADLOCK FALSE
INVARIANTS NoOrphan
PROPERTIES FreshSessionKept FlowsSpec ShutdownCompletes IdleExpires
