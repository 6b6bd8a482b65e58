\* Two applications.  With MaxUDP = 3 and a tag of size 1, a payload of size 0
\* fits into a datagram and one of size 3 does not.
CONSTANTS
    Apps = {p1, p2}
    Addrs = {a1, a2, a3}
    Socks = {t1, t2}
    Nil = Nil
    Tokens = {k1, k2}
    Stranger = Stranger
    Sizes = {0, 3}
    Overhead = 1
    MaxUDP = 3
    MaxDatagramSize = 4
SPECIFICATION Spec
SYMMETRY Symmetry
CHECK_DEADLOCK FALSE
INVARIANTS TargetGetsRequests AppGetsOwnReplies FlowsSeparate
PROPERTIES ServiceSpec
