\* Both listeners and every kind of data protocol that has connections (udp is the
\* subject of UDPRelay); what the server does with one connection while it shuts
\* down or fails.
CONSTANTS
    Modes = {"plain", "smux", "quic", "ws", "wsmux", "stealth"}
    Conns = {c1}
    Streams = {x1}
    Nil = Nil
    MinDelay = 1
    MaxDelay = 1
SPECIFICATION FairSpec
CHECK_DEADLOCK FALSE
INVARIANTS HandlersCleanUp ErrorReported
PROPERTIES ShutdownCloses FailureEndsRun
