\* One connection through the tunnel, over streams with CloseWrite (tcp, quic)
\* and without (smux, WebSocket).  A byte stands for what one read returns.
CONSTANTS
    HalfCloses = {{"a"}, {"b"}, {"a", "b"}}
    MaxBytes = 1
    Kinds = {"half", "mux", "ws"}
SPECIFICATION TunnelFairSpec
CHECK_DEADLOCK FALSE
INVARIANTS NothingLost ReplyComplete RequestComplete
PROPERTIES Delivered AllReleased DoneSideReleased
