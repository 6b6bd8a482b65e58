\* Two callers share sessions over KCP, whose dial ignores the context, and over
\* QUIC connections that admit a single stream, so that the stream limit and the
\* dial timeout are met.  What the TCP-like carriers do is a part of KCP's case.
CONSTANTS
    Callers  = {c1, c2}
    Sessions = {s1, s2, s3}
    Nil = Nil
    Carriers = {"kcp", "quic"}
    MaxStreams = 1
SPECIFICATION FairSpec
INVARIANTS OnlyCurrentIsOpen
PROPERTIES LiveSessionKept RetryIsFresh SharedSpec DialReturns CloseReturns
