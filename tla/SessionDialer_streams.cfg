\* Is a stream on a working QUIC session ever taken away from its user?
CONSTANTS
    Callers  = {c1, c2}
    Sessions = {s1, s2}
    Nil = Nil
    Carriers = {"quic"}
    MaxStreams = 1
SPECIFICATION Spec
PROPERTIES StreamsKept
