\* Does closing an smux stream as a whole ever lose data that was already sent?
CONSTANTS
    HalfCloses = {{"a"}, {"b"}, {"a", "b"}}
    MaxBytes = 1
    Kinds = {"mux"}
SPECIFICATION TunnelSpec
CHECK_DEADLOCK FALSE
PROPERTIES AlreadySentKept
