\* Do a static client and its server agree on the KCP parameters?
CONSTANTS
    KCPs = {"default", "tuned"}
    ServerConfigs <- MCTunedServer
    Statics <- MCStaticKCP
    DefaultKCP = "default"
    Nil = Nil
    Runs = {g1, g2}
    MinBackoff = 3
    MaxBackoff = 10
SPECIFICATION Spec
INVARIANTS KCPAgrees
CHECK_DEADLOCK FALSE
