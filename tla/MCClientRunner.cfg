\* Clients on the control port and static ones, while the server changes its
\* settings.
CONSTANTS
    KCPs = {"default", "tuned"}
    ServerConfigs <- MCServerConfigs
    Statics <- MCStatics
    DefaultKCP = "default"
    Nil = Nil
    Runs = {g1, g2}
    MinBackoff = 3
    MaxBackoff = 10
SPECIFICATION FairSpec
INVARIANTS ConnectedRunsAnnounced OneTransport
PROPERTIES KeptAcrossReconnects Recovers StaticServes RunReturns
CHECK_DEADLOCK FALSE
