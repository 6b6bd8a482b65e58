\* Two client runs and three server runs on a network that mixes everything.
CONSTANTS
    c1 = c1
    c2 = c2
    s1 = s1
    s2 = s2
    s3 = s3
    Clients <- MCClients
    Servers <- MCServers
    Control <- MCControl
    Token <- MCToken
    Announce <- MCAnnounce
    Known <- MCKnown
    Nil = Nil
    Junk = Junk
SPECIFICATION Spec
CHECK_DEADLOCK FALSE
INVARIANTS ServerAgreement ClientAgreement ConfigAuthentic
PROPERTIES AgreementSpec
