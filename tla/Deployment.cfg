\* One protocol of each kind: over TCP or UDP, with TLS or without, with one
\* stream or many, with a control port or without.
SPECIFICATION FairSpec
CONSTANTS
    Chosen = {"tcp", "tcpmux", "wssmux", "utcpmux", "quic", "stealth"}
    MaxPort = 2
    Padded = {1}
    MaxPairs = 2
INVARIANTS SameLayers KeptPairMatches PinnedIsServed
PROPERTY TunnelComesUp
