---------------------------- MODULE MCHandshake ----------------------------
EXTENDS Handshake

CONSTANTS c1, c2, s1, s2, s3   \* the runs

(* c1, s1 and s2 are runs on control connections, c2 and s3 on data        *)
(* connections.  s1 and s2 share the token of both clients but announce    *)
(* different settings, as before and after a reconfiguration; s3 has       *)
(* another token.                                                          *)
MCClients == {c1, c2}
MCServers == {s1, s2, s3}
MCControl == {c1, s1, s2}
MCToken == [r \in MCClients \cup MCServers |-> IF r = s3 THEN "other" ELSE "token"]
MCAnnounce == [s \in MCServers |-> IF s = s1 THEN "tcp" ELSE "quic"]
MCKnown == {"tcp", "quic"}
=============================================================================
