---------------------------- MODULE MCUDPTunnel ----------------------------
EXTENDS UDPTunnel, TLC

(* Applications, ports and tokens are interchangeable. *)
Symmetry ==
    UNION {Permutations(S0) : S0 \in {Apps, Addrs, Socks, Tokens}}
=============================================================================
