--------------------------- MODULE MCClientRunner ---------------------------
EXTENDS ClientRunner

(* Two utcpmux configurations that differ only in their KCP parameters,    *)
(* udp, whose transport can fail while it serves, and stealth, without a   *)
(* control port.                                                           *)
MCServerConfigs ==
    {[protocol |-> "utcpmux", port |-> 1, kcp |-> "default"],
     [protocol |-> "utcpmux", port |-> 1, kcp |-> "tuned"],
     [protocol |-> "udp",     port |-> 1, kcp |-> "default"],
     [protocol |-> "stealth", port |-> 1, kcp |-> "default"]}

(* A client on the control port, and static ones over KCP and udp. *)
MCStatics ==
    {Nil, [protocol |-> "utcpmux", port |-> 1, kcp |-> Nil],
          [protocol |-> "udp",     port |-> 1, kcp |-> Nil]}

(* A server whose KCP parameters were tuned, and a static client for it. *)
MCTunedServer == {[protocol |-> "utcpmux", port |-> 1, kcp |-> "tuned"]}
MCStaticKCP == {[protocol |-> "utcpmux", port |-> 1, kcp |-> Nil]}
=============================================================================
