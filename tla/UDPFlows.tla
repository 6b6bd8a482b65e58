------------------------------ MODULE UDPFlows ------------------------------
(***************************************************************************)
(* What a udpRelay promises of its sockets, without goroutines, locks and  *)
(* clocks: a peer has at most one current upstream socket, a socket serves *)
(* one peer from the moment it is opened until it is closed, and it is not *)
(* closed while it is current, except when the whole relay ends.           *)
(***************************************************************************)
CONSTANTS Peers,    \* remote addresses
          Ids,      \* upstream sockets
          Nil

VARIABLES cur,      \* the current socket of each peer, or Nil
          owner     \* the peer an open socket serves; Nil if it is closed

flowVars == <<cur, owner>>

Init ==
    /\ cur = [p \in Peers |-> Nil]
    /\ owner = [s \in Ids |-> Nil]

Current == {cur[p] : p \in Peers} \ {Nil}

Open(p, s) ==
    /\ cur[p] = Nil /\ owner[s] = Nil
    /\ cur' = [cur EXCEPT ![p] = s]
    /\ owner' = [owner EXCEPT ![s] = p]

(* The session expired or its socket failed: it is taken out of the map... *)
Forget(p) ==
    /\ cur[p] # Nil
    /\ cur' = [cur EXCEPT ![p] = Nil]
    /\ UNCHANGED owner

(* ... and its socket is closed. *)
Close(s) ==
    /\ owner[s] # Nil /\ s \notin Current
    /\ owner' = [owner EXCEPT ![s] = Nil]
    /\ UNCHANGED cur

CloseAll ==
    /\ cur' = [p \in Peers |-> Nil]
    /\ owner' = [s \in Ids |-> IF s \in Current THEN Nil ELSE owner[s]]

Retire == (\E p \in Peers : Forget(p)) \/ (\E s \in Ids : Close(s)) \/ CloseAll

Next == (\E p \in Peers, s \in Ids : Open(p, s)) \/ Retire

Spec == Init /\ [][Next]_flowVars
=============================================================================
