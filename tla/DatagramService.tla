--------------------------- MODULE DatagramService ---------------------------
(***************************************************************************)
(* What the udp protocol promises to applications and target: a datagram   *)
(* service.  A datagram may be lost, repeated or overtaken, but it arrives *)
(* whole and only where it belongs: the target sees one application behind *)
(* each socket, an application sees replies to itself, and nothing passes  *)
(* between ends with different tokens.                                     *)
(***************************************************************************)
CONSTANTS Apps, Socks, Sizes

VARIABLES paired,    \* do both ends have the same token?
          asked,     \* sizes of the datagrams each application sent
          got,       \* what the target received through each socket
          answered,  \* sizes of the replies sent to each application
          told       \* what each application received

serviceVars == <<paired, asked, got, answered, told>>

Init ==
    /\ paired \in BOOLEAN
    /\ asked = [p \in Apps |-> {}] /\ answered = [p \in Apps |-> {}]
    /\ got = [t \in Socks |-> {}] /\ told = [p \in Apps |-> {}]

Ask(p, n) ==
    /\ asked' = [asked EXCEPT ![p] = @ \cup {n}]
    /\ UNCHANGED <<paired, got, answered, told>>

DeliverRequest(p, n, t) ==
    /\ paired /\ n \in asked[p] /\ \A b \in got[t] : b.app = p
    /\ got' = [got EXCEPT ![t] = @ \cup {[kind |-> "request", app |-> p, size |-> n]}]
    /\ UNCHANGED <<paired, asked, answered, told>>

(* The target answers an application it has heard of. *)
Answer(p, n) ==
    /\ \E t \in Socks : \E b \in got[t] : b.app = p
    /\ answered' = [answered EXCEPT ![p] = @ \cup {n}]
    /\ UNCHANGED <<paired, asked, got, told>>

DeliverReply(p, n) ==
    /\ n \in answered[p]
    /\ told' = [told EXCEPT ![p] = @ \cup {[kind |-> "reply", app |-> p, size |-> n]}]
    /\ UNCHANGED <<paired, asked, got, answered>>

Next ==
    \E p \in Apps, n \in Sizes :
        \/ Ask(p, n) \/ Answer(p, n) \/ DeliverReply(p, n)
        \/ \E t \in Socks : DeliverRequest(p, n, t)

Spec == Init /\ [][Next]_serviceVars
=============================================================================
