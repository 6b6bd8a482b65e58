------------------------------ MODULE UDPTunnel ------------------------------
(***************************************************************************)
(* The udp protocol from end to end: two udpRelays as UDPFlows specifies   *)
(* them, the client's (internal/transport/udp.go, runUDP) and the server's *)
(* (serveUDP), with the filters of internal/auth/datagram.go, and between  *)
(* them a network that loses, duplicates, delays and reorders datagrams,   *)
(* returns them to their sender, and carries datagrams of strangers.       *)
(*                                                                         *)
(* A payload is known by who sent it on whose behalf and by its size; a    *)
(* read into a buffer that is too small cuts it.  A tag stands for the     *)
(* HMAC of exactly the values it lists.                                    *)
(*                                                                         *)
(* A port that was used is not given to another socket again: the kernel   *)
(* picks ephemeral ports, and neither end can tell an old use from a new.  *)
(***************************************************************************)
EXTENDS Integers

CONSTANTS Apps,         \* local applications, the client relay's peers
          Addrs,        \* the client's upstream sockets, the server relay's peers
          Socks,        \* the server's upstream sockets, as the target sees them
          Nil,
          Tokens,       \* tokens the two ends may be configured with
          Stranger,     \* a token neither end has
          Sizes,        \* sizes of the payloads that are sent
          Overhead,     \* DatagramOverhead
          MaxUDP,       \* the largest payload of a UDP datagram
          MaxDatagramSize  \* maxDatagramSize, the size of the relays' buffers

ASSUME UDPAssumption ==
    /\ Nil \notin Apps \cup Addrs \cup Socks /\ Stranger \notin Tokens
    /\ Overhead \in Nat \ {0} /\ MaxUDP \in Nat /\ MaxDatagramSize \in Nat
    /\ MaxUDP <= MaxDatagramSize
    /\ Sizes \subseteq 0 .. MaxUDP

VARIABLES
    ctoken, stoken,   \* the tokens of client and server
    ccur, cowner,     \* the client relay's map and sockets
    scur, sowner,     \* the server relay's map and sockets
    net,              \* datagrams sent so far between the two relays
    asked,            \* sizes of the datagrams each application sent
    got,              \* what the target received through each socket
    answered,         \* sizes of the replies the target sent for each application
    told              \* what each application received

tokens == <<ctoken, stoken>>
flows == <<ccur, cowner, scur, sowner>>
vars == <<tokens, flows, net, asked, got, answered, told>>

C == INSTANCE UDPFlows WITH Peers <- Apps, Ids <- Addrs, cur <- ccur, owner <- cowner
S == INSTANCE UDPFlows WITH Peers <- Addrs, Ids <- Socks, cur <- scur, owner <- sowner

Payload == [kind : {"request", "reply"}, app : Apps, size : 0 .. MaxUDP]
Direction == {"ClientToServer", "ServerToClient"}
-----------------------------------------------------------------------------
(* Bug: the tag does not cover the direction. *)
datagramTagUndirected(token, dir, payload) == [token |-> token, payload |-> payload]

datagramTag(token, dir, payload) ==
    [token |-> token, dir |-> dir, payload |-> payload]

SealDatagram(token, dir, payload) ==
    [tag |-> datagramTag(token, dir, payload), payload |-> payload]

(* Bug: the tag is cut off and not compared. *)
OpensAny(token, dir, pkt) == TRUE

(* OpenDatagram's test.  A datagram shorter than a tag matches none. *)
Opens(token, dir, pkt) == pkt.tag = datagramTag(token, dir, pkt.payload)

(* What a relay has in its buffer of a payload that came after a header. *)
Received(payload, head) ==
    [payload EXCEPT !.size =
        IF head + @ > MaxDatagramSize THEN MaxDatagramSize - head ELSE @]

ReceivedPkt(m) == [m.pkt EXCEPT !.payload = Received(@, Overhead)]

(* The datagrams on the path to or from a client socket after one more was *)
(* written; a datagram that is too large is refused by the socket.         *)
Written(addr, pkt) ==
    IF Overhead + pkt.payload.size <= MaxUDP
      THEN net \cup {[addr |-> addr, pkt |-> pkt]} ELSE net

(* What strangers send: nothing they know makes a valid tag. *)
Foreign ==
    {[addr |-> a, pkt |-> SealDatagram(Stranger, d, [kind |-> k, app |-> p, size |-> 0])] :
        a \in Addrs, d \in Direction, k \in {"request", "reply"}, p \in Apps}
-----------------------------------------------------------------------------
Init ==
    /\ ctoken \in Tokens /\ stoken \in Tokens
    /\ C!Init /\ S!Init
    /\ net = {}
    /\ asked = [p \in Apps |-> {}]
    /\ got = [t \in Socks |-> {}]
    /\ answered = [p \in Apps |-> {}]
    /\ told = [p \in Apps |-> {}]

(* Bug: the session of another peer is returned. *)
ClientSessionOfAny(p, a) ==
    \/ a \in C!Current /\ UNCHANGED <<ccur, cowner>>
    \/ (\A m \in net : m.addr # a) /\ C!Open(p, a)

(* session(peer) of the client: the peer's session or a new one. *)
ClientSession(p, a) ==
    \/ ccur[p] = a /\ UNCHANGED <<ccur, cowner>>
    \/ (\A m \in net : m.addr # a) /\ C!Open(p, a)

(* Bug: the session of another peer is returned. *)
ServerSessionOfAny(a, t) ==
    \/ t \in S!Current /\ UNCHANGED <<scur, sowner>>
    \/ got[t] = {} /\ S!Open(a, t)

(* session(peer) of the server. *)
ServerSession(a, t) ==
    \/ scur[a] = t /\ UNCHANGED <<scur, sowner>>
    \/ got[t] = {} /\ S!Open(a, t)

(* An application sends a datagram, which the client's run reads, seals    *)
(* and writes to the session's socket.                                     *)
ClientForwards(p, n, a) ==
    /\ ClientSession(p, a)
    /\ net' = Written(a, SealDatagram(ctoken, "ClientToServer",
                            Received([kind |-> "request", app |-> p, size |-> n], 0)))
    /\ asked' = [asked EXCEPT ![p] = @ \cup {n}]
    /\ UNCHANGED <<tokens, scur, sowner, got, answered, told>>

(* The server's run receives a datagram that opens and passes it on to the *)
(* target.  One that does not is dropped, which changes nothing.           *)
ServerForwards(m, t) ==
    /\ Opens(stoken, "ClientToServer", ReceivedPkt(m))
    /\ ServerSession(m.addr, t)
    /\ got' = [got EXCEPT ![t] = @ \cup {ReceivedPkt(m).payload}]
    /\ UNCHANGED <<tokens, ccur, cowner, net, asked, answered, told>>

(* The target answers something it received; the pump of that socket reads *)
(* the answer, seals it and writes it to the session's peer.               *)
ServerReplies(t, b, n) ==
    /\ b \in got[t] /\ sowner[t] # Nil
    /\ net' = Written(sowner[t], SealDatagram(stoken, "ServerToClient",
                  Received([kind |-> "reply", app |-> b.app, size |-> n], 0)))
    /\ answered' = [answered EXCEPT ![b.app] = @ \cup {n}]
    /\ UNCHANGED <<tokens, flows, asked, got, told>>

(* The client's pump of a socket receives a datagram that opens and writes *)
(* it to the session's peer.                                               *)
ClientReplies(m) ==
    /\ cowner[m.addr] # Nil
    /\ Opens(ctoken, "ServerToClient", ReceivedPkt(m))
    /\ told' = [told EXCEPT ![cowner[m.addr]] = @ \cup {ReceivedPkt(m).payload}]
    /\ UNCHANGED <<tokens, flows, net, asked, got, answered>>

(* Sessions expire, fail or end with their relay, on each end by itself.   *)
ClientRetires == C!Retire /\ UNCHANGED <<tokens, scur, sowner, net, asked, got, answered, told>>
ServerRetires == S!Retire /\ UNCHANGED <<tokens, ccur, cowner, net, asked, got, answered, told>>

Next ==
    \/ \E p \in Apps, n \in Sizes, a \in Addrs : ClientForwards(p, n, a)
    \/ \E m \in net \cup Foreign, t \in Socks : ServerForwards(m, t)
    \/ \E t \in Socks, n \in Sizes : \E b \in got[t] : ServerReplies(t, b, n)
    \/ \E m \in net \cup Foreign : ClientReplies(m)
    \/ ClientRetires \/ ServerRetires

Spec == Init /\ [][Next]_vars
-----------------------------------------------------------------------------
TypeOK ==
    /\ ctoken \in Tokens /\ stoken \in Tokens
    /\ ccur \in [Apps -> Addrs \cup {Nil}] /\ cowner \in [Addrs -> Apps \cup {Nil}]
    /\ scur \in [Addrs -> Socks \cup {Nil}] /\ sowner \in [Socks -> Addrs \cup {Nil}]
    /\ \A m \in net : m.addr \in Addrs /\ m.pkt.payload \in Payload
    /\ asked \in [Apps -> SUBSET Sizes] /\ answered \in [Apps -> SUBSET Sizes]
    /\ got \in [Socks -> SUBSET Payload]
    /\ told \in [Apps -> SUBSET Payload]

(* "so a datagram cannot be reflected back to its sender" (datagram.go:11) *)
(* and "preserving datagram boundaries" (udp.go:27): the target receives   *)
(* nothing but whole datagrams of applications, and only from a client     *)
(* with the server's token.                                                *)
TargetGetsRequests ==
    \A t \in Socks : \A b \in got[t] :
        ctoken = stoken /\ b.kind = "request" /\ b.size \in asked[b.app]

(* An application receives nothing but whole replies to itself, although   *)
(* sessions expire on the two ends at different times.                     *)
AppGetsOwnReplies ==
    \A p \in Apps : \A b \in told[p] :
        b.app = p /\ b.kind = "reply" /\ b.size \in answered[p]

(* "one upstream socket per remote peer" (udp.go:26-27), end to end: what  *)
(* the target receives through one socket comes from one application.      *)
FlowsSeparate ==
    \A t \in Socks : \A b, c \in got[t] : b.app = c.app

(* Application and target see a datagram service, whatever the network and *)
(* the sessions of the two relays do.                                      *)
Service == INSTANCE DatagramService WITH paired <- ctoken = stoken

ServiceSpec == Service!Spec
=============================================================================
