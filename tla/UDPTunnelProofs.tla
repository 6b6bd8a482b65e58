--------------------------- MODULE UDPTunnelProofs ---------------------------
(***************************************************************************)
(* Proofs about UDPTunnel, for any number of applications and sockets, any *)
(* tokens and any sizes.                                                   *)
(***************************************************************************)
EXTENDS UDPTunnel, TLAPS

(* A peer's current socket is open and serves that peer, on either end. *)
CurrentServes ==
    /\ \A p \in Apps : ccur[p] # Nil => cowner[ccur[p]] = p
    /\ \A a \in Addrs : scur[a] # Nil => sowner[scur[a]] = a

IsRequest(pkt) ==
    /\ pkt = SealDatagram(ctoken, "ClientToServer", pkt.payload)
    /\ pkt.payload.kind = "request"
    /\ pkt.payload.size \in asked[pkt.payload.app]

IsReply(pkt) ==
    /\ ctoken = stoken
    /\ pkt = SealDatagram(stoken, "ServerToClient", pkt.payload)
    /\ pkt.payload.kind = "reply"
    /\ pkt.payload.size \in answered[pkt.payload.app]

(* What the two ends send fits, is sealed by them, and is what was asked   *)
(* or answered.                                                            *)
Sealed ==
    \A m \in net :
        /\ Overhead + m.pkt.payload.size <= MaxUDP
        /\ IsRequest(m.pkt) \/ IsReply(m.pkt)

(* Whatever travels to or from a client socket concerns one application,   *)
(* the one the socket serves as long as it is open.                        *)
OneAppPerAddr ==
    \A m \in net :
        /\ cowner[m.addr] # Nil => cowner[m.addr] = m.pkt.payload.app
        /\ \A n \in net : n.addr = m.addr => n.pkt.payload.app = m.pkt.payload.app

(* What the target received through an open socket came from the client    *)
(* socket that socket serves.                                              *)
CameFrom ==
    \A t \in Socks : \A b \in got[t] : sowner[t] # Nil =>
        \E m \in net : m.addr = sowner[t] /\ m.pkt.payload.app = b.app

IInv ==
    /\ TypeOK /\ CurrentServes /\ Sealed /\ OneAppPerAddr /\ CameFrom
    /\ TargetGetsRequests /\ AppGetsOwnReplies /\ FlowsSeparate
-----------------------------------------------------------------------------
(* A payload that fits a UDP datagram fits the relay's buffer: the read on *)
(* the sending side cuts nothing.                                          *)
LEMMA SentWhole ==
    ASSUME NEW k \in {"request", "reply"}, NEW p \in Apps, NEW n \in Sizes
    PROVE  LET b == [kind |-> k, app |-> p, size |-> n]
           IN  Received(b, 0) = b /\ b \in Payload
<1>1. n \in Nat /\ n <= MaxUDP /\ MaxUDP <= MaxDatagramSize /\ MaxUDP \in Nat
      /\ MaxDatagramSize \in Nat
  BY UDPAssumption
<1>2. ~(0 + n > MaxDatagramSize)
  BY <1>1
<1> QED BY <1>1, <1>2 DEF Received, Payload

(* Nor does the read on the receiving side cut what was written. *)
LEMMA ReceivedWhole ==
    ASSUME TypeOK, Sealed, NEW m \in net
    PROVE  ReceivedPkt(m) = m.pkt
<1> DEFINE b == m.pkt.payload
<1>1. b \in Payload /\ Overhead + b.size <= MaxUDP
  BY DEF TypeOK, Sealed
<1>2. ~(Overhead + b.size > MaxDatagramSize)
  BY <1>1, UDPAssumption DEF Payload
<1>3. Received(b, Overhead) = b
  BY <1>1, <1>2 DEF Received, Payload
<1>4. PICK tag : m.pkt = [tag |-> tag, payload |-> b]
  BY DEF Sealed, IsRequest, IsReply, SealDatagram
<1> HIDE DEF b
<1>5. ReceivedPkt(m) = [tag |-> tag, payload |-> Received(b, Overhead)]
  BY <1>4 DEF ReceivedPkt
<1> QED BY <1>3, <1>4, <1>5

(* A stranger's datagram opens nowhere. *)
LEMMA StrangersFail ==
    ASSUME TypeOK, NEW m \in Foreign, NEW token \in Tokens, NEW dir
    PROVE  ~Opens(token, dir, ReceivedPkt(m))
<1>1. PICK a \in Addrs, d \in Direction, k \in {"request", "reply"}, p \in Apps :
        m = [addr |-> a,
             pkt |-> SealDatagram(Stranger, d, [kind |-> k, app |-> p, size |-> 0])]
  BY SMT DEF Foreign, SealDatagram, datagramTag, Direction
<1>2. ReceivedPkt(m).tag = m.pkt.tag /\ m.pkt.tag.token = Stranger
  BY <1>1 DEF ReceivedPkt, SealDatagram, datagramTag
<1>3. token # Stranger
  BY UDPAssumption
<1> QED BY <1>2, <1>3 DEF Opens, datagramTag

(* What opens at the server is a request. *)
LEMMA OpenedIsRequest ==
    ASSUME IInv, NEW m \in net \cup Foreign,
           Opens(stoken, "ClientToServer", ReceivedPkt(m))
    PROVE  m \in net /\ ReceivedPkt(m) = m.pkt /\ IsRequest(m.pkt) /\ ctoken = stoken
<1>1. m \in net
  BY StrangersFail DEF IInv, TypeOK
<1>2. ReceivedPkt(m) = m.pkt
  BY <1>1, ReceivedWhole DEF IInv
<1>3. m.pkt.tag.dir = "ClientToServer" /\ m.pkt.tag.token = stoken
  BY <1>2 DEF Opens, datagramTag
<1>4. ~IsReply(m.pkt)
  BY <1>3 DEF IsReply, SealDatagram, datagramTag
<1>5. IsRequest(m.pkt)
  BY <1>1, <1>4 DEF IInv, Sealed
<1>6. ctoken = stoken
  BY <1>3, <1>5 DEF IsRequest, SealDatagram, datagramTag
<1> QED BY <1>1, <1>2, <1>5, <1>6

(* What opens at the client is a reply. *)
LEMMA OpenedIsReply ==
    ASSUME IInv, NEW m \in net \cup Foreign,
           Opens(ctoken, "ServerToClient", ReceivedPkt(m))
    PROVE  m \in net /\ ReceivedPkt(m) = m.pkt /\ IsReply(m.pkt)
<1>1. m \in net
  BY StrangersFail DEF IInv, TypeOK
<1>2. ReceivedPkt(m) = m.pkt
  BY <1>1, ReceivedWhole DEF IInv
<1>3. m.pkt.tag.dir = "ServerToClient"
  BY <1>2 DEF Opens, datagramTag
<1>4. ~IsRequest(m.pkt)
  BY <1>3 DEF IsRequest, SealDatagram, datagramTag
<1> QED BY <1>1, <1>2, <1>4 DEF IInv, Sealed
-----------------------------------------------------------------------------
(* The invariant holds before anything was sent. *)
THEOREM InitInv == Init => IInv
<1> SUFFICES ASSUME Init PROVE IInv
  OBVIOUS
<1> USE DEF Init, C!Init, S!Init
<1>1. TypeOK
  BY DEF TypeOK
<1>2. CurrentServes
  BY DEF CurrentServes
<1>3. Sealed /\ OneAppPerAddr /\ CameFrom
  BY DEF Sealed, OneAppPerAddr, CameFrom
<1>4. TargetGetsRequests /\ AppGetsOwnReplies /\ FlowsSeparate
  BY DEF TargetGetsRequests, AppGetsOwnReplies, FlowsSeparate
<1> QED BY <1>1, <1>2, <1>3, <1>4 DEF IInv

(* What a step of the client's relay that keeps, opens or retires a socket *)
(* does to the client's sockets.                                           *)
LEMMA ClientFlows ==
    ASSUME TypeOK, CurrentServes,
           \/ UNCHANGED <<ccur, cowner>>
           \/ \E p \in Apps, a \in Addrs : C!Open(p, a)
           \/ C!Retire
    PROVE  /\ ccur' \in [Apps -> Addrs \cup {Nil}] /\ cowner' \in [Addrs -> Apps \cup {Nil}]
           /\ \A p \in Apps : ccur'[p] # Nil => cowner'[ccur'[p]] = p
<1> USE UDPAssumption DEF TypeOK, CurrentServes
<1>1. CASE UNCHANGED <<ccur, cowner>>
  BY <1>1
<1>2. CASE \E p \in Apps, a \in Addrs : C!Open(p, a)
  BY <1>2 DEF C!Open
<1>3. CASE \E p \in Apps : C!Forget(p)
  BY <1>3 DEF C!Forget
<1>4. CASE \E a \in Addrs : C!Close(a)
  BY <1>4 DEF C!Close, C!Current
<1>5. CASE C!CloseAll
  BY <1>5 DEF C!CloseAll
<1> QED BY <1>1, <1>2, <1>3, <1>4, <1>5 DEF C!Retire

(* The same for the server's relay. *)
LEMMA ServerFlows ==
    ASSUME TypeOK, CurrentServes,
           \/ UNCHANGED <<scur, sowner>>
           \/ \E a \in Addrs, t \in Socks : S!Open(a, t)
           \/ S!Retire
    PROVE  /\ scur' \in [Addrs -> Socks \cup {Nil}] /\ sowner' \in [Socks -> Addrs \cup {Nil}]
           /\ \A a \in Addrs : scur'[a] # Nil => sowner'[scur'[a]] = a
<1> USE UDPAssumption DEF TypeOK, CurrentServes
<1>1. CASE UNCHANGED <<scur, sowner>>
  BY <1>1
<1>2. CASE \E a \in Addrs, t \in Socks : S!Open(a, t)
  BY <1>2 DEF S!Open
<1>3. CASE \E a \in Addrs : S!Forget(a)
  BY <1>3 DEF S!Forget
<1>4. CASE \E t \in Socks : S!Close(t)
  BY <1>4 DEF S!Close, S!Current
<1>5. CASE S!CloseAll
  BY <1>5 DEF S!CloseAll
<1> QED BY <1>1, <1>2, <1>3, <1>4, <1>5 DEF S!Retire

(* Retiring only ever takes the owner from a socket. *)
LEMMA ClientRetireOwners ==
    ASSUME TypeOK, C!Retire
    PROVE  \A a \in Addrs : cowner'[a] = cowner[a] \/ cowner'[a] = Nil
  BY DEF TypeOK, C!Retire, C!Forget, C!Close, C!CloseAll

(* The same for the server's relay. *)
LEMMA ServerRetireOwners ==
    ASSUME TypeOK, S!Retire
    PROVE  \A t \in Socks : sowner'[t] = sowner[t] \/ sowner'[t] = Nil
  BY DEF TypeOK, S!Retire, S!Forget, S!Close, S!CloseAll

(* Every step of either end and of the network keeps the invariant. *)
THEOREM NextInv == IInv /\ [Next]_vars => IInv'
<1> SUFFICES ASSUME IInv, [Next]_vars PROVE IInv'
  OBVIOUS
<1> USE DEF IInv
<1>1. ASSUME NEW p \in Apps, NEW n \in Sizes, NEW a \in Addrs, ClientForwards(p, n, a)
      PROVE  IInv'
  <2> DEFINE b == [kind |-> "request", app |-> p, size |-> n]
             pkt == SealDatagram(ctoken, "ClientToServer", b)
             m == [addr |-> a, pkt |-> pkt]
  <2>1. b \in Payload /\ net' = Written(a, pkt) /\ ClientSession(p, a)
    BY <1>1, SentWhole DEF ClientForwards
  <2>2. asked' = [asked EXCEPT ![p] = @ \cup {n}]
        /\ UNCHANGED <<tokens, scur, sowner, got, answered, told>>
    BY <1>1 DEF ClientForwards
  <2>3. n \in asked'[p] /\ (\A q \in Apps : asked[q] \subseteq asked'[q])
        /\ asked' \in [Apps -> SUBSET Sizes]
    BY <2>2 DEF TypeOK
  <2>4. net \subseteq net' /\ net' \subseteq net \cup {m}
        /\ (m \in net' => m \in net \/ Overhead + n <= MaxUDP)
    BY <2>1 DEF Written, SealDatagram
  <2>5. m.addr = a /\ m.pkt = pkt /\ pkt.payload = b /\ b.app = p /\ b.size = n
        /\ b.kind = "request"
    BY DEF SealDatagram
  <2>6. /\ ccur' \in [Apps -> Addrs \cup {Nil}] /\ cowner' \in [Addrs -> Apps \cup {Nil}]
        /\ \A q \in Apps : ccur'[q] # Nil => cowner'[ccur'[q]] = q
    BY <2>1, ClientFlows DEF ClientSession
  <2>7. cowner'[a] = p
        /\ \/ UNCHANGED cowner
           \/ (\A k \in net : k.addr # a) /\ (\A c \in Addrs \ {a} : cowner'[c] = cowner[c])
    BY <2>1, UDPAssumption DEF ClientSession, CurrentServes, C!Open, TypeOK
  <2> HIDE DEF m, pkt, b
  <2>8. TypeOK'
    BY <2>1, <2>2, <2>3, <2>4, <2>5, <2>6 DEF TypeOK, tokens
  <2>9. CurrentServes'
    BY <2>2, <2>6 DEF CurrentServes
  <2>10. Sealed'
    <3> SUFFICES ASSUME NEW k \in net'
                 PROVE  /\ Overhead + k.pkt.payload.size <= MaxUDP
                        /\ IsRequest(k.pkt)' \/ IsReply(k.pkt)'
      BY DEF Sealed
    <3>1. CASE k \in net
      BY <3>1, <2>2, <2>3 DEF Sealed, IsRequest, IsReply, tokens, TypeOK, Payload
    <3>2. CASE k = m /\ k \notin net
      <4>1. Overhead + n <= MaxUDP
        BY <3>2, <2>4
      <4> QED BY <4>1, <3>2, <2>2, <2>3, <2>5 DEF IsRequest, tokens, pkt
    <3> QED BY <3>1, <3>2, <2>4
  <2>11. \A k \in net : k.addr = a => k.pkt.payload.app = p
    BY <2>7, UDPAssumption DEF OneAppPerAddr, TypeOK
  <2>12. OneAppPerAddr'
    <3>1. \A k \in net' : k.addr \in Addrs
          /\ (cowner'[k.addr] # Nil => cowner'[k.addr] = k.pkt.payload.app)
      BY <2>4, <2>5, <2>7, <2>11 DEF OneAppPerAddr, TypeOK
    <3>2. \A k, l \in net' : l.addr = k.addr => l.pkt.payload.app = k.pkt.payload.app
      BY <2>4, <2>5, <2>11 DEF OneAppPerAddr
    <3> QED BY <3>1, <3>2 DEF OneAppPerAddr
  <2>13. CameFrom'
    BY <2>2, <2>4 DEF CameFrom
  <2>14. TargetGetsRequests' /\ FlowsSeparate'
    BY <2>2, <2>3 DEF TargetGetsRequests, FlowsSeparate, tokens, TypeOK, Payload
  <2>15. AppGetsOwnReplies'
    BY <2>2 DEF AppGetsOwnReplies
  <2> QED BY <2>8, <2>9, <2>10, <2>12, <2>13, <2>14, <2>15
<1>2. ASSUME NEW m \in net \cup Foreign, NEW t \in Socks, ServerForwards(m, t)
      PROVE  IInv'
  <2> DEFINE b == m.pkt.payload
  <2>1. m \in net /\ ReceivedPkt(m) = m.pkt /\ IsRequest(m.pkt) /\ ctoken = stoken
    BY <1>2, OpenedIsRequest DEF ServerForwards
  <2>2. b \in Payload /\ m.addr \in Addrs /\ b.kind = "request" /\ b.size \in asked[b.app]
    BY <2>1 DEF TypeOK, IsRequest
  <2>3. got' = [got EXCEPT ![t] = @ \cup {b}] /\ ServerSession(m.addr, t)
        /\ UNCHANGED <<tokens, ccur, cowner, net, asked, answered, told>>
    BY <1>2, <2>1 DEF ServerForwards
  <2>4. /\ scur' \in [Addrs -> Socks \cup {Nil}] /\ sowner' \in [Socks -> Addrs \cup {Nil}]
        /\ \A a \in Addrs : scur'[a] # Nil => sowner'[scur'[a]] = a
    BY <2>2, <2>3, ServerFlows DEF ServerSession
  <2>5. sowner'[t] = m.addr
        /\ \/ UNCHANGED sowner
           \/ got[t] = {} /\ (\A u \in Socks \ {t} : sowner'[u] = sowner[u])
    BY <2>2, <2>3, UDPAssumption DEF ServerSession, CurrentServes, S!Open, TypeOK
  <2>6. got' \in [Socks -> SUBSET Payload] /\ got'[t] = got[t] \cup {b}
        /\ (\A u \in Socks \ {t} : got'[u] = got[u])
    BY <2>2, <2>3 DEF TypeOK
  <2> HIDE DEF b
  <2>7. TypeOK'
    BY <2>3, <2>4, <2>6 DEF TypeOK, tokens
  <2>8. CurrentServes'
    BY <2>3, <2>4 DEF CurrentServes
  <2>9. Sealed' /\ OneAppPerAddr'
    BY <2>3 DEF Sealed, OneAppPerAddr, IsRequest, IsReply, tokens
  <2>10. \A c \in got[t] : c.app = b.app
    BY <2>1, <2>2, <2>5, UDPAssumption DEF CameFrom, OneAppPerAddr, b
  <2>11. CameFrom'
    <3> SUFFICES ASSUME NEW u \in Socks, NEW c \in got'[u], sowner'[u] # Nil
                 PROVE  \E k \in net : k.addr = sowner'[u] /\ k.pkt.payload.app = c.app
      BY <2>3 DEF CameFrom
    <3>1. CASE u = t
      BY <3>1, <2>1, <2>5, <2>6, <2>10 DEF b
    <3>2. CASE u # t
      BY <3>2, <2>5, <2>6 DEF CameFrom
    <3> QED BY <3>1, <3>2
  <2>12. TargetGetsRequests'
    BY <2>1, <2>2, <2>3, <2>6 DEF TargetGetsRequests, tokens
  <2>13. AppGetsOwnReplies'
    BY <2>3 DEF AppGetsOwnReplies
  <2>14. FlowsSeparate'
    BY <2>6, <2>10 DEF FlowsSeparate
  <2> QED BY <2>7, <2>8, <2>9, <2>11, <2>12, <2>13, <2>14
<1>3. ASSUME NEW t \in Socks, NEW n \in Sizes, NEW b \in got[t], ServerReplies(t, b, n)
      PROVE  IInv'
  <2> DEFINE r == [kind |-> "reply", app |-> b.app, size |-> n]
             pkt == SealDatagram(stoken, "ServerToClient", r)
             a == sowner[t]
             m == [addr |-> a, pkt |-> pkt]
  <2>1. b \in Payload /\ b.app \in Apps /\ a \in Addrs /\ ctoken = stoken
    BY <1>3 DEF TypeOK, Payload, ServerReplies, TargetGetsRequests
  <2>2. r \in Payload /\ net' = Written(a, pkt)
    BY <1>3, <2>1, SentWhole DEF ServerReplies
  <2>3. answered' = [answered EXCEPT ![b.app] = @ \cup {n}]
        /\ UNCHANGED <<tokens, flows, asked, got, told>>
    BY <1>3 DEF ServerReplies
  <2>4. n \in answered'[b.app] /\ (\A q \in Apps : answered[q] \subseteq answered'[q])
        /\ answered' \in [Apps -> SUBSET Sizes]
    BY <2>1, <2>3 DEF TypeOK
  <2>5. net \subseteq net' /\ net' \subseteq net \cup {m}
        /\ (m \in net' => m \in net \/ Overhead + n <= MaxUDP)
    BY <2>2 DEF Written, SealDatagram
  <2>6. m.addr = a /\ m.pkt = pkt /\ pkt.payload = r /\ r.app = b.app /\ r.size = n
        /\ r.kind = "reply"
    BY DEF SealDatagram
  <2>7. PICK o \in net : o.addr = a /\ o.pkt.payload.app = b.app
    BY <1>3 DEF CameFrom, ServerReplies
  <2> HIDE DEF m, pkt, r, a
  <2>8. TypeOK'
    BY <2>1, <2>2, <2>3, <2>4, <2>5, <2>6 DEF TypeOK, tokens, flows
  <2>9. CurrentServes'
    BY <2>3 DEF CurrentServes, flows
  <2>10. Sealed'
    <3> SUFFICES ASSUME NEW k \in net'
                 PROVE  /\ Overhead + k.pkt.payload.size <= MaxUDP
                        /\ IsRequest(k.pkt)' \/ IsReply(k.pkt)'
      BY DEF Sealed
    <3>1. CASE k \in net
      BY <3>1, <2>3, <2>4 DEF Sealed, IsRequest, IsReply, tokens, TypeOK, Payload
    <3>2. CASE k = m /\ k \notin net
      <4>1. Overhead + n <= MaxUDP
        BY <3>2, <2>5
      <4> QED BY <4>1, <3>2, <2>1, <2>3, <2>4, <2>6 DEF IsReply, tokens, pkt
    <3> QED BY <3>1, <3>2, <2>5
  <2>11. OneAppPerAddr'
    <3>1. \A k \in net : k.addr = a => k.pkt.payload.app = b.app
      BY <2>7 DEF OneAppPerAddr
    <3>2. \A k \in net' : cowner'[k.addr] # Nil => cowner'[k.addr] = k.pkt.payload.app
      BY <2>3, <2>5, <2>6, <2>7 DEF OneAppPerAddr, flows
    <3>3. \A k, l \in net' : l.addr = k.addr => l.pkt.payload.app = k.pkt.payload.app
      BY <3>1, <2>5, <2>6 DEF OneAppPerAddr
    <3> QED BY <3>2, <3>3 DEF OneAppPerAddr
  <2>12. CameFrom'
    BY <2>3, <2>5 DEF CameFrom, flows
  <2>13. TargetGetsRequests' /\ FlowsSeparate'
    BY <2>3 DEF TargetGetsRequests, FlowsSeparate, tokens
  <2>14. AppGetsOwnReplies'
    BY <2>3, <2>4 DEF AppGetsOwnReplies
  <2> QED BY <2>8, <2>9, <2>10, <2>11, <2>12, <2>13, <2>14
<1>4. ASSUME NEW m \in net \cup Foreign, ClientReplies(m) PROVE IInv'
  <2> DEFINE b == m.pkt.payload
             p == cowner[m.addr]
  <2>1. m \in net /\ ReceivedPkt(m) = m.pkt /\ IsReply(m.pkt)
    BY <1>4, OpenedIsReply DEF ClientReplies
  <2>2. b \in Payload /\ b.kind = "reply" /\ b.size \in answered[b.app]
    BY <2>1 DEF TypeOK, IsReply
  <2>3. p = b.app /\ p \in Apps
    BY <1>4, <2>1 DEF ClientReplies, OneAppPerAddr, TypeOK
  <2>4. told' = [told EXCEPT ![p] = @ \cup {b}]
        /\ UNCHANGED <<tokens, flows, net, asked, got, answered>>
    BY <1>4, <2>1 DEF ClientReplies
  <2>5. told' \in [Apps -> SUBSET Payload]
    BY <2>2, <2>3, <2>4 DEF TypeOK
  <2>6. AppGetsOwnReplies'
    BY <2>2, <2>3, <2>4, <2>5 DEF AppGetsOwnReplies, TypeOK
  <2>7. TypeOK'
    BY <2>4, <2>5 DEF TypeOK, tokens, flows
  <2>8. CurrentServes' /\ Sealed' /\ OneAppPerAddr' /\ CameFrom'
    BY <2>4 DEF CurrentServes, Sealed, OneAppPerAddr, CameFrom, IsRequest, IsReply,
                tokens, flows
  <2>9. TargetGetsRequests' /\ FlowsSeparate'
    BY <2>4 DEF TargetGetsRequests, FlowsSeparate, tokens
  <2> QED BY <2>6, <2>7, <2>8, <2>9
<1>5. CASE ClientRetires
  <2>1. C!Retire /\ UNCHANGED <<tokens, scur, sowner, net, asked, got, answered, told>>
    BY <1>5 DEF ClientRetires
  <2>2. \A a \in Addrs : cowner'[a] = cowner[a] \/ cowner'[a] = Nil
    BY <2>1, ClientRetireOwners
  <2>3. TypeOK' /\ CurrentServes'
    BY <2>1, ClientFlows DEF TypeOK, CurrentServes, tokens
  <2>4. OneAppPerAddr'
    BY <2>1, <2>2 DEF OneAppPerAddr, TypeOK
  <2>5. Sealed' /\ CameFrom'
    BY <2>1 DEF Sealed, CameFrom, IsRequest, IsReply, tokens
  <2>6. TargetGetsRequests' /\ AppGetsOwnReplies' /\ FlowsSeparate'
    BY <2>1 DEF TargetGetsRequests, AppGetsOwnReplies, FlowsSeparate, tokens
  <2> QED BY <2>3, <2>4, <2>5, <2>6
<1>6. CASE ServerRetires
  <2>1. S!Retire /\ UNCHANGED <<tokens, ccur, cowner, net, asked, got, answered, told>>
    BY <1>6 DEF ServerRetires
  <2>2. \A t \in Socks : sowner'[t] = sowner[t] \/ sowner'[t] = Nil
    BY <2>1, ServerRetireOwners
  <2>3. TypeOK' /\ CurrentServes'
    BY <2>1, ServerFlows DEF TypeOK, CurrentServes, tokens
  <2>4. CameFrom'
    BY <2>1, <2>2 DEF CameFrom
  <2>5. Sealed' /\ OneAppPerAddr'
    BY <2>1 DEF Sealed, OneAppPerAddr, IsRequest, IsReply, tokens
  <2>6. TargetGetsRequests' /\ AppGetsOwnReplies' /\ FlowsSeparate'
    BY <2>1 DEF TargetGetsRequests, AppGetsOwnReplies, FlowsSeparate, tokens
  <2> QED BY <2>3, <2>4, <2>5, <2>6
<1>7. CASE UNCHANGED vars
  BY <1>7 DEF vars, tokens, flows, TypeOK, CurrentServes, Sealed, OneAppPerAddr, CameFrom,
              IsRequest, IsReply, TargetGetsRequests, AppGetsOwnReplies, FlowsSeparate
<1> QED BY <1>1, <1>2, <1>3, <1>4, <1>5, <1>6, <1>7 DEF Next

(* The inductive invariant holds in every reachable state. *)
THEOREM Invariant == Spec => []IInv
BY InitInv, NextInv, PTL DEF Spec

(* The tunnel's state keeps its types. *)
THEOREM TypeCorrect == Spec => []TypeOK
BY Invariant, PTL DEF IInv

(* TargetGetsRequests, for any applications, sockets, tokens and sizes:    *)
(* nothing that was reflected, forged or cut passes OpenDatagram.          *)
THEOREM OnlyRequestsReachTarget == Spec => []TargetGetsRequests
BY Invariant, PTL DEF IInv

(* AppGetsOwnReplies: the two relays, which forget flows independently,    *)
(* never hand a reply to another application.                              *)
THEOREM RepliesReachTheirApp == Spec => []AppGetsOwnReplies
BY Invariant, PTL DEF IInv

(* FlowsSeparate: one upstream socket per peer, end to end. *)
THEOREM FlowsStaySeparate == Spec => []FlowsSeparate
BY Invariant, PTL DEF IInv
-----------------------------------------------------------------------------
(* The refinement of DatagramService *)

(* A payload is the record of its parts. *)
LEMMA PayloadParts ==
    ASSUME NEW b \in Payload
    PROVE  b = [kind |-> b.kind, app |-> b.app, size |-> b.size]
BY DEF Payload

(* The initial state is one of the service. *)
LEMMA InitRefines == Init => Service!Init
BY DEF Init, Service!Init

(* Every step of the two relays and of the network is a step of the        *)
(* service or changes nothing there.                                       *)
LEMMA StepRefines ==
    IInv /\ IInv' /\ [Next]_vars => [Service!Next]_(Service!serviceVars)
<1> SUFFICES ASSUME IInv, IInv', [Next]_vars PROVE [Service!Next]_(Service!serviceVars)
  OBVIOUS
<1>1. ASSUME UNCHANGED <<tokens, asked, got, answered, told>>
      PROVE  UNCHANGED Service!serviceVars
  BY <1>1 DEF Service!serviceVars, tokens
<1>2. ASSUME NEW p \in Apps, NEW n \in Sizes, NEW a \in Addrs, ClientForwards(p, n, a)
      PROVE  Service!Next
  <2>1. Service!Ask(p, n)
    BY <1>2 DEF ClientForwards, Service!Ask, tokens
  <2> QED BY <2>1 DEF Service!Next
<1>3. ASSUME NEW m \in net \cup Foreign, NEW t \in Socks, ServerForwards(m, t)
      PROVE  Service!Next
  <2> DEFINE b == m.pkt.payload
  <2>1. m \in net /\ ReceivedPkt(m) = m.pkt /\ IsRequest(m.pkt) /\ ctoken = stoken
    BY <1>3, OpenedIsRequest DEF ServerForwards
  <2>2. /\ b \in Payload /\ b.app \in Apps /\ b.size \in Sizes
        /\ b.kind = "request" /\ b.size \in asked[b.app]
    BY <2>1 DEF IInv, TypeOK, IsRequest, Payload
  <2>3. b = [kind |-> "request", app |-> b.app, size |-> b.size]
    BY <2>2, PayloadParts
  <2>4. got' = [got EXCEPT ![t] = @ \cup {b}]
        /\ UNCHANGED <<tokens, asked, answered, told>>
    BY <1>3, <2>1 DEF ServerForwards
  <2>5. \A c \in got[t] : c.app = b.app
    <3>1. got'[t] = got[t] \cup {b}
      BY <2>4 DEF IInv, TypeOK
    <3> QED BY <3>1 DEF IInv, FlowsSeparate
  <2> HIDE DEF b
  <2>6. got' = [got EXCEPT ![t] = @ \cup {[kind |-> "request", app |-> b.app, size |-> b.size]}]
    BY <2>3, <2>4
  <2>7. Service!DeliverRequest(b.app, b.size, t)
    BY <2>1, <2>2, <2>4, <2>5, <2>6 DEF Service!DeliverRequest, tokens
  <2> QED BY <2>2, <2>7 DEF Service!Next
<1>4. ASSUME NEW t \in Socks, NEW n \in Sizes, NEW b \in got[t], ServerReplies(t, b, n)
      PROVE  Service!Next
  <2>1. b.app \in Apps
    BY DEF IInv, TypeOK, Payload
  <2>2. Service!Answer(b.app, n)
    BY <1>4 DEF ServerReplies, Service!Answer, tokens
  <2> QED BY <2>1, <2>2 DEF Service!Next
<1>5. ASSUME NEW m \in net \cup Foreign, ClientReplies(m)
      PROVE  Service!Next
  <2> DEFINE b == m.pkt.payload
  <2>1. m \in net /\ ReceivedPkt(m) = m.pkt /\ IsReply(m.pkt)
    BY <1>5, OpenedIsReply DEF ClientReplies
  <2>2. /\ b \in Payload /\ b.app \in Apps /\ b.size \in Sizes
        /\ b.kind = "reply" /\ b.size \in answered[b.app]
    BY <2>1 DEF IInv, TypeOK, IsReply, Payload
  <2>3. b = [kind |-> "reply", app |-> b.app, size |-> b.size]
    BY <2>2, PayloadParts
  <2>4. cowner[m.addr] = b.app
    BY <1>5, <2>1 DEF ClientReplies, IInv, OneAppPerAddr
  <2>5. told' = [told EXCEPT ![b.app] = @ \cup {b}]
        /\ UNCHANGED <<tokens, asked, got, answered>>
    BY <1>5, <2>1, <2>4 DEF ClientReplies
  <2> HIDE DEF b
  <2>6. told' = [told EXCEPT ![b.app] = @ \cup {[kind |-> "reply", app |-> b.app, size |-> b.size]}]
    BY <2>3, <2>5
  <2>7. Service!DeliverReply(b.app, b.size)
    BY <2>2, <2>5, <2>6 DEF Service!DeliverReply, tokens
  <2> QED BY <2>2, <2>7 DEF Service!Next
<1>6. CASE ClientRetires \/ ServerRetires
  BY <1>1, <1>6 DEF ClientRetires, ServerRetires
<1>7. CASE UNCHANGED vars
  BY <1>1, <1>7 DEF vars
<1> QED BY <1>2, <1>3, <1>4, <1>5, <1>6, <1>7 DEF Next

(* Two relays joined by the network implement the datagram service, for    *)
(* any applications, sockets, tokens and sizes, however sessions expire on *)
(* the two ends.                                                           *)
THEOREM Refinement == Spec => ServiceSpec
BY InitRefines, StepRefines, Invariant, PTL DEF Spec, ServiceSpec, Service!Spec
=============================================================================
