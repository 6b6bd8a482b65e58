-------------------------- MODULE HandshakeProofs --------------------------
(***************************************************************************)
(* Proofs about Handshake for any number of runs, tokens and settings.     *)
(***************************************************************************)
EXTENDS Handshake, TLAPS

(* Where every tag comes from: a server run that has read a nonce, a       *)
(* client run that has accepted one, or a server run that has announced.   *)
TagInv ==
    \A t \in tags :
       \/ \E s \in Servers : snc[s] # Nil /\ t = ServerTag(Token[s], snc[s], s)
       \/ \E c \in Clients : cns[c] # Nil /\ t = ClientTag(Token[c], c, cns[c])
       \/ \E s \in Servers : /\ spc[s] = "done"
                             /\ t = ConfigTag(Token[s], snc[s], s, Announce[s])

(* The nonce of the other side is read once. *)
OnceInv ==
    /\ \A c \in Clients : cpc[c] \in {"start", "reply"} => cns[c] = Nil
    /\ \A s \in Servers : spc[s] = "hello" => snc[s] = Nil

(* The server's agreement without the uniqueness that follows from it. *)
AcceptInv ==
    \A s \in Servers : Accepted(s) =>
        snc[s] \in Clients /\ Token[snc[s]] = Token[s] /\ cns[snc[s]] = s

IInv == TypeOK /\ OnceInv /\ TagInv /\ ClientAgreement /\ AcceptInv /\ ConfigAuthentic

(* A tag that verifies identifies the run that computed it. *)
LEMMA ServerTagOrigin ==
    ASSUME TagInv, NEW k, NEW nc, NEW ns, ServerTag(k, nc, ns) \in tags
    PROVE  ns \in Servers /\ k = Token[ns] /\ snc[ns] = nc /\ nc # Nil
BY DEF TagInv, ServerTag, ClientTag, ConfigTag, Sign, labelServer, labelClient,
       labelConfig

(* The same for the client's proof. *)
LEMMA ClientTagOrigin ==
    ASSUME TagInv, NEW k, NEW nc, NEW ns, ClientTag(k, nc, ns) \in tags
    PROVE  nc \in Clients /\ k = Token[nc] /\ cns[nc] = ns /\ ns # Nil
BY DEF TagInv, ServerTag, ClientTag, ConfigTag, Sign, labelServer, labelClient,
       labelConfig

(* The same for the settings. *)
LEMMA ConfigTagOrigin ==
    ASSUME TagInv, NEW k, NEW nc, NEW ns, NEW body, ConfigTag(k, nc, ns, body) \in tags
    PROVE  /\ ns \in Servers /\ spc[ns] = "done" /\ snc[ns] = nc
           /\ body = Announce[ns]
BY DEF TagInv, ServerTag, ClientTag, ConfigTag, Sign, labelServer, labelClient,
       labelConfig

(* The initial state satisfies the inductive invariant. *)
LEMMA InitInv == Init => IInv
BY HandshakeAssumption
   DEF Init, IInv, TypeOK, OnceInv, TagInv, ClientAgreement, AcceptInv, Accepted,
       ConfigAuthentic

(* Every message sent or read, and every failure, preserves it. *)
LEMMA NextInv == IInv /\ [Next]_vars => IInv'
<1> SUFFICES ASSUME IInv, [Next]_vars PROVE IInv'
  OBVIOUS
<1> USE HandshakeAssumption DEF IInv, cvars, svars
<1>1. ASSUME NEW c \in Clients, ClientHello(c)
      PROVE  IInv'
  <2>1. TypeOK'
    BY <1>1 DEF ClientHello, TypeOK
  <2>2. OnceInv'
    BY <1>1 DEF ClientHello, TypeOK, OnceInv
  <2>3. TagInv'
    BY <1>1 DEF ClientHello, TypeOK, OnceInv, TagInv
  <2>4. ClientAgreement'
    BY <1>1 DEF ClientHello, TypeOK, OnceInv, ClientAgreement
  <2>5. AcceptInv'
    BY <1>1 DEF ClientHello, TypeOK, OnceInv, AcceptInv, Accepted
  <2>6. ConfigAuthentic'
    BY <1>1 DEF ClientHello, TypeOK, OnceInv, ClientAgreement, ConfigAuthentic
  <2> QED
    BY <2>1, <2>2, <2>3, <2>4, <2>5, <2>6
<1>2. ASSUME NEW s \in Servers, NEW nc \in Clients \cup Servers \cup {Junk},
             ServerReply(s, nc)
      PROVE  IInv'
  <2>1. TypeOK'
    BY <1>2 DEF ServerReply, TypeOK
  <2>2. OnceInv'
    BY <1>2 DEF ServerReply, TypeOK, OnceInv
  <2>3. TagInv'
    BY <1>2 DEF ServerReply, TypeOK, OnceInv, TagInv
  <2>4. ClientAgreement'
    BY <1>2 DEF ServerReply, TypeOK, OnceInv, ClientAgreement
  <2>5. AcceptInv'
    BY <1>2 DEF ServerReply, TypeOK, OnceInv, AcceptInv, Accepted
  <2>6. ConfigAuthentic'
    BY <1>2 DEF ServerReply, TypeOK, OnceInv, ClientAgreement, ConfigAuthentic
  <2> QED
    BY <2>1, <2>2, <2>3, <2>4, <2>5, <2>6
<1>3. ASSUME NEW c \in Clients, NEW ns \in Clients \cup Servers \cup {Junk},
             ClientProof(c, ns)
      PROVE  IInv'
  <2>0. ns \in Servers /\ Token[ns] = Token[c] /\ snc[ns] = c /\ cns[c] = Nil
    BY <1>3, ServerTagOrigin DEF ClientProof, OnceInv
  <2>1. TypeOK'
    BY <1>3, <2>0 DEF ClientProof, TypeOK
  <2>2. OnceInv'
    BY <1>3, <2>0 DEF ClientProof, TypeOK, OnceInv
  <2>3. TagInv'
    BY <1>3, <2>0 DEF ClientProof, TypeOK, OnceInv, TagInv
  <2>4. ClientAgreement'
    BY <1>3, <2>0 DEF ClientProof, TypeOK, OnceInv, ClientAgreement
  <2>5. AcceptInv'
    BY <1>3, <2>0 DEF ClientProof, TypeOK, OnceInv, AcceptInv, Accepted
  <2>6. ConfigAuthentic'
    BY <1>3, <2>0 DEF ClientProof, TypeOK, OnceInv, ClientAgreement, ConfigAuthentic
  <2> QED
    BY <2>1, <2>2, <2>3, <2>4, <2>5, <2>6
<1>4. ASSUME NEW s \in Servers, ServerAccept(s)
      PROVE  IInv'
  <2>0. snc[s] \in Clients /\ Token[snc[s]] = Token[s] /\ cns[snc[s]] = s
    BY <1>4, ClientTagOrigin DEF ServerAccept
  <2>1. TypeOK'
    BY <1>4, <2>0 DEF ServerAccept, TypeOK
  <2>2. OnceInv'
    BY <1>4, <2>0 DEF ServerAccept, TypeOK, OnceInv
  <2>3. TagInv'
    BY <1>4, <2>0 DEF ServerAccept, TypeOK, OnceInv, TagInv
  <2>4. ClientAgreement'
    BY <1>4, <2>0 DEF ServerAccept, TypeOK, OnceInv, ClientAgreement
  <2>5. AcceptInv'
    BY <1>4, <2>0 DEF ServerAccept, TypeOK, OnceInv, AcceptInv, Accepted
  <2>6. ConfigAuthentic'
    BY <1>4, <2>0
       DEF ServerAccept, TypeOK, OnceInv, ClientAgreement,
           ConfigAuthentic
  <2> QED
    BY <2>1, <2>2, <2>3, <2>4, <2>5, <2>6
<1>5. ASSUME NEW s \in Servers, ServerAnnounce(s)
      PROVE  IInv'
  <2>1. TypeOK'
    BY <1>5 DEF ServerAnnounce, TypeOK
  <2>2. OnceInv'
    BY <1>5 DEF ServerAnnounce, TypeOK, OnceInv
  <2>3. TagInv'
    BY <1>5 DEF ServerAnnounce, TypeOK, OnceInv, TagInv
  <2>4. ClientAgreement'
    BY <1>5 DEF ServerAnnounce, TypeOK, OnceInv, ClientAgreement
  <2>5. AcceptInv'
    BY <1>5 DEF ServerAnnounce, TypeOK, OnceInv, AcceptInv, Accepted
  <2>6. ConfigAuthentic'
    BY <1>5 DEF ServerAnnounce, TypeOK, OnceInv, ClientAgreement, ConfigAuthentic
  <2> QED
    BY <2>1, <2>2, <2>3, <2>4, <2>5, <2>6
<1>6. ASSUME NEW c \in Clients, NEW body \in Known, ClientReceive(c, body)
      PROVE  IInv'
  <2>0. /\ cns[c] \in Servers /\ spc[cns[c]] = "done" /\ snc[cns[c]] = c
        /\ body = Announce[cns[c]]
    BY <1>6, ConfigTagOrigin DEF ClientReceive
  <2>1. TypeOK'
    BY <1>6, <2>0 DEF ClientReceive, TypeOK
  <2>2. OnceInv'
    BY <1>6, <2>0 DEF ClientReceive, TypeOK, OnceInv
  <2>3. TagInv'
    BY <1>6, <2>0 DEF ClientReceive, TypeOK, OnceInv, TagInv
  <2>4. ClientAgreement'
    BY <1>6, <2>0 DEF ClientReceive, TypeOK, OnceInv, ClientAgreement
  <2>5. AcceptInv'
    BY <1>6, <2>0 DEF ClientReceive, TypeOK, OnceInv, AcceptInv, Accepted
  <2>6. ConfigAuthentic'
    BY <1>6, <2>0
       DEF ClientReceive, TypeOK, OnceInv, ClientAgreement,
           ConfigAuthentic
  <2> QED
    BY <2>1, <2>2, <2>3, <2>4, <2>5, <2>6
<1>7. ASSUME NEW c \in Clients, ClientFails(c)
      PROVE  IInv'
  <2>1. TypeOK'
    BY <1>7 DEF ClientFails, TypeOK
  <2>2. OnceInv'
    BY <1>7 DEF ClientFails, TypeOK, OnceInv
  <2>3. TagInv'
    BY <1>7 DEF ClientFails, TypeOK, OnceInv, TagInv
  <2>4. ClientAgreement'
    BY <1>7 DEF ClientFails, TypeOK, OnceInv, ClientAgreement
  <2>5. AcceptInv'
    BY <1>7 DEF ClientFails, TypeOK, OnceInv, AcceptInv, Accepted
  <2>6. ConfigAuthentic'
    BY <1>7 DEF ClientFails, TypeOK, OnceInv, ClientAgreement, ConfigAuthentic
  <2> QED
    BY <2>1, <2>2, <2>3, <2>4, <2>5, <2>6
<1>8. ASSUME NEW s \in Servers, ServerFails(s)
      PROVE  IInv'
  <2>1. TypeOK'
    BY <1>8 DEF ServerFails, TypeOK
  <2>2. OnceInv'
    BY <1>8 DEF ServerFails, TypeOK, OnceInv
  <2>3. TagInv'
    BY <1>8 DEF ServerFails, TypeOK, OnceInv, TagInv
  <2>4. ClientAgreement'
    BY <1>8 DEF ServerFails, TypeOK, OnceInv, ClientAgreement
  <2>5. AcceptInv'
    BY <1>8 DEF ServerFails, TypeOK, OnceInv, AcceptInv, Accepted
  <2>6. ConfigAuthentic'
    BY <1>8 DEF ServerFails, TypeOK, OnceInv, ClientAgreement, ConfigAuthentic
  <2> QED
    BY <2>1, <2>2, <2>3, <2>4, <2>5, <2>6
<1>9. CASE UNCHANGED vars
  BY <1>9 DEF vars, TypeOK, OnceInv, TagInv, ClientAgreement, AcceptInv, Accepted,
     ConfigAuthentic
<1> QED
  BY <1>1, <1>2, <1>3, <1>4, <1>5, <1>6, <1>7, <1>8, <1>9 DEF Next

(* The inductive invariant holds throughout. *)
LEMMA Invariance == Spec => []IInv
BY InitInv, NextInv, PTL DEF Spec

(* Every variable of the handshake keeps its type. *)
THEOREM TypeCorrect == Spec => []TypeOK
<1>1. IInv => TypeOK
  BY DEF IInv
<1> QED
  BY <1>1, Invariance, PTL

(* A server run that accepts was answered by a client run with the same    *)
(* token and the same two nonces, and by one that no other server run can  *)
(* use.                                                                    *)
THEOREM ServerAuthenticates == Spec => []ServerAgreement
<1>1. IInv => ServerAgreement
  BY DEF IInv, AcceptInv, ServerAgreement
<1> QED
  BY <1>1, Invariance, PTL

(* A client run that accepts was answered by a server run with the same    *)
(* token and the same two nonces.                                          *)
THEOREM ClientAuthenticates == Spec => []ClientAgreement
<1>1. IInv => ClientAgreement
  BY DEF IInv
<1> QED
  BY <1>1, Invariance, PTL

(* The settings a client receives are those of the server run it shook     *)
(* hands with.                                                             *)
THEOREM ConfigIsAuthentic == Spec => []ConfigAuthentic
<1>1. IInv => ConfigAuthentic
  BY DEF IInv
<1> QED
  BY <1>1, Invariance, PTL
-----------------------------------------------------------------------------
(* The refinement of Agreement *)

(* Settings are sent and awaited on control connections only, and received *)
(* once.                                                                   *)
ControlInv ==
    /\ \A c \in Clients : cpc[c] = "config" => c \in Control
    /\ \A c \in Clients : cpc[c] \in {"start", "reply", "config"} => got[c] = Nil
    /\ \A s \in Servers : spc[s] = "announce" => s \in Control
    /\ \A t \in tags : t.label = labelConfig => t.ns \in Control

(* The initial state satisfies it. *)
LEMMA InitControl == Init => ControlInv
BY DEF Init, ControlInv

(* Every step preserves it. *)
LEMMA NextControl == TypeOK /\ ControlInv /\ [Next]_vars => ControlInv'
<1> SUFFICES ASSUME TypeOK, ControlInv, [Next]_vars PROVE ControlInv'
  OBVIOUS
<1> USE DEF TypeOK, ControlInv, cvars, svars
<1>1. ASSUME NEW c \in Clients, ClientHello(c) PROVE ControlInv'
  BY <1>1 DEF ClientHello
<1>2. ASSUME NEW s \in Servers, NEW nc, ServerReply(s, nc) PROVE ControlInv'
  BY <1>2 DEF ServerReply, ServerTag, Sign, labelServer, labelConfig
<1>3. ASSUME NEW c \in Clients, NEW ns, ClientProof(c, ns) PROVE ControlInv'
  BY <1>3 DEF ClientProof, ClientTag, Sign, labelClient, labelConfig
<1>4. ASSUME NEW s \in Servers, ServerAccept(s) PROVE ControlInv'
  BY <1>4 DEF ServerAccept
<1>5. ASSUME NEW s \in Servers, ServerAnnounce(s) PROVE ControlInv'
  BY <1>5 DEF ServerAnnounce, ConfigTag, Sign
<1>6. ASSUME NEW c \in Clients, NEW body, ClientReceive(c, body) PROVE ControlInv'
  BY <1>6 DEF ClientReceive
<1>7. ASSUME NEW c \in Clients, ClientFails(c) PROVE ControlInv'
  BY <1>7 DEF ClientFails
<1>8. ASSUME NEW s \in Servers, ServerFails(s) PROVE ControlInv'
  BY <1>8 DEF ServerFails
<1>9. CASE UNCHANGED vars
  BY <1>9 DEF vars
<1> QED
  BY <1>1, <1>2, <1>3, <1>4, <1>5, <1>6, <1>7, <1>8, <1>9 DEF Next

(* The initial state is one of Agreement. *)
LEMMA InitRefines == Init => Agreed!Init
BY DEF Init, Agreed!Init, Accepted

(* Every step of the handshake is a step of Agreement or changes nothing   *)
(* there.                                                                  *)
LEMMA StepRefines == IInv /\ ControlInv /\ [Next]_vars => [Agreed!Next]_(Agreed!agreementVars)
<1> SUFFICES ASSUME IInv, ControlInv, [Next]_vars
             PROVE  [Agreed!Next]_(Agreed!agreementVars)
  OBVIOUS
<1> DEFINE acc == {s \in Servers : Accepted(s)}
<1> USE DEF cvars, svars
<1>0. TypeOK
  BY DEF IInv
<1>1. ASSUME UNCHANGED <<cns, got>>, acc' = acc PROVE UNCHANGED Agreed!agreementVars
  BY <1>1 DEF Agreed!agreementVars
<1>2. ASSUME NEW c \in Clients, ClientHello(c) \/ ClientFails(c)
      PROVE  UNCHANGED Agreed!agreementVars
  BY <1>1, <1>2 DEF ClientHello, ClientFails, Accepted
<1>3. ASSUME NEW s \in Servers, NEW nc, ServerReply(s, nc)
      PROVE  UNCHANGED Agreed!agreementVars
  <2>1. acc' = acc
    BY <1>0, <1>3 DEF ServerReply, Accepted, TypeOK
  <2> QED
    BY <1>1, <1>3, <2>1 DEF ServerReply
<1>4. ASSUME NEW c \in Clients, NEW ns, ClientProof(c, ns)
      PROVE  Agreed!Next
  <2>1. ns \in Servers /\ Token[ns] = Token[c] /\ snc[ns] = c /\ cns[c] = Nil
    BY <1>4, ServerTagOrigin DEF ClientProof, IInv, OnceInv
  <2>2. \A d \in Clients : cns[d] # ns
    BY <2>1, HandshakeAssumption DEF IInv, ClientAgreement
  <2>3. acc' = acc
    BY <1>4 DEF ClientProof, Accepted
  <2>4. Agreed!Trust(c, ns)
    BY <1>4, <2>1, <2>2, <2>3 DEF ClientProof, Agreed!Trust
  <2> QED
    BY <2>1, <2>4 DEF Agreed!Next
<1>5. ASSUME NEW s \in Servers, ServerAccept(s)
      PROVE  Agreed!Next
  <2>1. snc[s] \in Clients /\ cns[snc[s]] = s
    BY <1>5, ClientTagOrigin DEF ServerAccept, IInv
  <2>2. s \notin acc /\ acc' = acc \cup {s}
    BY <1>0, <1>5 DEF ServerAccept, Accepted, TypeOK
  <2>3. Agreed!Accept(s)
    BY <1>5, <2>1, <2>2 DEF ServerAccept, Agreed!Accept
  <2> QED
    BY <2>3 DEF Agreed!Next
<1>6. ASSUME NEW s \in Servers, ServerAnnounce(s)
      PROVE  UNCHANGED Agreed!agreementVars
  <2>1. acc' = acc
    BY <1>0, <1>6 DEF ServerAnnounce, Accepted, TypeOK
  <2> QED
    BY <1>1, <1>6, <2>1 DEF ServerAnnounce
<1>7. ASSUME NEW c \in Clients, NEW body \in Known, ClientReceive(c, body)
      PROVE  Agreed!Next
  <2>1. /\ cns[c] \in Servers /\ spc[cns[c]] = "done"
        /\ body = Announce[cns[c]]
    BY <1>7, ConfigTagOrigin DEF ClientReceive, IInv
  <2>2. c \in Control /\ cns[c] \in Control /\ got[c] = Nil
    BY <1>7 DEF ClientReceive, ControlInv, ConfigTag, Sign
  <2>3. cns[c] \in acc /\ acc' = acc
    BY <1>7, <2>1 DEF ClientReceive, Accepted
  <2>4. Agreed!Apply(c)
    BY <1>7, <2>1, <2>2, <2>3 DEF ClientReceive, Agreed!Apply
  <2> QED
    BY <2>4 DEF Agreed!Next
<1>8. ASSUME NEW s \in Servers, ServerFails(s)
      PROVE  [Agreed!Next]_(Agreed!agreementVars)
  <2>1. acc' = acc \ {s}
    BY <1>0, <1>8 DEF ServerFails, Accepted, TypeOK
  <2>2. CASE s \in acc
    <3>1. Agreed!Leave(s)
      BY <1>8, <2>1, <2>2 DEF ServerFails, Agreed!Leave
    <3> QED
      BY <3>1 DEF Agreed!Next
  <2>3. CASE s \notin acc
    BY <1>1, <1>8, <2>1, <2>3 DEF ServerFails
  <2> QED
    BY <2>2, <2>3
<1>9. CASE UNCHANGED vars
  BY <1>1, <1>9 DEF vars, Accepted
<1> QED
  BY <1>2, <1>3, <1>4, <1>5, <1>6, <1>7, <1>8, <1>9 DEF Next

(* The handshake implements Agreement: a client run and a server run are   *)
(* paired one to one, by their tokens and for good, each learns of it in   *)
(* turn, and settings pass only from a server run to its own client run.   *)
THEOREM Refinement == Spec => AgreementSpec
<1>1. IInv => TypeOK
  BY DEF IInv
<1> QED
  BY <1>1, InitControl, NextControl, InitRefines, StepRefines, Invariance, PTL
     DEF Spec, AgreementSpec, Agreed!Spec
=============================================================================
