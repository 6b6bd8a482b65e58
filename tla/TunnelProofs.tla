---------------------------- MODULE TunnelProofs ----------------------------
(***************************************************************************)
(* Proofs about one relay (StreamRelay) and about a connection through two *)
(* of them (Tunnel), for any number of bytes, any combination of sides     *)
(* with and without CloseWrite and any set of stream kinds.                *)
(***************************************************************************)
EXTENDS Tunnel, TLAPS

(* There are two sides, each the other's other. *)
LEMMA OtherSide ==
    \A x \in Sides : /\ Other(x) \in Sides /\ Other(x) # x /\ Other(Other(x)) = x
                     /\ \A y \in Sides : y = x \/ y = Other(x)
BY DEF Sides, Other

(* The same for the client's relay. *)
LEMMA ClientSide ==
    /\ C!Sides = Sides
    /\ \A x \in Sides : /\ C!Other(x) \in Sides /\ C!Other(x) # x /\ C!Other(C!Other(x)) = x
                        /\ \A y \in Sides : y = x \/ y = C!Other(x)
BY DEF Sides, C!Sides, C!Other

(* Adding to one of the two counters leaves both natural numbers. *)
LEMMA BytesAdd ==
    \A f, g \in [Sides -> Nat] : \A y \in Sides :
        [f EXCEPT ![y] = @ + g[y]] \in [Sides -> Nat]
<1> SUFFICES ASSUME NEW f \in [Sides -> Nat], NEW g \in [Sides -> Nat], NEW y \in Sides
             PROVE  [f EXCEPT ![y] = f[y] + g[y]] \in [Sides -> Nat]
  OBVIOUS
<1>1. f[y] + g[y] \in Nat
  OBVIOUS
<1> QED
  BY <1>1
-----------------------------------------------------------------------------
(* One relay *)

(* The initial state satisfies the inductive invariant. *)
LEMMA InitInv == Init => RelayInv
BY RelayAssumption, OtherSide
   DEF Init, RelayInv, NatTypes, Conserved, CopyInv, EndInv, NothingLost, GaveUp, Drains

(* Every step of a relay preserves its inductive invariant. *)
LEMMA ServerStep == RelayInv /\ [Next]_vars => RelayInv'
<1> SUFFICES ASSUME RelayInv, [Next]_vars PROVE RelayInv'
  OBVIOUS
<1> USE RelayAssumption, OtherSide DEF RelayInv
<1>1. ASSUME NEW x \in Sides, NEW n \in 1 .. MaxBytes, Arrive(x, n) PROVE RelayInv'
  <2>1. NatTypes'
    BY <1>1 DEF Arrive, NatTypes
  <2>2. Conserved'
    BY <1>1 DEF Arrive, NatTypes, Conserved, CopyInv
  <2>3. CopyInv'
    BY <1>1 DEF Arrive, NatTypes, CopyInv
  <2>4. (EndInv /\ NothingLost /\ GaveUp /\ Drains)'
    BY <1>1 DEF Arrive, NatTypes, CopyInv, EndInv, NothingLost, GaveUp, Drains,
       Severed, Gone, Broken
  <2> QED
    BY <2>1, <2>2, <2>3, <2>4
<1>2. ASSUME NEW x \in Sides, PeerFinishes(x) PROVE RelayInv'
  <2>1. NatTypes'
    BY <1>2 DEF PeerFinishes, NatTypes
  <2>2. Conserved'
    BY <1>2 DEF PeerFinishes, NatTypes, Conserved, CopyInv
  <2>3. CopyInv'
    BY <1>2 DEF PeerFinishes, NatTypes, CopyInv
  <2>4. (EndInv /\ NothingLost /\ GaveUp /\ Drains)'
    BY <1>2 DEF PeerFinishes, NatTypes, CopyInv, EndInv, NothingLost, GaveUp,
       Drains, Severed, Gone, Broken
  <2> QED
    BY <2>1, <2>2, <2>3, <2>4
<1>3. ASSUME NEW x \in Sides, PeerBreaks(x) PROVE RelayInv'
  <2>1. NatTypes'
    BY <1>3 DEF PeerBreaks, NatTypes
  <2>2. Conserved'
    BY <1>3 DEF PeerBreaks, NatTypes, Conserved, CopyInv
  <2>3. CopyInv'
    BY <1>3 DEF PeerBreaks, NatTypes, CopyInv
  <2>4. (EndInv /\ NothingLost /\ GaveUp /\ Drains)'
    BY <1>3 DEF PeerBreaks, NatTypes, CopyInv, EndInv, NothingLost, GaveUp, Drains,
       Severed, Gone, Broken
  <2> QED
    BY <2>1, <2>2, <2>3, <2>4
<1>4. ASSUME NEW x \in Sides, Read(x) PROVE RelayInv'
  <2>1. NatTypes'
    BY <1>4 DEF Read, Goto, NatTypes
  <2>2. Conserved'
    BY <1>4 DEF Read, Goto, NatTypes, Conserved, CopyInv
  <2>3. CopyInv'
    BY <1>4 DEF Read, Goto, NatTypes, CopyInv
  <2>4. (EndInv /\ NothingLost /\ GaveUp /\ Drains)'
    BY <1>4 DEF Read, Goto, NatTypes, CopyInv, EndInv, NothingLost, GaveUp, Drains,
       Severed, Gone, Broken
  <2> QED
    BY <2>1, <2>2, <2>3, <2>4
<1>5. ASSUME NEW x \in Sides, Write(x) PROVE RelayInv'
  <2>1. NatTypes'
    BY <1>5 DEF Write, Goto, NatTypes
  <2>2. Conserved'
    BY <1>5 DEF Write, Goto, NatTypes, Conserved, CopyInv
  <2>3. CopyInv'
    BY <1>5 DEF Write, Goto, NatTypes, CopyInv
  <2>4. (EndInv /\ NothingLost /\ GaveUp /\ Drains)'
    BY <1>5 DEF Write, Goto, NatTypes, CopyInv, EndInv, NothingLost, GaveUp,
       Drains, Severed, Gone, Broken
  <2> QED
    BY <2>1, <2>2, <2>3, <2>4
<1>6. ASSUME NEW x \in Sides, WriteFails(x) PROVE RelayInv'
  <2>1. NatTypes'
    BY <1>6 DEF WriteFails, Goto, NatTypes, Gone
  <2>2. Conserved'
    BY <1>6 DEF WriteFails, Goto, NatTypes, Conserved, CopyInv
  <2>3. CopyInv'
    BY <1>6 DEF WriteFails, Goto, NatTypes, CopyInv
  <2>4. (EndInv /\ NothingLost /\ GaveUp /\ Drains)'
    BY <1>6 DEF WriteFails, Goto, NatTypes, CopyInv, EndInv, NothingLost, GaveUp,
       Drains, Severed, Gone, Broken
  <2> QED
    BY <2>1, <2>2, <2>3, <2>4
<1>7. ASSUME NEW x \in Sides, ReadEnds(x) PROVE RelayInv'
  <2>1. NatTypes'
    BY <1>7 DEF ReadEnds, Goto, NatTypes
  <2>2. Conserved'
    BY <1>7 DEF ReadEnds, Goto, NatTypes, Conserved, CopyInv
  <2>3. CopyInv'
    BY <1>7 DEF ReadEnds, Goto, NatTypes, CopyInv
  <2>4. (EndInv /\ NothingLost /\ GaveUp /\ Drains)'
    BY <1>7 DEF ReadEnds, Goto, NatTypes, CopyInv, EndInv, NothingLost, GaveUp,
       Drains, Severed, Gone, Broken
  <2> QED
    BY <2>1, <2>2, <2>3, <2>4
<1>8. ASSUME NEW x \in Sides, Finishes(x) PROVE RelayInv'
  <2>1. NatTypes'
    <3>1. CASE Other(x) \in half
      <4>1. /\ shut' = [shut EXCEPT ![Other(x)] = TRUE]
            /\ UNCHANGED <<closed, lost, unread>>
        BY <1>8, <3>1 DEF Finishes
      <4> QED
        BY <1>8, <4>1 DEF Finishes, Goto, NatTypes
    <3>2. CASE Other(x) \notin half
      <4>1. /\ closed' = [closed EXCEPT ![Other(x)] = TRUE] /\ shut' = shut
            /\ lost' = [lost EXCEPT ![Other(x)] = @ + unread[Other(x)]]
            /\ unread' = [unread EXCEPT ![Other(x)] = 0]
        BY <1>8, <3>2 DEF Finishes
      <4>2. lost' \in [Sides -> Nat]
        BY <4>1, BytesAdd DEF NatTypes
      <4> QED
        BY <1>8, <4>1, <4>2 DEF Finishes, Goto, NatTypes
    <3> QED
      BY <3>1, <3>2
  <2>2. Conserved'
    BY <1>8 DEF Finishes, Goto, NatTypes, Conserved, CopyInv
  <2>3. CopyInv'
    BY <1>8 DEF Finishes, Goto, NatTypes, CopyInv
  <2>4. (EndInv /\ NothingLost /\ GaveUp /\ Drains)'
    BY <1>8 DEF Finishes, Goto, NatTypes, CopyInv, EndInv, NothingLost, GaveUp,
       Drains, Severed, Gone, Broken
  <2> QED
    BY <2>1, <2>2, <2>3, <2>4
<1>9. ASSUME PipeReturns PROVE RelayInv'
  <2>1. NatTypes'
    BY <1>9 DEF PipeReturns, NatTypes
  <2>2. Conserved'
    BY <1>9 DEF PipeReturns, NatTypes, Conserved, CopyInv
  <2>3. CopyInv'
    BY <1>9 DEF PipeReturns, NatTypes, CopyInv
  <2>4. (EndInv /\ NothingLost /\ GaveUp /\ Drains)'
    BY <1>9 DEF PipeReturns, NatTypes, CopyInv, EndInv, NothingLost, GaveUp,
       Drains, Severed, Gone, Broken
  <2> QED
    BY <2>1, <2>2, <2>3, <2>4
<1>10. CASE UNCHANGED vars
  BY <1>10 DEF vars, NatTypes, Conserved, CopyInv, EndInv,
     NothingLost, GaveUp, Drains, Severed, Gone, Broken
<1> QED
  BY <1>1, <1>2, <1>3, <1>4, <1>5, <1>6, <1>7, <1>8, <1>9, <1>10
     DEF Next, CopyHalf, PeerSends

(* The inductive invariant holds throughout. *)
LEMMA Invariance == Spec => []RelayInv
BY InitInv, ServerStep, PTL DEF Spec

(* Every variable keeps its type; in particular no side is written more    *)
(* bytes than the other sent.                                              *)
THEOREM TypeCorrect == Spec => []TypeOK
<1>1. RelayInv => TypeOK
  <2> SUFFICES ASSUME RelayInv PROVE TypeOK
    OBVIOUS
  <2>1. \A x \in Sides : /\ unread[x] \in 0 .. MaxBytes /\ held[x] \in 0 .. MaxBytes
                        /\ wrote[x] \in 0 .. MaxBytes /\ lost[x] \in 0 .. MaxBytes
    <3> SUFFICES ASSUME NEW x \in Sides
                 PROVE  /\ unread[x] \in 0 .. MaxBytes /\ held[x] \in 0 .. MaxBytes
                        /\ wrote[x] \in 0 .. MaxBytes /\ lost[x] \in 0 .. MaxBytes
      OBVIOUS
    <3>1. /\ sent[x] = unread[x] + held[x] + wrote[Other(x)] + lost[x]
          /\ sent[Other(x)] = unread[Other(x)] + held[Other(x)] + wrote[x] + lost[Other(x)]
      BY OtherSide DEF RelayInv, Conserved
    <3> QED
      BY <3>1, OtherSide, RelayAssumption DEF RelayInv, NatTypes
  <2> QED
    BY <2>1 DEF RelayInv, NatTypes, TypeOK
<1> QED
  BY <1>1, Invariance, PTL

(* Nothing from a side with CloseWrite is lost unless a connection breaks. *)
THEOREM NothingIsLost == Spec => []NothingLost
<1>1. RelayInv => NothingLost
  BY DEF RelayInv
<1> QED
  BY <1>1, Invariance, PTL

(* An end of file is passed on only after all that preceded it. *)
THEOREM EOFIsClean == Spec => []CleanEOF
<1>1. RelayInv => CleanEOF
  <2> SUFFICES ASSUME RelayInv, ~Severed, NEW x \in half, pc[x] = "done"
               PROVE  end[x] = "eof" /\ wrote[Other(x)] = sent[x]
    BY DEF CleanEOF
  <2>1. x \in Sides /\ unread[x] = 0 /\ held[x] = 0 /\ lost[x] = 0 /\ end[x] = "eof"
    BY DEF RelayInv, NatTypes, CopyInv, EndInv, NothingLost
  <2>2. sent[x] = unread[x] + held[x] + wrote[Other(x)] + lost[x]
    BY <2>1 DEF RelayInv, Conserved
  <2> QED
    BY <2>1, <2>2, OtherSide DEF RelayInv, NatTypes
<1> QED
  BY <1>1, Invariance, PTL
-----------------------------------------------------------------------------
(* The client's relay *)

(* The same step lemma for the instance of the relay on the client.        *)
LEMMA ClientStep == C!RelayInv /\ [C!Next]_(C!vars) => C!RelayInv'
<1> SUFFICES ASSUME C!RelayInv, [C!Next]_(C!vars) PROVE C!RelayInv'
  OBVIOUS
<1> USE RelayAssumption, ClientSide DEF C!RelayInv
<1>1. ASSUME NEW x \in Sides, NEW n \in 1 .. MaxBytes, C!Arrive(x, n) PROVE C!RelayInv'
  <2>1. C!NatTypes'
    BY <1>1 DEF C!Arrive, C!NatTypes
  <2>2. C!Conserved'
    BY <1>1 DEF C!Arrive, C!NatTypes, C!Conserved, C!CopyInv
  <2>3. C!CopyInv'
    BY <1>1 DEF C!Arrive, C!NatTypes, C!CopyInv
  <2>4. (C!EndInv /\ C!NothingLost /\ C!GaveUp /\ C!Drains)'
    BY <1>1 DEF C!Arrive, C!NatTypes, C!CopyInv, C!EndInv, C!NothingLost, C!GaveUp,
       C!Drains, C!Severed, C!Gone, C!Broken
  <2> QED
    BY <2>1, <2>2, <2>3, <2>4
<1>2. ASSUME NEW x \in Sides, C!PeerFinishes(x) PROVE C!RelayInv'
  <2>1. C!NatTypes'
    BY <1>2 DEF C!PeerFinishes, C!NatTypes
  <2>2. C!Conserved'
    BY <1>2 DEF C!PeerFinishes, C!NatTypes, C!Conserved, C!CopyInv
  <2>3. C!CopyInv'
    BY <1>2 DEF C!PeerFinishes, C!NatTypes, C!CopyInv
  <2>4. (C!EndInv /\ C!NothingLost /\ C!GaveUp /\ C!Drains)'
    BY <1>2 DEF C!PeerFinishes, C!NatTypes, C!CopyInv, C!EndInv, C!NothingLost,
       C!GaveUp, C!Drains, C!Severed, C!Gone, C!Broken
  <2> QED
    BY <2>1, <2>2, <2>3, <2>4
<1>3. ASSUME NEW x \in Sides, C!PeerBreaks(x) PROVE C!RelayInv'
  <2>1. C!NatTypes'
    BY <1>3 DEF C!PeerBreaks, C!NatTypes
  <2>2. C!Conserved'
    BY <1>3 DEF C!PeerBreaks, C!NatTypes, C!Conserved, C!CopyInv
  <2>3. C!CopyInv'
    BY <1>3 DEF C!PeerBreaks, C!NatTypes, C!CopyInv
  <2>4. (C!EndInv /\ C!NothingLost /\ C!GaveUp /\ C!Drains)'
    BY <1>3 DEF C!PeerBreaks, C!NatTypes, C!CopyInv, C!EndInv, C!NothingLost,
       C!GaveUp, C!Drains, C!Severed, C!Gone, C!Broken
  <2> QED
    BY <2>1, <2>2, <2>3, <2>4
<1>4. ASSUME NEW x \in Sides, C!Read(x) PROVE C!RelayInv'
  <2>1. C!NatTypes'
    BY <1>4 DEF C!Read, C!Goto, C!NatTypes
  <2>2. C!Conserved'
    BY <1>4 DEF C!Read, C!Goto, C!NatTypes, C!Conserved, C!CopyInv
  <2>3. C!CopyInv'
    BY <1>4 DEF C!Read, C!Goto, C!NatTypes, C!CopyInv
  <2>4. (C!EndInv /\ C!NothingLost /\ C!GaveUp /\ C!Drains)'
    BY <1>4 DEF C!Read, C!Goto, C!NatTypes, C!CopyInv, C!EndInv, C!NothingLost,
       C!GaveUp, C!Drains, C!Severed, C!Gone, C!Broken
  <2> QED
    BY <2>1, <2>2, <2>3, <2>4
<1>5. ASSUME NEW x \in Sides, C!Write(x) PROVE C!RelayInv'
  <2>1. C!NatTypes'
    BY <1>5 DEF C!Write, C!Goto, C!NatTypes
  <2>2. C!Conserved'
    BY <1>5 DEF C!Write, C!Goto, C!NatTypes, C!Conserved, C!CopyInv
  <2>3. C!CopyInv'
    BY <1>5 DEF C!Write, C!Goto, C!NatTypes, C!CopyInv
  <2>4. (C!EndInv /\ C!NothingLost /\ C!GaveUp /\ C!Drains)'
    BY <1>5 DEF C!Write, C!Goto, C!NatTypes, C!CopyInv, C!EndInv, C!NothingLost,
       C!GaveUp, C!Drains, C!Severed, C!Gone, C!Broken
  <2> QED
    BY <2>1, <2>2, <2>3, <2>4
<1>6. ASSUME NEW x \in Sides, C!WriteFails(x) PROVE C!RelayInv'
  <2>1. C!NatTypes'
    BY <1>6 DEF C!WriteFails, C!Goto, C!NatTypes, C!Gone
  <2>2. C!Conserved'
    BY <1>6 DEF C!WriteFails, C!Goto, C!NatTypes, C!Conserved, C!CopyInv
  <2>3. C!CopyInv'
    BY <1>6 DEF C!WriteFails, C!Goto, C!NatTypes, C!CopyInv
  <2>4. (C!EndInv /\ C!NothingLost /\ C!GaveUp /\ C!Drains)'
    BY <1>6 DEF C!WriteFails, C!Goto, C!NatTypes, C!CopyInv, C!EndInv,
       C!NothingLost, C!GaveUp, C!Drains, C!Severed, C!Gone, C!Broken
  <2> QED
    BY <2>1, <2>2, <2>3, <2>4
<1>7. ASSUME NEW x \in Sides, C!ReadEnds(x) PROVE C!RelayInv'
  <2>1. C!NatTypes'
    BY <1>7 DEF C!ReadEnds, C!Goto, C!NatTypes
  <2>2. C!Conserved'
    BY <1>7 DEF C!ReadEnds, C!Goto, C!NatTypes, C!Conserved, C!CopyInv
  <2>3. C!CopyInv'
    BY <1>7 DEF C!ReadEnds, C!Goto, C!NatTypes, C!CopyInv
  <2>4. (C!EndInv /\ C!NothingLost /\ C!GaveUp /\ C!Drains)'
    BY <1>7 DEF C!ReadEnds, C!Goto, C!NatTypes, C!CopyInv, C!EndInv, C!NothingLost,
       C!GaveUp, C!Drains, C!Severed, C!Gone, C!Broken
  <2> QED
    BY <2>1, <2>2, <2>3, <2>4
<1>8. ASSUME NEW x \in Sides, C!Finishes(x) PROVE C!RelayInv'
  <2>1. C!NatTypes'
    <3>1. CASE C!Other(x) \in chalf
      <4>1. /\ cshut' = [cshut EXCEPT ![C!Other(x)] = TRUE]
            /\ UNCHANGED <<cclosed, clost, cunread>>
        BY <1>8, <3>1 DEF C!Finishes
      <4> QED
        BY <1>8, <4>1 DEF C!Finishes, C!Goto, C!NatTypes
    <3>2. CASE C!Other(x) \notin chalf
      <4>1. /\ cclosed' = [cclosed EXCEPT ![C!Other(x)] = TRUE] /\ cshut' = cshut
            /\ clost' = [clost EXCEPT ![C!Other(x)] = @ + cunread[C!Other(x)]]
            /\ cunread' = [cunread EXCEPT ![C!Other(x)] = 0]
        BY <1>8, <3>2 DEF C!Finishes
      <4>2. clost' \in [Sides -> Nat]
        BY <4>1, BytesAdd DEF C!NatTypes
      <4> QED
        BY <1>8, <4>1, <4>2 DEF C!Finishes, C!Goto, C!NatTypes
    <3> QED
      BY <3>1, <3>2
  <2>2. C!Conserved'
    BY <1>8 DEF C!Finishes, C!Goto, C!NatTypes, C!Conserved, C!CopyInv
  <2>3. C!CopyInv'
    BY <1>8 DEF C!Finishes, C!Goto, C!NatTypes, C!CopyInv
  <2>4. (C!EndInv /\ C!NothingLost /\ C!GaveUp /\ C!Drains)'
    BY <1>8 DEF C!Finishes, C!Goto, C!NatTypes, C!CopyInv, C!EndInv, C!NothingLost,
       C!GaveUp, C!Drains, C!Severed, C!Gone, C!Broken
  <2> QED
    BY <2>1, <2>2, <2>3, <2>4
<1>9. ASSUME C!PipeReturns PROVE C!RelayInv'
  <2>1. C!NatTypes'
    BY <1>9 DEF C!PipeReturns, C!NatTypes
  <2>2. C!Conserved'
    BY <1>9 DEF C!PipeReturns, C!NatTypes, C!Conserved, C!CopyInv
  <2>3. C!CopyInv'
    BY <1>9 DEF C!PipeReturns, C!NatTypes, C!CopyInv
  <2>4. (C!EndInv /\ C!NothingLost /\ C!GaveUp /\ C!Drains)'
    BY <1>9 DEF C!PipeReturns, C!NatTypes, C!CopyInv, C!EndInv, C!NothingLost,
       C!GaveUp, C!Drains, C!Severed, C!Gone, C!Broken
  <2> QED
    BY <2>1, <2>2, <2>3, <2>4
<1>10. CASE UNCHANGED C!vars
  BY <1>10 DEF C!vars, C!NatTypes, C!Conserved, C!CopyInv, C!EndInv,
     C!NothingLost, C!GaveUp, C!Drains, C!Severed, C!Gone, C!Broken
<1> QED
  BY <1>1, <1>2, <1>3, <1>4, <1>5, <1>6, <1>7, <1>8, <1>9, <1>10
     DEF C!Next, C!CopyHalf, C!PeerSends
-----------------------------------------------------------------------------
(* The stream between the relays *)

(* The protocol decides which sides have CloseWrite. *)
StreamKind ==
    /\ kind \in Kinds /\ link \in {"up", "broken"}
    /\ target \in {"dialing", "dialed", "refused"}
    /\ kind = "half" => half = {"a", "b"}
    /\ kind # "half" => half = {"b"}
    /\ target = "refused" => end["a"] = "err"

(* What has arrived at the server is what the client wrote, and all of it  *)
(* unless the stream broke; an end of file says that the client finished.  *)
ToServer ==
    /\ sent["a"] <= cwrote["b"]
    /\ link = "up" /\ end["a"] = "no" => sent["a"] = cwrote["b"] /\ cpc["a"] # "done"
    /\ end["a"] = "eof" => sent["a"] = cwrote["b"] /\ cpc["a"] = "done"

(* The same for the client, where an end of file may also be a refusal. *)
ToClient ==
    /\ csent["b"] <= wrote["a"]
    /\ link = "up" /\ cend["b"] = "no" =>
          csent["b"] = wrote["a"] /\ pc["b"] # "done" /\ target # "refused"
    /\ cend["b"] = "eof" =>
          csent["b"] = wrote["a"] /\ (pc["b"] = "done" \/ target = "refused")

TunnelInv == RelayInv /\ C!RelayInv /\ StreamKind /\ ToServer /\ ToClient

(* Each copyHalf holds at most what one far end may send. *)
LEMMA HeldBound ==
    ASSUME RelayInv, C!RelayInv
    PROVE  /\ pc["b"] = "write" => held["b"] \in 1 .. MaxBytes
           /\ cpc["a"] = "write" => cheld["a"] \in 1 .. MaxBytes
<1>1. /\ "a" \in Sides /\ "b" \in Sides /\ Other("b") = "a" /\ Other("a") = "b"
      /\ C!Sides = Sides /\ C!Other("b") = "a" /\ C!Other("a") = "b"
  BY DEF Sides, C!Sides, Other, C!Other
<1>2. /\ sent["b"] \in 0 .. MaxBytes /\ unread["b"] \in Nat /\ held["b"] \in Nat
      /\ wrote["a"] \in Nat /\ lost["b"] \in Nat
      /\ sent["b"] = unread["b"] + held["b"] + wrote["a"] + lost["b"]
      /\ pc["b"] = "write" => held["b"] > 0
  BY <1>1 DEF RelayInv, NatTypes, Conserved, CopyInv
<1>3. /\ csent["a"] \in 0 .. MaxBytes /\ cunread["a"] \in Nat /\ cheld["a"] \in Nat
      /\ cwrote["b"] \in Nat /\ clost["a"] \in Nat
      /\ csent["a"] = cunread["a"] + cheld["a"] + cwrote["b"] + clost["a"]
      /\ cpc["a"] = "write" => cheld["a"] > 0
  BY <1>1 DEF C!RelayInv, C!NatTypes, C!Conserved, C!CopyInv
<1> QED
  BY <1>2, <1>3, RelayAssumption

(* A step of the tunnel is a step of each relay, or leaves it alone: what  *)
(* one end does to the stream is, to the other, its far end's step.        *)
LEMMA BothRelays ==
    ASSUME RelayInv, C!RelayInv, [TunnelNext]_tunnelVars
    PROVE  [Next]_vars /\ [C!Next]_(C!vars)
<1> USE DEF Sides, C!Sides
<1>1. UNCHANGED vars /\ UNCHANGED clientVars => UNCHANGED C!vars
  BY DEF vars, clientVars, C!vars, chalf
<1>2. ASSUME UNCHANGED clientVars, half' = half PROVE UNCHANGED C!vars
  BY <1>2 DEF clientVars, C!vars, chalf
<1>3. CASE App
  BY <1>3 DEF App, C!Next
<1>4. CASE Target
  <2>1. [Next]_vars /\ UNCHANGED clientVars /\ half' = half
    BY <1>4 DEF Target, Next, PeerSends, Arrive, PeerFinishes, PeerBreaks
  <2> QED
    BY <2>1, <1>2
<1>5. CASE LinkBreaks
  BY <1>5, <1>1 DEF LinkBreaks
<1>6. CASE ServerNotices
  <2>1. [Next]_vars /\ UNCHANGED clientVars /\ half' = half
    BY <1>6 DEF ServerNotices, Next, PeerBreaks
  <2> QED
    BY <2>1, <1>2
<1>7. CASE ClientNotices
  BY <1>7 DEF ClientNotices, C!Next
<1>8. CASE HandleStream
  <2>1. CASE TargetDialed
    BY <2>1, <1>1 DEF TargetDialed
  <2>2. CASE TargetRefused
    <3>1. CASE end["a"] = "err"
      <4>1. end' = end
        BY <2>2, <3>1 DEF TargetRefused, RelayInv, NatTypes
      <4>2. UNCHANGED vars
        BY <2>2, <4>1 DEF TargetRefused, vars
      <4> QED
        BY <2>2, <4>2, <1>1 DEF TargetRefused, ClientSeesEnd, C!Next
    <3>2. CASE end["a"] # "err"
      <4>1. PeerBreaks("a") /\ half' = half
        BY <2>2, <3>2 DEF TargetRefused, PeerBreaks
      <4>2. [Next]_vars
        BY <4>1 DEF Next
      <4> QED
        BY <2>2, <4>1, <4>2, <1>2 DEF TargetRefused, ClientSeesEnd, C!Next
    <3> QED
      BY <3>1, <3>2
  <2> QED
    BY <1>8, <2>1, <2>2 DEF HandleStream
<1>9. CASE ClientCopies
  <2>1. CASE ReachesServer(cheld["a"]) /\ C!Write("a")
    <3>1. cheld["a"] \in 1 .. MaxBytes
      BY <2>1, HeldBound DEF C!Write
    <3>2. [Next]_vars
      BY <2>1, <3>1 DEF ReachesServer, Next, PeerSends
    <3> QED
      BY <2>1, <3>2 DEF C!Next, C!CopyHalf
  <2>2. CASE ServerSeesEnd /\ C!Finishes("a")
    BY <2>2 DEF ServerSeesEnd, Next, C!Next, C!CopyHalf
  <2>3. CASE /\ UNCHANGED vars
             /\ \/ C!Write("b") \/ C!Finishes("b") \/ C!PipeReturns
                \/ \E x \in Sides : C!Read(x) \/ C!ReadEnds(x) \/ C!WriteFails(x)
    BY <2>3 DEF C!Next, C!CopyHalf
  <2> QED
    BY <1>9, <2>1, <2>2, <2>3 DEF ClientCopies
<1>10. CASE ServerCopies
  <2>1. CASE Write("b") /\ ReachesClient(held["b"])
    <3>1. held["b"] \in 1 .. MaxBytes
      BY <2>1, HeldBound DEF Write
    <3>2. [C!Next]_(C!vars)
      BY <2>1, <3>1, <1>2 DEF ReachesClient, C!Next, C!PeerSends, Write
    <3> QED
      BY <2>1, <3>2 DEF Next, CopyHalf
  <2>2. CASE Finishes("b") /\ ClientSeesEnd
    BY <2>2, <1>2 DEF ClientSeesEnd, Next, C!Next, CopyHalf, Finishes
  <2>3. CASE /\ \/ Write("a") \/ Finishes("a") \/ PipeReturns
                \/ \E x \in Sides : Read(x) \/ ReadEnds(x) \/ WriteFails(x)
             /\ UNCHANGED clientVars
    <3>1. [Next]_vars
      BY <2>3 DEF Next, CopyHalf
    <3>2. half' = half
      BY <2>3 DEF Write, Finishes, PipeReturns, Read, ReadEnds, WriteFails
    <3> QED
      BY <2>3, <3>1, <3>2, <1>2
  <2> QED
    BY <1>10, <2>1, <2>2, <2>3 DEF ServerCopies
<1>11. CASE UNCHANGED tunnelVars
  BY <1>11, <1>1 DEF tunnelVars
<1> QED
  BY <1>3, <1>4, <1>5, <1>6, <1>7, <1>8, <1>9, <1>10, <1>11 DEF TunnelNext, Relays

(* The initial state satisfies the joint invariant. *)
LEMMA TunnelInitInv == TunnelInit => TunnelInv
<1> SUFFICES ASSUME TunnelInit PROVE TunnelInv
  OBVIOUS
<1> USE RelayAssumption DEF TunnelInit, Init, C!Init, Sides, C!Sides, chalf
<1>1. RelayInv
  BY InitInv
<1>2. C!NatTypes
  BY DEF C!NatTypes
<1>3. C!Conserved /\ C!CopyInv
  BY DEF C!Conserved, C!CopyInv, C!Other
<1>4. C!EndInv /\ C!NothingLost /\ C!GaveUp /\ C!Drains
  BY DEF C!EndInv, C!NothingLost, C!GaveUp, C!Drains, C!Other
<1>5. StreamKind /\ ToServer /\ ToClient
  BY DEF StreamKind, ToServer, ToClient
<1> QED
  BY <1>1, <1>2, <1>3, <1>4, <1>5 DEF TunnelInv, C!RelayInv

(* A step keeps the two ends of the stream in agreement. *)
LEMMA StreamStep ==
    ASSUME TunnelInv, [TunnelNext]_tunnelVars
    PROVE  (StreamKind /\ ToServer /\ ToClient)'
<1>1. /\ "a" \in Sides /\ "b" \in Sides /\ Other("b") = "a" /\ Other("a") = "b"
      /\ C!Sides = Sides /\ C!Other("b") = "a" /\ C!Other("a") = "b"
      /\ \A x \in Sides : x = "a" \/ x = "b"
  BY DEF Sides, C!Sides, Other, C!Other
<1>2. NatTypes /\ C!NatTypes
  BY DEF TunnelInv, RelayInv, C!RelayInv
<1> USE <1>1, <1>2 DEF NatTypes, C!NatTypes, TunnelInv, StreamKind, ToServer, ToClient
<1>3. CASE App
  BY <1>3 DEF App, vars, C!PeerSends, C!Arrive, C!PeerFinishes, C!PeerBreaks
<1>4. CASE Target
  BY <1>4 DEF Target, clientVars, PeerSends, Arrive, PeerFinishes, PeerBreaks
<1>5. CASE LinkBreaks
  BY <1>5 DEF LinkBreaks, vars, clientVars
<1>6. CASE ServerNotices
  BY <1>6 DEF ServerNotices, clientVars, PeerBreaks
<1>7. CASE ClientNotices
  BY <1>7 DEF ClientNotices, vars, C!PeerBreaks
<1>8. CASE HandleStream
  BY <1>8 DEF HandleStream, TargetDialed, TargetRefused, ClientSeesEnd, C!PeerFinishes,
     vars, clientVars
<1>9. CASE ClientCopies
  <2>1. CASE ReachesServer(cheld["a"]) /\ C!Write("a")
    BY <1>9, <2>1 DEF ClientCopies, ReachesServer, Arrive, C!Write, C!Goto, vars
  <2>2. CASE ServerSeesEnd /\ C!Finishes("a")
    BY <1>9, <2>2 DEF ClientCopies, ServerSeesEnd, PeerFinishes, C!Finishes, C!Goto, vars
  <2>3. CASE /\ UNCHANGED vars
             /\ \/ C!Write("b") \/ C!Finishes("b") \/ C!PipeReturns
                \/ \E x \in Sides : C!Read(x) \/ C!ReadEnds(x) \/ C!WriteFails(x)
    BY <1>9, <2>3 DEF ClientCopies, vars, C!Write, C!Finishes, C!PipeReturns, C!Read,
       C!ReadEnds, C!WriteFails, C!Goto
  <2> QED
    BY <1>9, <2>1, <2>2, <2>3 DEF ClientCopies
<1>10. CASE ServerCopies
  <2>1. CASE Write("b") /\ ReachesClient(held["b"])
    BY <1>10, <2>1 DEF ServerCopies, ReachesClient, C!Arrive, Write, Goto, clientVars
  <2>2. CASE Finishes("b") /\ ClientSeesEnd
    BY <1>10, <2>2 DEF ServerCopies, ClientSeesEnd, C!PeerFinishes, Finishes, Goto, clientVars
  <2>3. CASE /\ \/ Write("a") \/ Finishes("a") \/ PipeReturns
                \/ \E x \in Sides : Read(x) \/ ReadEnds(x) \/ WriteFails(x)
             /\ UNCHANGED clientVars
    BY <1>10, <2>3 DEF ServerCopies, clientVars, Write, Finishes, PipeReturns, Read,
       ReadEnds, WriteFails, Goto
  <2> QED
    BY <1>10, <2>1, <2>2, <2>3 DEF ServerCopies
<1>11. CASE UNCHANGED tunnelVars
  BY <1>11 DEF tunnelVars, vars, clientVars
<1> QED
  BY <1>3, <1>4, <1>5, <1>6, <1>7, <1>8, <1>9, <1>10, <1>11 DEF TunnelNext, Relays

(* The joint invariant is inductive. *)
LEMMA TunnelNextInv == TunnelInv /\ [TunnelNext]_tunnelVars => TunnelInv'
<1> SUFFICES ASSUME TunnelInv, [TunnelNext]_tunnelVars PROVE TunnelInv'
  OBVIOUS
<1>1. [Next]_vars /\ [C!Next]_(C!vars)
  BY BothRelays DEF TunnelInv
<1>2. RelayInv' /\ C!RelayInv'
  BY <1>1, ServerStep, ClientStep DEF TunnelInv
<1>3. (StreamKind /\ ToServer /\ ToClient)'
  BY StreamStep
<1> QED
  BY <1>2, <1>3 DEF TunnelInv

(* It holds throughout. *)
LEMMA TunnelInvariance == TunnelSpec => []TunnelInv
BY TunnelInitInv, TunnelNextInv, PTL DEF TunnelSpec
-----------------------------------------------------------------------------
(* Facts about the four directions, in a state of the joint invariant. *)
LEMMA Directions ==
    ASSUME TunnelInv
    PROVE  /\ sent["a"] = unread["a"] + held["a"] + wrote["b"] + lost["a"]
           /\ sent["b"] = unread["b"] + held["b"] + wrote["a"] + lost["b"]
           /\ csent["a"] = cunread["a"] + cheld["a"] + cwrote["b"] + clost["a"]
           /\ csent["b"] = cunread["b"] + cheld["b"] + cwrote["a"] + clost["b"]
           /\ \A x \in {"a", "b"} :
                 /\ sent[x] \in Nat /\ csent[x] \in Nat
                 /\ unread[x] \in Nat /\ held[x] \in Nat /\ lost[x] \in Nat
                 /\ cunread[x] \in Nat /\ cheld[x] \in Nat /\ clost[x] \in Nat
                 /\ wrote[x] \in Nat /\ cwrote[x] \in Nat
                 /\ pc[x] \in {"read", "write", "finish", "done"}
                 /\ cpc[x] \in {"read", "write", "finish", "done"}
                 /\ end[x] \in {"no", "eof", "err"} /\ cend[x] \in {"no", "eof", "err"}
                 /\ pc[x] = "write" <=> held[x] > 0
                 /\ cpc[x] = "write" <=> cheld[x] > 0
           /\ shut["b"] => pc["a"] = "done"
           /\ cshut["a"] => cpc["b"] = "done"
<1> USE DEF Sides, C!Sides, Other, C!Other
<1>1. RelayInv /\ C!RelayInv
  BY DEF TunnelInv
<1>2. /\ sent["a"] = unread["a"] + held["a"] + wrote["b"] + lost["a"]
      /\ sent["b"] = unread["b"] + held["b"] + wrote["a"] + lost["b"]
  BY <1>1 DEF RelayInv, Conserved
<1>3. /\ csent["a"] = cunread["a"] + cheld["a"] + cwrote["b"] + clost["a"]
      /\ csent["b"] = cunread["b"] + cheld["b"] + cwrote["a"] + clost["b"]
  BY <1>1 DEF C!RelayInv, C!Conserved
<1>4. NatTypes /\ C!NatTypes /\ CopyInv /\ C!CopyInv
  BY <1>1 DEF RelayInv, C!RelayInv
<1> QED
  BY <1>2, <1>3, <1>4, RelayAssumption DEF NatTypes, C!NatTypes, CopyInv, C!CopyInv

(* A sum of natural numbers that is not positive has no positive part. *)
LEMMA NoneLeft == \A i, j, k \in Nat : i + j + k <= 0 => j = 0 /\ k = 0
OBVIOUS

(* When a relay has written all that the other was sent, nothing is on the *)
(* way to it.                                                              *)
LEMMA NothingBetween ==
    ASSUME TunnelInv
    PROVE  /\ wrote["b"] = csent["a"] /\ sent["a"] <= cwrote["b"] =>
                 cheld["a"] = 0 /\ clost["a"] = 0
           /\ cwrote["a"] = sent["b"] /\ csent["b"] <= wrote["a"] =>
                 held["b"] = 0 /\ lost["b"] = 0
<1>1. ASSUME wrote["b"] = csent["a"], sent["a"] <= cwrote["b"]
      PROVE  cheld["a"] = 0 /\ clost["a"] = 0
  <2>1. /\ unread["a"] \in Nat /\ held["a"] \in Nat /\ wrote["b"] \in Nat
        /\ lost["a"] \in Nat /\ cwrote["b"] \in Nat
        /\ sent["a"] = unread["a"] + held["a"] + wrote["b"] + lost["a"]
    BY Directions
  <2>2. /\ cunread["a"] \in Nat /\ cheld["a"] \in Nat /\ clost["a"] \in Nat
        /\ csent["a"] = cunread["a"] + cheld["a"] + cwrote["b"] + clost["a"]
    BY Directions
  <2>3. wrote["b"] <= cwrote["b"]
    BY <1>1, <2>1
  <2>4. cunread["a"] + cheld["a"] + clost["a"] <= 0
    BY <1>1, <2>1, <2>2, <2>3
  <2> QED
    BY <2>2, <2>4, NoneLeft
<1>2. ASSUME cwrote["a"] = sent["b"], csent["b"] <= wrote["a"]
      PROVE  held["b"] = 0 /\ lost["b"] = 0
  <2>1. /\ cunread["b"] \in Nat /\ cheld["b"] \in Nat /\ cwrote["a"] \in Nat
        /\ clost["b"] \in Nat /\ wrote["a"] \in Nat
        /\ csent["b"] = cunread["b"] + cheld["b"] + cwrote["a"] + clost["b"]
    BY Directions
  <2>2. /\ unread["b"] \in Nat /\ held["b"] \in Nat /\ lost["b"] \in Nat
        /\ sent["b"] = unread["b"] + held["b"] + wrote["a"] + lost["b"]
    BY Directions
  <2>3. cwrote["a"] <= wrote["a"]
    BY <1>2, <2>1
  <2>4. unread["b"] + held["b"] + lost["b"] <= 0
    BY <1>2, <2>1, <2>2, <2>3
  <2> QED
    BY <2>2, <2>4, NoneLeft
<1> QED
  BY <1>1, <1>2

(* Over a stream with CloseWrite neither relay is ever left by a far end   *)
(* that closed the whole stream: an end of file that the relay passed on   *)
(* came after everything.                                                  *)
LEMMA HalfPassesAll ==
    ASSUME TunnelInv, NothingBroke, kind = "half"
    PROVE  /\ \A x \in {"a", "b"} : pc[x] = "done" =>
                 end[x] = "eof" /\ wrote[Other(x)] = sent[x]
           /\ \A x \in {"a", "b"} : cpc[x] = "done" =>
                 cend[x] = "eof" /\ cwrote[Other(x)] = csent[x]
<1> USE DEF Sides, C!Sides, Other, C!Other
<1>1. half = {"a", "b"} /\ chalf = {"a", "b"}
  BY DEF TunnelInv, StreamKind, chalf
<1>2. ~Severed /\ ~C!Severed
  BY <1>1 DEF NothingBroke, Severed, Broken, Gone, C!Severed, C!Broken, C!Gone
<1>3. /\ \A x \in {"a", "b"} : pc[x] = "done" => end[x] = "eof" /\ unread[x] = 0
      /\ \A x \in {"a", "b"} : lost[x] = 0
  BY <1>1, <1>2 DEF TunnelInv, RelayInv, EndInv, NothingLost
<1>4. /\ \A x \in {"a", "b"} : cpc[x] = "done" => cend[x] = "eof" /\ cunread[x] = 0
      /\ \A x \in {"a", "b"} : clost[x] = 0
  BY <1>1, <1>2 DEF TunnelInv, C!RelayInv, C!EndInv, C!NothingLost
<1> QED
  BY <1>3, <1>4, Directions

(* A reply that ends cleanly is complete, through both relays and the      *)
(* stream: an application that sees the end of file has all that the       *)
(* target ever sent, always over a stream with CloseWrite and otherwise    *)
(* while it is still there and the target had all of its request.          *)
THEOREM RepliesAreComplete == TunnelSpec => []ReplyComplete
<1>1. TunnelInv => ReplyComplete
  <2> SUFFICES ASSUME TunnelInv, NothingBroke, cshut["a"],
                      kind = "half" \/ (cend["a"] = "no" /\ wrote["b"] = csent["a"])
               PROVE  end["b"] = "eof" /\ cwrote["a"] = sent["b"]
    BY DEF ReplyComplete
  <2> USE DEF Sides, C!Sides, Other, C!Other
  <2>1. target # "refused"
    BY DEF NothingBroke, TunnelInv, StreamKind
  <2>2. cpc["b"] = "done"
    BY Directions
  <2>3. CASE kind = "half"
    <3>1. cend["b"] = "eof" /\ cwrote["a"] = csent["b"]
      BY <2>2, <2>3, HalfPassesAll
    <3>2. csent["b"] = wrote["a"] /\ pc["b"] = "done"
      BY <2>1, <3>1 DEF TunnelInv, ToClient
    <3> QED
      BY <2>3, <3>1, <3>2, HalfPassesAll
  <2>4. CASE kind # "half"
    <3>1. half = {"b"} /\ chalf = {"a"}
      BY <2>4 DEF TunnelInv, StreamKind, chalf
    <3>2. cheld["a"] = 0 /\ clost["a"] = 0
      <4>1. wrote["b"] = csent["a"] /\ sent["a"] <= cwrote["b"]
        BY <2>4 DEF TunnelInv, ToServer
      <4> QED
        BY <4>1, NothingBetween
    <3>3. cpc["a"] = "read"
      <4>1. cpc["a"] \notin {"finish", "done"}
        BY <2>4, <3>1, <3>2, Directions DEF TunnelInv, C!RelayInv, C!GaveUp
      <4> QED
        BY <3>2, <4>1, Directions
    <3>4. end["a"] = "no"
      BY <3>3, Directions DEF NothingBroke, TunnelInv, ToServer
    <3>5. ~Broken /\ ~C!Broken /\ ~Severed
      BY <3>1, <3>4 DEF NothingBroke, Severed, Broken, Gone, C!Broken
    <3>6. clost["b"] = 0 /\ cend["b"] = "eof" /\ cunread["b"] = 0
      BY <2>2, <3>1, <3>3, <3>5 DEF TunnelInv, C!RelayInv, C!Drains
    <3>7. csent["b"] = wrote["a"] /\ pc["b"] = "done"
      BY <2>1, <3>6 DEF TunnelInv, ToClient
    <3>8. end["b"] = "eof" /\ unread["b"] = 0 /\ lost["b"] = 0
      BY <3>1, <3>5, <3>7 DEF TunnelInv, RelayInv, EndInv, NothingLost
    <3> QED
      BY <2>2, <3>6, <3>7, <3>8, Directions
  <2> QED
    BY <2>3, <2>4
<1> QED
  BY <1>1, TunnelInvariance, PTL

(* The same for what the application sends: an upload whose end the target *)
(* sees is complete, under the same two conditions seen from the target.   *)
THEOREM RequestsAreComplete == TunnelSpec => []RequestComplete
<1>1. TunnelInv => RequestComplete
  <2> SUFFICES ASSUME TunnelInv, NothingBroke, shut["b"],
                      kind = "half" \/ (end["b"] = "no" /\ cwrote["a"] = sent["b"])
               PROVE  cend["a"] = "eof" /\ wrote["b"] = csent["a"]
    BY DEF RequestComplete
  <2> USE DEF Sides, C!Sides, Other, C!Other
  <2>1. target # "refused"
    BY DEF NothingBroke, TunnelInv, StreamKind
  <2>2. pc["a"] = "done"
    BY Directions
  <2>3. CASE kind = "half"
    <3>1. end["a"] = "eof" /\ wrote["b"] = sent["a"]
      BY <2>2, <2>3, HalfPassesAll
    <3>2. sent["a"] = cwrote["b"] /\ cpc["a"] = "done"
      BY <3>1 DEF TunnelInv, ToServer
    <3> QED
      BY <2>3, <3>1, <3>2, HalfPassesAll
  <2>4. CASE kind # "half"
    <3>1. half = {"b"} /\ chalf = {"a"}
      BY <2>4 DEF TunnelInv, StreamKind, chalf
    <3>2. held["b"] = 0 /\ lost["b"] = 0
      <4>1. cwrote["a"] = sent["b"] /\ csent["b"] <= wrote["a"]
        BY <2>4 DEF TunnelInv, ToClient
      <4> QED
        BY <4>1, NothingBetween
    <3>3. pc["b"] = "read"
      <4>1. pc["b"] \notin {"finish", "done"}
        BY <2>4, <3>1, <3>2, Directions DEF TunnelInv, RelayInv, GaveUp
      <4> QED
        BY <3>2, <4>1, Directions
    <3>4. cend["b"] = "no"
      BY <2>1, <3>3, Directions DEF NothingBroke, TunnelInv, ToClient
    <3>5. ~Broken /\ ~C!Broken /\ ~C!Severed
      BY <3>1, <3>4 DEF NothingBroke, Broken, C!Severed, C!Broken, C!Gone
    <3>6. lost["a"] = 0 /\ end["a"] = "eof" /\ unread["a"] = 0
      BY <2>2, <3>1, <3>3, <3>5 DEF TunnelInv, RelayInv, Drains
    <3>7. sent["a"] = cwrote["b"] /\ cpc["a"] = "done"
      BY <3>6 DEF TunnelInv, ToServer
    <3>8. cend["a"] = "eof" /\ cunread["a"] = 0 /\ clost["a"] = 0
      BY <3>1, <3>5, <3>7 DEF TunnelInv, C!RelayInv, C!EndInv, C!NothingLost
    <3> QED
      BY <2>2, <3>6, <3>7, <3>8, Directions
  <2> QED
    BY <2>3, <2>4
<1> QED
  BY <1>1, TunnelInvariance, PTL

(* In the tunnel too, neither relay loses anything from a side with        *)
(* CloseWrite unless that relay is severed.                                *)
THEOREM TunnelLosesNothing == TunnelSpec => [](NothingLost /\ C!NothingLost)
<1>1. TunnelInv => NothingLost /\ C!NothingLost
  BY DEF TunnelInv, RelayInv, C!RelayInv
<1> QED
  BY <1>1, TunnelInvariance, PTL

(* Each end runs its own Pipe: the composed system implements the          *)
(* specification of one relay twice, once for each end.                    *)
THEOREM RunsTwoRelays == TunnelSpec => Spec /\ C!Spec
<1>1. TunnelInit => Init /\ C!Init
  BY DEF TunnelInit
<1>2. TunnelInv /\ [TunnelNext]_tunnelVars => [Next]_vars /\ [C!Next]_(C!vars)
  BY BothRelays DEF TunnelInv
<1> QED
  BY <1>1, <1>2, TunnelInvariance, PTL DEF TunnelSpec, Spec, C!Spec

(* Nothing is made up or delivered twice on the way: what is written at    *)
(* one end of the tunnel never exceeds what was sent at the other.         *)
THEOREM NothingIsInvented ==
    TunnelSpec => [](wrote["b"] <= csent["a"] /\ cwrote["a"] <= sent["b"])
<1>1. TunnelInv => wrote["b"] <= csent["a"] /\ cwrote["a"] <= sent["b"]
  <2> SUFFICES ASSUME TunnelInv PROVE wrote["b"] <= csent["a"] /\ cwrote["a"] <= sent["b"]
    OBVIOUS
  <2>1. sent["a"] <= cwrote["b"] /\ csent["b"] <= wrote["a"]
    BY DEF TunnelInv, ToServer, ToClient
  <2>2. wrote["b"] <= sent["a"] /\ wrote["a"] <= sent["b"]
    BY Directions
  <2>3. cwrote["b"] <= csent["a"] /\ cwrote["a"] <= csent["b"]
    BY Directions
  <2>4. /\ sent["a"] \in Nat /\ sent["b"] \in Nat /\ csent["a"] \in Nat /\ csent["b"] \in Nat
        /\ wrote["a"] \in Nat /\ wrote["b"] \in Nat /\ cwrote["a"] \in Nat /\ cwrote["b"] \in Nat
    BY Directions
  <2> QED
    BY <2>1, <2>2, <2>3, <2>4
<1> QED
  BY <1>1, TunnelInvariance, PTL
-----------------------------------------------------------------------------
(* Progress *)

(* The steps the two relays, handleStream and the keep-alives could take   *)
(* now: a copyHalf that holds bytes or has an end to pass on, one whose    *)
(* read would return, a Pipe both of whose directions are over, a dial, an *)
(* end of a broken path that has not noticed.                              *)
Ready(p, u, e, c) == p \in {"write", "finish"} \/ (p = "read" /\ (u > 0 \/ e # "no" \/ c))

CanMove ==
    \/ target = "dialing"
    \/ link = "broken" /\ (end["a"] # "err" \/ cend["b"] # "err")
    \/ \E x \in Sides : Ready(cpc[x], cunread[x], cend[x], cclosed[x])
    \/ cpipe = "running" /\ \A x \in Sides : cpc[x] = "done"
    \/ /\ target = "dialed"
       /\ \/ \E x \in Sides : Ready(pc[x], unread[x], end[x], closed[x])
          \/ pipe = "running" /\ \A x \in Sides : pc[x] = "done"

(* The relays never wait for each other.  When none of them can move: if   *)
(* application and target are both done, both ends have been released;     *)
(* over a stream without CloseWrite an end whose own side is done has been *)
(* released; and over one with CloseWrite, unless something broke, what a  *)
(* side that is done had sent is all delivered, with its end of file.      *)
Settled ==
    /\ cend["a"] # "no" /\ (end["b"] # "no" \/ target = "refused") =>
          ClientReleased /\ ServerReleased
    /\ kind # "half" /\ cend["a"] # "no" => ClientReleased
    /\ kind # "half" /\ end["b"] # "no" => ServerReleased
    /\ kind = "half" /\ NothingBroke /\ cend["a"] = "eof" =>
          shut["b"] /\ wrote["b"] = csent["a"]
    /\ kind = "half" /\ NothingBroke /\ end["b"] = "eof" =>
          cshut["a"] /\ cwrote["a"] = sent["b"]

(* A tunnel that cannot move has settled: the safety half of AllReleased,  *)
(* DoneSideReleased and Delivered, for any number of bytes.                *)
THEOREM NeverStuck == TunnelSpec => [](~CanMove => Settled)
<1>1. ASSUME TunnelInv, ~CanMove PROVE Settled
  <2> USE <1>1
  <2>1. /\ \A x \in {"a", "b"} : (cend[x] # "no" \/ cclosed[x]) => cpc[x] = "done"
        /\ target = "dialed" =>
              \A x \in {"a", "b"} : (end[x] # "no" \/ closed[x]) => pc[x] = "done"
    BY Directions DEF CanMove, Ready, Sides
  <2>2. /\ target \in {"dialed", "refused"} /\ link \in {"up", "broken"}
        /\ link = "broken" => end["a"] = "err" /\ cend["b"] = "err"
    BY DEF CanMove, TunnelInv, StreamKind
  <2>3. /\ pipe \in {"running", "returned"} /\ cpipe \in {"running", "returned"}
        /\ cpc["a"] = "done" /\ cpc["b"] = "done" => ClientReleased
        /\ target = "refused" \/ (pc["a"] = "done" /\ pc["b"] = "done") => ServerReleased
    BY <2>2 DEF CanMove, Sides, ClientReleased, ServerReleased, TunnelInv, RelayInv, NatTypes,
       C!RelayInv, C!NatTypes
  <2>4. /\ cpc["a"] = "done" => end["a"] # "no"
        /\ target = "refused" \/ pc["b"] = "done" => cend["b"] # "no"
    BY <2>2 DEF TunnelInv, ToServer, ToClient
  <2>5. ASSUME cend["a"] # "no", end["b"] # "no" \/ target = "refused"
        PROVE  ClientReleased /\ ServerReleased
    <3>1. cpc["a"] = "done" /\ end["a"] # "no"
      BY <2>1, <2>4, <2>5
    <3>2. target = "refused" \/ (pc["a"] = "done" /\ pc["b"] = "done")
      BY <2>1, <2>2, <2>5, <3>1
    <3>3. cpc["b"] = "done"
      BY <2>1, <2>4, <3>2
    <3> QED
      BY <2>3, <3>1, <3>2, <3>3
  <2>6. ASSUME kind # "half"
        PROVE  /\ cend["a"] # "no" => ClientReleased
               /\ end["b"] # "no" => ServerReleased
    <3>1. "a" \notin half /\ "b" \notin chalf
      BY <2>6 DEF TunnelInv, StreamKind, chalf
    <3>2. cpc["a"] = "done" => cclosed["b"]
      BY <3>1 DEF TunnelInv, C!RelayInv, C!CopyInv, C!Sides, C!Other
    <3>3. pc["b"] = "done" => closed["a"]
      BY <3>1 DEF TunnelInv, RelayInv, CopyInv, Sides, Other
    <3> QED
      BY <2>1, <2>2, <2>3, <3>2, <3>3
  <2>7. ASSUME kind = "half", NothingBroke
        PROVE  /\ cend["a"] = "eof" => shut["b"] /\ wrote["b"] = csent["a"]
               /\ end["b"] = "eof" => cshut["a"] /\ cwrote["a"] = sent["b"]
    <3>1. target = "dialed" /\ "b" \in half /\ "a" \in chalf
      BY <2>2, <2>7 DEF NothingBroke, Sides, TunnelInv, StreamKind, chalf
    <3>2. pc["a"] = "done" => shut["b"]
      BY <3>1 DEF TunnelInv, RelayInv, CopyInv, Sides, Other
    <3>3. cpc["b"] = "done" => cshut["a"]
      BY <3>1 DEF TunnelInv, C!RelayInv, C!CopyInv, C!Sides, C!Other
    <3>4. /\ \A x \in {"a", "b"} : pc[x] = "done" => end[x] = "eof" /\ wrote[Other(x)] = sent[x]
          /\ \A x \in {"a", "b"} : cpc[x] = "done" => cend[x] = "eof" /\ cwrote[Other(x)] = csent[x]
      BY <2>7, HalfPassesAll
    <3>5. ASSUME cend["a"] = "eof" PROVE shut["b"] /\ wrote["b"] = csent["a"]
      <4>1. cpc["a"] = "done" /\ cwrote["b"] = csent["a"] /\ end["a"] # "no"
        BY <2>1, <2>4, <3>4, <3>5 DEF Other
      <4>2. pc["a"] = "done" /\ wrote["b"] = sent["a"] /\ end["a"] = "eof"
        BY <2>1, <3>1, <3>4, <4>1 DEF Other
      <4>3. sent["a"] = cwrote["b"]
        BY <4>2 DEF TunnelInv, ToServer
      <4> QED
        BY <3>2, <4>1, <4>2, <4>3
    <3>6. ASSUME end["b"] = "eof" PROVE cshut["a"] /\ cwrote["a"] = sent["b"]
      <4>1. pc["b"] = "done" /\ wrote["a"] = sent["b"] /\ cend["b"] # "no"
        BY <2>1, <2>4, <3>1, <3>4, <3>6 DEF Other
      <4>2. cpc["b"] = "done" /\ cwrote["a"] = csent["b"] /\ cend["b"] = "eof"
        BY <2>1, <3>4, <4>1 DEF Other
      <4>3. csent["b"] = wrote["a"]
        BY <4>2 DEF TunnelInv, ToClient
      <4> QED
        BY <3>3, <4>1, <4>2, <4>3
    <3> QED
      BY <3>5, <3>6
  <2> QED
    BY <2>5, <2>6, <2>7 DEF Settled
<1> QED
  BY <1>1, TunnelInvariance, PTL

(* What is left to do.  A byte passes through four places, and each of the *)
(* two copyHalfs, the two Pipes and the stream has its stages.             *)
Places(u, h, v, k) == 4 * u + 3 * h + 2 * v + k
Rank(l) == IF l \in {"read", "write"} THEN 2 ELSE IF l = "finish" THEN 1 ELSE 0
Is(p, q) == IF p = q THEN 1 ELSE 0

ToTarget == Places(cunread["a"], cheld["a"], unread["a"], held["a"])
ToApp == Places(unread["b"], held["b"], cunread["b"], cheld["b"])
Stages(i, j, p) == Rank(i) + Rank(j) + Is(p, "running")
ServerStages == Stages(pc["a"], pc["b"], pipe)
ClientStages == Stages(cpc["a"], cpc["b"], cpipe)
StreamStages == Is(target, "dialing") + (1 - Is(end["a"], "err")) + (1 - Is(cend["b"], "err"))

Work == ToTarget + ToApp + ServerStages + ClientStages + StreamStages

(* A byte that moves on, or is dropped, leaves less to do. *)
LEMMA PlacesShrink ==
    \A u, h, v, k, m \in Nat :
        /\ Places(u, h, v, k) \in Nat
        /\ \A u2, h2, v2, k2 \in Nat : u2 <= u /\ h2 <= h /\ v2 <= v /\ k2 <= k =>
              Places(u2, h2, v2, k2) <= Places(u, h, v, k)
        /\ u > 0 => Places(0, u, v, k) < Places(u, 0, v, k)
        /\ h > 0 /\ m <= v + h => Places(u, 0, m, k) < Places(u, h, v, k)
        /\ v > 0 => Places(u, h, 0, v) < Places(u, h, v, 0)
        /\ k > 0 => Places(u, h, v, 0) < Places(u, h, v, k)
BY DEF Places

(* A sum is smaller when a part of it is, and none is larger. *)
LEMMA SumShrinks ==
    \A i, j, k, l, m, i2, j2, k2, l2, m2 \in Nat :
        /\ i2 <= i /\ j2 <= j /\ k2 <= k /\ l2 <= l /\ m2 <= m
        /\ i2 < i \/ j2 < j \/ k2 < k \/ l2 < l \/ m2 < m
        => i2 + j2 + k2 + l2 + m2 < i + j + k + l + m
OBVIOUS

(* The parts of Work are natural numbers. *)
WorkNat ==
    /\ ToTarget \in Nat /\ ToApp \in Nat
    /\ ServerStages \in Nat /\ ClientStages \in Nat /\ StreamStages \in Nat

LEMMA WorkType == TunnelInv => WorkNat
<1> SUFFICES ASSUME TunnelInv PROVE WorkNat
  OBVIOUS
<1>1. ToTarget \in Nat /\ ToApp \in Nat
  BY Directions, PlacesShrink DEF ToTarget, ToApp
<1>2. \A l : Rank(l) \in Nat
  BY DEF Rank
<1>3. \A p, q : Is(p, q) \in {0, 1}
  BY DEF Is
<1> QED
  BY <1>1, <1>2, <1>3 DEF WorkNat, Stages, ServerStages, ClientStages, StreamStages

(* Each copyHalf and each Pipe only goes forward through its stages. *)
LEMMA StagesShrink ==
    \A i, j, p :
        /\ Stages("read", j, p) = Stages("write", j, p)
        /\ Stages(j, "read", p) = Stages(j, "write", p)
        /\ i \in {"read", "write"} => /\ Stages("finish", j, p) < Stages(i, j, p)
                                     /\ Stages(j, "finish", p) < Stages(j, i, p)
        /\ Stages("done", j, p) < Stages("finish", j, p)
        /\ Stages(j, "done", p) < Stages(j, "finish", p)
        /\ Stages(i, j, "returned") < Stages(i, j, "running")
<1>1. /\ Rank("read") = 2 /\ Rank("write") = 2 /\ Rank("finish") = 1 /\ Rank("done") = 0
      /\ \A l : Rank(l) \in Nat
  BY DEF Rank
<1>2. Is("running", "running") = 1 /\ Is("returned", "running") = 0 /\ \A q, r : Is(q, r) \in Nat
  BY DEF Is
<1> QED
  BY <1>1, <1>2 DEF Stages

(* A step of the server's relay moves bytes on or completes a stage.       *)
LEMMA ServerMoves ==
    ASSUME RelayInv, NEW x \in Sides, CopyHalf(x) \/ PipeReturns
    PROVE  /\ unread'[Other(x)] <= unread[Other(x)] /\ held'[Other(x)] = held[Other(x)]
           /\ end' = end
           /\ Read(x) =>
                 /\ ServerStages' = ServerStages /\ unread[x] > 0 /\ held[x] = 0
                 /\ unread'[x] = 0 /\ held'[x] = unread[x]
           /\ Write(x) =>
                 /\ ServerStages' = ServerStages /\ held[x] > 0
                 /\ held'[x] = 0 /\ unread' = unread
           /\ WriteFails(x) \/ ReadEnds(x) \/ Finishes(x) \/ PipeReturns =>
                 /\ ServerStages' < ServerStages
                 /\ unread'[x] <= unread[x] /\ held'[x] <= held[x]
<1> USE OtherSide
<1>1. /\ unread \in [Sides -> Nat] /\ held \in [Sides -> Nat]
      /\ pc \in [Sides -> {"read", "write", "finish", "done"}]
      /\ pc[x] = "write" <=> held[x] > 0
  BY DEF RelayInv, NatTypes, CopyInv
<1>2. /\ ServerStages = Stages(pc["a"], pc["b"], pipe)
      /\ ServerStages' = Stages(pc'["a"], pc'["b"], pipe')
      /\ x = "a" \/ x = "b"
  BY DEF ServerStages, Stages, Sides
<1>3. CASE Read(x)
  <2>1. ServerStages' = ServerStages
    BY <1>1, <1>2, <1>3, StagesShrink DEF Sides, Read, Goto
  <2> QED
    BY <1>1, <1>3, <2>1 DEF Read, Write, WriteFails, ReadEnds, Finishes, PipeReturns
<1>4. CASE Write(x)
  <2>1. ServerStages' = ServerStages
    BY <1>1, <1>2, <1>4, StagesShrink DEF Sides, Write, Goto
  <2> QED
    BY <1>1, <1>4, <2>1 DEF Read, Write, WriteFails, ReadEnds, Finishes, PipeReturns, Goto
<1>5. CASE WriteFails(x)
  <2>1. ServerStages' < ServerStages
    BY <1>1, <1>2, <1>5, StagesShrink DEF Sides, WriteFails, Goto
  <2> QED
    BY <1>1, <1>5, <2>1 DEF Read, Write, WriteFails, Goto
<1>6. CASE ReadEnds(x)
  <2>1. ServerStages' < ServerStages
    BY <1>1, <1>2, <1>6, StagesShrink DEF Sides, ReadEnds, Goto
  <2> QED
    BY <1>1, <1>6, <2>1 DEF Read, Write, ReadEnds, Goto
<1>7. CASE Finishes(x)
  <2>1. ServerStages' < ServerStages
    BY <1>1, <1>2, <1>7, StagesShrink DEF Sides, Finishes, Goto
  <2> QED
    BY <1>1, <1>7, <2>1 DEF Read, Write, Finishes, Goto
<1>8. CASE PipeReturns
  <2>1. ServerStages' < ServerStages
    BY <1>1, <1>2, <1>8, StagesShrink DEF Sides, PipeReturns
  <2> QED
    BY <1>1, <1>8, <2>1 DEF Read, Write, PipeReturns
<1> QED
  BY <1>3, <1>4, <1>5, <1>6, <1>7, <1>8 DEF CopyHalf

(* The same for the client's relay.                                        *)
LEMMA ClientMoves ==
    ASSUME C!RelayInv, NEW x \in Sides, C!CopyHalf(x) \/ C!PipeReturns
    PROVE  /\ cunread'[C!Other(x)] <= cunread[C!Other(x)] /\ cheld'[C!Other(x)] = cheld[C!Other(x)]
           /\ cend' = cend
           /\ C!Read(x) =>
                 /\ ClientStages' = ClientStages /\ cunread[x] > 0 /\ cheld[x] = 0
                 /\ cunread'[x] = 0 /\ cheld'[x] = cunread[x]
           /\ C!Write(x) =>
                 /\ ClientStages' = ClientStages /\ cheld[x] > 0
                 /\ cheld'[x] = 0 /\ cunread' = cunread
           /\ C!WriteFails(x) \/ C!ReadEnds(x) \/ C!Finishes(x) \/ C!PipeReturns =>
                 /\ ClientStages' < ClientStages
                 /\ cunread'[x] <= cunread[x] /\ cheld'[x] <= cheld[x]
<1> USE ClientSide
<1>1. /\ cunread \in [Sides -> Nat] /\ cheld \in [Sides -> Nat]
      /\ cpc \in [Sides -> {"read", "write", "finish", "done"}]
      /\ cpc[x] = "write" <=> cheld[x] > 0
  BY DEF C!RelayInv, C!NatTypes, C!CopyInv
<1>2. /\ ClientStages = Stages(cpc["a"], cpc["b"], cpipe)
      /\ ClientStages' = Stages(cpc'["a"], cpc'["b"], cpipe')
      /\ x = "a" \/ x = "b"
  BY DEF ClientStages, Stages, Sides
<1>3. CASE C!Read(x)
  <2>1. ClientStages' = ClientStages
    BY <1>1, <1>2, <1>3, StagesShrink DEF Sides, C!Read, C!Goto
  <2> QED
    BY <1>1, <1>3, <2>1 DEF C!Read, C!Write, C!WriteFails, C!ReadEnds, C!Finishes, C!PipeReturns
<1>4. CASE C!Write(x)
  <2>1. ClientStages' = ClientStages
    BY <1>1, <1>2, <1>4, StagesShrink DEF Sides, C!Write, C!Goto
  <2> QED
    BY <1>1, <1>4, <2>1 DEF C!Read, C!Write, C!WriteFails, C!ReadEnds, C!Finishes,
       C!PipeReturns, C!Goto
<1>5. CASE C!WriteFails(x)
  <2>1. ClientStages' < ClientStages
    BY <1>1, <1>2, <1>5, StagesShrink DEF Sides, C!WriteFails, C!Goto
  <2> QED
    BY <1>1, <1>5, <2>1 DEF C!Read, C!Write, C!WriteFails, C!Goto
<1>6. CASE C!ReadEnds(x)
  <2>1. ClientStages' < ClientStages
    BY <1>1, <1>2, <1>6, StagesShrink DEF Sides, C!ReadEnds, C!Goto
  <2> QED
    BY <1>1, <1>6, <2>1 DEF C!Read, C!Write, C!ReadEnds, C!Goto
<1>7. CASE C!Finishes(x)
  <2>1. ClientStages' < ClientStages
    BY <1>1, <1>2, <1>7, StagesShrink DEF Sides, C!Finishes, C!Goto
  <2> QED
    BY <1>1, <1>7, <2>1 DEF C!Read, C!Write, C!Finishes, C!Goto
<1>8. CASE C!PipeReturns
  <2>1. ClientStages' < ClientStages
    BY <1>1, <1>2, <1>8, StagesShrink DEF Sides, C!PipeReturns
  <2> QED
    BY <1>1, <1>8, <2>1 DEF C!Read, C!Write, C!PipeReturns
<1> QED
  BY <1>3, <1>4, <1>5, <1>6, <1>7, <1>8 DEF C!CopyHalf

(* A step of either relay, of handleStream or of a keep-alive leaves less  *)
(* to do, whatever it does at the other end of the stream.                 *)
LEMMA RelaysShrink ==
    TunnelInv /\ TunnelInv' /\ Relays => Work' < Work
<1> SUFFICES ASSUME TunnelInv, TunnelInv', Relays PROVE Work' < Work
  OBVIOUS
<1>1. WorkNat /\ WorkNat'
  BY WorkType, PTL
<1>2. SUFFICES /\ ToTarget' <= ToTarget /\ ToApp' <= ToApp
               /\ ServerStages' <= ServerStages /\ ClientStages' <= ClientStages
               /\ StreamStages' <= StreamStages
               /\ \/ ToTarget' < ToTarget \/ ToApp' < ToApp
                  \/ ServerStages' < ServerStages \/ ClientStages' < ClientStages
                  \/ StreamStages' < StreamStages
  BY <1>1, SumShrinks DEF Work, WorkNat
<1>3. /\ ToTarget' = Places(cunread'["a"], cheld'["a"], unread'["a"], held'["a"])
      /\ ToApp' = Places(unread'["b"], held'["b"], cunread'["b"], cheld'["b"])
      /\ ToTarget = Places(cunread["a"], cheld["a"], unread["a"], held["a"])
      /\ ToApp = Places(unread["b"], held["b"], cunread["b"], cheld["b"])
  BY DEF ToTarget, ToApp, Places
<1>4. \A x \in {"a", "b"} :
         /\ unread[x] \in Nat /\ held[x] \in Nat /\ cunread[x] \in Nat /\ cheld[x] \in Nat
         /\ unread'[x] \in Nat /\ held'[x] \in Nat /\ cunread'[x] \in Nat /\ cheld'[x] \in Nat
  BY DEF TunnelInv, RelayInv, NatTypes, C!RelayInv, C!NatTypes, Sides, C!Sides
<1>5. ASSUME \A x \in {"a", "b"} :
                /\ unread'[x] <= unread[x] /\ held'[x] <= held[x]
                /\ cunread'[x] <= cunread[x] /\ cheld'[x] <= cheld[x]
      PROVE  ToTarget' <= ToTarget /\ ToApp' <= ToApp
  BY <1>3, <1>4, <1>5, PlacesShrink
<1>6. ASSUME target' = target, end'["a"] = "err" <=> end["a"] = "err",
             cend'["b"] = "err" <=> cend["b"] = "err"
      PROVE  StreamStages' = StreamStages
  BY <1>6 DEF StreamStages, Is
<1>7. /\ UNCHANGED <<pc, pipe>> => ServerStages' = ServerStages
      /\ UNCHANGED <<cpc, cpipe>> => ClientStages' = ClientStages
  BY DEF ServerStages, ClientStages, Stages
<1>8. /\ "a" \in Sides /\ "b" \in Sides /\ Other("b") = "a" /\ Other("a") = "b"
      /\ C!Sides = Sides /\ C!Other("b") = "a" /\ C!Other("a") = "b"
      /\ \A x \in Sides : x = "a" \/ x = "b"
      /\ RelayInv /\ C!RelayInv
  BY DEF Sides, C!Sides, Other, C!Other, TunnelInv
<1>9. CASE HandleStream
  <2>1. CASE TargetDialed
    <3>1. StreamStages' < StreamStages
      BY <2>1 DEF TargetDialed, vars, clientVars, StreamStages, Is
    <3>2. UNCHANGED <<unread, held, cunread, cheld, pc, pipe, cpc, cpipe>>
      BY <2>1 DEF TargetDialed, vars, clientVars
    <3> QED
      BY <1>1, <1>4, <1>5, <1>7, <3>1, <3>2 DEF WorkNat
  <2>2. CASE TargetRefused
    <3>1. /\ UNCHANGED <<unread, held, cunread, cheld, pc, pipe, cpc, cpipe>>
          /\ target = "dialing" /\ target' = "refused" /\ end'["a"] = "err"
          /\ cend'["b"] = "err" <=> cend["b"] = "err"
      BY <2>2 DEF TargetRefused, ClientSeesEnd, C!PeerFinishes, vars, clientVars, TunnelInv,
         RelayInv, NatTypes, C!RelayInv, C!NatTypes, Sides, C!Sides
    <3>2. StreamStages' < StreamStages
      BY <3>1 DEF StreamStages, Is
    <3> QED
      BY <1>1, <1>4, <1>5, <1>7, <3>1, <3>2 DEF WorkNat
  <2> QED
    BY <1>9, <2>1, <2>2 DEF HandleStream
<1>10. CASE ServerNotices \/ ClientNotices
  <2>1. /\ UNCHANGED <<target, unread, held, cunread, cheld, pc, pipe, cpc, cpipe>>
        /\ \/ end["a"] # "err" /\ end'["a"] = "err" /\ cend' = cend
           \/ cend["b"] # "err" /\ cend'["b"] = "err" /\ end' = end
    BY <1>10 DEF ServerNotices, ClientNotices, PeerBreaks, C!PeerBreaks, vars, clientVars,
       TunnelInv, RelayInv, NatTypes, C!RelayInv, C!NatTypes, Sides, C!Sides
  <2>2. StreamStages' < StreamStages
    BY <2>1 DEF StreamStages, Is
  <2> QED
    BY <1>1, <1>4, <1>5, <1>7, <2>1, <2>2 DEF WorkNat
<1>11. CASE ClientCopies
  <2>1. CASE ReachesServer(cheld["a"]) /\ C!Write("a")
    <3>1. C!CopyHalf("a")
      BY <2>1 DEF C!CopyHalf
    <3>2. /\ cheld["a"] > 0 /\ cheld'["a"] = 0 /\ cheld'["b"] = cheld["b"]
          /\ cunread' = cunread /\ cend' = cend /\ ClientStages' = ClientStages
      BY <2>1, <3>1, <1>8, ClientMoves
    <3>3. /\ unread'["a"] <= unread["a"] + cheld["a"] /\ unread'["b"] = unread["b"]
          /\ UNCHANGED <<held, end, pc, pipe>>
      BY <2>1, <1>4, <1>8 DEF ReachesServer, Arrive, vars, TunnelInv, RelayInv, NatTypes
    <3>4. ToTarget' < ToTarget
      BY <1>3, <1>4, <3>2, <3>3, PlacesShrink
    <3>5. ToApp' = ToApp
      BY <1>3, <3>2, <3>3
    <3>6. ServerStages' = ServerStages /\ StreamStages' = StreamStages
      BY <1>11, <1>6, <1>7, <3>2, <3>3 DEF ClientCopies
    <3> QED
      BY <1>1, <3>2, <3>4, <3>5, <3>6 DEF WorkNat
  <2>2. CASE ServerSeesEnd /\ C!Finishes("a")
    <3>1. C!CopyHalf("a")
      BY <2>2 DEF C!CopyHalf
    <3>2. /\ cunread'["a"] <= cunread["a"] /\ cheld'["a"] <= cheld["a"]
          /\ cunread'["b"] <= cunread["b"] /\ cheld'["b"] = cheld["b"]
          /\ cend' = cend /\ ClientStages' < ClientStages
      BY <2>2, <3>1, <1>8, ClientMoves
    <3>3. /\ UNCHANGED <<unread, held, pc, pipe>>
          /\ end'["a"] = "err" <=> end["a"] = "err"
      BY <2>2, <1>8 DEF ServerSeesEnd, PeerFinishes, vars, TunnelInv, RelayInv, NatTypes
    <3>4. ToTarget' <= ToTarget /\ ToApp' <= ToApp
      BY <1>4, <1>5, <3>2, <3>3
    <3>5. ServerStages' = ServerStages /\ StreamStages' = StreamStages
      BY <1>11, <1>6, <1>7, <3>2, <3>3 DEF ClientCopies
    <3> QED
      BY <1>1, <3>2, <3>4, <3>5 DEF WorkNat
  <2>3. CASE UNCHANGED vars /\ \E x \in Sides : C!CopyHalf(x) \/ C!PipeReturns
    <3>0. PICK x \in Sides : C!CopyHalf(x) \/ C!PipeReturns
      BY <2>3
    <3>1. /\ UNCHANGED <<unread, held, end, pc, pipe>> /\ cend' = cend
          /\ cunread'[C!Other(x)] <= cunread[C!Other(x)] /\ cheld'[C!Other(x)] = cheld[C!Other(x)]
          /\ x \in {"a", "b"} /\ C!Other(x) \in {"a", "b"}
          /\ \A y \in {"a", "b"} : y = x \/ y = C!Other(x)
      BY <2>3, <3>0, <1>8, ClientMoves DEF vars
    <3>2. ServerStages' = ServerStages /\ StreamStages' = StreamStages
      BY <1>11, <1>6, <1>7, <3>1 DEF ClientCopies
    <3>3. CASE C!Read(x)
      <4>1. /\ ClientStages' = ClientStages /\ cunread[x] > 0 /\ cheld[x] = 0
            /\ cunread'[x] = 0 /\ cheld'[x] = cunread[x]
        BY <1>8, <3>0, <3>3, ClientMoves
      <4>2. cunread'[C!Other(x)] = cunread[C!Other(x)]
        BY <3>3, ClientSide, <1>8 DEF C!Read, C!RelayInv, C!NatTypes
      <4>3. CASE x = "a"
        <5>1. ToTarget' < ToTarget
          BY <1>3, <1>4, <1>8, <3>1, <4>1, <4>2, <4>3, PlacesShrink
        <5>2. ToApp' = ToApp
          BY <1>3, <1>8, <3>1, <4>1, <4>2, <4>3
        <5> QED
          BY <1>1, <3>2, <4>1, <5>1, <5>2 DEF WorkNat
      <4>4. CASE x = "b"
        <5>1. ToApp' < ToApp
          BY <1>3, <1>4, <1>8, <3>1, <4>1, <4>2, <4>4, PlacesShrink
        <5>2. ToTarget' = ToTarget
          BY <1>3, <1>8, <3>1, <4>1, <4>2, <4>4
        <5> QED
          BY <1>1, <3>2, <4>1, <5>1, <5>2 DEF WorkNat
      <4> QED
        BY <3>1, <4>3, <4>4
    <3>4. CASE C!Write(x)
      <4>1. /\ ClientStages' = ClientStages /\ cheld[x] > 0 /\ cheld'[x] = 0 /\ cunread' = cunread
        BY <1>8, <3>0, <3>4, ClientMoves
      <4>2. CASE x = "a"
        <5>1. unread'["a"] <= unread["a"] + cheld["a"]
          BY <1>4, <3>1
        <5>2. ToTarget' < ToTarget
          BY <1>3, <1>4, <1>8, <3>1, <4>1, <4>2, <5>1, PlacesShrink
        <5>3. ToApp' = ToApp
          BY <1>3, <1>8, <3>1, <4>1, <4>2
        <5> QED
          BY <1>1, <3>2, <4>1, <5>2, <5>3 DEF WorkNat
      <4>3. CASE x = "b"
        <5>1. ToApp' < ToApp
          BY <1>3, <1>4, <1>8, <3>1, <4>1, <4>3, PlacesShrink
        <5>2. ToTarget' = ToTarget
          BY <1>3, <1>8, <3>1, <4>1, <4>3
        <5> QED
          BY <1>1, <3>2, <4>1, <5>1, <5>2 DEF WorkNat
      <4> QED
        BY <3>1, <4>2, <4>3
    <3>5. CASE C!WriteFails(x) \/ C!ReadEnds(x) \/ C!Finishes(x) \/ C!PipeReturns
      <4>1. /\ ClientStages' < ClientStages
            /\ cunread'[x] <= cunread[x] /\ cheld'[x] <= cheld[x]
        BY <1>8, <3>0, <3>5, ClientMoves
      <4>2. ToTarget' <= ToTarget /\ ToApp' <= ToApp
        BY <1>4, <1>5, <3>1, <4>1
      <4> QED
        BY <1>1, <3>2, <4>1, <4>2 DEF WorkNat
    <3> QED
      BY <3>0, <3>3, <3>4, <3>5 DEF C!CopyHalf
  <2> QED
    BY <1>11, <2>1, <2>2, <2>3 DEF ClientCopies, C!CopyHalf, Sides
<1>12. CASE ServerCopies
  <2>1. CASE Write("b") /\ ReachesClient(held["b"])
    <3>1. CopyHalf("b")
      BY <2>1 DEF CopyHalf
    <3>2. /\ held["b"] > 0 /\ held'["b"] = 0 /\ held'["a"] = held["a"]
          /\ unread' = unread /\ end' = end /\ ServerStages' = ServerStages
      BY <2>1, <3>1, <1>8, ServerMoves
    <3>3. /\ cunread'["b"] <= cunread["b"] + held["b"] /\ cunread'["a"] = cunread["a"]
          /\ UNCHANGED <<cheld, cend, cpc, cpipe>>
      BY <2>1, <1>4, <1>8 DEF ReachesClient, C!Arrive, clientVars, TunnelInv, C!RelayInv, C!NatTypes
    <3>4. ToApp' < ToApp
      BY <1>3, <1>4, <3>2, <3>3, PlacesShrink
    <3>5. ToTarget' = ToTarget
      BY <1>3, <3>2, <3>3
    <3>6. ClientStages' = ClientStages /\ StreamStages' = StreamStages
      BY <1>12, <1>6, <1>7, <3>2, <3>3 DEF ServerCopies
    <3> QED
      BY <1>1, <3>2, <3>4, <3>5, <3>6 DEF WorkNat
  <2>2. CASE Finishes("b") /\ ClientSeesEnd
    <3>1. CopyHalf("b")
      BY <2>2 DEF CopyHalf
    <3>2. /\ unread'["b"] <= unread["b"] /\ held'["b"] <= held["b"]
          /\ unread'["a"] <= unread["a"] /\ held'["a"] = held["a"]
          /\ end' = end /\ ServerStages' < ServerStages
      BY <2>2, <3>1, <1>8, ServerMoves
    <3>3. /\ UNCHANGED <<cunread, cheld, cpc, cpipe>>
          /\ cend'["b"] = "err" <=> cend["b"] = "err"
      BY <2>2, <1>8 DEF ClientSeesEnd, C!PeerFinishes, clientVars, TunnelInv, C!RelayInv, C!NatTypes
    <3>4. ToTarget' <= ToTarget /\ ToApp' <= ToApp
      BY <1>4, <1>5, <3>2, <3>3
    <3>5. ClientStages' = ClientStages /\ StreamStages' = StreamStages
      BY <1>12, <1>6, <1>7, <3>2, <3>3 DEF ServerCopies
    <3> QED
      BY <1>1, <3>2, <3>4, <3>5 DEF WorkNat
  <2>3. CASE (\E x \in Sides : CopyHalf(x) \/ PipeReturns) /\ UNCHANGED clientVars
    <3>0. PICK x \in Sides : CopyHalf(x) \/ PipeReturns
      BY <2>3
    <3>1. /\ UNCHANGED <<cunread, cheld, cend, cpc, cpipe>> /\ end' = end
          /\ unread'[Other(x)] <= unread[Other(x)] /\ held'[Other(x)] = held[Other(x)]
          /\ x \in {"a", "b"} /\ Other(x) \in {"a", "b"}
          /\ \A y \in {"a", "b"} : y = x \/ y = Other(x)
      BY <2>3, <3>0, <1>8, ServerMoves DEF clientVars
    <3>2. ClientStages' = ClientStages /\ StreamStages' = StreamStages
      BY <1>12, <1>6, <1>7, <3>1 DEF ServerCopies
    <3>3. CASE Read(x)
      <4>1. /\ ServerStages' = ServerStages /\ unread[x] > 0 /\ held[x] = 0
            /\ unread'[x] = 0 /\ held'[x] = unread[x]
        BY <1>8, <3>0, <3>3, ServerMoves
      <4>2. unread'[Other(x)] = unread[Other(x)]
        BY <3>3, OtherSide, <1>8 DEF Read, RelayInv, NatTypes
      <4>3. CASE x = "b"
        <5>1. ToApp' < ToApp
          BY <1>3, <1>4, <1>8, <3>1, <4>1, <4>2, <4>3, PlacesShrink
        <5>2. ToTarget' = ToTarget
          BY <1>3, <1>8, <3>1, <4>1, <4>2, <4>3
        <5> QED
          BY <1>1, <3>2, <4>1, <5>1, <5>2 DEF WorkNat
      <4>4. CASE x = "a"
        <5>1. ToTarget' < ToTarget
          BY <1>3, <1>4, <1>8, <3>1, <4>1, <4>2, <4>4, PlacesShrink
        <5>2. ToApp' = ToApp
          BY <1>3, <1>8, <3>1, <4>1, <4>2, <4>4
        <5> QED
          BY <1>1, <3>2, <4>1, <5>1, <5>2 DEF WorkNat
      <4> QED
        BY <3>1, <4>3, <4>4
    <3>4. CASE Write(x)
      <4>1. /\ ServerStages' = ServerStages /\ held[x] > 0 /\ held'[x] = 0 /\ unread' = unread
        BY <1>8, <3>0, <3>4, ServerMoves
      <4>2. CASE x = "b"
        <5>1. cunread'["b"] <= cunread["b"] + held["b"]
          BY <1>4, <3>1
        <5>2. ToApp' < ToApp
          BY <1>3, <1>4, <1>8, <3>1, <4>1, <4>2, <5>1, PlacesShrink
        <5>3. ToTarget' = ToTarget
          BY <1>3, <1>8, <3>1, <4>1, <4>2
        <5> QED
          BY <1>1, <3>2, <4>1, <5>2, <5>3 DEF WorkNat
      <4>3. CASE x = "a"
        <5>1. ToTarget' < ToTarget
          BY <1>3, <1>4, <1>8, <3>1, <4>1, <4>3, PlacesShrink
        <5>2. ToApp' = ToApp
          BY <1>3, <1>8, <3>1, <4>1, <4>3
        <5> QED
          BY <1>1, <3>2, <4>1, <5>1, <5>2 DEF WorkNat
      <4> QED
        BY <3>1, <4>2, <4>3
    <3>5. CASE WriteFails(x) \/ ReadEnds(x) \/ Finishes(x) \/ PipeReturns
      <4>1. /\ ServerStages' < ServerStages
            /\ unread'[x] <= unread[x] /\ held'[x] <= held[x]
        BY <1>8, <3>0, <3>5, ServerMoves
      <4>2. ToTarget' <= ToTarget /\ ToApp' <= ToApp
        BY <1>4, <1>5, <3>1, <4>1
      <4> QED
        BY <1>1, <3>2, <4>1, <4>2 DEF WorkNat
    <3> QED
      BY <3>0, <3>3, <3>4, <3>5 DEF CopyHalf
  <2> QED
    BY <1>12, <2>1, <2>2, <2>3 DEF ServerCopies, CopyHalf, Sides
<1> QED
  BY <1>9, <1>10, <1>11, <1>12 DEF Relays

(* Only finitely much happens for each byte, finish and break: every step  *)
(* of Relays, the steps whose fairness TunnelFairSpec assumes together,    *)
(* leaves less to do, so that it cannot go on for ever and starve another. *)
THEOREM WorkShrinks == TunnelSpec => [][WorkNat /\ (Relays => Work' < Work)]_tunnelVars
<1>1. TunnelInv /\ [TunnelNext]_tunnelVars => [WorkNat /\ (Relays => Work' < Work)]_tunnelVars
  BY TunnelNextInv, WorkType, RelaysShrink
<1> QED
  BY <1>1, TunnelInvariance, PTL DEF TunnelSpec
=============================================================================
