------------------------ MODULE SessionDialerProofs ------------------------
(***************************************************************************)
(* Proofs about SessionDialer for any number of callers and sessions.      *)
(***************************************************************************)
EXTENDS SessionDialer, TLAPS

(* mu is held across a connect, and by nobody else.  While it is held      *)
(* there is no current session and the dialer cannot be closed.            *)
LockInv ==
    /\ \A c \in Callers : mu = c <=> pc[c] \in {"dial", "auth"}
    /\ mu # Nil => cur = Nil /\ ~closed

(* The current session is the only one that holds resources. *)
CurInv ==
    /\ OnlyCurrentIsOpen
    /\ cur # Nil => sess[cur] \in Open
    /\ closed => cur = Nil

(* The caller's session was established, and it is gone when Dial retries. *)
GotInv ==
    \A c \in Callers :
       /\ pc[c] \in {"open", "discard"} => got[c] \in Sessions /\ sess[got[c]] # "none"
       /\ pc[c] \in {"lock", "dial", "auth"} /\ try[c] = 2
            => got[c] \in Sessions /\ sess[got[c]] = "closed"

RunInv == closed <=> run = "returned"

IInv == TypeOK /\ LockInv /\ CurInv /\ GotInv /\ RunInv

-----------------------------------------------------------------------------
(* The initial state satisfies the inductive invariant. *)
LEMMA InitInv == Init => IInv
<1> SUFFICES ASSUME Init PROVE IInv
  OBVIOUS
<1> USE DialerAssumption DEF Init
<1>1. TypeOK
  BY DEF TypeOK, Condition, InDial
<1>2. LockInv
  BY DEF LockInv
<1>3. CurInv
  BY DEF CurInv, OnlyCurrentIsOpen, Open
<1>4. GotInv /\ RunInv
  BY DEF GotInv, RunInv
<1> QED BY <1>1, <1>2, <1>3, <1>4 DEF IInv

(* Every step of the dialer, its callers and the network preserves it. *)
LEMMA NextInv == IInv /\ [Next]_vars => IInv'
<1> SUFFICES ASSUME IInv, [Next]_vars PROVE IInv'
  OBVIOUS
<1> USE DialerAssumption DEF IInv
<1>1. ASSUME NEW c \in Callers, Start(c) PROVE IInv'
  <2>1. TypeOK'
    BY <1>1 DEF Start, Goto, TypeOK, Condition, InDial
  <2>2. LockInv'
    BY <1>1 DEF Start, Goto, TypeOK, LockInv, CurInv
  <2>3. CurInv'
    BY <1>1
       DEF Start, Goto, TypeOK, LockInv, CurInv, OnlyCurrentIsOpen,
           Condition, Open
  <2>4. GotInv'
    BY <1>1
       DEF Start, Goto, TypeOK, LockInv, CurInv, OnlyCurrentIsOpen,
           GotInv, Condition, Open
  <2>5. RunInv'
    BY <1>1 DEF Start, Goto, RunInv
  <2> QED BY <2>1, <2>2, <2>3, <2>4, <2>5
<1>2. ASSUME NEW c \in Callers, Expire(c) PROVE IInv'
  <2>1. TypeOK'
    BY <1>2 DEF Expire, Goto, TypeOK, Condition, InDial
  <2>2. LockInv'
    BY <1>2 DEF Expire, Goto, TypeOK, LockInv, CurInv
  <2>3. CurInv'
    BY <1>2
       DEF Expire, Goto, TypeOK, LockInv, CurInv, OnlyCurrentIsOpen,
           Condition, Open
  <2>4. GotInv'
    BY <1>2
       DEF Expire, Goto, TypeOK, LockInv, CurInv, OnlyCurrentIsOpen,
           GotInv, Condition, Open
  <2>5. RunInv'
    BY <1>2 DEF Expire, Goto, RunInv
  <2> QED BY <2>1, <2>2, <2>3, <2>4, <2>5
<1>3. ASSUME NEW c \in Callers, SessionRefused(c) PROVE IInv'
  <2>1. TypeOK'
    BY <1>3 DEF SessionRefused, Goto, TypeOK, Condition, InDial
  <2>2. LockInv'
    BY <1>3 DEF SessionRefused, Goto, TypeOK, LockInv, CurInv
  <2>3. CurInv'
    BY <1>3
       DEF SessionRefused, Goto, TypeOK, LockInv, CurInv,
           OnlyCurrentIsOpen, Condition, Open
  <2>4. GotInv'
    BY <1>3
       DEF SessionRefused, Goto, TypeOK, LockInv, CurInv,
           OnlyCurrentIsOpen, GotInv, Condition, Open
  <2>5. RunInv'
    BY <1>3 DEF SessionRefused, Goto, RunInv
  <2> QED BY <2>1, <2>2, <2>3, <2>4, <2>5
<1>4. ASSUME NEW c \in Callers, SessionReused(c) PROVE IInv'
  <2>1. TypeOK'
    BY <1>4 DEF SessionReused, IsClosed, Goto, TypeOK, Condition, InDial
  <2>2. LockInv'
    BY <1>4 DEF SessionReused, IsClosed, Goto, TypeOK, LockInv, CurInv
  <2>3. CurInv'
    BY <1>4
       DEF SessionReused, IsClosed, Goto, TypeOK, LockInv, CurInv,
           OnlyCurrentIsOpen, Condition, Open
  <2>4. GotInv'
    BY <1>4
       DEF SessionReused, IsClosed, Goto, TypeOK, LockInv, CurInv,
           OnlyCurrentIsOpen, GotInv, Condition, Open
  <2>5. RunInv'
    BY <1>4 DEF SessionReused, IsClosed, Goto, RunInv
  <2> QED BY <2>1, <2>2, <2>3, <2>4, <2>5
<1>5. ASSUME NEW c \in Callers, ConnectBegins(c) PROVE IInv'
  <2>1. TypeOK'
    BY <1>5 DEF ConnectBegins, CloseCur, IsClosed, Goto, TypeOK, Condition, InDial
  <2>2. LockInv'
    BY <1>5 DEF ConnectBegins, CloseCur, IsClosed, Goto, TypeOK, LockInv, CurInv
  <2>3. CurInv'
    BY <1>5
       DEF ConnectBegins, CloseCur, IsClosed, Goto, TypeOK, LockInv,
           CurInv, OnlyCurrentIsOpen, Condition, Open
  <2>4. GotInv'
    BY <1>5
       DEF ConnectBegins, CloseCur, IsClosed, Goto, TypeOK, LockInv,
           CurInv, OnlyCurrentIsOpen, GotInv, Condition, Open
  <2>5. RunInv'
    BY <1>5 DEF ConnectBegins, CloseCur, IsClosed, Goto, RunInv
  <2> QED BY <2>1, <2>2, <2>3, <2>4, <2>5
<1>6. ASSUME NEW c \in Callers, CarrierDialed(c) PROVE IInv'
  <2>1. TypeOK'
    BY <1>6 DEF CarrierDialed, Goto, TypeOK, Condition, InDial
  <2>2. LockInv'
    BY <1>6 DEF CarrierDialed, Goto, TypeOK, LockInv, CurInv
  <2>3. CurInv'
    BY <1>6
       DEF CarrierDialed, Goto, TypeOK, LockInv, CurInv,
           OnlyCurrentIsOpen, Condition, Open
  <2>4. GotInv'
    BY <1>6
       DEF CarrierDialed, Goto, TypeOK, LockInv, CurInv,
           OnlyCurrentIsOpen, GotInv, Condition, Open
  <2>5. RunInv'
    BY <1>6 DEF CarrierDialed, Goto, RunInv
  <2> QED BY <2>1, <2>2, <2>3, <2>4, <2>5
<1>7. ASSUME NEW c \in Callers, NEW s \in Sessions, Connected(c, s) PROVE IInv'
  <2>1. TypeOK'
    BY <1>7 DEF Connected, Goto, TypeOK, Condition, InDial
  <2>2. LockInv'
    BY <1>7 DEF Connected, Goto, TypeOK, LockInv, CurInv
  <2>3. CurInv'
    BY <1>7
       DEF Connected, Goto, TypeOK, LockInv, CurInv, OnlyCurrentIsOpen,
           Condition, Open
  <2>4. GotInv'
    BY <1>7
       DEF Connected, Goto, TypeOK, LockInv, CurInv, OnlyCurrentIsOpen,
           GotInv, Condition, Open
  <2>5. RunInv'
    BY <1>7 DEF Connected, Goto, RunInv
  <2> QED BY <2>1, <2>2, <2>3, <2>4, <2>5
<1>8. ASSUME NEW c \in Callers, ConnectFailed(c) PROVE IInv'
  <2>1. TypeOK'
    BY <1>8 DEF ConnectFailed, Goto, TypeOK, Condition, InDial
  <2>2. LockInv'
    BY <1>8 DEF ConnectFailed, Goto, TypeOK, LockInv, CurInv
  <2>3. CurInv'
    BY <1>8
       DEF ConnectFailed, Goto, TypeOK, LockInv, CurInv,
           OnlyCurrentIsOpen, Condition, Open
  <2>4. GotInv'
    BY <1>8
       DEF ConnectFailed, Goto, TypeOK, LockInv, CurInv,
           OnlyCurrentIsOpen, GotInv, Condition, Open
  <2>5. RunInv'
    BY <1>8 DEF ConnectFailed, Goto, RunInv
  <2> QED BY <2>1, <2>2, <2>3, <2>4, <2>5
<1>9. ASSUME NEW c \in Callers, OpenStream(c) PROVE IInv'
  <2>1. TypeOK'
    BY <1>9 DEF OpenStream, Goto, TypeOK, Condition, InDial
  <2>2. LockInv'
    BY <1>9 DEF OpenStream, Goto, TypeOK, LockInv, CurInv
  <2>3. CurInv'
    BY <1>9
       DEF OpenStream, Goto, TypeOK, LockInv, CurInv,
           OnlyCurrentIsOpen, Condition, Open
  <2>4. GotInv'
    BY <1>9
       DEF OpenStream, Goto, TypeOK, LockInv, CurInv,
           OnlyCurrentIsOpen, GotInv, Condition, Open
  <2>5. RunInv'
    BY <1>9 DEF OpenStream, Goto, RunInv
  <2> QED BY <2>1, <2>2, <2>3, <2>4, <2>5
<1>10. ASSUME NEW c \in Callers, OpenFails(c) PROVE IInv'
  <2>1. TypeOK'
    BY <1>10 DEF OpenFails, Goto, TypeOK, Condition, InDial
  <2>2. LockInv'
    BY <1>10 DEF OpenFails, Goto, TypeOK, LockInv, CurInv
  <2>3. CurInv'
    BY <1>10
       DEF OpenFails, Goto, TypeOK, LockInv, CurInv, OnlyCurrentIsOpen,
           Condition, Open
  <2>4. GotInv'
    BY <1>10
       DEF OpenFails, Goto, TypeOK, LockInv, CurInv, OnlyCurrentIsOpen,
           GotInv, Condition, Open
  <2>5. RunInv'
    BY <1>10 DEF OpenFails, Goto, RunInv
  <2> QED BY <2>1, <2>2, <2>3, <2>4, <2>5
<1>11. ASSUME NEW c \in Callers, Discard(c) PROVE IInv'
  <2>1. TypeOK'
    BY <1>11 DEF Discard, StillCurrent, CloseCur, Goto, TypeOK, Condition, InDial
  <2>2. LockInv'
    BY <1>11 DEF Discard, StillCurrent, CloseCur, Goto, TypeOK, LockInv, CurInv
  <2>3. CurInv'
    BY <1>11
       DEF Discard, StillCurrent, CloseCur, Goto, TypeOK, LockInv,
           CurInv, OnlyCurrentIsOpen, Condition, Open
  <2>4. GotInv'
    BY <1>11
       DEF Discard, StillCurrent, CloseCur, Goto, TypeOK, LockInv,
           CurInv, OnlyCurrentIsOpen, GotInv, Condition, Open
  <2>5. RunInv'
    BY <1>11 DEF Discard, StillCurrent, CloseCur, Goto, RunInv
  <2> QED BY <2>1, <2>2, <2>3, <2>4, <2>5
<1>12. ASSUME NEW c \in Callers, HandlerReturns(c) PROVE IInv'
  <2>1. TypeOK'
    BY <1>12 DEF HandlerReturns, Goto, TypeOK, Condition, InDial
  <2>2. LockInv'
    BY <1>12 DEF HandlerReturns, Goto, TypeOK, LockInv, CurInv
  <2>3. CurInv'
    BY <1>12
       DEF HandlerReturns, Goto, TypeOK, LockInv, CurInv,
           OnlyCurrentIsOpen, Condition, Open
  <2>4. GotInv'
    BY <1>12
       DEF HandlerReturns, Goto, TypeOK, LockInv, CurInv,
           OnlyCurrentIsOpen, GotInv, Condition, Open
  <2>5. RunInv'
    BY <1>12 DEF HandlerReturns, Goto, RunInv
  <2> QED BY <2>1, <2>2, <2>3, <2>4, <2>5
<1>13. ASSUME Cancel PROVE IInv'
  <2>1. TypeOK'
    BY <1>13 DEF Cancel, TypeOK, Condition, InDial
  <2>2. LockInv'
    BY <1>13 DEF Cancel, TypeOK, LockInv, CurInv
  <2>3. CurInv'
    BY <1>13 DEF Cancel, TypeOK, LockInv, CurInv, OnlyCurrentIsOpen, Condition, Open
  <2>4. GotInv'
    BY <1>13
       DEF Cancel, TypeOK, LockInv, CurInv, OnlyCurrentIsOpen, GotInv,
           Condition, Open
  <2>5. RunInv'
    BY <1>13 DEF Cancel, RunInv
  <2> QED BY <2>1, <2>2, <2>3, <2>4, <2>5
<1>14. ASSUME Close PROVE IInv'
  <2>1. TypeOK'
    BY <1>14 DEF Close, CloseCur, TypeOK, Condition, InDial
  <2>2. LockInv'
    BY <1>14 DEF Close, CloseCur, TypeOK, LockInv, CurInv
  <2>3. CurInv'
    BY <1>14
       DEF Close, CloseCur, TypeOK, LockInv, CurInv, OnlyCurrentIsOpen,
           Condition, Open
  <2>4. GotInv'
    BY <1>14
       DEF Close, CloseCur, TypeOK, LockInv, CurInv, OnlyCurrentIsOpen,
           GotInv, Condition, Open
  <2>5. RunInv'
    BY <1>14 DEF Close, CloseCur, RunInv
  <2> QED BY <2>1, <2>2, <2>3, <2>4, <2>5
<1>15. ASSUME NEW s \in Sessions, SessionBreaks(s) PROVE IInv'
  <2>1. TypeOK'
    BY <1>15 DEF SessionBreaks, TypeOK, Condition, InDial
  <2>2. LockInv'
    BY <1>15 DEF SessionBreaks, TypeOK, LockInv, CurInv
  <2>3. CurInv'
    BY <1>15
       DEF SessionBreaks, TypeOK, LockInv, CurInv, OnlyCurrentIsOpen,
           Condition, Open
  <2>4. GotInv'
    BY <1>15
       DEF SessionBreaks, TypeOK, LockInv, CurInv, OnlyCurrentIsOpen,
           GotInv, Condition, Open
  <2>5. RunInv'
    BY <1>15 DEF SessionBreaks, RunInv
  <2> QED BY <2>1, <2>2, <2>3, <2>4, <2>5
<1>16. CASE UNCHANGED vars
  BY <1>16 DEF vars, TypeOK, LockInv, CurInv, GotInv, RunInv, OnlyCurrentIsOpen
<1> QED
  BY <1>1, <1>2, <1>3, <1>4, <1>5, <1>6, <1>7, <1>8, <1>9, <1>10, <1>11, <1>12, <1>13, <1>14, <1>15, <1>16
  DEF Next, SessionCall, ConnectStep, OpenCall

(* The inductive invariant holds throughout. *)
LEMMA Invariance == Spec => []IInv
BY InitInv, NextInv, PTL DEF Spec

-----------------------------------------------------------------------------
(* Every variable of the dialer keeps its type. *)
THEOREM TypeCorrect == Spec => []TypeOK
<1>1. IInv => TypeOK
  BY DEF IInv
<1> QED
  BY <1>1, Invariance, PTL

(* No session leaks: whatever holds resources is the current session. *)
THEOREM NoLeak == Spec => []OnlyCurrentIsOpen
<1>1. IInv => OnlyCurrentIsOpen
  BY DEF IInv, CurInv
<1> QED
  BY <1>1, Invariance, PTL

(* After client.Run has returned nothing is open, although callers that    *)
(* were inside Dial go on.                                                 *)
THEOREM NothingOpenAfterReturn == Spec => []ReturnedMeansClosed
<1>1. IInv => ReturnedMeansClosed
  BY DialerAssumption
     DEF IInv, TypeOK, CurInv, RunInv, OnlyCurrentIsOpen, ReturnedMeansClosed,
         Condition, Open
<1> QED
  BY <1>1, Invariance, PTL

(* The second iteration of Dial's loop never returns the session that      *)
(* failed in the first: discard closed it, and a closed session is never   *)
(* current again.                                                          *)
THEOREM RetryGetsFreshSession == Spec => RetryIsFresh
<1> DEFINE Fresh(c) == try[c] = 2 /\ got'[c] # Nil /\ pc'[c] = "open" /\ pc[c] # "open"
                          => got'[c] # got[c]
<1>1. ASSUME IInv, [Next]_vars, NEW c \in Callers PROVE Fresh(c)
  <2> USE <1>1, DialerAssumption
  <2>1. CASE \E d \in Callers : SessionReused(d)
    BY <2>1 DEF IInv, TypeOK, CurInv, GotInv, Open, SessionReused, Goto
  <2>2. CASE \E d \in Callers, s \in Sessions : Connected(d, s)
    BY <2>2 DEF IInv, TypeOK, GotInv, Connected, Goto
  <2>3. CASE UNCHANGED vars
    BY <2>3 DEF vars
  <2>4. CASE \/ \E d \in Callers :
                  \/ Start(d) \/ Expire(d) \/ SessionRefused(d) \/ ConnectBegins(d)
                  \/ CarrierDialed(d) \/ ConnectFailed(d) \/ OpenCall(d)
                  \/ Discard(d) \/ HandlerReturns(d)
             \/ \E s \in Sessions : SessionBreaks(s)
             \/ Cancel \/ Close
    BY <2>4 DEF IInv, TypeOK, Goto, Start, Expire, SessionRefused, ConnectBegins,
         CarrierDialed, ConnectFailed, OpenCall, OpenStream, OpenFails, Discard,
         HandlerReturns, SessionBreaks, Cancel, Close
  <2> QED
    BY <2>1, <2>2, <2>3, <2>4 DEF Next, SessionCall, ConnectStep
<1>2. IInv /\ [Next]_vars => [\A c \in Callers : Fresh(c)]_vars
  BY <1>1
<1> QED
  BY <1>2, Invariance, PTL DEF Spec, RetryIsFresh

(* A session that works is closed by nothing but the dialer's Close and a  *)
(* caller whose own open on it failed.                                     *)
THEOREM WorkingSessionKept == Spec => LiveSessionKept
<1> DEFINE Kept(s) == sess[s] = "live" /\ ~closed' /\ sess'[s] = "closed"
                         => \E c \in Callers :
                               pc[c] = "discard" /\ got[c] = s /\ pc'[c] # "discard"
<1>1. ASSUME IInv, [Next]_vars, NEW s \in Sessions PROVE Kept(s)
  <2> USE <1>1, DialerAssumption
  <2>1. CASE \E c \in Callers : ConnectBegins(c)
    BY <2>1 DEF IInv, TypeOK, IsClosed, ConnectBegins, CloseCur
  <2>2. CASE \E c \in Callers : Discard(c)
    BY <2>2 DEF IInv, TypeOK, Discard, StillCurrent, CloseCur, Goto
  <2>3. CASE \E c \in Callers, t \in Sessions : Connected(c, t)
    BY <2>3 DEF IInv, TypeOK, Connected
  <2>4. CASE \E t \in Sessions : SessionBreaks(t)
    BY <2>4 DEF IInv, TypeOK, SessionBreaks
  <2>5. CASE Close
    BY <2>5 DEF Close
  <2>6. CASE \/ UNCHANGED vars \/ Cancel
             \/ \E c \in Callers :
                  \/ Start(c) \/ Expire(c) \/ SessionRefused(c) \/ SessionReused(c)
                  \/ CarrierDialed(c) \/ ConnectFailed(c) \/ OpenCall(c)
                  \/ HandlerReturns(c)
    BY <2>6 DEF vars, Cancel, Start, Expire, SessionRefused, SessionReused,
         CarrierDialed, ConnectFailed, OpenCall, OpenStream, OpenFails, HandlerReturns
  <2> QED
    BY <2>1, <2>2, <2>3, <2>4, <2>5, <2>6 DEF Next, SessionCall, ConnectStep
<1>2. IInv /\ [Next]_vars => [\A s \in Sessions : Kept(s)]_vars
  BY <1>1
<1> QED
  BY <1>2, Invariance, PTL DEF Spec, LiveSessionKept
-----------------------------------------------------------------------------
(* The dialer implements SharedSession. *)
OpenSet == {s \in Sessions : sess[s] \in Open}
UsedSet == {s \in Sessions : sess[s] # "none"}

(* Initial states map to initial states. *)
LEMMA InitRefines == Init => Shared!Init
BY DEF Init, Shared!Init, Open

(* Every step of the dialer is a step of SharedSession or leaves the       *)
(* abstract state alone.                                                   *)
LEMMA StepRefines == IInv /\ [Next]_vars => [Shared!Next]_(Shared!vars)
<1> SUFFICES ASSUME IInv, [Next]_vars PROVE [Shared!Next]_(Shared!vars)
  OBVIOUS
<1> USE DialerAssumption DEF IInv, TypeOK
<1>1. ASSUME NEW c \in Callers, NEW s \in Sessions, Connected(c, s)
      PROVE  Shared!Establish(s)
  <2>1. OpenSet = {}
    BY <1>1 DEF Connected, LockInv, CurInv, OnlyCurrentIsOpen, OpenSet
  <2>2. OpenSet' = {s} /\ UsedSet' = UsedSet \cup {s} /\ s \notin UsedSet
    BY <1>1, <2>1 DEF Connected, OpenSet, UsedSet, Open
  <2>3. ~closed /\ closed' = closed
    BY <1>1 DEF Connected, LockInv
  <2> QED
    BY <2>1, <2>2, <2>3 DEF Shared!Establish, OpenSet, UsedSet
<1>2. ASSUME NEW c \in Callers, ConnectBegins(c) \/ Discard(c)
      PROVE  Shared!Retire \/ UNCHANGED Shared!vars
  <2>1. closed' = closed
    BY <1>2 DEF ConnectBegins, Discard
  <2>2. CASE cur = Nil \/ (Discard(c) /\ ~StillCurrent(c))
    <3>1. sess' = sess
      BY <1>2, <2>2 DEF ConnectBegins, Discard, StillCurrent, CloseCur
    <3> QED
      BY <2>1, <3>1 DEF Shared!vars
  <2>3. CASE cur # Nil /\ (Discard(c) => StillCurrent(c))
    <3>1. sess' = CloseCur /\ cur \in Sessions /\ sess[cur] \in Open /\ ~closed
      BY <1>2, <2>3 DEF ConnectBegins, Discard, StillCurrent, CurInv
    <3>2. OpenSet # {} /\ OpenSet' = {} /\ UsedSet' = UsedSet
      BY <3>1 DEF CloseCur, CurInv, OnlyCurrentIsOpen, OpenSet, UsedSet, Open
    <3> QED
      BY <2>1, <3>1, <3>2 DEF Shared!Retire, OpenSet, UsedSet
  <2> QED
    BY <2>2, <2>3
<1>3. ASSUME Close PROVE Shared!Shut
  <2>1. OpenSet' = {} /\ UsedSet' = UsedSet
    BY <1>3 DEF Close, CloseCur, CurInv, OnlyCurrentIsOpen, OpenSet, UsedSet, Open
  <2>2. ~closed /\ closed' = TRUE
    BY <1>3 DEF Close, RunInv
  <2> QED
    BY <2>1, <2>2 DEF Shared!Shut, OpenSet, UsedSet
<1>4. ASSUME NEW s \in Sessions, SessionBreaks(s) PROVE UNCHANGED Shared!vars
  <2>1. OpenSet' = OpenSet /\ UsedSet' = UsedSet
    BY <1>4 DEF SessionBreaks, OpenSet, UsedSet, Open
  <2> QED
    BY <1>4, <2>1 DEF SessionBreaks, Shared!vars, OpenSet, UsedSet
<1>5. ASSUME \/ UNCHANGED vars \/ Cancel
             \/ \E c \in Callers :
                  \/ Start(c) \/ Expire(c) \/ SessionRefused(c) \/ SessionReused(c)
                  \/ CarrierDialed(c) \/ ConnectFailed(c) \/ OpenCall(c)
                  \/ HandlerReturns(c)
      PROVE  UNCHANGED Shared!vars
  <2>1. UNCHANGED <<sess, closed>>
    BY <1>5 DEF vars, Cancel, Start, Expire, SessionRefused, SessionReused,
         CarrierDialed, ConnectFailed, OpenCall, OpenStream, OpenFails, HandlerReturns
  <2> QED
    BY <2>1 DEF Shared!vars
<1> QED
  BY <1>1, <1>2, <1>3, <1>4, <1>5
  DEF Next, SessionCall, ConnectStep, Shared!Next

(* SessionDialer implements SharedSession. *)
THEOREM Refinement == Spec => SharedSpec
BY InitRefines, StepRefines, Invariance, PTL DEF Spec, SharedSpec, Shared!Spec
=============================================================================
