--------------------------- MODULE UDPRelayProofs ---------------------------
(***************************************************************************)
(* Proofs about UDPRelay for any number of peers and sessions and any idle *)
(* timeout.                                                                *)
(***************************************************************************)
EXTENDS UDPRelay, TLAPS

(* The locals of run are set where they are used. *)
LocalsInv ==
    /\ pc = "session" => from \in Peers
    /\ pc = "touch" => sess \in Ids

(* A session the sweeper is about to close has left the map for good. *)
IdleInv == \A p \in Peers : sessions[p] \notin idle

IInv == TypeOK /\ LocalsInv /\ IdleInv /\ EntriesWork /\ NoOrphan

(* The initial state satisfies the inductive invariant. *)
LEMMA InitInv == Init => IInv
BY RelayAssumption
   DEF Init, IInv, TypeOK, LocalsInv, IdleInv, EntriesWork, NoOrphan

(* Every step preserves the types. *)
LEMMA TypeStep == TypeOK /\ LocalsInv /\ [Next]_vars => TypeOK'
<1> SUFFICES ASSUME TypeOK, LocalsInv, [Next]_vars PROVE TypeOK'
  OBVIOUS
<1> USE RelayAssumption DEF TypeOK, relayVars, runVars, sweepVars, stopVars
<1>1. ASSUME NEW p \in Peers, Receive(p) PROVE TypeOK'
  BY <1>1 DEF Receive
<1>2. ASSUME SessionFound PROVE TypeOK'
  BY <1>2 DEF SessionFound, LocalsInv
<1>3. ASSUME NEW s \in Ids, SessionCreated(s) PROVE TypeOK'
  BY <1>3 DEF SessionCreated, Touch, Unreferenced, LocalsInv
<1>4. ASSUME SessionFailed PROVE TypeOK'
  BY <1>4 DEF SessionFailed
<1>5. ASSUME Forward PROVE TypeOK'
  BY <1>5 DEF Forward, Touch, LocalsInv
<1>6. ASSUME ReadClosed PROVE TypeOK'
  BY <1>6 DEF ReadClosed
<1>7. ASSUME ReadBroken PROVE TypeOK'
  BY <1>7 DEF ReadBroken
<1>8. ASSUME CloseAll PROVE TypeOK'
  BY <1>8 DEF CloseAll
<1>9. ASSUME Return PROVE TypeOK'
  BY <1>9 DEF Return
<1>10. ASSUME NEW s \in Ids, PumpReads(s) PROVE TypeOK'
  BY <1>10 DEF PumpReads
<1>11. ASSUME NEW s \in Ids, PumpReplies(s) PROVE TypeOK'
  BY <1>11 DEF PumpReplies, Touch
<1>12. ASSUME NEW s \in Ids, PumpUnblocked(s) PROVE TypeOK'
  BY <1>12 DEF PumpUnblocked
<1>13. ASSUME NEW s \in Ids, PumpBreaks(s) PROVE TypeOK'
  BY <1>13 DEF PumpBreaks
<1>14. ASSUME NEW s \in Ids, PumpRemoves(s) PROVE TypeOK'
  BY <1>14 DEF PumpRemoves
<1>15. ASSUME NEW s \in Ids, PumpCloses(s) PROVE TypeOK'
  BY <1>15 DEF PumpCloses, Touch
<1>16. ASSUME SweepStarts PROVE TypeOK'
  BY <1>16 DEF SweepStarts
<1>17. ASSUME SweepLocks PROVE TypeOK'
  BY <1>17 DEF SweepLocks
<1>18. ASSUME NEW p \in Peers, SweepVisits(p) PROVE TypeOK'
  BY <1>18 DEF SweepVisits
<1>19. ASSUME SweepUnlocks PROVE TypeOK'
  BY <1>19 DEF SweepUnlocks
<1>20. ASSUME NEW s \in Ids, SweepCloses(s) PROVE TypeOK'
  BY <1>20 DEF SweepCloses
<1>21. ASSUME SweepWaits PROVE TypeOK'
  BY <1>21 DEF SweepWaits
<1>22. ASSUME SweepEnds PROVE TypeOK'
  BY <1>22 DEF SweepEnds
<1>23. ASSUME Cancel PROVE TypeOK'
  BY <1>23 DEF Cancel
<1>24. ASSUME CloseListener PROVE TypeOK'
  BY <1>24 DEF CloseListener
<1>25. ASSUME Tick PROVE TypeOK'
  BY <1>25 DEF Tick
<1>26. CASE UNCHANGED vars
  BY <1>26 DEF vars
<1> QED
  BY <1>1, <1>2, <1>3, <1>4, <1>5, <1>6, <1>7, <1>8, <1>9, <1>10,
     <1>11, <1>12, <1>13, <1>14, <1>15, <1>16, <1>17, <1>18, <1>19,
     <1>20, <1>21, <1>22, <1>23, <1>24, <1>25, <1>26
  DEF Next, SessionCall, PumpStep, SweepStep

(* Every step keeps map, sockets, pumps and sweeper consistent. *)
LEMMA NextInv == IInv /\ [Next]_vars => IInv'
<1> SUFFICES ASSUME IInv, [Next]_vars PROVE IInv'
  OBVIOUS
<1>t. TypeOK'
  BY TypeStep DEF IInv
<1> USE RelayAssumption, <1>t DEF IInv, relayVars, runVars, sweepVars, stopVars
<1>1. ASSUME NEW p \in Peers, Receive(p) PROVE IInv'
  BY <1>1 DEF Receive, TypeOK, LocalsInv, IdleInv, EntriesWork, NoOrphan, Mapped
<1>2. ASSUME SessionFound PROVE IInv'
  BY <1>2
     DEF SessionFound, TypeOK, LocalsInv, IdleInv, EntriesWork, NoOrphan,
         Mapped
<1>3. ASSUME NEW s \in Ids, SessionCreated(s) PROVE IInv'
  <2>1. LocalsInv'
    BY <1>3 DEF SessionCreated, Touch, Unreferenced, LocalsInv
  <2>2. IdleInv'
    BY <1>3
       DEF SessionCreated, Touch, Unreferenced, TypeOK, LocalsInv,
           IdleInv, EntriesWork
  <2>3. EntriesWork'
    BY <1>3
       DEF SessionCreated, Touch, Unreferenced, TypeOK, LocalsInv,
           IdleInv, EntriesWork, Mapped
  <2>4. NoOrphan'
    BY <1>3
       DEF SessionCreated, Touch, Unreferenced, TypeOK, LocalsInv,
           EntriesWork, NoOrphan, Mapped
  <2> QED
    BY <2>1, <2>2, <2>3, <2>4
<1>4. ASSUME SessionFailed PROVE IInv'
  BY <1>4
     DEF SessionFailed, TypeOK, LocalsInv, IdleInv, EntriesWork,
         NoOrphan, Mapped
<1>5. ASSUME Forward PROVE IInv'
  BY <1>5
     DEF Forward, Touch, TypeOK, LocalsInv, IdleInv, EntriesWork,
         NoOrphan, Mapped
<1>6. ASSUME ReadClosed PROVE IInv'
  BY <1>6 DEF ReadClosed, TypeOK, LocalsInv, IdleInv, EntriesWork, NoOrphan, Mapped
<1>7. ASSUME ReadBroken PROVE IInv'
  BY <1>7 DEF ReadBroken, TypeOK, LocalsInv, IdleInv, EntriesWork, NoOrphan, Mapped
<1>8. ASSUME CloseAll PROVE IInv'
  <2>1. LocalsInv'
    BY <1>8 DEF CloseAll, LocalsInv
  <2>2. IdleInv'
    BY <1>8 DEF CloseAll, TypeOK, LocalsInv, IdleInv, EntriesWork
  <2>3. EntriesWork'
    BY <1>8 DEF CloseAll, TypeOK, LocalsInv, IdleInv, EntriesWork, Mapped
  <2>4. NoOrphan'
    BY <1>8 DEF CloseAll, TypeOK, LocalsInv, EntriesWork, NoOrphan, Mapped
  <2> QED
    BY <2>1, <2>2, <2>3, <2>4
<1>9. ASSUME Return PROVE IInv'
  BY <1>9 DEF Return, TypeOK, LocalsInv, IdleInv, EntriesWork, NoOrphan, Mapped
<1>10. ASSUME NEW s \in Ids, PumpReads(s) PROVE IInv'
  <2>1. LocalsInv'
    BY <1>10 DEF PumpReads, LocalsInv
  <2>2. IdleInv'
    BY <1>10 DEF PumpReads, TypeOK, LocalsInv, IdleInv, EntriesWork
  <2>3. EntriesWork'
    BY <1>10 DEF PumpReads, TypeOK, LocalsInv, IdleInv, EntriesWork, Mapped
  <2>4. NoOrphan'
    BY <1>10 DEF PumpReads, TypeOK, LocalsInv, EntriesWork, NoOrphan, Mapped
  <2> QED
    BY <2>1, <2>2, <2>3, <2>4
<1>11. ASSUME NEW s \in Ids, PumpReplies(s) PROVE IInv'
  <2>1. LocalsInv'
    BY <1>11 DEF PumpReplies, Touch, LocalsInv
  <2>2. IdleInv'
    BY <1>11 DEF PumpReplies, Touch, TypeOK, LocalsInv, IdleInv, EntriesWork
  <2>3. EntriesWork'
    BY <1>11 DEF PumpReplies, Touch, TypeOK, LocalsInv, IdleInv, EntriesWork, Mapped
  <2>4. NoOrphan'
    BY <1>11
       DEF PumpReplies, Touch, TypeOK, LocalsInv, EntriesWork,
           NoOrphan, Mapped
  <2> QED
    BY <2>1, <2>2, <2>3, <2>4
<1>12. ASSUME NEW s \in Ids, PumpUnblocked(s) PROVE IInv'
  <2>1. LocalsInv'
    BY <1>12 DEF PumpUnblocked, LocalsInv
  <2>2. IdleInv'
    BY <1>12 DEF PumpUnblocked, TypeOK, LocalsInv, IdleInv, EntriesWork
  <2>3. EntriesWork'
    BY <1>12 DEF PumpUnblocked, TypeOK, LocalsInv, IdleInv, EntriesWork, Mapped
  <2>4. NoOrphan'
    BY <1>12 DEF PumpUnblocked, TypeOK, LocalsInv, EntriesWork, NoOrphan, Mapped
  <2> QED
    BY <2>1, <2>2, <2>3, <2>4
<1>13. ASSUME NEW s \in Ids, PumpBreaks(s) PROVE IInv'
  <2>1. LocalsInv'
    BY <1>13 DEF PumpBreaks, LocalsInv
  <2>2. IdleInv'
    BY <1>13 DEF PumpBreaks, TypeOK, LocalsInv, IdleInv, EntriesWork
  <2>3. EntriesWork'
    BY <1>13 DEF PumpBreaks, TypeOK, LocalsInv, IdleInv, EntriesWork, Mapped
  <2>4. NoOrphan'
    BY <1>13 DEF PumpBreaks, TypeOK, LocalsInv, EntriesWork, NoOrphan, Mapped
  <2> QED
    BY <2>1, <2>2, <2>3, <2>4
<1>14. ASSUME NEW s \in Ids, PumpRemoves(s) PROVE IInv'
  <2>1. LocalsInv'
    BY <1>14 DEF PumpRemoves, LocalsInv
  <2>2. IdleInv'
    BY <1>14 DEF PumpRemoves, TypeOK, LocalsInv, IdleInv, EntriesWork
  <2>3. EntriesWork'
    BY <1>14 DEF PumpRemoves, TypeOK, LocalsInv, IdleInv, EntriesWork, Mapped
  <2>4. NoOrphan'
    BY <1>14 DEF PumpRemoves, TypeOK, LocalsInv, EntriesWork, NoOrphan, Mapped
  <2> QED
    BY <2>1, <2>2, <2>3, <2>4
<1>15. ASSUME NEW s \in Ids, PumpCloses(s) PROVE IInv'
  <2>1. LocalsInv'
    BY <1>15 DEF PumpCloses, Touch, LocalsInv
  <2>2. IdleInv'
    BY <1>15 DEF PumpCloses, Touch, TypeOK, LocalsInv, IdleInv, EntriesWork
  <2>3. EntriesWork'
    BY <1>15 DEF PumpCloses, Touch, TypeOK, LocalsInv, IdleInv, EntriesWork, Mapped
  <2>4. NoOrphan'
    BY <1>15 DEF PumpCloses, Touch, TypeOK, LocalsInv, EntriesWork, NoOrphan, Mapped
  <2> QED
    BY <2>1, <2>2, <2>3, <2>4
<1>16. ASSUME SweepStarts PROVE IInv'
  BY <1>16
     DEF SweepStarts, TypeOK, LocalsInv, IdleInv, EntriesWork, NoOrphan,
         Mapped
<1>17. ASSUME SweepLocks PROVE IInv'
  BY <1>17 DEF SweepLocks, TypeOK, LocalsInv, IdleInv, EntriesWork, NoOrphan, Mapped
<1>18. ASSUME NEW p \in Peers, SweepVisits(p) PROVE IInv'
  <2>1. LocalsInv'
    BY <1>18 DEF SweepVisits, LocalsInv
  <2>2. IdleInv'
    BY <1>18 DEF SweepVisits, TypeOK, LocalsInv, IdleInv, EntriesWork
  <2>3. EntriesWork'
    BY <1>18 DEF SweepVisits, TypeOK, LocalsInv, IdleInv, EntriesWork, Mapped
  <2>4. NoOrphan'
    BY <1>18 DEF SweepVisits, TypeOK, LocalsInv, EntriesWork, NoOrphan, Mapped
  <2> QED
    BY <2>1, <2>2, <2>3, <2>4
<1>19. ASSUME SweepUnlocks PROVE IInv'
  BY <1>19
     DEF SweepUnlocks, TypeOK, LocalsInv, IdleInv, EntriesWork, NoOrphan,
         Mapped
<1>20. ASSUME NEW s \in Ids, SweepCloses(s) PROVE IInv'
  <2>1. LocalsInv'
    BY <1>20 DEF SweepCloses, LocalsInv
  <2>2. IdleInv'
    BY <1>20 DEF SweepCloses, TypeOK, LocalsInv, IdleInv, EntriesWork
  <2>3. EntriesWork'
    BY <1>20 DEF SweepCloses, TypeOK, LocalsInv, IdleInv, EntriesWork, Mapped
  <2>4. NoOrphan'
    BY <1>20 DEF SweepCloses, TypeOK, LocalsInv, EntriesWork, NoOrphan, Mapped
  <2> QED
    BY <2>1, <2>2, <2>3, <2>4
<1>21. ASSUME SweepWaits PROVE IInv'
  BY <1>21 DEF SweepWaits, TypeOK, LocalsInv, IdleInv, EntriesWork, NoOrphan, Mapped
<1>22. ASSUME SweepEnds PROVE IInv'
  BY <1>22 DEF SweepEnds, TypeOK, LocalsInv, IdleInv, EntriesWork, NoOrphan, Mapped
<1>23. ASSUME Cancel PROVE IInv'
  BY <1>23 DEF Cancel, TypeOK, LocalsInv, IdleInv, EntriesWork, NoOrphan, Mapped
<1>24. ASSUME CloseListener PROVE IInv'
  BY <1>24
     DEF CloseListener, TypeOK, LocalsInv, IdleInv, EntriesWork,
         NoOrphan, Mapped
<1>25. ASSUME Tick PROVE IInv'
  BY <1>25 DEF Tick, TypeOK, LocalsInv, IdleInv, EntriesWork, NoOrphan, Mapped
<1>26. CASE UNCHANGED vars
  BY <1>26 DEF vars, LocalsInv, IdleInv, EntriesWork, NoOrphan, Mapped
<1> QED
  BY <1>1, <1>2, <1>3, <1>4, <1>5, <1>6, <1>7, <1>8, <1>9, <1>10,
     <1>11, <1>12, <1>13, <1>14, <1>15, <1>16, <1>17, <1>18, <1>19,
     <1>20, <1>21, <1>22, <1>23, <1>24, <1>25, <1>26
  DEF Next, SessionCall, PumpStep, SweepStep

(* The inductive invariant holds throughout. *)
LEMMA Invariance == Spec => []IInv
BY InitInv, NextInv, PTL DEF Spec

(* Every variable of the relay keeps its type. *)
THEOREM TypeCorrect == Spec => []TypeOK
<1>1. IInv => TypeOK
  BY DEF IInv
<1> QED
  BY <1>1, Invariance, PTL

(* A lookup only ever finds a session of that peer that works. *)
THEOREM LookupsFindWorkingSessions == Spec => []EntriesWork
<1>1. IInv => EntriesWork
  BY DEF IInv
<1> QED
  BY <1>1, Invariance, PTL

(* No upstream socket is ever left open without an owner. *)
THEOREM NoSocketLeaks == Spec => []NoOrphan
<1>1. IInv => NoOrphan
  BY DEF IInv
<1> QED
  BY <1>1, Invariance, PTL

(* A session leaves the map only through its own pump, because it was idle *)
(* or because run ends, and is never overwritten.                          *)
THEOREM FreshSessionsSurvive == Spec => FreshSessionKept
<1> DEFINE Kept(p) == sessions[p] # Nil /\ sessions'[p] # sessions[p] =>
          /\ sessions'[p] = Nil
          /\ \/ pump[sessions[p]] = "remove"
             \/ sessions[p] \in old
             \/ pc = "closeAll"
<1>1. ASSUME IInv, [Next]_vars, NEW p \in Peers PROVE Kept(p)
  <2> USE <1>1 DEF IInv
  <2>1. CASE \E s \in Ids : SessionCreated(s)
    BY <2>1 DEF SessionCreated, TypeOK, LocalsInv
  <2>2. CASE CloseAll
    BY <2>2 DEF CloseAll
  <2>3. CASE \E s \in Ids : PumpRemoves(s)
    BY <2>3 DEF PumpRemoves, TypeOK
  <2>4. CASE \E q \in Peers : SweepVisits(q)
    BY <2>4 DEF SweepVisits, TypeOK
  <2>5. CASE sessions' = sessions
    BY <2>5
  <2>6. \/ \E s \in Ids : SessionCreated(s) \/ PumpRemoves(s)
        \/ CloseAll \/ \E q \in Peers : SweepVisits(q)
        \/ sessions' = sessions
    BY DEF Next, vars, relayVars, SessionCall, SessionFound, SessionFailed, Receive,
         Forward, ReadClosed, ReadBroken, Return, PumpStep, PumpReads, PumpReplies,
         PumpUnblocked, PumpBreaks, PumpCloses, SweepStarts, SweepStep, SweepLocks,
         SweepUnlocks, SweepCloses, SweepWaits, SweepEnds, Cancel, CloseListener, Tick
  <2> QED
    BY <2>1, <2>2, <2>3, <2>4, <2>5, <2>6
<1>2. IInv /\ [Next]_vars => [\A p \in Peers : Kept(p)]_vars
  BY <1>1
<1> QED
  BY <1>2, Invariance, PTL DEF Spec, FreshSessionKept
-----------------------------------------------------------------------------
(* The relay implements UDPFlows. *)
Owner == [s \in Ids |-> IF upstream[s] = "open" THEN peer[s] ELSE Nil]

(* Initial states map to initial states. *)
LEMMA InitRefines == Init => Flows!Init
BY DEF Init, Flows!Init

(* Every step of run, a pump, the sweeper or the environment is a step of  *)
(* UDPFlows or leaves map and sockets alone.                               *)
LEMMA StepRefines == IInv /\ [Next]_vars => [Flows!Next]_(Flows!flowVars)
<1> SUFFICES ASSUME IInv, [Next]_vars PROVE [Flows!Next]_(Flows!flowVars)
  OBVIOUS
<1> USE RelayAssumption DEF IInv, TypeOK
<1>1. ASSUME NEW s \in Ids, SessionCreated(s) PROVE Flows!Open(from, s) /\ from \in Peers
  <2>1. from \in Peers /\ sessions[from] = Nil
    BY <1>1 DEF SessionCreated, LocalsInv
  <2>2. upstream[s] = "closed"
    BY <1>1 DEF SessionCreated, Unreferenced, NoOrphan, EntriesWork, Mapped
  <2>3. Owner[s] = Nil /\ Owner' = [Owner EXCEPT ![s] = from]
    BY <1>1, <2>1, <2>2 DEF SessionCreated, Owner
  <2> QED
    BY <1>1, <2>1, <2>3 DEF SessionCreated, Flows!Open, Owner
<1>2. ASSUME CloseAll PROVE Flows!CloseAll
  <2>1. Owner' = [s \in Ids |-> IF s \in Mapped THEN Nil ELSE Owner[s]]
    BY <1>2 DEF CloseAll, Owner
  <2> QED
    BY <1>2, <2>1 DEF CloseAll, Flows!CloseAll, Flows!Current, Mapped, Owner
<1>3. ASSUME NEW s \in Ids, PumpRemoves(s) PROVE Flows!Retire \/ UNCHANGED Flows!flowVars
  <2>1. upstream' = upstream /\ peer' = peer
    BY <1>3 DEF PumpRemoves
  <2>2. CASE sessions' = sessions
    BY <2>1, <2>2 DEF Flows!flowVars
  <2>3. CASE sessions' # sessions
    <3>1. /\ peer[s] \in Peers /\ sessions[peer[s]] # Nil
          /\ sessions' = [sessions EXCEPT ![peer[s]] = Nil]
      BY <1>3, <2>3 DEF PumpRemoves
    <3> QED
      BY <2>1, <3>1 DEF Flows!Retire, Flows!Forget
  <2> QED
    BY <2>2, <2>3
<1>4. ASSUME NEW p \in Peers, SweepVisits(p) PROVE Flows!Retire \/ UNCHANGED Flows!flowVars
  <2>1. upstream' = upstream /\ peer' = peer
    BY <1>4 DEF SweepVisits
  <2>2. sessions' = sessions
        \/ (sessions[p] # Nil /\ sessions' = [sessions EXCEPT ![p] = Nil])
    BY <1>4 DEF SweepVisits
  <2> QED
    BY <2>1, <2>2 DEF Flows!Retire, Flows!Forget, Flows!flowVars
<1>5. ASSUME NEW s \in Ids, PumpCloses(s) \/ SweepCloses(s)
      PROVE  Flows!Retire \/ UNCHANGED Flows!flowVars
  <2>1. s \notin Mapped
    BY <1>5 DEF PumpCloses, SweepCloses, EntriesWork, IdleInv, Mapped
  <2>2. sessions' = sessions /\ Owner' = [Owner EXCEPT ![s] = Nil]
    <3>1. /\ sessions' = sessions /\ upstream' = [upstream EXCEPT ![s] = "closed"]
          /\ \A r \in Ids : r # s => peer'[r] = peer[r]
      BY <1>5 DEF PumpCloses, SweepCloses
    <3>2. \A r \in Ids : Owner'[r] = [Owner EXCEPT ![s] = Nil][r]
      BY <3>1 DEF Owner
    <3> QED
      BY <3>1, <3>2 DEF Owner
  <2>3. CASE Owner[s] = Nil
    <3>1. Owner' = Owner
      BY <2>2, <2>3 DEF Owner
    <3> QED
      BY <2>2, <3>1 DEF Flows!flowVars, Owner
  <2>4. CASE Owner[s] # Nil
    BY <2>1, <2>2, <2>4 DEF Flows!Retire, Flows!Close, Flows!Current, Mapped, Owner
  <2> QED
    BY <2>3, <2>4
<1>6. CASE UNCHANGED <<sessions, upstream, peer>>
  BY <1>6 DEF Flows!flowVars
<1>7. \/ \E s \in Ids : SessionCreated(s) \/ PumpRemoves(s) \/ PumpCloses(s) \/ SweepCloses(s)
      \/ CloseAll \/ \E q \in Peers : SweepVisits(q)
      \/ UNCHANGED <<sessions, upstream, peer>>
  BY DEF Next, vars, relayVars, SessionCall, SessionFound, SessionFailed, Receive,
       Forward, ReadClosed, ReadBroken, Return, PumpStep, PumpReads, PumpReplies,
       PumpUnblocked, PumpBreaks, SweepStarts, SweepStep, SweepLocks,
       SweepUnlocks, SweepWaits, SweepEnds, Cancel, CloseListener, Tick
<1> QED
  BY <1>1, <1>2, <1>3, <1>4, <1>5, <1>6, <1>7 DEF Flows!Next, Flows!Retire

(* UDPRelay implements UDPFlows. *)
THEOREM Refinement == Spec => FlowsSpec
BY InitRefines, StepRefines, Invariance, PTL DEF Spec, FlowsSpec, Flows!Spec
=============================================================================
