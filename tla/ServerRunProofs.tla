-------------------------- MODULE ServerRunProofs --------------------------
(***************************************************************************)
(* Proofs about ServerRun for any number of connections and streams, with  *)
(* and without a control port, and for every kind of data protocol.          *)
(***************************************************************************)
EXTENDS ServerRun, TLAPS

(* A stream that has begun belongs to a data connection; its two ends are  *)
(* open no longer than handleStream or Pipe has them to close.             *)
StreamInv ==
    \A x \in Streams :
       /\ stm[x] # "none" => of[x] \in Conns
       /\ stm[x] \notin {"pipe", "unwind"} => target[x] # "open"
       /\ stm[x] = "done" => end[x] = "closed"

(* A handler that returns has closed its connection or is going to, by a   *)
(* deferred call that comes before the one that stops the AfterFunc.  The  *)
(* calls on which that depends are deferred when it starts to serve.       *)
CloseInv ==
    \A c \in Conns :
       /\ hpc[c] = "none" => chook[c] # "stopped"
       /\ hpc[c] \in {"auth", "serve"} /\ ~InHandleConn(c) => "close" \in defers[c]
       /\ hpc[c] = "serve" /\ Mux => "close" \in defers[c]
       /\ hpc[c] = "return" => "close" \in defers[c] \/ sock[c] = "closed"
       /\ hpc[c] = "done" \/ chook[c] = "stopped" => sock[c] = "closed"

(* What Run knows is what it has received; when it waits for the rest, one *)
(* listener is left; one that is absent sends nothing.                     *)
ResultInv ==
    /\ err = TRUE <=> \E l \in Listeners : srv[l] = "received" /\ failed[l] = TRUE
    /\ main = "first" => \A l \in Listeners : srv[l] # "received"
    /\ main = "rest" => mode # "stealth" /\ \E l \in Listeners : srv[l] = "received"
    /\ main = "returned" => \A l \in Listeners : srv[l] \in {"received", "absent"}
    /\ \A l \in Listeners :
         /\ srv[l] = "absent" <=> Missing(l)
         /\ srv[l] = "absent" => failed[l] = FALSE

IInv == TypeOK /\ StreamInv /\ CloseInv /\ ResultInv

(* The delay after an error stays within its bounds. *)
LEMMA DelayBound ==
    \A d \in {0} \cup MinDelay .. MaxDelay : NextDelay(d) \in MinDelay .. MaxDelay
BY ServerAssumption DEF NextDelay

(* There are at most two listeners. *)
LEMMA TwoListeners ==
    \A l, m \in Listeners : l # m => \A k \in Listeners : k = l \/ k = m
BY DEF Listeners

(* The initial state satisfies the inductive invariant. *)
LEMMA InitInv == Init => IInv
<1> SUFFICES ASSUME Init PROVE IInv
  OBVIOUS
<1>1. TypeOK
  BY ServerAssumption DEF Init, TypeOK, Hook, Missing
<1>2. StreamInv /\ CloseInv
  BY DEF Init, StreamInv, CloseInv
<1>3. ResultInv
  BY DEF Init, ResultInv, Missing
<1> QED
  BY <1>1, <1>2, <1>3 DEF IInv

(* Every step preserves it. *)
LEMMA NextInv == IInv /\ [Next]_vars => IInv'
<1> SUFFICES ASSUME IInv, [Next]_vars PROVE IInv'
  OBVIOUS
<1> USE ServerAssumption DEF IInv, runVars, lnVars, connVars, stmVars
<1>1. ASSUME NEW l \in Listeners, Listen(l) PROVE IInv'
  <2>1. TypeOK'
    BY <1>1 DEF Listen, AfterFunc, TypeOK, Hook, StreamInv
  <2>2. StreamInv'
    BY <1>1 DEF Listen, AfterFunc, TypeOK, StreamInv
  <2>3. CloseInv'
    BY <1>1 DEF Listen, AfterFunc, TypeOK, StreamInv, CloseInv, InHandleConn, Mux
  <2>4. ResultInv'
    BY <1>1 DEF Listen, AfterFunc, TypeOK, ResultInv, Missing
  <2> QED
    BY <2>1, <2>2, <2>3, <2>4
<1>2. ASSUME NEW l \in Listeners, ListenFails(l) PROVE IInv'
  <2>1. TypeOK'
    BY <1>2 DEF ListenFails, Stop, TypeOK, Hook, StreamInv
  <2>2. StreamInv'
    BY <1>2 DEF ListenFails, Stop, TypeOK, StreamInv
  <2>3. CloseInv'
    BY <1>2 DEF ListenFails, Stop, TypeOK, StreamInv, CloseInv, InHandleConn, Mux
  <2>4. ResultInv'
    BY <1>2 DEF ListenFails, Stop, TypeOK, ResultInv, Missing
  <2> QED
    BY <2>1, <2>2, <2>3, <2>4
<1>3. ASSUME NEW l \in Listeners, AcceptFails(l) PROVE IInv'
  <2>1. TypeOK'
    BY <1>3, DelayBound DEF AcceptFails, TypeOK, Hook, StreamInv
  <2>2. StreamInv'
    BY <1>3 DEF AcceptFails, TypeOK, StreamInv
  <2>3. CloseInv'
    BY <1>3 DEF AcceptFails, TypeOK, StreamInv, CloseInv, InHandleConn, Mux
  <2>4. ResultInv'
    BY <1>3 DEF AcceptFails, TypeOK, ResultInv, Missing
  <2> QED
    BY <2>1, <2>2, <2>3, <2>4
<1>4. ASSUME NEW l \in Listeners, AcceptClosed(l) PROVE IInv'
  <2>1. TypeOK'
    BY <1>4 DEF AcceptClosed, TypeOK, Hook, StreamInv
  <2>2. StreamInv'
    BY <1>4 DEF AcceptClosed, TypeOK, StreamInv
  <2>3. CloseInv'
    BY <1>4 DEF AcceptClosed, TypeOK, StreamInv, CloseInv, InHandleConn, Mux
  <2>4. ResultInv'
    BY <1>4 DEF AcceptClosed, TypeOK, ResultInv, Missing
  <2> QED
    BY <2>1, <2>2, <2>3, <2>4
<1>5. ASSUME NEW l \in Listeners, DelayEnds(l) PROVE IInv'
  <2>1. TypeOK'
    BY <1>5 DEF DelayEnds, TypeOK, Hook, StreamInv
  <2>2. StreamInv'
    BY <1>5 DEF DelayEnds, TypeOK, StreamInv
  <2>3. CloseInv'
    BY <1>5 DEF DelayEnds, TypeOK, StreamInv, CloseInv, InHandleConn, Mux
  <2>4. ResultInv'
    BY <1>5 DEF DelayEnds, TypeOK, ResultInv, Missing
  <2> QED
    BY <2>1, <2>2, <2>3, <2>4
<1>6. ASSUME NEW l \in Listeners, LoopReturns(l) PROVE IInv'
  <2>1. TypeOK'
    BY <1>6 DEF LoopReturns, Stop, TypeOK, Hook, StreamInv
  <2>2. StreamInv'
    BY <1>6 DEF LoopReturns, Stop, TypeOK, StreamInv
  <2>3. CloseInv'
    BY <1>6 DEF LoopReturns, Stop, TypeOK, StreamInv, CloseInv, InHandleConn, Mux
  <2>4. ResultInv'
    BY <1>6 DEF LoopReturns, Stop, TypeOK, ResultInv, Missing
  <2> QED
    BY <2>1, <2>2, <2>3, <2>4
<1>7. ASSUME NEW l \in Listeners, QUICReturns(l) PROVE IInv'
  <2>1. TypeOK'
    BY <1>7 DEF QUICReturns, TypeOK, Hook, StreamInv
  <2>2. StreamInv'
    BY <1>7 DEF QUICReturns, TypeOK, StreamInv
  <2>3. CloseInv'
    BY <1>7 DEF QUICReturns, TypeOK, StreamInv, CloseInv, InHandleConn, Mux
  <2>4. ResultInv'
    BY <1>7 DEF QUICReturns, TypeOK, ResultInv, Missing
  <2> QED
    BY <2>1, <2>2, <2>3, <2>4
<1>8. ASSUME NEW l \in Listeners, ListenerHook(l) PROVE IInv'
  <2>1. TypeOK'
    BY <1>8 DEF ListenerHook, TypeOK, Hook, StreamInv
  <2>2. StreamInv'
    BY <1>8 DEF ListenerHook, TypeOK, StreamInv
  <2>3. CloseInv'
    BY <1>8 DEF ListenerHook, TypeOK, StreamInv, CloseInv, InHandleConn, Mux
  <2>4. ResultInv'
    BY <1>8 DEF ListenerHook, TypeOK, ResultInv, Missing
  <2> QED
    BY <2>1, <2>2, <2>3, <2>4
<1>9. ASSUME NEW l \in Listeners, ListenerBreaks(l) PROVE IInv'
  <2>1. TypeOK'
    BY <1>9 DEF ListenerBreaks, TypeOK, Hook, StreamInv
  <2>2. StreamInv'
    BY <1>9 DEF ListenerBreaks, TypeOK, StreamInv
  <2>3. CloseInv'
    BY <1>9 DEF ListenerBreaks, TypeOK, StreamInv, CloseInv, InHandleConn, Mux
  <2>4. ResultInv'
    BY <1>9 DEF ListenerBreaks, TypeOK, ResultInv, Missing
  <2> QED
    BY <2>1, <2>2, <2>3, <2>4
<1>10. ASSUME NEW l \in Listeners, FirstResult(l) PROVE IInv'
  <2>1. TypeOK'
    BY <1>10 DEF FirstResult, TypeOK, Hook, StreamInv
  <2>2. StreamInv'
    BY <1>10 DEF FirstResult, TypeOK, StreamInv
  <2>3. CloseInv'
    BY <1>10 DEF FirstResult, TypeOK, StreamInv, CloseInv, InHandleConn, Mux
  <2>4. ResultInv'
    BY <1>10 DEF FirstResult, TypeOK, ResultInv, Missing, Listeners
  <2> QED
    BY <2>1, <2>2, <2>3, <2>4
<1>11. ASSUME NEW l \in Listeners, LastResult(l) PROVE IInv'
  <2>1. TypeOK'
    BY <1>11 DEF LastResult, TypeOK, Hook, StreamInv
  <2>2. StreamInv'
    BY <1>11 DEF LastResult, TypeOK, StreamInv
  <2>3. CloseInv'
    BY <1>11 DEF LastResult, TypeOK, StreamInv, CloseInv, InHandleConn, Mux
  <2>4. ResultInv'
    BY <1>11, TwoListeners DEF LastResult, TypeOK, ResultInv, Missing
  <2> QED
    BY <2>1, <2>2, <2>3, <2>4
<1>12. ASSUME NEW l \in Listeners, NEW c \in Conns, Accept(l, c) PROVE IInv'
  <2>1. TypeOK'
    BY <1>12 DEF Accept, TypeOK, Hook, StreamInv
  <2>2. StreamInv'
    BY <1>12 DEF Accept, TypeOK, StreamInv
  <2>3. CloseInv'
    BY <1>12 DEF Accept, TypeOK, StreamInv, CloseInv, InHandleConn, Mux
  <2>4. ResultInv'
    BY <1>12 DEF Accept, TypeOK, ResultInv, Missing
  <2> QED
    BY <2>1, <2>2, <2>3, <2>4
<1>13. ASSUME Cancel PROVE IInv'
  <2>1. TypeOK'
    BY <1>13 DEF Cancel, TypeOK, Hook, StreamInv
  <2>2. StreamInv'
    BY <1>13 DEF Cancel, TypeOK, StreamInv
  <2>3. CloseInv'
    BY <1>13 DEF Cancel, TypeOK, StreamInv, CloseInv, InHandleConn, Mux
  <2>4. ResultInv'
    BY <1>13 DEF Cancel, TypeOK, ResultInv, Missing
  <2> QED
    BY <2>1, <2>2, <2>3, <2>4
<1>14. ASSUME NEW l \in Listeners, HookFirst(l) PROVE IInv'
  <2>1. TypeOK'
    BY <1>14 DEF HookFirst, AfterFunc, TypeOK, Hook, StreamInv
  <2>2. StreamInv'
    BY <1>14 DEF HookFirst, AfterFunc, TypeOK, StreamInv
  <2>3. CloseInv'
    BY <1>14 DEF HookFirst, AfterFunc, TypeOK, StreamInv, CloseInv, InHandleConn, Mux
  <2>4. ResultInv'
    BY <1>14 DEF HookFirst, AfterFunc, TypeOK, ResultInv, Missing
  <2> QED
    BY <2>1, <2>2, <2>3, <2>4
<1>15. ASSUME NEW l \in Listeners, ListenRefused(l) PROVE IInv'
  <2>1. TypeOK'
    BY <1>15 DEF ListenRefused, TypeOK, Hook, StreamInv
  <2>2. StreamInv'
    BY <1>15 DEF ListenRefused, TypeOK, StreamInv
  <2>3. CloseInv'
    BY <1>15 DEF ListenRefused, TypeOK, StreamInv, CloseInv, InHandleConn, Mux
  <2>4. ResultInv'
    BY <1>15 DEF ListenRefused, TypeOK, ResultInv, Missing
  <2> QED
    BY <2>1, <2>2, <2>3, <2>4
<1>16. ASSUME NEW l \in Listeners, HTTPFails(l) PROVE IInv'
  <2>1. TypeOK'
    BY <1>16 DEF HTTPFails, TypeOK, Hook, StreamInv
  <2>2. StreamInv'
    BY <1>16 DEF HTTPFails, TypeOK, StreamInv
  <2>3. CloseInv'
    BY <1>16 DEF HTTPFails, TypeOK, StreamInv, CloseInv, InHandleConn, Mux
  <2>4. ResultInv'
    BY <1>16 DEF HTTPFails, TypeOK, ResultInv, Missing
  <2> QED
    BY <2>1, <2>2, <2>3, <2>4
<1>17. ASSUME NEW c \in Conns, Upgraded(c) PROVE IInv'
  <2>1. TypeOK'
    BY <1>17 DEF Upgraded, Goto, TypeOK, Hook, StreamInv
  <2>2. StreamInv'
    BY <1>17 DEF Upgraded, Goto, TypeOK, StreamInv
  <2>3. CloseInv'
    BY <1>17 DEF Upgraded, Goto, TypeOK, StreamInv, CloseInv, InHandleConn, Mux
  <2>4. ResultInv'
    BY <1>17 DEF Upgraded, Goto, TypeOK, ResultInv, Missing
  <2> QED
    BY <2>1, <2>2, <2>3, <2>4
<1>18. ASSUME NEW c \in Conns, UpgradeEnds(c) PROVE IInv'
  <2>1. TypeOK'
    BY <1>18 DEF UpgradeEnds, Goto, TypeOK, Hook, StreamInv
  <2>2. StreamInv'
    BY <1>18 DEF UpgradeEnds, Goto, TypeOK, StreamInv
  <2>3. CloseInv'
    BY <1>18 DEF UpgradeEnds, Goto, TypeOK, StreamInv, CloseInv, InHandleConn, Mux
  <2>4. ResultInv'
    BY <1>18 DEF UpgradeEnds, Goto, TypeOK, ResultInv, Missing
  <2> QED
    BY <2>1, <2>2, <2>3, <2>4
<1>19. ASSUME NEW c \in Conns, HandlerStarts(c) PROVE IInv'
  <2>1. TypeOK'
    BY <1>19 DEF HandlerStarts, Goto, AfterFunc, InHandleConn, TypeOK, Hook, StreamInv
  <2>2. StreamInv'
    BY <1>19 DEF HandlerStarts, Goto, AfterFunc, InHandleConn, TypeOK, StreamInv
  <2>3. CloseInv'
    BY <1>19 DEF HandlerStarts, Goto, AfterFunc, InHandleConn, TypeOK, StreamInv, CloseInv, InHandleConn, Mux
  <2>4. ResultInv'
    BY <1>19 DEF HandlerStarts, Goto, AfterFunc, InHandleConn, TypeOK, ResultInv, Missing
  <2> QED
    BY <2>1, <2>2, <2>3, <2>4
<1>20. ASSUME NEW c \in Conns, Authenticated(c) PROVE IInv'
  <2>1. TypeOK'
    BY <1>20 DEF Authenticated, Goto, InHandleConn, TypeOK, Hook, StreamInv
  <2>2. StreamInv'
    BY <1>20 DEF Authenticated, Goto, InHandleConn, TypeOK, StreamInv
  <2>3. CloseInv'
    BY <1>20 DEF Authenticated, Goto, InHandleConn, TypeOK, StreamInv, CloseInv, InHandleConn, Mux
  <2>4. ResultInv'
    BY <1>20 DEF Authenticated, Goto, InHandleConn, TypeOK, ResultInv, Missing
  <2> QED
    BY <2>1, <2>2, <2>3, <2>4
<1>21. ASSUME NEW c \in Conns, Rejected(c) PROVE IInv'
  <2>1. TypeOK'
    BY <1>21 DEF Rejected, Goto, InHandleConn, TypeOK, Hook, StreamInv
  <2>2. StreamInv'
    BY <1>21 DEF Rejected, Goto, InHandleConn, TypeOK, StreamInv
  <2>3. CloseInv'
    BY <1>21 DEF Rejected, Goto, InHandleConn, TypeOK, StreamInv, CloseInv, InHandleConn, Mux
  <2>4. ResultInv'
    BY <1>21 DEF Rejected, Goto, InHandleConn, TypeOK, ResultInv, Missing
  <2> QED
    BY <2>1, <2>2, <2>3, <2>4
<1>22. ASSUME NEW c \in Conns, RejectCloses(c) PROVE IInv'
  <2>1. TypeOK'
    BY <1>22 DEF RejectCloses, Goto, TypeOK, Hook, StreamInv
  <2>2. StreamInv'
    BY <1>22 DEF RejectCloses, Goto, TypeOK, StreamInv
  <2>3. CloseInv'
    BY <1>22 DEF RejectCloses, Goto, TypeOK, StreamInv, CloseInv, InHandleConn, Mux
  <2>4. ResultInv'
    BY <1>22 DEF RejectCloses, Goto, TypeOK, ResultInv, Missing
  <2> QED
    BY <2>1, <2>2, <2>3, <2>4
<1>23. ASSUME NEW c \in Conns, NEW x \in Streams, StreamStarts(c, x) PROVE IInv'
  <2>1. TypeOK'
    BY <1>23 DEF StreamStarts, Goto, TypeOK, Hook, StreamInv
  <2>2. StreamInv'
    BY <1>23 DEF StreamStarts, Goto, TypeOK, StreamInv
  <2>3. CloseInv'
    BY <1>23 DEF StreamStarts, Goto, TypeOK, StreamInv, CloseInv, InHandleConn, Mux
  <2>4. ResultInv'
    BY <1>23 DEF StreamStarts, Goto, TypeOK, ResultInv, Missing
  <2> QED
    BY <2>1, <2>2, <2>3, <2>4
<1>24. ASSUME NEW c \in Conns, SessionEnds(c) PROVE IInv'
  <2>1. TypeOK'
    BY <1>24 DEF SessionEnds, Goto, TypeOK, Hook, StreamInv
  <2>2. StreamInv'
    BY <1>24 DEF SessionEnds, Goto, TypeOK, StreamInv
  <2>3. CloseInv'
    BY <1>24 DEF SessionEnds, Goto, TypeOK, StreamInv, CloseInv, InHandleConn, Mux
  <2>4. ResultInv'
    BY <1>24 DEF SessionEnds, Goto, TypeOK, ResultInv, Missing
  <2> QED
    BY <2>1, <2>2, <2>3, <2>4
<1>25. ASSUME NEW c \in Conns, DeferredClose(c) PROVE IInv'
  <2>1. TypeOK'
    BY <1>25 DEF DeferredClose, Goto, TypeOK, Hook, StreamInv
  <2>2. StreamInv'
    BY <1>25 DEF DeferredClose, Goto, TypeOK, StreamInv
  <2>3. CloseInv'
    BY <1>25 DEF DeferredClose, Goto, TypeOK, StreamInv, CloseInv, InHandleConn, Mux
  <2>4. ResultInv'
    BY <1>25 DEF DeferredClose, Goto, TypeOK, ResultInv, Missing
  <2> QED
    BY <2>1, <2>2, <2>3, <2>4
<1>26. ASSUME NEW c \in Conns, DeferredStop(c) PROVE IInv'
  <2>1. TypeOK'
    BY <1>26 DEF DeferredStop, Goto, Stop, TypeOK, Hook, StreamInv
  <2>2. StreamInv'
    BY <1>26 DEF DeferredStop, Goto, Stop, TypeOK, StreamInv
  <2>3. CloseInv'
    BY <1>26 DEF DeferredStop, Goto, Stop, TypeOK, StreamInv, CloseInv, InHandleConn, Mux
  <2>4. ResultInv'
    BY <1>26 DEF DeferredStop, Goto, Stop, TypeOK, ResultInv, Missing
  <2> QED
    BY <2>1, <2>2, <2>3, <2>4
<1>27. ASSUME NEW c \in Conns, ConnHook(c) PROVE IInv'
  <2>1. TypeOK'
    BY <1>27 DEF ConnHook, TypeOK, Hook, StreamInv
  <2>2. StreamInv'
    BY <1>27 DEF ConnHook, TypeOK, StreamInv
  <2>3. CloseInv'
    BY <1>27 DEF ConnHook, TypeOK, StreamInv, CloseInv, InHandleConn, Mux
  <2>4. ResultInv'
    BY <1>27 DEF ConnHook, TypeOK, ResultInv, Missing
  <2> QED
    BY <2>1, <2>2, <2>3, <2>4
<1>28. ASSUME NEW c \in Conns, PeerLeaves(c) PROVE IInv'
  <2>1. TypeOK'
    BY <1>28 DEF PeerLeaves, TypeOK, Hook, StreamInv
  <2>2. StreamInv'
    BY <1>28 DEF PeerLeaves, TypeOK, StreamInv
  <2>3. CloseInv'
    BY <1>28 DEF PeerLeaves, TypeOK, StreamInv, CloseInv, InHandleConn, Mux
  <2>4. ResultInv'
    BY <1>28 DEF PeerLeaves, TypeOK, ResultInv, Missing
  <2> QED
    BY <2>1, <2>2, <2>3, <2>4
<1>29. ASSUME NEW x \in Streams, MarkerRead(x) PROVE IInv'
  <2>1. TypeOK'
    BY <1>29 DEF MarkerRead, TypeOK, Hook, StreamInv
  <2>2. StreamInv'
    BY <1>29 DEF MarkerRead, TypeOK, StreamInv
  <2>3. CloseInv'
    BY <1>29 DEF MarkerRead, TypeOK, StreamInv, CloseInv, InHandleConn, Mux
  <2>4. ResultInv'
    BY <1>29 DEF MarkerRead, TypeOK, ResultInv, Missing
  <2> QED
    BY <2>1, <2>2, <2>3, <2>4
<1>30. ASSUME NEW x \in Streams, MarkerMissing(x) PROVE IInv'
  <2>1. TypeOK'
    BY <1>30 DEF MarkerMissing, TypeOK, Hook, StreamInv
  <2>2. StreamInv'
    BY <1>30 DEF MarkerMissing, TypeOK, StreamInv
  <2>3. CloseInv'
    BY <1>30 DEF MarkerMissing, TypeOK, StreamInv, CloseInv, InHandleConn, Mux
  <2>4. ResultInv'
    BY <1>30 DEF MarkerMissing, TypeOK, ResultInv, Missing
  <2> QED
    BY <2>1, <2>2, <2>3, <2>4
<1>31. ASSUME NEW x \in Streams, TargetDialed(x) PROVE IInv'
  <2>1. TypeOK'
    BY <1>31 DEF TargetDialed, TypeOK, Hook, StreamInv
  <2>2. StreamInv'
    BY <1>31 DEF TargetDialed, TypeOK, StreamInv
  <2>3. CloseInv'
    BY <1>31 DEF TargetDialed, TypeOK, StreamInv, CloseInv, InHandleConn, Mux
  <2>4. ResultInv'
    BY <1>31 DEF TargetDialed, TypeOK, ResultInv, Missing
  <2> QED
    BY <2>1, <2>2, <2>3, <2>4
<1>32. ASSUME NEW x \in Streams, TargetFails(x) PROVE IInv'
  <2>1. TypeOK'
    BY <1>32 DEF TargetFails, TypeOK, Hook, StreamInv
  <2>2. StreamInv'
    BY <1>32 DEF TargetFails, TypeOK, StreamInv
  <2>3. CloseInv'
    BY <1>32 DEF TargetFails, TypeOK, StreamInv, CloseInv, InHandleConn, Mux
  <2>4. ResultInv'
    BY <1>32 DEF TargetFails, TypeOK, ResultInv, Missing
  <2> QED
    BY <2>1, <2>2, <2>3, <2>4
<1>33. ASSUME NEW x \in Streams, PipeReturns(x) PROVE IInv'
  <2>1. TypeOK'
    BY <1>33 DEF PipeReturns, TypeOK, Hook, StreamInv
  <2>2. StreamInv'
    BY <1>33 DEF PipeReturns, TypeOK, StreamInv
  <2>3. CloseInv'
    BY <1>33 DEF PipeReturns, TypeOK, StreamInv, CloseInv, InHandleConn, Mux
  <2>4. ResultInv'
    BY <1>33 DEF PipeReturns, TypeOK, ResultInv, Missing
  <2> QED
    BY <2>1, <2>2, <2>3, <2>4
<1>34. ASSUME NEW x \in Streams, TargetCloses(x) PROVE IInv'
  <2>1. TypeOK'
    BY <1>34 DEF TargetCloses, TypeOK, Hook, StreamInv
  <2>2. StreamInv'
    BY <1>34 DEF TargetCloses, TypeOK, StreamInv
  <2>3. CloseInv'
    BY <1>34 DEF TargetCloses, TypeOK, StreamInv, CloseInv, InHandleConn, Mux
  <2>4. ResultInv'
    BY <1>34 DEF TargetCloses, TypeOK, ResultInv, Missing
  <2> QED
    BY <2>1, <2>2, <2>3, <2>4
<1>35. ASSUME NEW x \in Streams, StreamCloses(x) PROVE IInv'
  <2>1. TypeOK'
    BY <1>35 DEF StreamCloses, Goto, TypeOK, Hook, StreamInv
  <2>2. StreamInv'
    BY <1>35 DEF StreamCloses, Goto, TypeOK, StreamInv
  <2>3. CloseInv'
    BY <1>35 DEF StreamCloses, Goto, TypeOK, StreamInv, CloseInv, InHandleConn, Mux
  <2>4. ResultInv'
    BY <1>35 DEF StreamCloses, Goto, TypeOK, ResultInv, Missing
  <2> QED
    BY <2>1, <2>2, <2>3, <2>4
<1>36. CASE UNCHANGED vars
  BY <1>36 DEF vars, TypeOK, StreamInv, CloseInv, InHandleConn, Mux, ResultInv, Missing
<1> QED
  BY <1>1, <1>2, <1>3, <1>4, <1>5, <1>6, <1>7, <1>8, <1>9, <1>10, <1>11,
     <1>12, <1>13, <1>14, <1>15, <1>16, <1>17, <1>18, <1>19, <1>20, <1>21, <1>22,
     <1>23, <1>24, <1>25, <1>26, <1>27, <1>28, <1>29, <1>30, <1>31, <1>32, <1>33, <1>34, <1>35, <1>36
  DEF Next, ListenCall, LoopStep, Result, Authenticate, Unwinds, DialTarget, EndsStream

(* The inductive invariant holds throughout. *)
LEMMA Invariance == Spec => []IInv
BY InitInv, NextInv, PTL DEF Spec

-----------------------------------------------------------------------------
(* Every variable keeps its type; in particular the delay of AcceptLoop    *)
(* stays between its bounds (accept.go:29).                                *)
THEOREM TypeCorrect == Spec => []TypeOK
<1>1. IInv => TypeOK
  BY DEF IInv
<1> QED
  BY <1>1, Invariance, PTL

(* Nobody gives up a connection that is still open: when a handler has     *)
(* stopped the AfterFunc or is over, its connection is closed, and so are  *)
(* both ends of a stream that is over, on every path of handleConn,        *)
(* serveQUICConn, handleControl and handleStream.                          *)
THEOREM NothingLeftOpen == Spec => []HandlersCleanUp
<1>1. IInv => HandlersCleanUp
  BY DEF IInv, StreamInv, CloseInv, HandlersCleanUp
<1> QED
  BY <1>1, Invariance, PTL

(* Run's result is an error exactly if one of its listeners failed.        *)
THEOREM NoErrorSwallowed == Spec => []ErrorReported
<1>1. IInv => ErrorReported
  BY DEF IInv, TypeOK, ResultInv, ErrorReported
<1> QED
  BY <1>1, Invariance, PTL
=============================================================================
