------------------------- MODULE ClientRunnerProofs -------------------------
(***************************************************************************)
(* Proofs about ClientRunner for any set of server configurations, static  *)
(* or not, and any backoff limits.                                         *)
(***************************************************************************)
EXTENDS ClientRunner, TLAPS

(* A connection that is up belongs to a runControl that has received, or   *)
(* will receive, what the present server announces.                        *)
ConnInv ==
    /\ main \in {"dial", "auth", "lost", "sleep"} => static = Nil
    /\ conn = "up" =>
         /\ static = Nil
         /\ main \in {"auth", "apply", "stopping", "build", "hold"}
         /\ main # "auth" => announced = Announce(server)

(* Between Received and the end of the connection there is something to    *)
(* apply, and a connection that counts as established has applied it.      *)
ApplyInv ==
    /\ main \in {"apply", "stopping", "build", "hold"} => announced # Nil
    /\ main = "hold" \/ (main = "lost" /\ est)
         => current # Nil /\ settings[current] = announced

(* A transport is cancelled only by somebody who then waits for it. *)
CancelInv ==
    /\ \A g \in Runs : cancelled[g] => g = current /\ main \in {"stopping", "exiting"}
    /\ main \in {"build", "returned"} => current = Nil
    /\ main \in {"stopping", "exiting"} => current # Nil

(* Only the transport that current refers to is supervised, and its        *)
(* goroutine ends only when its context is done.                           *)
SupInv ==
    /\ \A g \in Runs : /\ sup[g] # "none" <=> g = current
                       /\ sup[g] # "none" => settings[g] # Nil
                       /\ sup[g] = "done" => Stopped(g)

IInv == TypeOK /\ ConnInv /\ ApplyInv /\ CancelInv /\ SupInv

(* What the server announces is a control.Config. *)
LEMMA AnnounceType == \A cfg \in ServerConfigs : Announce(cfg) \in Config
BY RunnerAssumption DEF Announce, Config, ServerConfig

(* Equal settings are the same settings. *)
LEMMA EqualIsEquality == \A a, b \in Config : Equal(a, b) <=> a = b
BY DEF Equal, Config

(* Doubling the backoff keeps it within its limits and never lowers it. *)
LEMMA DoubledBounds ==
    \A b \in Backoffs : Doubled(b) \in Backoffs /\ Doubled(b) >= b
BY RunnerAssumption DEF Doubled, Backoffs

(* The smallest backoff is within the limits. *)
LEMMA MinBounds == MinBackoff \in Backoffs
BY RunnerAssumption DEF Backoffs

(* Nil is neither settings nor a running value. *)
LEMMA NilIsNew == Nil \notin Config /\ Nil \notin Runs /\ Statics \subseteq Config \cup {Nil}
BY RunnerAssumption

(* The initial state satisfies the inductive invariant. *)
LEMMA InitInv == Init => IInv
BY RunnerAssumption, MinBounds
   DEF Init, IInv, TypeOK, ConnInv, ApplyInv, CancelInv, SupInv, Stopped

(* Every step of the client and of its environment preserves it. *)
LEMMA NextInv == IInv /\ [Next]_vars => IInv'
<1> SUFFICES ASSUME IInv, [Next]_vars PROVE IInv'
  OBVIOUS
<1> USE NilIsNew DEF IInv, envVars, mainVars, tranVars
<1>1. ASSUME ControlDialed PROVE IInv'
  <2>1. TypeOK'
    BY <1>1 DEF ControlDialed, TypeOK, SupInv, CancelInv
  <2>2. ConnInv'
    BY <1>1 DEF ControlDialed, TypeOK, ConnInv
  <2>3. ApplyInv'
    BY <1>1 DEF ControlDialed, TypeOK, ConnInv, ApplyInv, CancelInv, SupInv
  <2>4. CancelInv'
    BY <1>1 DEF ControlDialed, TypeOK, CancelInv, SupInv
  <2>5. SupInv'
    BY <1>1 DEF ControlDialed, TypeOK, ApplyInv, CancelInv, SupInv, Stopped
  <2> QED
    BY <2>1, <2>2, <2>3, <2>4, <2>5
<1>2. ASSUME Received PROVE IInv'
  <2>1. TypeOK'
    BY <1>2, AnnounceType DEF Received, TypeOK, SupInv, CancelInv
  <2>2. ConnInv'
    BY <1>2, AnnounceType DEF Received, TypeOK, ConnInv
  <2>3. ApplyInv'
    BY <1>2, AnnounceType DEF Received, TypeOK, ConnInv, ApplyInv, CancelInv, SupInv
  <2>4. CancelInv'
    BY <1>2, AnnounceType DEF Received, TypeOK, CancelInv, SupInv
  <2>5. SupInv'
    BY <1>2, AnnounceType DEF Received, TypeOK, ApplyInv, CancelInv, SupInv, Stopped
  <2> QED
    BY <2>1, <2>2, <2>3, <2>4, <2>5
<1>3. ASSUME ControlFailed PROVE IInv'
  <2>1. TypeOK'
    BY <1>3 DEF ControlFailed, TypeOK, SupInv, CancelInv
  <2>2. ConnInv'
    BY <1>3 DEF ControlFailed, TypeOK, ConnInv
  <2>3. ApplyInv'
    BY <1>3 DEF ControlFailed, TypeOK, ConnInv, ApplyInv, CancelInv, SupInv
  <2>4. CancelInv'
    BY <1>3 DEF ControlFailed, TypeOK, CancelInv, SupInv
  <2>5. SupInv'
    BY <1>3 DEF ControlFailed, TypeOK, ApplyInv, CancelInv, SupInv, Stopped
  <2> QED
    BY <2>1, <2>2, <2>3, <2>4, <2>5
<1>4. ASSUME HoldEnds PROVE IInv'
  <2>1. TypeOK'
    BY <1>4 DEF HoldEnds, TypeOK, SupInv, CancelInv
  <2>2. ConnInv'
    BY <1>4 DEF HoldEnds, TypeOK, ConnInv
  <2>3. ApplyInv'
    BY <1>4 DEF HoldEnds, TypeOK, ConnInv, ApplyInv, CancelInv, SupInv
  <2>4. CancelInv'
    BY <1>4 DEF HoldEnds, TypeOK, CancelInv, SupInv
  <2>5. SupInv'
    BY <1>4 DEF HoldEnds, TypeOK, ApplyInv, CancelInv, SupInv, Stopped
  <2> QED
    BY <2>1, <2>2, <2>3, <2>4, <2>5
<1>5. ASSUME StaticEnds PROVE IInv'
  <2>1. TypeOK'
    BY <1>5 DEF StaticEnds, TypeOK, SupInv, CancelInv
  <2>2. ConnInv'
    BY <1>5 DEF StaticEnds, TypeOK, ConnInv
  <2>3. ApplyInv'
    BY <1>5 DEF StaticEnds, TypeOK, ConnInv, ApplyInv, CancelInv, SupInv
  <2>4. CancelInv'
    BY <1>5 DEF StaticEnds, TypeOK, CancelInv, SupInv
  <2>5. SupInv'
    BY <1>5 DEF StaticEnds, TypeOK, ApplyInv, CancelInv, SupInv, Stopped
  <2> QED
    BY <2>1, <2>2, <2>3, <2>4, <2>5
<1>6. ASSUME ApplySame PROVE IInv'
  <2>1. TypeOK'
    BY <1>6, EqualIsEquality DEF ApplySame, TypeOK, SupInv, CancelInv
  <2>2. ConnInv'
    BY <1>6, EqualIsEquality DEF ApplySame, TypeOK, ConnInv
  <2>3. ApplyInv'
    BY <1>6, EqualIsEquality DEF ApplySame, TypeOK, ConnInv, ApplyInv, CancelInv, SupInv
  <2>4. CancelInv'
    BY <1>6, EqualIsEquality DEF ApplySame, TypeOK, CancelInv, SupInv
  <2>5. SupInv'
    BY <1>6, EqualIsEquality DEF ApplySame, TypeOK, ApplyInv, CancelInv, SupInv, Stopped
  <2> QED
    BY <2>1, <2>2, <2>3, <2>4, <2>5
<1>7. ASSUME ApplyOther PROVE IInv'
  <2>1. TypeOK'
    BY <1>7 DEF ApplyOther, TypeOK, SupInv, CancelInv
  <2>2. ConnInv'
    BY <1>7 DEF ApplyOther, TypeOK, ConnInv
  <2>3. ApplyInv'
    BY <1>7 DEF ApplyOther, TypeOK, ConnInv, ApplyInv, CancelInv, SupInv
  <2>4. CancelInv'
    BY <1>7 DEF ApplyOther, TypeOK, CancelInv, SupInv
  <2>5. SupInv'
    BY <1>7 DEF ApplyOther, TypeOK, ApplyInv, CancelInv, SupInv, Stopped
  <2> QED
    BY <2>1, <2>2, <2>3, <2>4, <2>5
<1>8. ASSUME StopEnds PROVE IInv'
  <2>1. TypeOK'
    <3>1. current \in Runs /\ MinBackoff \in Backoffs
      BY <1>8, MinBounds DEF StopEnds, TypeOK, CancelInv
    <3>2. pause' \in [Runs -> Backoffs]
      BY <1>8, <3>1 DEF StopEnds, Forget, TypeOK
    <3>3. settings' \in [Runs -> Config \cup {Nil}] /\ cancelled' \in [Runs -> BOOLEAN]
      BY <1>8, <3>1 DEF StopEnds, Forget, TypeOK
    <3>4. sup' \in [Runs -> {"none", "run", "serving", "sleep", "done"}]
      BY <1>8, <3>1 DEF StopEnds, Forget, TypeOK
    <3> QED
      BY <1>8, <3>2, <3>3, <3>4 DEF StopEnds, Forget, TypeOK
  <2>2. ConnInv'
    BY <1>8, MinBounds DEF StopEnds, Forget, TypeOK, ConnInv
  <2>3. ApplyInv'
    BY <1>8, MinBounds DEF StopEnds, Forget, TypeOK, ConnInv, ApplyInv, CancelInv, SupInv
  <2>4. CancelInv'
    BY <1>8, MinBounds DEF StopEnds, Forget, TypeOK, CancelInv, SupInv
  <2>5. SupInv'
    BY <1>8, MinBounds DEF StopEnds, Forget, TypeOK, ApplyInv, CancelInv, SupInv, Stopped
  <2> QED
    BY <2>1, <2>2, <2>3, <2>4, <2>5
<1>9. ASSUME NEW g \in Runs, Built(g) PROVE IInv'
  <2>1. TypeOK'
    BY <1>9 DEF Built, TypeOK, SupInv, CancelInv
  <2>2. ConnInv'
    BY <1>9 DEF Built, TypeOK, ConnInv
  <2>3. ApplyInv'
    BY <1>9 DEF Built, TypeOK, ConnInv, ApplyInv, CancelInv, SupInv
  <2>4. CancelInv'
    BY <1>9 DEF Built, TypeOK, CancelInv, SupInv
  <2>5. SupInv'
    BY <1>9 DEF Built, TypeOK, ApplyInv, CancelInv, SupInv, Stopped
  <2> QED
    BY <2>1, <2>2, <2>3, <2>4, <2>5
<1>10. ASSUME BuildFailed PROVE IInv'
  <2>1. TypeOK'
    BY <1>10 DEF BuildFailed, TypeOK, SupInv, CancelInv
  <2>2. ConnInv'
    BY <1>10 DEF BuildFailed, TypeOK, ConnInv
  <2>3. ApplyInv'
    BY <1>10 DEF BuildFailed, TypeOK, ConnInv, ApplyInv, CancelInv, SupInv
  <2>4. CancelInv'
    BY <1>10 DEF BuildFailed, TypeOK, CancelInv, SupInv
  <2>5. SupInv'
    BY <1>10 DEF BuildFailed, TypeOK, ApplyInv, CancelInv, SupInv, Stopped
  <2> QED
    BY <2>1, <2>2, <2>3, <2>4, <2>5
<1>11. ASSUME LoopTurns PROVE IInv'
  <2>1. TypeOK'
    BY <1>11, MinBounds DEF LoopTurns, BackoffAfter, TypeOK, SupInv, CancelInv
  <2>2. ConnInv'
    BY <1>11, MinBounds DEF LoopTurns, BackoffAfter, TypeOK, ConnInv
  <2>3. ApplyInv'
    BY <1>11, MinBounds DEF LoopTurns, BackoffAfter, TypeOK, ConnInv, ApplyInv, CancelInv, SupInv
  <2>4. CancelInv'
    BY <1>11, MinBounds DEF LoopTurns, BackoffAfter, TypeOK, CancelInv, SupInv
  <2>5. SupInv'
    BY <1>11, MinBounds DEF LoopTurns, BackoffAfter, TypeOK, ApplyInv, CancelInv, SupInv, Stopped
  <2> QED
    BY <2>1, <2>2, <2>3, <2>4, <2>5
<1>12. ASSUME SleepEnds PROVE IInv'
  <2>1. TypeOK'
    BY <1>12, DoubledBounds DEF SleepEnds, TypeOK, SupInv, CancelInv
  <2>2. ConnInv'
    BY <1>12, DoubledBounds DEF SleepEnds, TypeOK, ConnInv
  <2>3. ApplyInv'
    BY <1>12, DoubledBounds DEF SleepEnds, TypeOK, ConnInv, ApplyInv, CancelInv, SupInv
  <2>4. CancelInv'
    BY <1>12, DoubledBounds DEF SleepEnds, TypeOK, CancelInv, SupInv
  <2>5. SupInv'
    BY <1>12, DoubledBounds DEF SleepEnds, TypeOK, ApplyInv, CancelInv, SupInv, Stopped
  <2> QED
    BY <2>1, <2>2, <2>3, <2>4, <2>5
<1>13. ASSUME ExitBegins PROVE IInv'
  <2>1. TypeOK'
    BY <1>13 DEF ExitBegins, TypeOK, SupInv, CancelInv
  <2>2. ConnInv'
    BY <1>13 DEF ExitBegins, TypeOK, ConnInv
  <2>3. ApplyInv'
    BY <1>13 DEF ExitBegins, TypeOK, ConnInv, ApplyInv, CancelInv, SupInv
  <2>4. CancelInv'
    BY <1>13 DEF ExitBegins, TypeOK, CancelInv, SupInv
  <2>5. SupInv'
    BY <1>13 DEF ExitBegins, TypeOK, ApplyInv, CancelInv, SupInv, Stopped
  <2> QED
    BY <2>1, <2>2, <2>3, <2>4, <2>5
<1>14. ASSUME ExitEnds PROVE IInv'
  <2>1. TypeOK'
    <3>1. current \in Runs /\ MinBackoff \in Backoffs
      BY <1>14, MinBounds DEF ExitEnds, TypeOK, CancelInv
    <3>2. pause' \in [Runs -> Backoffs]
      BY <1>14, <3>1 DEF ExitEnds, Forget, TypeOK
    <3>3. settings' \in [Runs -> Config \cup {Nil}] /\ cancelled' \in [Runs -> BOOLEAN]
      BY <1>14, <3>1 DEF ExitEnds, Forget, TypeOK
    <3>4. sup' \in [Runs -> {"none", "run", "serving", "sleep", "done"}]
      BY <1>14, <3>1 DEF ExitEnds, Forget, TypeOK
    <3> QED
      BY <1>14, <3>2, <3>3, <3>4 DEF ExitEnds, Forget, TypeOK
  <2>2. ConnInv'
    BY <1>14, MinBounds DEF ExitEnds, Forget, TypeOK, ConnInv
  <2>3. ApplyInv'
    BY <1>14, MinBounds DEF ExitEnds, Forget, TypeOK, ConnInv, ApplyInv, CancelInv, SupInv
  <2>4. CancelInv'
    BY <1>14, MinBounds DEF ExitEnds, Forget, TypeOK, CancelInv, SupInv
  <2>5. SupInv'
    BY <1>14, MinBounds DEF ExitEnds, Forget, TypeOK, ApplyInv, CancelInv, SupInv, Stopped
  <2> QED
    BY <2>1, <2>2, <2>3, <2>4, <2>5
<1>15. ASSUME NEW g \in Runs, TransportServes(g) PROVE IInv'
  <2>1. TypeOK'
    BY <1>15 DEF TransportServes, TypeOK, SupInv, CancelInv
  <2>2. ConnInv'
    BY <1>15 DEF TransportServes, TypeOK, ConnInv
  <2>3. ApplyInv'
    BY <1>15 DEF TransportServes, TypeOK, ConnInv, ApplyInv, CancelInv, SupInv
  <2>4. CancelInv'
    BY <1>15 DEF TransportServes, TypeOK, CancelInv, SupInv
  <2>5. SupInv'
    BY <1>15 DEF TransportServes, TypeOK, ApplyInv, CancelInv, SupInv, Stopped
  <2> QED
    BY <2>1, <2>2, <2>3, <2>4, <2>5
<1>16. ASSUME NEW g \in Runs, ListenFails(g) PROVE IInv'
  <2>1. TypeOK'
    BY <1>16 DEF ListenFails, TypeOK, SupInv, CancelInv
  <2>2. ConnInv'
    BY <1>16 DEF ListenFails, TypeOK, ConnInv
  <2>3. ApplyInv'
    BY <1>16 DEF ListenFails, TypeOK, ConnInv, ApplyInv, CancelInv, SupInv
  <2>4. CancelInv'
    BY <1>16 DEF ListenFails, TypeOK, CancelInv, SupInv
  <2>5. SupInv'
    BY <1>16 DEF ListenFails, TypeOK, ApplyInv, CancelInv, SupInv, Stopped
  <2> QED
    BY <2>1, <2>2, <2>3, <2>4, <2>5
<1>17. ASSUME NEW g \in Runs, ReadFails(g) PROVE IInv'
  <2>1. TypeOK'
    BY <1>17 DEF ReadFails, TypeOK, SupInv, CancelInv
  <2>2. ConnInv'
    BY <1>17 DEF ReadFails, TypeOK, ConnInv
  <2>3. ApplyInv'
    BY <1>17 DEF ReadFails, TypeOK, ConnInv, ApplyInv, CancelInv, SupInv
  <2>4. CancelInv'
    BY <1>17 DEF ReadFails, TypeOK, CancelInv, SupInv
  <2>5. SupInv'
    BY <1>17 DEF ReadFails, TypeOK, ApplyInv, CancelInv, SupInv, Stopped
  <2> QED
    BY <2>1, <2>2, <2>3, <2>4, <2>5
<1>18. ASSUME NEW g \in Runs, TransportStops(g) PROVE IInv'
  <2>1. TypeOK'
    BY <1>18 DEF TransportStops, SuperviseEnds, Network, TypeOK, SupInv, CancelInv
  <2>2. ConnInv'
    BY <1>18 DEF TransportStops, SuperviseEnds, Network, TypeOK, ConnInv
  <2>3. ApplyInv'
    BY <1>18 DEF TransportStops, SuperviseEnds, Network, TypeOK, ConnInv, ApplyInv, CancelInv, SupInv
  <2>4. CancelInv'
    BY <1>18 DEF TransportStops, SuperviseEnds, Network, TypeOK, CancelInv, SupInv
  <2>5. SupInv'
    BY <1>18 DEF TransportStops, SuperviseEnds, Network, TypeOK, ApplyInv, CancelInv, SupInv, Stopped
  <2> QED
    BY <2>1, <2>2, <2>3, <2>4, <2>5
<1>19. ASSUME NEW g \in Runs, Restart(g) PROVE IInv'
  <2>1. TypeOK'
    <3>1. pause[g] \in Backoffs /\ Doubled(pause[g]) \in Backoffs
      BY DoubledBounds DEF TypeOK
    <3>2. pause' \in [Runs -> Backoffs]
      BY <1>19, <3>1 DEF Restart, SuperviseEnds, TypeOK
    <3>3. /\ sup' \in [Runs -> {"none", "run", "serving", "sleep", "done"}]
          /\ stuck' \in [Runs -> BOOLEAN] /\ held' \subseteq {"tcp", "udp"}
      BY <1>19 DEF Restart, SuperviseEnds, Network, TypeOK
    <3> QED
      BY <1>19, <3>2, <3>3 DEF Restart, SuperviseEnds, TypeOK
  <2>2. ConnInv'
    BY <1>19, DoubledBounds DEF Restart, SuperviseEnds, Network, TypeOK, ConnInv
  <2>3. ApplyInv'
    BY <1>19, DoubledBounds DEF Restart, SuperviseEnds, Network, TypeOK, ConnInv, ApplyInv, CancelInv, SupInv
  <2>4. CancelInv'
    BY <1>19, DoubledBounds DEF Restart, SuperviseEnds, Network, TypeOK, CancelInv, SupInv
  <2>5. SupInv'
    BY <1>19, DoubledBounds DEF Restart, SuperviseEnds, Network, TypeOK, ApplyInv, CancelInv, SupInv, Stopped
  <2> QED
    BY <2>1, <2>2, <2>3, <2>4, <2>5
<1>20. ASSUME Cancel PROVE IInv'
  <2>1. TypeOK'
    BY <1>20 DEF Cancel, TypeOK, SupInv, CancelInv
  <2>2. ConnInv'
    BY <1>20 DEF Cancel, TypeOK, ConnInv
  <2>3. ApplyInv'
    BY <1>20 DEF Cancel, TypeOK, ConnInv, ApplyInv, CancelInv, SupInv
  <2>4. CancelInv'
    BY <1>20 DEF Cancel, TypeOK, CancelInv, SupInv
  <2>5. SupInv'
    BY <1>20 DEF Cancel, TypeOK, ApplyInv, CancelInv, SupInv, Stopped
  <2> QED
    BY <2>1, <2>2, <2>3, <2>4, <2>5
<1>21. ASSUME NEW cfg \in ServerConfigs, ServerRestarts(cfg) PROVE IInv'
  <2>1. TypeOK'
    BY <1>21 DEF ServerRestarts, TypeOK, SupInv, CancelInv
  <2>2. ConnInv'
    BY <1>21 DEF ServerRestarts, TypeOK, ConnInv
  <2>3. ApplyInv'
    BY <1>21 DEF ServerRestarts, TypeOK, ConnInv, ApplyInv, CancelInv, SupInv
  <2>4. CancelInv'
    BY <1>21 DEF ServerRestarts, TypeOK, CancelInv, SupInv
  <2>5. SupInv'
    BY <1>21 DEF ServerRestarts, TypeOK, ApplyInv, CancelInv, SupInv, Stopped
  <2> QED
    BY <2>1, <2>2, <2>3, <2>4, <2>5
<1>22. ASSUME ConnBreaks PROVE IInv'
  <2>1. TypeOK'
    BY <1>22 DEF ConnBreaks, TypeOK, SupInv, CancelInv
  <2>2. ConnInv'
    BY <1>22 DEF ConnBreaks, TypeOK, ConnInv
  <2>3. ApplyInv'
    BY <1>22 DEF ConnBreaks, TypeOK, ConnInv, ApplyInv, CancelInv, SupInv
  <2>4. CancelInv'
    BY <1>22 DEF ConnBreaks, TypeOK, CancelInv, SupInv
  <2>5. SupInv'
    BY <1>22 DEF ConnBreaks, TypeOK, ApplyInv, CancelInv, SupInv, Stopped
  <2> QED
    BY <2>1, <2>2, <2>3, <2>4, <2>5
<1>23. ASSUME BecomesCalm PROVE IInv'
  <2>1. TypeOK'
    BY <1>23 DEF BecomesCalm, TypeOK, SupInv, CancelInv
  <2>2. ConnInv'
    BY <1>23 DEF BecomesCalm, TypeOK, ConnInv
  <2>3. ApplyInv'
    BY <1>23 DEF BecomesCalm, TypeOK, ConnInv, ApplyInv, CancelInv, SupInv
  <2>4. CancelInv'
    BY <1>23 DEF BecomesCalm, TypeOK, CancelInv, SupInv
  <2>5. SupInv'
    BY <1>23 DEF BecomesCalm, TypeOK, ApplyInv, CancelInv, SupInv, Stopped
  <2> QED
    BY <2>1, <2>2, <2>3, <2>4, <2>5
<1>24. ASSUME NEW n \in {"tcp", "udp"}, Collected(n) PROVE IInv'
  <2>1. TypeOK'
    BY <1>24 DEF Collected, TypeOK, SupInv, CancelInv
  <2>2. ConnInv'
    BY <1>24 DEF Collected, TypeOK, ConnInv
  <2>3. ApplyInv'
    BY <1>24 DEF Collected, TypeOK, ConnInv, ApplyInv, CancelInv, SupInv
  <2>4. CancelInv'
    BY <1>24 DEF Collected, TypeOK, CancelInv, SupInv
  <2>5. SupInv'
    BY <1>24 DEF Collected, TypeOK, ApplyInv, CancelInv, SupInv, Stopped
  <2> QED
    BY <2>1, <2>2, <2>3, <2>4, <2>5
<1>25. CASE UNCHANGED vars
  BY <1>25 DEF vars, TypeOK, ConnInv, ApplyInv, CancelInv, SupInv, Stopped
<1> QED
  BY <1>1, <1>2, <1>3, <1>4, <1>5, <1>6, <1>7, <1>8, <1>9, <1>10,
     <1>11, <1>12, <1>13, <1>14, <1>15, <1>16, <1>17, <1>18, <1>19,
     <1>20, <1>21, <1>22, <1>23, <1>24, <1>25
  DEF Next, Main, RunControl, Apply, Loop, Listens, Supervise

(* The inductive invariant holds throughout. *)
LEMMA Invariance == Spec => []IInv
BY InitInv, NextInv, PTL DEF Spec

-----------------------------------------------------------------------------
(* Every variable of the client keeps its type; both backoffs stay within  *)
(* their limits.                                                           *)
THEOREM TypeCorrect == Spec => []TypeOK
<1>1. IInv => TypeOK
  BY DEF IInv
<1> QED
  BY <1>1, Invariance, PTL

(* At most one transport runs at a time, the one that can be stopped, and  *)
(* none when Run has returned.                                             *)
THEOREM OneTransportOnly == Spec => []OneTransport
<1>1. IInv => OneTransport
  BY DEF IInv, SupInv, CancelInv, OneTransport
<1> QED
  BY <1>1, Invariance, PTL

(* While the control connection is up, the transport of the server's       *)
(* present configuration runs, with its KCP parameters.                    *)
THEOREM RunsWhatIsAnnounced == Spec => []ConnectedRunsAnnounced
<1>1. IInv => ConnectedRunsAnnounced
  BY RunnerAssumption
     DEF IInv, TypeOK, ConnInv, ApplyInv, CancelInv, SupInv, Stopped,
         ConnectedRunsAnnounced, Announce, OptsKCP, ServerConfig
<1> QED
  BY <1>1, Invariance, PTL

(* A reconnection that announces the same settings leaves the transport    *)
(* alone.                                                                  *)
THEOREM TransportSurvivesReconnect == Spec => KeptAcrossReconnects
<1> DEFINE Kept(g) == ~cancelled[g] /\ cancelled'[g] =>
                         \/ main = "exit"
                         \/ announced # settings[g]
                         \/ ctx = "done"
<1>1. ASSUME IInv, [Next]_vars, NEW g \in Runs PROVE Kept(g)
  <2> USE <1>1, RunnerAssumption DEF IInv
  <2>1. CASE ApplyOther
    BY <2>1, EqualIsEquality
       DEF ApplyOther, TypeOK, ApplyInv, CancelInv, SupInv, Stopped
  <2>2. CASE ExitBegins
    BY <2>2 DEF ExitBegins
  <2>3. CASE StopEnds \/ ExitEnds
    BY <2>3 DEF StopEnds, ExitEnds, Forget, TypeOK
  <2>4. ApplyOther \/ ExitBegins \/ StopEnds \/ ExitEnds \/ cancelled' = cancelled
    BY DEF Next, Main, RunControl, Apply, Loop, Listens, Supervise, vars, tranVars,
         ControlDialed, Received, ControlFailed, HoldEnds, StaticEnds,
         ApplySame, Built, BuildFailed, LoopTurns, SleepEnds, TransportServes,
         ListenFails, ReadFails, TransportStops, SuperviseEnds, Restart, Cancel,
         ServerRestarts, ConnBreaks, BecomesCalm, Collected
  <2> QED
    BY <2>1, <2>2, <2>3, <2>4
<1>2. IInv /\ [Next]_vars => [\A g \in Runs : Kept(g)]_vars
  BY <1>1
<1> QED
  BY <1>2, Invariance, PTL DEF Spec, KeptAcrossReconnects

(* The reconnect backoff shrinks only after a connection on which the      *)
(* announced transport was applied.                                        *)
THEOREM BackoffResetIsEarned == Spec => ResetMeansApplied
<1> DEFINE Earned == backoff' < backoff => current # Nil /\ settings[current] = announced
<1>1. ASSUME IInv, [Next]_vars PROVE Earned
  <2> USE <1>1, RunnerAssumption DEF IInv
  <2>1. CASE LoopTurns
    BY <2>1 DEF LoopTurns, BackoffAfter, TypeOK, ApplyInv, Backoffs
  <2>2. CASE SleepEnds
    BY <2>2, DoubledBounds DEF SleepEnds, TypeOK, Backoffs
  <2>3. CASE backoff' = backoff
    BY <2>3 DEF TypeOK, Backoffs
  <2>4. LoopTurns \/ SleepEnds \/ backoff' = backoff
    BY DEF Next, Main, RunControl, Apply, Loop, Listens, Supervise, vars, mainVars,
         ControlDialed, Received, ControlFailed, HoldEnds, StaticEnds,
         ApplySame, ApplyOther, StopEnds, Built, BuildFailed, ExitBegins, ExitEnds,
         TransportServes, ListenFails, ReadFails, TransportStops, SuperviseEnds,
         Restart, Cancel, ServerRestarts, ConnBreaks, BecomesCalm, Collected
  <2> QED
    BY <2>1, <2>2, <2>3, <2>4
<1>2. IInv /\ [Next]_vars => [Earned]_vars
  BY <1>1
<1> QED
  BY <1>2, Invariance, PTL DEF Spec, ResetMeansApplied
=============================================================================
