------------------------------ MODULE UDPRelay ------------------------------
(***************************************************************************)
(* udpRelay (internal/transport/udp.go): the goroutine of run, which reads *)
(* the listening socket, one pump goroutine per session, the sweeper, and  *)
(* the cancellation of ctx.  The relay is the same on both ends of the     *)
(* tunnel; the up and down filters only decide whether a datagram is       *)
(* dropped, and a dropped datagram changes nothing.                        *)
(*                                                                         *)
(* mu is held over several steps only by the sweeper, while it walks over  *)
(* the map; the other critical sections do not block and are one step.     *)
(*                                                                         *)
(* A session is identified by the memory it lives in: an identity may be   *)
(* used again once nobody refers to the session any more.                  *)
(***************************************************************************)
EXTENDS Integers

CONSTANTS Peers,      \* remote addresses (netip.AddrPort)
          Ids,        \* identities of udpSession objects
          Nil,        \* no session
          Idle        \* udpIdleTimeout, in ticks of the model's clock

ASSUME RelayAssumption == Nil \notin Peers \cup Ids /\ Idle \in Nat

VARIABLES
    ctx,        \* "live" or "done"
    hook,       \* context.AfterFunc: "armed", "started", "ran" or "stopped"
    listener,   \* the listening socket: "open" or "closed"
    sessions,   \* udpRelay.sessions; Nil where the map has no entry
    peer,       \* udpSession.peer
    upstream,   \* udpSession.upstream: "open" or "closed"
    age,        \* ticks since udpSession.lastSeen, up to Idle + 1
    pump,       \* where pump(s) is; "none" when it does not exist
    pc,         \* where run is
    from,       \* run's local peer
    sess,       \* run's local sess
    sweeper,    \* where sweep is
    old,        \* sessions with lastSeen < cutoff
    todo,       \* entries the sweeper has not visited yet
    idle        \* sweep's local idle

relayVars == <<sessions, peer, upstream, age, pump>>
runVars   == <<pc, from, sess>>
sweepVars == <<sweeper, old, todo, idle>>
stopVars  == <<ctx, hook, listener>>
vars == <<stopVars, relayVars, runVars, sweepVars>>

TypeOK ==
    /\ ctx      \in {"live", "done"}
    /\ hook     \in {"armed", "started", "ran", "stopped"}
    /\ listener \in {"open", "closed"}
    /\ sessions \in [Peers -> Ids \cup {Nil}]
    /\ peer     \in [Ids -> Peers \cup {Nil}]
    /\ upstream \in [Ids -> {"open", "closed"}]
    /\ age      \in [Ids -> 0 .. Idle + 1]
    /\ pump     \in [Ids -> {"none", "read", "touch", "remove", "close"}]
    /\ pc       \in {"read", "session", "touch", "closeAll", "stop", "returned"}
    /\ from     \in Peers \cup {Nil}
    /\ sess     \in Ids \cup {Nil}
    /\ sweeper  \in {"wait", "lock", "walk", "close", "gone"}
    /\ old      \subseteq Ids
    /\ todo     \subseteq Peers
    /\ idle     \subseteq Ids

Init ==
    /\ ctx = "live" /\ hook = "armed" /\ listener = "open"
    /\ sessions = [p \in Peers |-> Nil]
    /\ peer     = [s \in Ids |-> Nil]
    /\ upstream = [s \in Ids |-> "closed"]
    /\ age      = [s \in Ids |-> 0]
    /\ pump     = [s \in Ids |-> "none"]
    /\ pc = "read" /\ from = Nil /\ sess = Nil
    /\ sweeper = "wait" /\ old = {} /\ todo = {} /\ idle = {}

(* mu is free unless the sweeper walks over the map. *)
MuFree == sweeper # "walk"

(* udpSession.touch: lastSeen is now, so it is not before any cutoff. *)
Touch(s) ==
    /\ age' = [age EXCEPT ![s] = 0]
    /\ old' = old \ {s}

(* Nobody refers to s, so a new session may live there. *)
Unreferenced(s) == pump[s] = "none" /\ s # sess /\ s \notin idle

-----------------------------------------------------------------------------
(* run *)

(* A datagram that passes the up filter has arrived. *)
Receive(p) ==
    /\ pc = "read" /\ listener = "open"
    /\ pc' = "session"
    /\ from' = p
    /\ UNCHANGED <<stopVars, relayVars, sess, sweepVars>>

(* session(peer): there is one. *)
SessionFound ==
    /\ pc = "session" /\ MuFree
    /\ sessions[from] # Nil
    /\ sess' = sessions[from]
    /\ pc' = "touch"
    /\ UNCHANGED <<stopVars, relayVars, from, sweepVars>>

(* session(peer): a new one is created and its pump started. *)
SessionCreated(s) ==
    /\ pc = "session" /\ MuFree
    /\ sessions[from] = Nil /\ Unreferenced(s)
    /\ sessions' = [sessions EXCEPT ![from] = s]
    /\ peer'     = [peer EXCEPT ![s] = from]
    /\ upstream' = [upstream EXCEPT ![s] = "open"]
    /\ Touch(s)
    /\ pump'     = [pump EXCEPT ![s] = "read"]
    /\ sess' = s
    /\ pc' = "touch"
    /\ UNCHANGED <<stopVars, from, sweeper, todo, idle>>

(* session(peer): dial failed, the datagram is dropped. *)
SessionFailed ==
    /\ pc = "session" /\ MuFree
    /\ sessions[from] = Nil
    /\ from' = Nil
    /\ pc' = "read"
    /\ UNCHANGED <<stopVars, relayVars, sess, sweepVars>>

(* sess.touch() and the write to sess.upstream, whose error is ignored. *)
Forward ==
    /\ pc = "touch"
    /\ Touch(sess)
    /\ sess' = Nil /\ from' = Nil
    /\ pc' = "read"
    /\ UNCHANGED <<stopVars, sessions, peer, upstream, pump, sweeper, todo, idle>>

(* The read fails: the listener was closed. *)
ReadClosed ==
    /\ pc = "read" /\ listener = "closed"
    /\ pc' = "closeAll"
    /\ UNCHANGED <<stopVars, relayVars, from, sess, sweepVars>>

(* The read fails although the listener is open: run returns the error. *)
ReadBroken ==
    /\ pc = "read" /\ listener = "open"
    /\ pc' = "closeAll"
    /\ UNCHANGED <<stopVars, relayVars, from, sess, sweepVars>>

Mapped == {sessions[p] : p \in Peers} \ {Nil}

(* Bug: closeAll empties the map but leaves the sockets open. *)
CloseAllForgetful ==
    /\ pc = "closeAll" /\ MuFree
    /\ sessions' = [p \in Peers |-> Nil]
    /\ pc' = "stop"
    /\ UNCHANGED <<stopVars, peer, upstream, age, pump, from, sess, sweepVars>>

(* Bug: closeAll closes the sockets but leaves the map as it is. *)
CloseAllKeeping ==
    /\ pc = "closeAll" /\ MuFree
    /\ upstream' = [s \in Ids |-> IF s \in Mapped THEN "closed" ELSE upstream[s]]
    /\ pc' = "stop"
    /\ UNCHANGED <<stopVars, sessions, peer, age, pump, from, sess, sweepVars>>

(* The deferred closeAll(). *)
CloseAll ==
    /\ pc = "closeAll" /\ MuFree
    /\ sessions' = [p \in Peers |-> Nil]
    /\ upstream' = [s \in Ids |-> IF s \in Mapped THEN "closed" ELSE upstream[s]]
    /\ pc' = "stop"
    /\ UNCHANGED <<stopVars, peer, age, pump, from, sess, sweepVars>>

(* The deferred stop function of AfterFunc: it prevents a call that has    *)
(* not started yet.  run returns.                                          *)
Return ==
    /\ pc = "stop"
    /\ hook' = IF hook = "armed" THEN "stopped" ELSE hook
    /\ pc' = "returned"
    /\ UNCHANGED <<ctx, listener, relayVars, from, sess, sweepVars>>

-----------------------------------------------------------------------------
(* pump(s) *)

(* A datagram that passes the down filter was read from upstream. *)
PumpReads(s) ==
    /\ pump[s] = "read" /\ upstream[s] = "open"
    /\ pump' = [pump EXCEPT ![s] = "touch"]
    /\ UNCHANGED <<stopVars, sessions, peer, upstream, age, runVars, sweepVars>>

(* s.touch() and the reply to the peer, whose error is ignored. *)
PumpReplies(s) ==
    /\ pump[s] = "touch"
    /\ Touch(s)
    /\ pump' = [pump EXCEPT ![s] = "read"]
    /\ UNCHANGED <<stopVars, sessions, peer, upstream, runVars, sweeper, todo, idle>>

(* The read fails: somebody closed upstream. *)
PumpUnblocked(s) ==
    /\ pump[s] = "read" /\ upstream[s] = "closed"
    /\ pump' = [pump EXCEPT ![s] = "remove"]
    /\ UNCHANGED <<stopVars, sessions, peer, upstream, age, runVars, sweepVars>>

(* The read fails on an open socket, e.g. connection refused. *)
PumpBreaks(s) ==
    /\ pump[s] = "read" /\ upstream[s] = "open"
    /\ pump' = [pump EXCEPT ![s] = "remove"]
    /\ UNCHANGED <<stopVars, sessions, peer, upstream, age, runVars, sweepVars>>

(* Bug: remove deletes the peer's entry whichever session it holds. *)
PumpRemovesAny(s) ==
    /\ pump[s] = "remove" /\ MuFree
    /\ sessions' = [sessions EXCEPT ![peer[s]] = Nil]
    /\ pump' = [pump EXCEPT ![s] = "close"]
    /\ UNCHANGED <<stopVars, peer, upstream, age, runVars, sweepVars>>

(* remove(s), the part under mu. *)
PumpRemoves(s) ==
    /\ pump[s] = "remove" /\ MuFree
    /\ sessions' = [sessions EXCEPT ![peer[s]] = IF @ = s THEN Nil ELSE @]
    /\ pump' = [pump EXCEPT ![s] = "close"]
    /\ UNCHANGED <<stopVars, peer, upstream, age, runVars, sweepVars>>

(* remove(s), its last line; pump ends, and with it the use of s.peer and  *)
(* s.lastSeen.                                                             *)
PumpCloses(s) ==
    /\ pump[s] = "close"
    /\ upstream' = [upstream EXCEPT ![s] = "closed"]
    /\ pump' = [pump EXCEPT ![s] = "none"]
    /\ peer' = [peer EXCEPT ![s] = Nil]
    /\ Touch(s)
    /\ UNCHANGED <<stopVars, sessions, runVars, sweeper, todo, idle>>

PumpStep(s) == PumpReplies(s) \/ PumpUnblocked(s) \/ PumpCloses(s)
-----------------------------------------------------------------------------
(* sweep *)

(* The ticker fires and cutoff is computed. *)
SweepStarts ==
    /\ sweeper = "wait"
    /\ old' = {s \in Ids : age[s] > Idle}
    /\ sweeper' = "lock"
    /\ UNCHANGED <<stopVars, relayVars, runVars, todo, idle>>

(* mu.Lock() and the beginning of the range over the map. *)
SweepLocks ==
    /\ sweeper = "lock"
    /\ todo' = {p \in Peers : sessions[p] # Nil}
    /\ sweeper' = "walk"
    /\ UNCHANGED <<stopVars, relayVars, runVars, old, idle>>

(* Bug: an idle session is forgotten but not remembered for closing. *)
SweepVisitsForgetful(p) ==
    /\ sweeper = "walk" /\ p \in todo
    /\ todo' = todo \ {p}
    /\ sessions' = [sessions EXCEPT ![p] = IF @ \in old THEN Nil ELSE @]
    /\ UNCHANGED <<stopVars, peer, upstream, age, pump, runVars, sweeper, old, idle>>

(* Bug: idle sessions are kept for ever. *)
SweepVisitsKeeping(p) ==
    /\ sweeper = "walk" /\ p \in todo
    /\ todo' = todo \ {p}
    /\ UNCHANGED <<stopVars, relayVars, runVars, sweeper, old, idle>>

(* One iteration of the range: an idle session is deleted and remembered. *)
SweepVisits(p) ==
    /\ sweeper = "walk" /\ p \in todo
    /\ todo' = todo \ {p}
    /\ IF sessions[p] \in old
         THEN /\ sessions' = [sessions EXCEPT ![p] = Nil]
              /\ idle' = idle \cup {sessions[p]}
         ELSE UNCHANGED <<sessions, idle>>
    /\ UNCHANGED <<stopVars, peer, upstream, age, pump, runVars, sweeper, old>>

(* mu.Unlock(). *)
SweepUnlocks ==
    /\ sweeper = "walk" /\ todo = {}
    /\ sweeper' = "close"
    /\ UNCHANGED <<stopVars, relayVars, runVars, old, todo, idle>>

(* One iteration of the closing loop. *)
SweepCloses(s) ==
    /\ sweeper = "close" /\ s \in idle
    /\ upstream' = [upstream EXCEPT ![s] = "closed"]
    /\ idle' = idle \ {s}
    /\ UNCHANGED <<stopVars, sessions, peer, age, pump, runVars, sweeper, old, todo>>

(* Back to the select. *)
SweepWaits ==
    /\ sweeper = "close" /\ idle = {}
    /\ sweeper' = "wait"
    /\ old' = {}
    /\ UNCHANGED <<stopVars, relayVars, runVars, todo, idle>>

(* The select picks ctx.Done(). *)
SweepEnds ==
    /\ sweeper = "wait" /\ ctx = "done"
    /\ sweeper' = "gone"
    /\ UNCHANGED <<stopVars, relayVars, runVars, old, todo, idle>>

SweepStep ==
    \/ SweepLocks \/ SweepUnlocks \/ SweepWaits \/ SweepEnds
    \/ (\E p \in Peers : SweepVisits(p)) \/ (\E s \in Ids : SweepCloses(s))
-----------------------------------------------------------------------------
(* ctx is cancelled; the AfterFunc call starts in a goroutine of its own.  *)
Cancel ==
    /\ ctx = "live"
    /\ ctx' = "done"
    /\ hook' = IF hook = "armed" THEN "started" ELSE hook
    /\ UNCHANGED <<listener, relayVars, runVars, sweepVars>>

CloseListener ==
    /\ hook = "started"
    /\ hook' = "ran"
    /\ listener' = "closed"
    /\ UNCHANGED <<ctx, relayVars, runVars, sweepVars>>

(* Time passes for the sessions that exist. *)
Tick ==
    /\ age' = [s \in Ids |-> IF pump[s] # "none" /\ age[s] <= Idle
                                THEN age[s] + 1 ELSE age[s]]
    /\ age' # age
    /\ UNCHANGED <<stopVars, sessions, peer, upstream, pump, runVars, sweepVars>>

SessionCall == SessionFound \/ SessionFailed \/ \E s \in Ids : SessionCreated(s)

Next ==
    \/ \E p \in Peers : Receive(p)
    \/ SessionCall \/ Forward \/ ReadClosed \/ ReadBroken \/ CloseAll \/ Return
    \/ \E s \in Ids : PumpReads(s) \/ PumpBreaks(s) \/ PumpRemoves(s) \/ PumpStep(s)
    \/ SweepStarts \/ SweepStep
    \/ Cancel \/ CloseListener \/ Tick

Spec == Init /\ [][Next]_vars

(* Goroutines run, the clock and the ticker advance, and sync.Mutex serves *)
(* every waiter.  Nothing is assumed of peers, of the network or of ctx.   *)
Fairness ==
    /\ SF_vars(SessionCall) /\ WF_vars(Forward) /\ WF_vars(ReadClosed)
    /\ SF_vars(CloseAll) /\ WF_vars(Return)
    /\ \A s \in Ids : WF_vars(PumpStep(s)) /\ SF_vars(PumpRemoves(s))
    /\ WF_vars(SweepStarts) /\ WF_vars(SweepStep)
    /\ SF_vars(SweepEnds)
    /\ WF_vars(CloseListener) /\ WF_vars(Tick)

FairSpec == Spec /\ Fairness
-----------------------------------------------------------------------------
(* A map entry is a session of that very peer, with an open socket and a   *)
(* pump that will remove it: a lookup never returns a closed session,      *)
(* whatever sweep, pumps and closeAll are doing (udp.go:84-86).            *)
EntriesWork ==
    \A p \in Peers : sessions[p] # Nil =>
        LET s == sessions[p]
        IN  peer[s] = p /\ upstream[s] = "open" /\ pump[s] \in {"read", "touch", "remove"}

(* No leak: an open upstream socket is still in the map, or somebody is    *)
(* about to close it (udp.go:120-127, 148-151, 155-162).                   *)
NoOrphan ==
    \A s \in Ids : upstream[s] = "open" =>
        s \in Mapped \/ s \in idle \/ pump[s] = "close"

(* "a race that could delete or leak a fresh session when an old one timed *)
(* out is fixed" (CHANGELOG.md:38-39): an entry disappears only because    *)
(* its own pump ended, because it was idle at the cutoff and has not been  *)
(* touched since, or because run ends; it is never replaced.               *)
FreshSessionKept ==
    [][\A p \in Peers : sessions[p] # Nil /\ sessions'[p] # sessions[p] =>
          /\ sessions'[p] = Nil
          /\ \/ pump[sessions[p]] = "remove"
             \/ sessions[p] \in old
             \/ pc = "closeAll"]_vars

(* Once ctx is done, run returns, every upstream socket is closed, and no  *)
(* goroutine of the relay is left.                                         *)
ShutdownCompletes ==
    ctx = "done" ~> /\ pc = "returned" /\ sweeper = "gone"
                    /\ \A s \in Ids : upstream[s] = "closed" /\ pump[s] = "none"

(* "Idle sessions are expired" (CHANGELOG.md:38): a socket nobody uses     *)
(* does not stay open.                                                     *)
IdleExpires ==
    \A s \in Ids : []<>(upstream[s] = "closed" \/ age[s] = 0)

(* supervise (client/runner.go:102-116) runs the transport again after an  *)
(* error, which has to listen on the same address: run must give up its    *)
(* listener when it returns.                                               *)
ListenerReleased == pc = "returned" ~> listener = "closed"

(* The sockets behave as UDPFlows specifies: whatever goroutines do to the *)
(* map and to the sockets, a socket serves one peer and is not closed      *)
(* while a lookup can still return it.                                     *)
Flows == INSTANCE UDPFlows
            WITH cur <- sessions,
                 owner <- [s \in Ids |-> IF upstream[s] = "open" THEN peer[s] ELSE Nil]

FlowsSpec == Flows!Spec
=============================================================================
