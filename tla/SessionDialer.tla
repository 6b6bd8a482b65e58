--------------------------- MODULE SessionDialer ---------------------------
(***************************************************************************)
(* sessionDialer (internal/transport/session.go) together with what drives *)
(* it on the client: the accept handler of client.Run, which calls Dial    *)
(* under a timeout, the carriers it connects over (internal/transport/     *)
(* client.go) and the Close that client.Run defers.                        *)
(*                                                                         *)
(* Callers are handler goroutines: each one stands for one accepted local  *)
(* connection at a time.  A critical section that cannot block is one      *)
(* step; session() is several steps, because it holds mu while it dials    *)
(* and authenticates.                                                      *)
(***************************************************************************)
EXTENDS Integers, FiniteSets

CONSTANTS Callers,      \* handler goroutines that may call Dial
          Sessions,     \* identities of the sessions connect can return
          Nil,          \* the nil pointer; also "mu is free"
          Carriers,     \* among "stream" (TCP, WebSocket, ShadowTLS), "kcp", "quic"
          MaxStreams    \* streams the server allows on one QUIC connection

ASSUME DialerAssumption ==
    /\ Nil \notin Callers /\ Nil \notin Sessions
    /\ Carriers \subseteq {"stream", "kcp", "quic"}
    /\ MaxStreams \in Nat \ {0}

VARIABLES
    carrier,   \* what the configured protocol connects over
    mu,        \* the caller that holds sessionDialer.mu across a connect
    cur,       \* sessionDialer.cur
    closed,    \* sessionDialer.closed
    sess,      \* condition of every session
    pc,        \* where each caller is in Dial
    try,       \* iteration of Dial's retry loop
    got,       \* Dial's local sess; kept until the next iteration sets it
    stream,    \* session that carries the caller's stream
    expired,   \* is the caller's dialCtx done?
    run        \* client.Run: "serving", "closing" (in dialer.Close), "returned"

vars == <<carrier, mu, cur, closed, sess, pc, try, got, stream, expired, run>>

(* "stale" is a session whose peer is gone although isClosed still says    *)
(* no; "dead" one that noticed; "closed" one the dialer has closed.        *)
Condition == {"none", "live", "stale", "dead", "closed"}
Open      == {"live", "stale", "dead"}

InDial == {"lock", "dial", "auth", "open", "discard"}

TypeOK ==
    /\ carrier \in Carriers
    /\ mu      \in Callers \cup {Nil}
    /\ cur     \in Sessions \cup {Nil}
    /\ closed  \in BOOLEAN
    /\ sess    \in [Sessions -> Condition]
    /\ pc      \in [Callers -> InDial \cup {"idle", "piping", "failed"}]
    /\ try     \in [Callers -> {1, 2}]
    /\ got     \in [Callers -> Sessions \cup {Nil}]
    /\ stream  \in [Callers -> Sessions \cup {Nil}]
    /\ expired \in [Callers -> BOOLEAN]
    /\ run     \in {"serving", "closing", "returned"}

Init ==
    /\ carrier \in Carriers
    /\ mu = Nil /\ cur = Nil /\ closed = FALSE
    /\ sess    = [s \in Sessions |-> "none"]
    /\ pc      = [c \in Callers |-> "idle"]
    /\ try     = [c \in Callers |-> 1]
    /\ got     = [c \in Callers |-> Nil]
    /\ stream  = [c \in Callers |-> Nil]
    /\ expired = [c \in Callers |-> FALSE]
    /\ run     = "serving"

Goto(c, l) == pc' = [pc EXCEPT ![c] = l]

-----------------------------------------------------------------------------
(* muxSession.isClosed of smuxSession and quicSession. *)
IsClosed(s) == sess[s] \in {"dead", "closed"}

(* The session table after d.cur.close(), if there is a current session. *)
CloseCur == [s \in Sessions |-> IF s = cur THEN "closed" ELSE sess[s]]

-----------------------------------------------------------------------------
(* The accept handler starts: dialCtx, cancel := context.WithTimeout(ctx,  *)
(* ...); dialer.Dial(dialCtx).  AcceptLoop starts handlers with go, so one *)
(* may begin after ctx was cancelled; its dialCtx is then done at once.    *)
Start(c) ==
    /\ pc[c] = "idle"
    /\ Goto(c, "lock")
    /\ try'     = [try EXCEPT ![c] = 1]
    /\ got'     = [got EXCEPT ![c] = Nil]
    /\ expired' = [expired EXCEPT ![c] = run # "serving"]
    /\ UNCHANGED <<carrier, mu, cur, closed, sess, stream, run>>

(* dialTimeout+handshakeTimeout has passed since Dial was called. *)
Expire(c) ==
    /\ pc[c] \in InDial /\ ~expired[c]
    /\ expired' = [expired EXCEPT ![c] = TRUE]
    /\ UNCHANGED <<carrier, mu, cur, closed, sess, pc, try, got, stream, run>>

(* session(): the dialer is closed. *)
SessionRefused(c) ==
    /\ pc[c] = "lock" /\ mu = Nil
    /\ closed
    /\ Goto(c, "failed")
    /\ UNCHANGED <<carrier, mu, cur, closed, sess, try, got, stream, expired, run>>

(* session(): the current session looks usable and is returned. *)
SessionReused(c) ==
    /\ pc[c] = "lock" /\ mu = Nil
    /\ ~closed /\ cur # Nil /\ ~IsClosed(cur)
    /\ got' = [got EXCEPT ![c] = cur]
    /\ Goto(c, "open")
    /\ UNCHANGED <<carrier, mu, cur, closed, sess, try, stream, expired, run>>

(* Bug: the dead session is forgotten without being closed. *)
ConnectBeginsLeaking(c) ==
    /\ pc[c] = "lock" /\ mu = Nil
    /\ ~closed
    /\ cur # Nil => IsClosed(cur)
    /\ cur' = Nil
    /\ mu' = c
    /\ Goto(c, "dial")
    /\ UNCHANGED <<carrier, closed, sess, try, got, stream, expired, run>>

(* Bug: session() connects without holding mu, so callers dial in parallel. *)
ConnectBeginsUnlocked(c) ==
    /\ pc[c] = "lock" /\ mu = Nil
    /\ ~closed
    /\ cur # Nil => IsClosed(cur)
    /\ sess' = CloseCur
    /\ cur' = Nil
    /\ Goto(c, "dial")
    /\ UNCHANGED <<carrier, mu, closed, try, got, stream, expired, run>>

(* session(): a dead current session is closed, and connect begins with mu *)
(* held.                                                                   *)
ConnectBegins(c) ==
    /\ pc[c] = "lock" /\ mu = Nil
    /\ ~closed
    /\ cur # Nil => IsClosed(cur)
    /\ sess' = CloseCur
    /\ cur' = Nil
    /\ mu' = c
    /\ Goto(c, "dial")
    /\ UNCHANGED <<carrier, closed, try, got, stream, expired, run>>

(* dialCarrier returned a connection (for QUIC: the connection and its     *)
(* first stream).  Every carrier but KCP gives up when dialCtx is done.    *)
CarrierDialed(c) ==
    /\ pc[c] = "dial"
    /\ carrier # "kcp" => ~expired[c]
    /\ Goto(c, "auth")
    /\ UNCHANGED <<carrier, mu, cur, closed, sess, try, got, stream, expired, run>>

(* connectMux / connectQUIC succeed: the handshake has a deadline of its   *)
(* own and does not look at dialCtx.                                       *)
Connected(c, s) ==
    /\ pc[c] = "auth" /\ sess[s] = "none"
    /\ sess' = [sess EXCEPT ![s] = "live"]
    /\ cur' = s
    /\ got' = [got EXCEPT ![c] = s]
    /\ mu' = Nil
    /\ Goto(c, "open")
    /\ UNCHANGED <<carrier, closed, try, stream, expired, run>>

(* Bug: the error path returns without unlocking mu. *)
ConnectFailedLocked(c) ==
    /\ pc[c] \in {"dial", "auth"}
    /\ Goto(c, "failed")
    /\ UNCHANGED <<carrier, mu, cur, closed, sess, try, got, stream, expired, run>>

(* Dialing, authenticating or starting smux failed; the connection, if     *)
(* any, was closed and Dial returns the error.                             *)
ConnectFailed(c) ==
    /\ pc[c] \in {"dial", "auth"}
    /\ mu' = Nil
    /\ Goto(c, "failed")
    /\ UNCHANGED <<carrier, cur, closed, sess, try, got, stream, expired, run>>
-----------------------------------------------------------------------------
(* sess.open(ctx).  smux ignores ctx.  QUIC refuses an expired one and     *)
(* waits while the peer's stream limit is reached.  On a stale session the *)
(* first write may still be accepted.                                      *)
StreamsOf(s) == {c \in Callers : stream[c] = s}

OpenStream(c) ==
    /\ pc[c] = "open"
    /\ sess[got[c]] \in {"live", "stale"}
    /\ carrier = "quic" => /\ ~expired[c]
                           /\ Cardinality(StreamsOf(got[c])) < MaxStreams
    /\ stream' = [stream EXCEPT ![c] = got[c]]
    /\ Goto(c, "piping")
    /\ UNCHANGED <<carrier, mu, cur, closed, sess, try, got, expired, run>>

(* Bug: OpenStreamSync is called with a context that is never done. *)
OpenFailsUntimed(c) ==
    /\ pc[c] = "open"
    /\ sess[got[c]] # "live" \/ carrier # "quic"
    /\ Goto(c, "discard")
    /\ UNCHANGED <<carrier, mu, cur, closed, sess, try, got, stream, expired, run>>

(* open fails on a session that does not work, and on one that does: QUIC  *)
(* when dialCtx is done, smux when its open frame cannot be written in     *)
(* time or its stream ids are used up.                                     *)
OpenFails(c) ==
    /\ pc[c] = "open"
    /\ sess[got[c]] = "live" /\ carrier = "quic" => expired[c]
    /\ Goto(c, "discard")
    /\ UNCHANGED <<carrier, mu, cur, closed, sess, try, got, stream, expired, run>>

(* Bugs: discard closes whatever session is current, or never closes one. *)
StillCurrentUnchecked(c) == cur # Nil
StillCurrentNever(c) == FALSE

(* discard's test: the session that failed is still the current one. *)
StillCurrent(c) == cur = got[c]


(* discard(sess), then the second iteration of Dial's loop or its end. *)
Discard(c) ==
    /\ pc[c] = "discard" /\ mu = Nil
    /\ IF StillCurrent(c)
         THEN sess' = CloseCur /\ cur' = Nil
         ELSE UNCHANGED <<sess, cur>>
    /\ try' = [try EXCEPT ![c] = 2]
    /\ Goto(c, IF try[c] = 1 THEN "lock" ELSE "failed")
    /\ UNCHANGED <<carrier, mu, closed, got, stream, expired, run>>

(* The handler is over: Pipe returned, or local was closed after an error. *)
HandlerReturns(c) ==
    /\ pc[c] \in {"piping", "failed"}
    /\ stream' = [stream EXCEPT ![c] = Nil]
    /\ Goto(c, "idle")
    /\ UNCHANGED <<carrier, mu, cur, closed, sess, try, got, expired, run>>
-----------------------------------------------------------------------------
(* ctx is cancelled: AcceptLoop returns, every dialCtx is done, and        *)
(* client.Run reaches its deferred dialer.Close.                           *)
Cancel ==
    /\ run = "serving"
    /\ run' = "closing"
    /\ expired' = [c \in Callers |-> TRUE]
    /\ UNCHANGED <<carrier, mu, cur, closed, sess, pc, try, got, stream>>

(* dialer.Close(), which has to wait for mu. *)
Close ==
    /\ run = "closing" /\ mu = Nil
    /\ closed' = TRUE
    /\ sess' = CloseCur
    /\ cur' = Nil
    /\ run' = "returned"
    /\ UNCHANGED <<carrier, mu, pc, try, got, stream, expired>>

(* The network or the peer ends a session, at first perhaps unnoticed. *)
SessionBreaks(s) ==
    /\ \/ sess[s] = "live"  /\ sess' = [sess EXCEPT ![s] = "stale"]
       \/ sess[s] \in {"live", "stale"} /\ sess' = [sess EXCEPT ![s] = "dead"]
    /\ UNCHANGED <<carrier, mu, cur, closed, pc, try, got, stream, expired, run>>

SessionCall(c) == SessionRefused(c) \/ SessionReused(c) \/ ConnectBegins(c)
ConnectStep(c) ==
    CarrierDialed(c) \/ (\E s \in Sessions : Connected(c, s)) \/ ConnectFailed(c)
OpenCall(c) == OpenStream(c) \/ OpenFails(c)

Next ==
    \/ \E c \in Callers :
          \/ Start(c) \/ Expire(c) \/ SessionCall(c) \/ ConnectStep(c)
          \/ OpenCall(c) \/ Discard(c) \/ HandlerReturns(c)
    \/ \E s \in Sessions : SessionBreaks(s)
    \/ Cancel \/ Close

Spec == Init /\ [][Next]_vars

(* Timers fire, connect and open end (each has a deadline), and sync.Mutex *)
(* starves nobody: a waiter that fails for 1ms is served in FIFO order.    *)
Fairness ==
    /\ \A c \in Callers :
          /\ WF_vars(Expire(c)) /\ WF_vars(ConnectStep(c)) /\ WF_vars(OpenCall(c))
          /\ SF_vars(SessionCall(c)) /\ SF_vars(Discard(c))
    /\ SF_vars(Close)

FairSpec == Spec /\ Fairness
-----------------------------------------------------------------------------
(* No leak: a session that still holds resources is the current one, so    *)
(* somebody will close it.  session() and discard() drop sessions on       *)
(* several paths while other callers still use them.                       *)
OnlyCurrentIsOpen == \A s \in Sessions : sess[s] \in Open => s = cur

(* When client.Run has returned, every session is closed and stays so,     *)
(* although callers may still be inside Dial (session.go:65-74, 79-81).    *)
ReturnedMeansClosed ==
    run = "returned" => \A s \in Sessions : sess[s] \in {"none", "closed"}

(* A session that works is closed only by Close or by a caller that could  *)
(* not open a stream on that very session (session.go:56-60, 97-104): a    *)
(* caller that comes late with the failure of an older session, or one     *)
(* that finds the current one dead, never takes a replacement that others  *)
(* already use.                                                            *)
LiveSessionKept ==
    [][\A s \in Sessions :
          sess[s] = "live" /\ ~closed' /\ sess'[s] = "closed"
             => \E c \in Callers :
                   pc[c] = "discard" /\ got[c] = s /\ pc'[c] # "discard"]_vars

(* A stream on a working session is not torn down under its user by what   *)
(* happens to another caller (session.go:55-60 with quicSession.open).     *)
StreamsKept ==
    [][\A c \in Callers :
          stream[c] # Nil /\ sess[stream[c]] = "live" /\ ~closed'
             => sess'[stream[c]] # "closed"]_vars

(* "retry once on a fresh one" (session.go:50): the second iteration of    *)
(* Dial never gets the session that failed in the first.                   *)
RetryIsFresh ==
    [][\A c \in Callers :
          try[c] = 2 /\ got'[c] # Nil /\ pc'[c] = "open" /\ pc[c] # "open"
             => got'[c] # got[c]]_vars

(* Dial returns, however often the lock, the carrier or the session let it *)
(* down (session.go:48-63).                                                *)
DialReturns ==
    \A c \in Callers : pc[c] = "lock" ~> pc[c] \in {"piping", "failed"}

(* dialer.Close returns although callers queue for the same mutex. *)
CloseReturns == run = "closing" ~> run = "returned"

(* The sessions seen from outside behave as SharedSession specifies. *)
Shared == INSTANCE SharedSession
             WITH open <- {s \in Sessions : sess[s] \in Open},
                  used <- {s \in Sessions : sess[s] # "none"},
                  shut <- closed

SharedSpec == Shared!Spec
=============================================================================
