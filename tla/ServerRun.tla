----------------------------- MODULE ServerRun -----------------------------
(***************************************************************************)
(* g-tun-server: Run (internal/server/server.go) with its data and control *)
(* listeners, the loop that accepts connections (internal/netutil/         *)
(* accept.go; serveQUIC and net/http have one of their own), and the       *)
(* goroutines that handle them (internal/transport/server.go and           *)
(* stealth.go, handleControl), up to the shutdown of all that.  The        *)
(* handshake itself is the module Handshake, the relaying of a stream the  *)
(* module StreamRelay.                                                     *)
(*                                                                         *)
(* context.AfterFunc(ctx, f) is "armed" until ctx is done, which starts f  *)
(* in a goroutine a little later; its stop function only prevents a call   *)
(* that has not started.                                                   *)
(***************************************************************************)
EXTENDS Integers

CONSTANTS Modes,                \* kinds of data protocol: one stream per connection
                                \* ("plain"; "ws") or many ("smux"; "wsmux";
                                \* "stealth"; "quic")
          Conns, Streams,       \* accepted connections, streams
          Nil,
          MinDelay, MaxDelay    \* minAcceptDelay, maxAcceptDelay

Listeners == {"data", "control"}

ASSUME ServerAssumption ==
    /\ Modes \subseteq {"plain", "smux", "quic", "ws", "wsmux", "stealth"}
    /\ Nil \notin Conns /\ Nil \notin Listeners
    /\ MinDelay \in Nat \ {0} /\ MaxDelay \in Nat /\ MinDelay <= MaxDelay

VARIABLES
    mode,     \* the kind of data protocol the server is configured with
    ctx,      \* the context of Run: "live" or "done"
    main,     \* Run waits for the "first" result or the "rest", or "returned"
    srv,      \* where the goroutine of each listener is
    ln,       \* the listening socket; "broken": every Accept fails
    hook,     \* AfterFunc(ctx, ln.Close)
    delay,    \* AcceptLoop's delay
    failed,   \* did the goroutine send an error?
    err,      \* does Run's result hold an error?
    kind,     \* listener that accepted the connection
    sock,     \* the connection; "lost": its peer is gone
    hpc,      \* where its handler is
    chook,    \* handleConn's AfterFunc(ctx, conn.Close)
    defers,   \* what the handler has deferred and not run yet: to "close" the
              \* connection or its session, to "stop" the AfterFunc
    of,       \* connection a stream belongs to
    stm,      \* where handleQUICStream, handleStream or its Pipe is
    end,      \* the server's end of the stream
    target    \* the stream's connection to the target

runVars  == <<mode, ctx, main, err>>
lnVars   == <<srv, ln, hook, delay, failed>>
connVars == <<kind, sock, hpc, chook, defers>>
stmVars  == <<of, stm, end, target>>
vars == <<runVars, lnVars, connVars, stmVars>>

Hook == {"none", "armed", "started", "ran", "stopped"}

TypeOK ==
    /\ mode   \in Modes
    /\ ctx    \in {"live", "done"}
    /\ main   \in {"first", "rest", "returned"}
    /\ srv    \in [Listeners -> {"listen", "accept", "delay", "stop", "sent", "received",
                            "absent"}]
    /\ ln     \in [Listeners -> {"none", "open", "broken", "closed"}]
    /\ hook   \in [Listeners -> Hook]
    /\ delay  \in [Listeners -> {0} \cup MinDelay .. MaxDelay]
    /\ failed \in [Listeners -> BOOLEAN]
    /\ err    \in BOOLEAN
    /\ kind   \in [Conns -> Listeners \cup {Nil}]
    /\ sock   \in [Conns -> {"none", "open", "lost", "closed"}]
    /\ hpc    \in [Conns -> {"none", "upgrade", "start", "auth", "serve", "relay", "reject",
                             "return", "done"}]
    /\ chook  \in [Conns -> Hook]
    /\ defers \in [Conns -> SUBSET {"close", "stop"}]
    /\ of     \in [Streams -> Conns \cup {Nil}]
    /\ stm    \in [Streams -> {"none", "marker", "dial", "pipe", "unwind", "close", "done"}]
    /\ end    \in [Streams -> {"none", "open", "closed"}]
    /\ target \in [Streams -> {"none", "open", "closed"}]

(* The stealth protocol has no control port. *)
Missing(l) == l = "control" /\ mode = "stealth"

Init ==
    /\ mode \in Modes
    /\ ctx = "live" /\ main = "first" /\ err = FALSE
    /\ srv    = [l \in Listeners |-> IF Missing(l) THEN "absent" ELSE "listen"]
    /\ ln     = [l \in Listeners |-> "none"]
    /\ hook   = [l \in Listeners |-> "none"]
    /\ delay  = [l \in Listeners |-> 0]
    /\ failed = [l \in Listeners |-> FALSE]
    /\ kind   = [c \in Conns |-> Nil]
    /\ sock   = [c \in Conns |-> "none"]
    /\ hpc    = [c \in Conns |-> "none"]
    /\ chook  = [c \in Conns |-> "none"]
    /\ defers = [c \in Conns |-> {}]
    /\ of     = [x \in Streams |-> Nil]
    /\ stm    = [x \in Streams |-> "none"]
    /\ end    = [x \in Streams |-> "none"]
    /\ target = [x \in Streams |-> "none"]

IsQuic(l) == l = "data" /\ mode = "quic"
IsHttp(l) == l = "data" /\ mode \in {"ws", "wsmux"}

(* A connection becomes a WebSocket, or shows that it knows the token in a *)
(* TLS handshake relayed to a web site, before handleConn sees it.         *)
Upgrades(l) == IsHttp(l) \/ (l = "data" /\ mode = "stealth")

(* A data connection carries many streams. *)
Mux == mode \notin {"plain", "ws"}

(* AfterFunc: f is started at once if ctx is done already. *)
AfterFunc == IF ctx = "done" THEN "started" ELSE "armed"

(* The function AfterFunc returned. *)
Stop(h) == IF h = "armed" THEN "stopped" ELSE h

(* min(max(2*delay, minAcceptDelay), maxAcceptDelay) *)
NextDelay(d) ==
    LET e == IF 2 * d > MinDelay THEN 2 * d ELSE MinDelay
    IN  IF e < MaxDelay THEN e ELSE MaxDelay
-----------------------------------------------------------------------------
(* serveTCP, serveKCP, serveStealth, serveControl, serveQUIC; only         *)
(* serveWebSocket has its AfterFunc(ctx, srv.Close) before it listens, and *)
(* does not listen once srv is closed (http.ErrServerClosed).              *)

HookFirst(l) ==
    /\ srv[l] = "listen" /\ IsHttp(l) /\ hook[l] = "none"
    /\ hook' = [hook EXCEPT ![l] = AfterFunc]
    /\ UNCHANGED <<runVars, srv, ln, delay, failed, connVars, stmVars>>

Listen(l) ==
    /\ srv[l] = "listen"
    /\ IF IsHttp(l)
         THEN hook[l] \notin {"none", "ran"} /\ UNCHANGED hook
         ELSE hook' = [hook EXCEPT ![l] = IF IsQuic(l) THEN "none" ELSE AfterFunc]
    /\ ln' = [ln EXCEPT ![l] = "open"]
    /\ srv' = [srv EXCEPT ![l] = "accept"]
    /\ UNCHANGED <<runVars, delay, failed, connVars, stmVars>>

ListenFails(l) ==
    /\ srv[l] = "listen" /\ (IsHttp(l) => hook[l] \notin {"none", "ran"})
    /\ failed' = [failed EXCEPT ![l] = TRUE]
    /\ hook' = [hook EXCEPT ![l] = Stop(@)]
    /\ srv' = [srv EXCEPT ![l] = "sent"]
    /\ UNCHANGED <<runVars, ln, delay, connVars, stmVars>>

ListenRefused(l) ==
    /\ srv[l] = "listen" /\ IsHttp(l) /\ hook[l] = "ran"
    /\ srv' = [srv EXCEPT ![l] = "stop"]
    /\ UNCHANGED <<runVars, ln, hook, delay, failed, connVars, stmVars>>

(* Accept returns a connection, and go handle(conn). *)
Accept(l, c) ==
    /\ srv[l] = "accept" /\ ln[l] = "open" /\ hpc[c] = "none"
    /\ kind' = [kind EXCEPT ![c] = l]
    /\ sock' = [sock EXCEPT ![c] = "open"]
    /\ hpc'  = [hpc EXCEPT ![c] = IF Upgrades(l) THEN "upgrade" ELSE "start"]
    /\ delay' = [delay EXCEPT ![l] = 0]
    /\ UNCHANGED <<runVars, srv, ln, hook, failed, chook, defers, stmVars>>

(* Accept fails although the listener was not closed.  ctx.Err() does not  *)
(* report that ctx is done before all its AfterFuncs have been started.    *)
(* net/http knows nothing of ctx, and retries only what is temporary.      *)
AcceptFails(l) ==
    /\ srv[l] = "accept" /\ ~IsQuic(l)
    /\ ln[l] = "open" \/ (ln[l] = "broken" /\ ~IsHttp(l))
    /\ IF ctx = "done" /\ ~IsHttp(l)
         THEN hook[l] # "armed" /\ srv' = [srv EXCEPT ![l] = "stop"] /\ UNCHANGED delay
         ELSE /\ srv' = [srv EXCEPT ![l] = "delay"]
              /\ delay' = [delay EXCEPT ![l] = NextDelay(@)]
    /\ UNCHANGED <<runVars, ln, hook, failed, connVars, stmVars>>

(* The listener was closed. *)
AcceptClosed(l) ==
    /\ srv[l] = "accept" /\ ln[l] = "closed"
    /\ srv' = [srv EXCEPT ![l] = "stop"]
    /\ UNCHANGED <<runVars, ln, hook, delay, failed, connVars, stmVars>>

(* The select after an error: the delay is over, or ctx is done. *)
DelayEnds(l) ==
    /\ srv[l] = "delay"
    /\ \/ srv' = [srv EXCEPT ![l] = "accept"]
       \/ ctx = "done" /\ ~IsHttp(l) /\ srv' = [srv EXCEPT ![l] = "stop"]
    /\ UNCHANGED <<runVars, ln, hook, delay, failed, connVars, stmVars>>

(* net/http gives up on any other error and closes the listener; whether   *)
(* ctx is done, it does not ask.                                           *)
HTTPFails(l) ==
    /\ srv[l] = "accept" /\ IsHttp(l) /\ ln[l] = "broken"
    /\ failed' = [failed EXCEPT ![l] = TRUE]
    /\ ln' = [ln EXCEPT ![l] = "closed"]
    /\ srv' = [srv EXCEPT ![l] = "stop"]
    /\ UNCHANGED <<runVars, hook, delay, connVars, stmVars>>

(* AcceptLoop is over, and its delay with it; the deferred stop function;  *)
(* the result is sent to errs.                                             *)
LoopReturns(l) ==
    /\ srv[l] = "stop"
    /\ hook' = [hook EXCEPT ![l] = Stop(@)]
    /\ delay' = [delay EXCEPT ![l] = 0]
    /\ srv' = [srv EXCEPT ![l] = "sent"]
    /\ UNCHANGED <<runVars, ln, failed, connVars, stmVars>>

(* serveQUIC: Accept fails, because ctx is done or for good; the listener  *)
(* is closed by a defer.                                                   *)
QUICReturns(l) ==
    /\ srv[l] = "accept" /\ IsQuic(l)
    /\ ctx = "done" \/ ln[l] = "broken"
    /\ failed' = [failed EXCEPT ![l] = ctx = "live"]
    /\ ln' = [ln EXCEPT ![l] = "closed"]
    /\ srv' = [srv EXCEPT ![l] = "sent"]
    /\ UNCHANGED <<runVars, hook, delay, connVars, stmVars>>

(* ctx is done, and its AfterFunc is started; it closes the listener. *)
ListenerHook(l) ==
    /\ \/ hook[l] = "armed" /\ ctx = "done"
          /\ hook' = [hook EXCEPT ![l] = "started"] /\ UNCHANGED ln
       \/ hook[l] = "started"
          /\ hook' = [hook EXCEPT ![l] = "ran"]
          /\ ln' = [ln EXCEPT ![l] = IF @ = "none" THEN @ ELSE "closed"]
    /\ UNCHANGED <<runVars, srv, delay, failed, connVars, stmVars>>

(* The socket under the listener fails for good. *)
ListenerBreaks(l) ==
    /\ ln[l] = "open"
    /\ ln' = [ln EXCEPT ![l] = "broken"]
    /\ UNCHANGED <<runVars, srv, hook, delay, failed, connVars, stmVars>>
-----------------------------------------------------------------------------
(* server.Run *)

(* Bug: the other listener is not told. *)
FirstResultKept(l) ==
    /\ main = "first" /\ srv[l] = "sent"
    /\ srv' = [srv EXCEPT ![l] = "received"]
    /\ err' = failed[l]
    /\ main' = IF mode = "stealth" THEN "returned" ELSE "rest"
    /\ UNCHANGED <<mode, ctx, ln, hook, delay, failed, connVars, stmVars>>

(* first := <-errs; cancel() *)
FirstResult(l) ==
    /\ main = "first" /\ srv[l] = "sent"
    /\ srv' = [srv EXCEPT ![l] = "received"]
    /\ err' = failed[l]
    /\ ctx' = "done"
    /\ main' = IF mode = "stealth" THEN "returned" ELSE "rest"
    /\ UNCHANGED <<mode, ln, hook, delay, failed, connVars, stmVars>>

(* Bug: the last result replaces the first. *)
LastResultOnly(l) ==
    /\ main = "rest" /\ srv[l] = "sent"
    /\ srv' = [srv EXCEPT ![l] = "received"]
    /\ err' = failed[l]
    /\ main' = "returned"
    /\ UNCHANGED <<mode, ctx, ln, hook, delay, failed, connVars, stmVars>>

(* first = errors.Join(first, <-errs) *)
LastResult(l) ==
    /\ main = "rest" /\ srv[l] = "sent"
    /\ srv' = [srv EXCEPT ![l] = "received"]
    /\ err' = (err \/ failed[l])
    /\ main' = "returned"
    /\ UNCHANGED <<mode, ctx, ln, hook, delay, failed, connVars, stmVars>>

(* SIGTERM. *)
Cancel ==
    /\ ctx = "live"
    /\ ctx' = "done"
    /\ UNCHANGED <<mode, main, err, lnVars, connVars, stmVars>>
-----------------------------------------------------------------------------
(* handleConn, serveQUICConn and handleControl, and what comes before *)

(* A data connection of QUIC is handled by serveQUICConn, of the other     *)
(* protocols by handleConn.                                                *)
InHandleConn(c) == kind[c] = "data" /\ mode # "quic"

Goto(c, l) == hpc' = [hpc EXCEPT ![c] = l]

(* The upgrade or the ShadowTLS handshake is over. *)
Upgraded(c) ==
    /\ hpc[c] = "upgrade" /\ sock[c] = "open"
    /\ Goto(c, "start")
    /\ UNCHANGED <<runVars, lnVars, kind, sock, chook, defers, stmVars>>

(* No upgrade: the request is another one, late, or broken off, or srv is  *)
(* closed; no valid ClientHello: the web site answered, and is done.       *)
UpgradeEnds(c) ==
    /\ hpc[c] = "upgrade"
    /\ sock' = [sock EXCEPT ![c] = "closed"]
    /\ Goto(c, "done")
    /\ UNCHANGED <<runVars, lnVars, kind, chook, defers, stmVars>>

(* Bug: the connection is not tied to ctx. *)
HandlerStartsUntied(c) ==
    /\ hpc[c] = "start"
    /\ defers' = [defers EXCEPT ![c] = IF InHandleConn(c) THEN {"stop"} ELSE {"close"}]
    /\ Goto(c, "auth")
    /\ UNCHANGED <<runVars, lnVars, kind, sock, chook, stmVars>>

(* The handler's goroutine runs.  handleConn ties the connection to ctx    *)
(* and defers the stop function; the other two defer the closing.          *)
HandlerStarts(c) ==
    /\ hpc[c] = "start"
    /\ chook'  = [chook EXCEPT ![c] = IF InHandleConn(c) THEN AfterFunc ELSE "none"]
    /\ defers' = [defers EXCEPT ![c] = IF InHandleConn(c) THEN {"stop"} ELSE {"close"}]
    /\ Goto(c, "auth")
    /\ UNCHANGED <<runVars, lnVars, kind, sock, stmVars>>

(* ServerHandshake succeeds; a control connection is sent the settings; an *)
(* smux session begins, whose Close is deferred and closes the connection. *)
Authenticated(c) ==
    /\ hpc[c] = "auth" /\ sock[c] = "open"
    /\ defers' = [defers EXCEPT ![c] = IF InHandleConn(c) /\ Mux THEN @ \cup {"close"} ELSE @]
    /\ Goto(c, "serve")
    /\ UNCHANGED <<runVars, lnVars, kind, sock, chook, stmVars>>

(* Bug: the rejected connection is not closed. *)
RejectedOpen(c) ==
    /\ hpc[c] = "auth"
    /\ Goto(c, "return")
    /\ UNCHANGED <<runVars, lnVars, kind, sock, chook, defers, stmVars>>

(* The handshake fails or times out, or the announcement or smux.Server does. *)
Rejected(c) ==
    /\ hpc[c] = "auth"
    /\ Goto(c, IF InHandleConn(c) THEN "reject" ELSE "return")
    /\ UNCHANGED <<runVars, lnVars, kind, sock, chook, defers, stmVars>>

(* handleConn gives up on the connection: conn.Close(); return. *)
RejectCloses(c) ==
    /\ hpc[c] = "reject"
    /\ sock' = [sock EXCEPT ![c] = "closed"]
    /\ Goto(c, "return")
    /\ UNCHANGED <<runVars, lnVars, kind, chook, defers, stmVars>>

(* A stream: AcceptStream, or the connection itself for a protocol without *)
(* multiplexing.                                                           *)
StreamStarts(c, x) ==
    /\ hpc[c] = "serve" /\ kind[c] = "data" /\ stm[x] = "none"
    /\ Mux => sock[c] = "open"
    /\ of'  = [of EXCEPT ![x] = c]
    /\ end' = [end EXCEPT ![x] = "open"]
    /\ stm' = [stm EXCEPT ![x] = IF mode = "quic" THEN "marker" ELSE "dial"]
    /\ IF Mux THEN UNCHANGED hpc ELSE Goto(c, "relay")
    /\ UNCHANGED <<runVars, lnVars, kind, sock, chook, defers, target>>

(* AcceptStream fails, or the copy of handleControl ends: the connection   *)
(* was lost or closed; QUIC also looks at ctx.                             *)
SessionEnds(c) ==
    /\ hpc[c] = "serve" /\ (kind[c] = "data" => Mux)
    /\ sock[c] # "open" \/ (IsQuic(kind[c]) /\ ctx = "done")
    /\ Goto(c, "return")
    /\ UNCHANGED <<runVars, lnVars, kind, sock, chook, defers, stmVars>>

(* The handler returns: its deferred calls, the last one deferred first. *)
DeferredClose(c) ==
    /\ hpc[c] = "return" /\ "close" \in defers[c]
    /\ sock'   = [sock EXCEPT ![c] = "closed"]
    /\ defers' = [defers EXCEPT ![c] = @ \ {"close"}]
    /\ Goto(c, IF "stop" \in defers[c] THEN "return" ELSE "done")
    /\ UNCHANGED <<runVars, lnVars, kind, chook, stmVars>>

DeferredStop(c) ==
    /\ hpc[c] = "return" /\ defers[c] = {"stop"}
    /\ chook'  = [chook EXCEPT ![c] = Stop(@)]
    /\ defers' = [defers EXCEPT ![c] = {}]
    /\ Goto(c, "done")
    /\ UNCHANGED <<runVars, lnVars, kind, sock, stmVars>>

(* ctx is done, and handleConn's AfterFunc is started; it closes conn. *)
ConnHook(c) ==
    /\ \/ chook[c] = "armed" /\ ctx = "done"
          /\ chook' = [chook EXCEPT ![c] = "started"] /\ UNCHANGED sock
       \/ chook[c] = "started"
          /\ chook' = [chook EXCEPT ![c] = "ran"] /\ sock' = [sock EXCEPT ![c] = "closed"]
    /\ UNCHANGED <<runVars, lnVars, kind, hpc, defers, stmVars>>

PeerLeaves(c) ==
    /\ sock[c] = "open"
    /\ sock' = [sock EXCEPT ![c] = "lost"]
    /\ UNCHANGED <<runVars, lnVars, kind, hpc, chook, defers, stmVars>>
-----------------------------------------------------------------------------
(* handleQUICStream and handleStream *)

MarkerRead(x) ==
    /\ stm[x] = "marker" /\ sock[of[x]] = "open"
    /\ stm' = [stm EXCEPT ![x] = "dial"]
    /\ UNCHANGED <<runVars, lnVars, connVars, of, end, target>>

(* Another byte, the end of the stream, or the connection is gone. *)
MarkerMissing(x) ==
    /\ stm[x] = "marker"
    /\ stm' = [stm EXCEPT ![x] = "close"]
    /\ UNCHANGED <<runVars, lnVars, connVars, of, end, target>>

TargetDialed(x) ==
    /\ stm[x] = "dial"
    /\ target' = [target EXCEPT ![x] = "open"]
    /\ stm' = [stm EXCEPT ![x] = "pipe"]
    /\ UNCHANGED <<runVars, lnVars, connVars, of, end>>

TargetFails(x) ==
    /\ stm[x] = "dial"
    /\ stm' = [stm EXCEPT ![x] = "close"]
    /\ UNCHANGED <<runVars, lnVars, connVars, of, end, target>>

(* Both directions of Pipe are over; when, is the business of StreamRelay. *)
PipeReturns(x) ==
    /\ stm[x] = "pipe"
    /\ stm' = [stm EXCEPT ![x] = "unwind"]
    /\ UNCHANGED <<runVars, lnVars, connVars, of, end, target>>

(* Pipe's deferred b.Close(). *)
TargetCloses(x) ==
    /\ stm[x] = "unwind"
    /\ target' = [target EXCEPT ![x] = "closed"]
    /\ stm' = [stm EXCEPT ![x] = "close"]
    /\ UNCHANGED <<runVars, lnVars, connVars, of, end>>

(* Pipe's deferred a.Close(), or st.Close() after an error.  Without       *)
(* multiplexing that is the connection, and handleConn returns.            *)
StreamCloses(x) ==
    /\ stm[x] = "close"
    /\ end' = [end EXCEPT ![x] = "closed"]
    /\ stm' = [stm EXCEPT ![x] = "done"]
    /\ IF Mux THEN UNCHANGED <<sock, hpc>>
       ELSE sock' = [sock EXCEPT ![of[x]] = "closed"] /\ Goto(of[x], "return")
    /\ UNCHANGED <<runVars, lnVars, kind, chook, defers, of, target>>
-----------------------------------------------------------------------------
ListenCall(l) == HookFirst(l) \/ Listen(l) \/ ListenFails(l) \/ ListenRefused(l)
LoopStep(l) ==
    AcceptClosed(l) \/ DelayEnds(l) \/ LoopReturns(l) \/ QUICReturns(l) \/ HTTPFails(l)
Result(l) == FirstResult(l) \/ LastResult(l)
Authenticate(c) == Authenticated(c) \/ Rejected(c)
Unwinds(c) == RejectCloses(c) \/ DeferredClose(c) \/ DeferredStop(c)
DialTarget(x) == TargetDialed(x) \/ TargetFails(x)
EndsStream(x) == TargetCloses(x) \/ StreamCloses(x)

Next ==
    \/ \E l \in Listeners :
          \/ ListenCall(l) \/ LoopStep(l) \/ Result(l)
          \/ AcceptFails(l) \/ ListenerHook(l) \/ ListenerBreaks(l)
          \/ \E c \in Conns : Accept(l, c)
    \/ Cancel
    \/ \E c \in Conns :
          \/ Upgraded(c) \/ UpgradeEnds(c)
          \/ HandlerStarts(c) \/ Authenticate(c) \/ SessionEnds(c) \/ Unwinds(c)
          \/ ConnHook(c) \/ PeerLeaves(c)
          \/ \E x \in Streams : StreamStarts(c, x)
    \/ \E x \in Streams :
          \/ MarkerRead(x) \/ MarkerMissing(x) \/ DialTarget(x) \/ PipeReturns(x)
          \/ EndsStream(x)

Spec == Init /\ [][Next]_vars

(* Goroutines run; the handshake has a deadline and the target's dial a    *)
(* timeout.  srv.Close closes what is not upgraded, and after it the       *)
(* header timeout ends a connection that slipped in.  Nothing is assumed   *)
(* of peers, of the web site, of the target or of signals.                 *)
Fairness ==
    /\ \A l \in Listeners :
          /\ WF_vars(ListenCall(l)) /\ WF_vars(LoopStep(l)) /\ WF_vars(Result(l))
          /\ WF_vars(ListenerHook(l)) /\ WF_vars(AcceptFails(l) /\ ln[l] = "broken")
    /\ \A c \in Conns :
          /\ WF_vars(HandlerStarts(c)) /\ WF_vars(Authenticate(c))
          /\ WF_vars(SessionEnds(c)) /\ WF_vars(Unwinds(c)) /\ WF_vars(ConnHook(c))
          /\ WF_vars(UpgradeEnds(c) /\ IsHttp("data") /\ hook["data"] = "ran")
    /\ \A x \in Streams : WF_vars(DialTarget(x)) /\ WF_vars(EndsStream(x))

FairSpec == Spec /\ Fairness
-----------------------------------------------------------------------------
(* A handler gives its connection up, by stopping the AfterFunc or by      *)
(* returning, only when the connection is closed: nobody else would close  *)
(* it.  Each path of handleConn, serveQUICConn and handleControl closes it *)
(* in a place of its own: by a defer, after an error, or through the       *)
(* stream (transport/server.go:134, 162, 172-190, 206; pipe.go:26-27;      *)
(* server.go:90).  A stream that is over has closed both of its ends.      *)
HandlersCleanUp ==
    /\ \A c \in Conns : hpc[c] = "done" \/ chook[c] = "stopped" => sock[c] = "closed"
    /\ \A x \in Streams : stm[x] = "done" => end[x] = "closed" /\ target[x] # "open"

(* The result of Run is an error exactly if a listener failed, whichever   *)
(* of the two ended first (server.go:63-68).                               *)
ErrorReported ==
    main = "returned" => (err <=> \E l \in Listeners : failed[l])

(* A connection that is no tunnel yet and that nobody will close: a        *)
(* stealth server relays it to the web site, or an HTTP server failed,     *)
(* which stops the AfterFunc that would close it.                          *)
Visitor(c) ==
    hpc[c] = "upgrade" /\ (mode = "stealth" \/ hook["data"] = "stopped")

(* "Shutting the server down (SIGTERM) now closes active tunnel            *)
(* connections" (CHANGELOG.md:50), also those accepted or upgraded while   *)
(* it happens, and Run returns.                                            *)
ShutdownCloses ==
    ctx = "done" ~>
        /\ main = "returned"
        /\ \A c \in Conns : kind[c] = "data" => sock[c] = "closed" \/ Visitor(c)

(* "Run serves until ctx is done or either listener fails" (server.go:28). *)
FailureEndsRun ==
    (\E l \in Listeners : failed[l]) ~> main = "returned"
=============================================================================
