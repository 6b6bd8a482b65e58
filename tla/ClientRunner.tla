---------------------------- MODULE ClientRunner ----------------------------
(***************************************************************************)
(* g-tun-client (internal/client): the reconnect loop of Run, one control  *)
(* connection at a time (runControl), the runner that owns the transport   *)
(* (apply, stop) and the goroutine that supervises it.  The server appears *)
(* as the configuration it runs with, which changes when it is restarted,  *)
(* and as the settings it announces (internal/server/server.go).           *)
(*                                                                         *)
(* runner.mu is only ever taken by the goroutine of Run, so it is left     *)
(* out; apply is several steps because stopLocked waits for the transport. *)
(* Every transport is supervised by a goroutine of its own.  The local     *)
(* address is taken while a transport serves, and also by a listener that  *)
(* its tr.Run left behind.                                                 *)
(***************************************************************************)
EXTENDS Integers

CONSTANTS KCPs,            \* KCP parameters
          DefaultKCP,      \* config.DefaultKCP()
          ServerConfigs,   \* the configurations the server may run with
          Statics,         \* what the client may be configured with: settings, or
                           \* Nil, which means that it asks the control port
          Nil,
          Runs,            \* identities of *running values; one whose goroutine has
                           \* ended and that nobody refers to is used again
          MinBackoff, MaxBackoff   \* minBackoff and maxBackoff, in seconds

(* config.Server, as far as the client depends on it; KCP is never nil. *)
ServerConfig == [protocol : STRING, port : Nat, kcp : KCPs]

(* control.Config *)
Config == [protocol : STRING, port : Nat, kcp : KCPs \cup {Nil}]

(* serveControl: the KCP parameters are announced for utcpmux only. *)
Announce(cfg) ==
    [protocol |-> cfg.protocol, port |-> cfg.port,
     kcp |-> IF cfg.protocol = "utcpmux" THEN cfg.kcp ELSE Nil]

(* server.Run: stealth has no control port. *)
HasControl(cfg) == cfg.protocol # "stealth"

ASSUME RunnerAssumption ==
    /\ ServerConfigs \subseteq ServerConfig
    /\ Statics \subseteq Config \cup {Nil}
    /\ DefaultKCP \in KCPs
    /\ Nil \notin KCPs /\ Nil \notin Config /\ Nil \notin Runs
    /\ MinBackoff \in Nat \ {0} /\ MaxBackoff \in Nat /\ MinBackoff <= MaxBackoff

VARIABLES
    static,      \* the settings the client is configured with, or Nil
    ctx,         \* the context of Run: "live" or "done"
    server,      \* the server's configuration
    calm,        \* from now on nothing in the environment fails
    conn,        \* the control connection: "up" or "down"
    main,        \* where Run is
    announced,   \* runControl's announced (static: the configured settings)
    est,         \* runControl's result established
    backoff,     \* Run's backoff
    current,     \* runner.current; Nil when there is none
    settings,    \* running.settings
    cancelled,   \* was running.cancel called?
    sup,         \* where supervise is; "done" when running.done is closed, "none"
                 \* when there is no such running value
    pause,       \* supervise's backoff
    stuck,       \* is the listener of a former tr.Run of this supervise still bound?
    held         \* the networks on which a listener of a supervise that is over is
                 \* still bound

envVars  == <<static, ctx, server, calm>>
mainVars == <<conn, main, announced, est, backoff>>
tranVars == <<current, settings, cancelled, sup, pause, stuck, held>>
vars == <<envVars, mainVars, tranVars>>

(* The values of both backoffs. *)
Backoffs == MinBackoff .. MaxBackoff

TypeOK ==
    /\ static    \in Statics
    /\ ctx       \in {"live", "done"}
    /\ server    \in ServerConfigs
    /\ calm      \in BOOLEAN
    /\ conn      \in {"up", "down"}
    /\ main      \in {"dial", "auth", "apply", "stopping", "build", "hold", "lost",
                      "sleep", "exit", "exiting", "returned"}
    /\ announced \in Config \cup {Nil}
    /\ est       \in BOOLEAN
    /\ backoff   \in Backoffs
    /\ current   \in Runs \cup {Nil}
    /\ settings  \in [Runs -> Config \cup {Nil}]
    /\ cancelled \in [Runs -> BOOLEAN]
    /\ sup       \in [Runs -> {"none", "run", "serving", "sleep", "done"}]
    /\ pause     \in [Runs -> Backoffs]
    /\ stuck     \in [Runs -> BOOLEAN]
    /\ held      \subseteq {"tcp", "udp"}

Init ==
    /\ static \in Statics
    /\ ctx = "live" /\ server \in ServerConfigs /\ calm = FALSE
    /\ conn = "down"
    /\ main = IF static = Nil THEN "dial" ELSE "apply"
    /\ announced = static
    /\ est = FALSE /\ backoff = MinBackoff
    /\ current = Nil /\ held = {}
    /\ settings  = [g \in Runs |-> Nil]
    /\ cancelled = [g \in Runs |-> FALSE]
    /\ sup       = [g \in Runs |-> "none"]
    /\ pause     = [g \in Runs |-> MinBackoff]
    /\ stuck     = [g \in Runs |-> FALSE]

(* min(2*backoff, maxBackoff) *)
Doubled(b) == IF 2 * b < MaxBackoff THEN 2 * b ELSE MaxBackoff

(* Bug: the KCP parameters are not compared. *)
EqualIgnoringKCP(a, b) == a.protocol = b.protocol /\ a.port = b.port

(* Bug: the KCP parameters are compared as pointers. *)
EqualPointers(a, b) == a = b /\ a.kcp = Nil

(* control.Config.Equal *)
Equal(a, b) ==
    /\ a.protocol = b.protocol /\ a.port = b.port
    /\ (a.kcp = Nil) = (b.kcp = Nil)
    /\ a.kcp = Nil \/ a.kcp = b.kcp

(* apply: the KCP parameters in the transport's options. *)
OptsKCP(s) == IF s.kcp # Nil THEN s.kcp ELSE DefaultKCP

(* The context of the transport is done. *)
Stopped(g) == ctx = "done" \/ cancelled[g]

(* client.Run listens on ListenAddress, for datagrams or for connections. *)
Network(s) == IF s.protocol = "udp" THEN "udp" ELSE "tcp"

(* The local address is taken by somebody else than the tr.Run that wants it. *)
Taken(g) ==
    \/ stuck[g] \/ Network(settings[g]) \in held
    \/ \E h \in Runs \ {g} : /\ sup[h] = "serving" \/ stuck[h]
                             /\ Network(settings[h]) = Network(settings[g])
-----------------------------------------------------------------------------
(* runControl *)

ControlDialed ==
    /\ main = "dial" /\ ctx = "live" /\ HasControl(server)
    /\ conn' = "up"
    /\ main' = "auth"
    /\ UNCHANGED <<envVars, announced, est, backoff, tranVars>>

(* Handshake and Receive succeed.  What happens to the connection between  *)
(* the server's send and this read can as well happen after it.            *)
Received ==
    /\ main = "auth" /\ conn = "up"
    /\ announced' = Announce(server)
    /\ main' = "apply"
    /\ UNCHANGED <<envVars, conn, est, backoff, tranVars>>

(* Dialing, authenticating or receiving failed. *)
ControlFailed ==
    /\ main \in {"dial", "auth"}
    /\ calm => ctx = "done" \/ (IF main = "dial" THEN ~HasControl(server) ELSE conn = "down")
    /\ conn' = "down"
    /\ est' = FALSE
    /\ main' = "lost"
    /\ UNCHANGED <<envVars, announced, backoff, tranVars>>

(* Bug: the connection is not closed when ctx is done. *)
HoldEndsDeaf ==
    /\ main = "hold" /\ static = Nil
    /\ conn = "down"
    /\ est' = TRUE
    /\ main' = "lost"
    /\ UNCHANGED <<envVars, conn, announced, backoff, tranVars>>

(* The copy ends: the connection was lost, or closed because ctx is done.  *)
(* A static client only waits for ctx.                                     *)
HoldEnds ==
    /\ main = "hold" /\ static = Nil
    /\ conn = "down" \/ ctx = "done"
    /\ conn' = "down"
    /\ est' = TRUE
    /\ main' = "lost"
    /\ UNCHANGED <<envVars, announced, backoff, tranVars>>

StaticEnds ==
    /\ main = "hold" /\ static # Nil /\ ctx = "done"
    /\ main' = "exit"
    /\ UNCHANGED <<envVars, conn, announced, est, backoff, tranVars>>
-----------------------------------------------------------------------------
(* runner.apply *)

(* These settings are running already. *)
ApplySame ==
    /\ main = "apply"
    /\ current # Nil /\ sup[current] # "done"
    /\ Equal(settings[current], announced)
    /\ main' = "hold"
    /\ UNCHANGED <<envVars, conn, announced, est, backoff, tranVars>>

(* stopLocked cancels what is running, if anything is. *)
ApplyOther ==
    /\ main = "apply"
    /\ IF current = Nil
         THEN main' = "build" /\ UNCHANGED cancelled
         ELSE /\ sup[current] # "done" => ~Equal(settings[current], announced)
              /\ cancelled' = [cancelled EXCEPT ![current] = TRUE]
              /\ main' = "stopping"
    /\ UNCHANGED <<envVars, conn, announced, est, backoff,
                   current, settings, sup, pause, stuck, held>>

(* current is set to nil; nobody refers to a goroutine that is over. *)
Forget ==
    /\ current' = Nil
    /\ IF sup[current] = "done"
         THEN /\ sup'       = [sup EXCEPT ![current] = "none"]
              /\ settings'  = [settings EXCEPT ![current] = Nil]
              /\ cancelled' = [cancelled EXCEPT ![current] = FALSE]
              /\ pause'     = [pause EXCEPT ![current] = MinBackoff]
         ELSE UNCHANGED <<sup, settings, cancelled, pause>>

(* Bug: stopLocked does not wait for supervise. *)
StopEndsAtOnce ==
    /\ main = "stopping"
    /\ Forget
    /\ main' = "build"
    /\ UNCHANGED <<envVars, conn, announced, est, backoff, stuck, held>>

(* stopLocked returns once supervise has. *)
StopEnds ==
    /\ main = "stopping" /\ sup[current] = "done"
    /\ Forget
    /\ main' = "build"
    /\ UNCHANGED <<envVars, conn, announced, est, backoff, stuck, held>>

(* The new transport is built and started. *)
Built(g) ==
    /\ main = "build" /\ sup[g] = "none"
    /\ current' = g
    /\ settings' = [settings EXCEPT ![g] = announced]
    /\ sup' = [sup EXCEPT ![g] = "run"]
    /\ main' = "hold"
    /\ UNCHANGED <<envVars, conn, announced, est, backoff, cancelled, pause, stuck, held>>

(* loadCertPool or NewClient failed; a static client gives up. *)
BuildFailed ==
    /\ main = "build" /\ ~calm
    /\ IF static = Nil
         THEN main' = "lost" /\ est' = FALSE /\ conn' = "down"
         ELSE main' = "exit" /\ UNCHANGED <<est, conn>>
    /\ UNCHANGED <<envVars, announced, backoff, tranVars>>
-----------------------------------------------------------------------------
(* The loop of Run *)

BackoffAfter == IF est THEN MinBackoff ELSE backoff

LoopTurns ==
    /\ main = "lost"
    /\ IF ctx = "done"
         THEN main' = "exit" /\ UNCHANGED backoff
         ELSE main' = "sleep" /\ backoff' = BackoffAfter
    /\ UNCHANGED <<envVars, conn, announced, est, tranVars>>

(* Bug: the loop does not reconnect. *)
SleepEndsTired ==
    /\ main = "sleep" /\ ctx = "done"
    /\ main' = "exit" /\ UNCHANGED backoff
    /\ UNCHANGED <<envVars, conn, announced, est, tranVars>>

SleepEnds ==
    /\ main = "sleep"
    /\ \/ main' = "dial" /\ backoff' = Doubled(backoff)
       \/ ctx = "done" /\ main' = "exit" /\ UNCHANGED backoff
    /\ UNCHANGED <<envVars, conn, announced, est, tranVars>>

(* The deferred r.stop(). *)
ExitBegins ==
    /\ main = "exit"
    /\ IF current = Nil
         THEN main' = "returned" /\ UNCHANGED cancelled
         ELSE main' = "exiting" /\ cancelled' = [cancelled EXCEPT ![current] = TRUE]
    /\ UNCHANGED <<envVars, conn, announced, est, backoff,
                   current, settings, sup, pause, stuck, held>>

ExitEnds ==
    /\ main = "exiting" /\ sup[current] = "done"
    /\ Forget
    /\ main' = "returned"
    /\ UNCHANGED <<envVars, conn, announced, est, backoff, stuck, held>>
-----------------------------------------------------------------------------
(* supervise, and the transport it runs *)

(* tr.Run listens on the local address and serves. *)
TransportServes(g) ==
    /\ sup[g] = "run" /\ ~Taken(g)
    /\ sup' = [sup EXCEPT ![g] = "serving"]
    /\ UNCHANGED <<envVars, mainVars, current, settings, cancelled, pause, stuck, held>>

(* tr.Run cannot listen. *)
ListenFails(g) ==
    /\ sup[g] = "run" /\ ~Stopped(g)
    /\ calm => Taken(g)
    /\ sup' = [sup EXCEPT ![g] = "sleep"]
    /\ UNCHANGED <<envVars, mainVars, current, settings, cancelled, pause, stuck, held>>

(* udp's tr.Run returns an error while it serves, and leaves its listener  *)
(* open; it belongs to the sweeper as long as the context is not done.     *)
(* AcceptLoop, which serves for the other protocols, retries every error.  *)
ReadFails(g) ==
    /\ sup[g] = "serving" /\ ~Stopped(g) /\ ~calm
    /\ settings[g].protocol = "udp"
    /\ sup'   = [sup EXCEPT ![g] = "sleep"]
    /\ stuck' = [stuck EXCEPT ![g] = TRUE]
    /\ UNCHANGED <<envVars, mainVars, current, settings, cancelled, pause, held>>

(* supervise returns.  A listener that was left open waits to be collected. *)
SuperviseEnds(g, left) ==
    /\ Stopped(g)
    /\ sup'   = [sup EXCEPT ![g] = "done"]
    /\ stuck' = [stuck EXCEPT ![g] = FALSE]
    /\ held'  = IF left \/ stuck[g] THEN held \cup {Network(settings[g])} ELSE held
    /\ UNCHANGED <<envVars, mainVars, current, settings, cancelled, pause>>

(* tr.Run returns because its context is done.  When it notices before the *)
(* AfterFunc that closes the listener has begun (in the pause after an     *)
(* accept error, or on a read error), its deferred stop prevents that.     *)
TransportStops(g) ==
    \/ sup[g] = "run" /\ SuperviseEnds(g, FALSE)
    \/ sup[g] = "serving" /\ \E left \in BOOLEAN : SuperviseEnds(g, left)

(* Bug: a transport that failed is not run again. *)
RestartNever(g) ==
    /\ sup[g] = "sleep"
    /\ sup'   = [sup EXCEPT ![g] = "done"]
    /\ stuck' = [stuck EXCEPT ![g] = FALSE]
    /\ UNCHANGED <<envVars, mainVars, current, settings, cancelled, pause, held>>

(* The pause is over, or interrupted because the context is done. *)
Restart(g) ==
    /\ sup[g] = "sleep"
    /\ \/ /\ sup' = [sup EXCEPT ![g] = "run"]
          /\ pause' = [pause EXCEPT ![g] = Doubled(pause[g])]
          /\ UNCHANGED <<envVars, mainVars, current, settings, cancelled, stuck, held>>
       \/ SuperviseEnds(g, FALSE)

(* The garbage collector closes a listener to which nothing refers. *)
Collected(n) ==
    /\ n \in held
    /\ held' = held \ {n}
    /\ UNCHANGED <<envVars, mainVars, current, settings, cancelled, sup, pause, stuck>>
-----------------------------------------------------------------------------
(* The environment *)

Cancel ==
    /\ ctx = "live"
    /\ ctx' = "done"
    /\ UNCHANGED <<static, server, calm, mainVars, tranVars>>

(* The server is restarted, perhaps with another configuration. *)
ServerRestarts(cfg) ==
    /\ ~calm /\ (cfg # server \/ conn = "up")
    /\ server' = cfg
    /\ conn' = "down"
    /\ UNCHANGED <<static, ctx, calm, main, announced, est, backoff, tranVars>>

ConnBreaks ==
    /\ ~calm /\ conn = "up"
    /\ conn' = "down"
    /\ UNCHANGED <<envVars, main, announced, est, backoff, tranVars>>

BecomesCalm ==
    /\ ~calm
    /\ calm' = TRUE
    /\ UNCHANGED <<static, ctx, server, mainVars, tranVars>>

RunControl == ControlDialed \/ Received \/ ControlFailed \/ HoldEnds \/ StaticEnds
Apply      == ApplySame \/ ApplyOther \/ StopEnds \/ (\E g \in Runs : Built(g)) \/ BuildFailed
Loop       == LoopTurns \/ SleepEnds \/ ExitBegins \/ ExitEnds
Main       == RunControl \/ Apply \/ Loop
Listens(g) == TransportServes(g) \/ ListenFails(g)
Supervise(g) == Listens(g) \/ ReadFails(g) \/ TransportStops(g) \/ Restart(g)

Next ==
    \/ Main
    \/ \E g \in Runs : Supervise(g)
    \/ Cancel \/ ConnBreaks \/ BecomesCalm
    \/ \E cfg \in ServerConfigs : ServerRestarts(cfg)
    \/ \E n \in {"tcp", "udp"} : Collected(n)

Spec == Init /\ [][Next]_vars

(* The goroutine of Run and the supervisor run, and their timers fire; a   *)
(* transport whose context is done returns; the runtime collects garbage   *)
(* at least every two minutes.                                             *)
Fairness ==
    /\ WF_vars(Main)
    /\ \A g \in Runs : WF_vars(Listens(g)) /\ WF_vars(TransportStops(g)) /\ WF_vars(Restart(g))
    /\ \A n \in {"tcp", "udp"} : WF_vars(Collected(n))

FairSpec == Spec /\ Fairness
-----------------------------------------------------------------------------
(* "The server pushes it to clients, so both ends always agree on the      *)
(* parameters" (config.go:69-70): while the control connection is up, the  *)
(* transport that runs is the one of the server's present configuration,   *)
(* although the server may be restarted at any point of apply.             *)
ConnectedRunsAnnounced ==
    main = "hold" /\ conn = "up" =>
        /\ current # Nil
        /\ settings[current].protocol = server.protocol
        /\ settings[current].port = server.port
        /\ server.protocol = "utcpmux" => OptsKCP(settings[current]) = server.kcp
        /\ sup[current] = "done" => ctx = "done"

(* apply and stop cancel a transport and wait for its goroutine            *)
(* (runner.go:92-99): two transports never run at once, whatever the old   *)
(* one was doing when the new settings came, and a transport that still    *)
(* runs is the one current refers to, so that somebody can stop it.        *)
OneTransport ==
    /\ \A g \in Runs : sup[g] \in {"run", "serving", "sleep"} => g = current
    /\ main = "returned" => current = Nil

(* "It restarts the transport only when the server announces different     *)
(* settings, so a control reconnection does not interrupt local            *)
(* connections" (runner.go:17-19).                                         *)
KeptAcrossReconnects ==
    [][\A g \in Runs :
          ~cancelled[g] /\ cancelled'[g] =>
             \/ main = "exit"
             \/ announced # settings[g]
             \/ ctx = "done"]_vars

(* "resets its reconnect backoff only after a successful authentication"   *)
(* (CHANGELOG.md:48-49), and then the announced transport is running.      *)
ResetMeansApplied ==
    [][backoff' < backoff => current # Nil /\ settings[current] = announced]_vars

(* Once nothing fails any more, the client ends up serving with the        *)
(* server's settings, whatever state the failures left it in, with one     *)
(* exception: a udp transport that failed while it served with these very  *)
(* settings has left its own address bound and never gets it back          *)
(* (udp.go:51-57, and ListenerReleased of UDPRelay).                       *)
Recovers ==
    static = Nil /\ calm /\ HasControl(server) ~>
        \/ ctx = "done"
        \/ /\ current # Nil /\ settings[current] = Announce(server)
           /\ sup[current] = "serving" \/ stuck[current]

(* "The transport restarts itself with backoff if it fails" (client.go:57). *)
(* That is so of a static client unless its transport cannot be built, or  *)
(* is a udp transport that failed while it served: such a one restarts for *)
(* ever and in vain, as in Recovers.                                       *)
StaticServes ==
    static # Nil /\ calm ~>
        \/ ctx = "done" \/ main = "returned"
        \/ current # Nil /\ (sup[current] = "serving" \/ stuck[current])

(* Run returns after ctx is done and leaves no transport behind. *)
RunReturns == ctx = "done" ~> main = "returned" /\ \A g \in Runs : sup[g] = "none"

(* "both ends always agree on the parameters" (config.go:69-70), for a     *)
(* client that talks to this server whichever way it was configured.       *)
KCPAgrees ==
    \A g \in Runs :
       sup[g] = "serving" /\ settings[g].protocol = "utcpmux" /\ server.protocol = "utcpmux" =>
          OptsKCP(settings[g]) = server.kcp
=============================================================================
