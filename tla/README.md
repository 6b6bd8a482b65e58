# G-Tun: TLA+ models, model checking and proofs

G-Tun tunnels TCP streams or UDP datagrams from a client to a server over one of
several carriers (TCP, WebSocket, KCP, QUIC, ShadowTLS), optionally multiplexed.
This directory models the parts of it where goroutines, timeouts, failures,
restarts and shutdown meet, checks them with TLC and proves their invariants with
TLAPS.

Line numbers refer to `internal/...` of the repository unless another path is given.

## 1. Inventory

| Component | State it keeps | Operations | What makes it correct |
|---|---|---|---|
| session dialer (`transport/session.go`, `client.go`, `quic.go`) | `mu`, `cur`, `closed`; the sessions | `Dial` (two tries), `session`, `discard`, `Close`; called by one handler per local connection | no session leaks, a working session is given up only by a caller whose own open on it failed, the retry is on a fresh one, nothing is open after `Close`, everybody returns |
| UDP relay (`transport/udp.go`) | `sessions` map, `lastSeen`, sockets | `run`, `session`, one `pump` per session, `remove`, `sweep`, `closeAll` | a lookup yields a working session, no socket is orphaned, a fresh session is not deleted, idle ones expire, shutdown completes |
| datagram authentication (`auth/datagram.go`) | none | `SealDatagram`, `OpenDatagram` | only whole datagrams of the other end pass, in the right direction |
| handshake and announcement (`auth/auth.go`, `control/control.go`) | nonces, channel | `ClientHandshake`, `ServerHandshake`, `Send`, `Receive` | both sides agree on each other and on the nonces; settings come from the partner |
| client (`client/client.go`, `client/runner.go`) | control connection, backoff, `current` | `Run`, `runControl`, `runStatic`, `apply`, `stop`, `supervise` | the announced transport runs, survives reconnections, none is started before the previous one has ended, the client recovers and stops |
| stream relay (`netutil/pipe.go`) | two connections, two copies | `Pipe`, `copyHalf` | no byte is lost, EOF comes last; over both relays, replies and requests are complete and both ends are released |
| server (`server/server.go`, `transport/server.go`, `netutil/accept.go`) | listeners, connections, streams | `Run`, `serve*`, `AcceptLoop`, `handleConn`, `serveQUICConn`, `handleControl`, `handleStream` | shutdown closes the tunnel connections, one failed listener ends `Run`, errors are reported, every path closes what it opened |
| configuration, protocol names (`config/config.go`, `proto/proto.go`) | two files | `LoadServer`, `LoadClient`, `validate`, the protocol predicates | what validates can work, and both ends make the same layers of a protocol |
| TLS utilities, commands, installer (`tlsutil`, `cmd/*`, `install.sh`) | `key.pem`, `cert.pem`, the pinned copy | `GenerateSelfSigned`, `ServerConfig`, `PinnedClientConfig`, `main`, `setup_server`, `setup_client` | an interrupted installation is repaired by the next one, a client is always shown the certificate it was given |
| stealth, KCP, WebSocket adapter (`transport/stealth.go`, `kcp.go`, `wsconn.go`) | none of their own | listen, dial, read, write | in part, see section 7 |
| logging | | | not modelled |

How they interact: the installer makes the key pair and writes the configuration
that the commands load. `client.Run` receives the settings from the server's
`handleControl` over a connection opened by the handshake and hands them to the
runner, whose supervised transport listens locally. Each accepted connection asks
the session dialer for a stream and is relayed with `Pipe`; on the server,
`handleConn` or `serveQUICConn` accepts the stream, `handleStream` dials the
target, and another `Pipe` relays it. The udp protocol uses a UDP relay on each
end instead. Cancellation travels by `context`, often through
`context.AfterFunc(ctx, close)`.

What is hard: the dialer holds a mutex while it connects and authenticates; the
sweeper, the pumps and the reader of the UDP relay share sessions whose lifetime
none of them owns; the server may restart between any two steps of the client;
half-close has to be imitated on streams that have none; two relays, one at each
end, decide independently when a flow or a connection is over; connections are
accepted and upgraded while the server shuts down; files are written one after the
other. `PROJECT.json` lists these hazards line by line with the properties that
cover them.

## 2. Modules

| Module | Models | Used by |
|---|---|---|
| `SharedSession` | abstract: at most one open session, none after the end | refined by `SessionDialer` |
| `SessionDialer` | the session dialer, its callers and its carriers | `SessionDialerProofs` |
| `UDPFlows` | abstract: one current socket per peer, closed only when no lookup returns it | refined by `UDPRelay`, instantiated twice by `UDPTunnel` |
| `UDPRelay` | the UDP relay | `UDPRelayProofs` |
| `DatagramService` | abstract: datagrams between applications and target, lost, repeated or overtaken but never changed, mixed or made up | refined by `UDPTunnel` |
| `UDPTunnel` | two relays, the datagram tags and the network between them | `MCUDPTunnel`, `UDPTunnelProofs` |
| `Agreement` | abstract: clients and servers in pairs, and settings of the partner | refined by `Handshake` |
| `Handshake` | handshake and announcement on an arbitrary network | `MCHandshake`, `HandshakeProofs` |
| `ClientRunner` | the client's control loop, runner and supervisor, with a server that restarts | `MCClientRunner`, `ClientRunnerProofs` |
| `StreamRelay` | `Pipe` and the two far ends | `Tunnel`, `TunnelProofs` |
| `Tunnel` | a tunnelled connection: two `StreamRelay`s joined by a stream | `TunnelProofs` |
| `ServerRun` | `server.Run`, accept loops, upgrades, handlers, streams | `ServerRunProofs` |
| `Deployment` | files, installation, processes, protocol layers and dialling of one server and one client | `DeploymentProofs` |

Every module that models code also holds mutated forms of some of its
definitions; they are marked `Bug:` and are not part of the specification. They
name a mistake that the code might have made, and each property of a run is known
to fail under one of them.

**SessionDialer.** A caller is a handler goroutine of `transport/client.go:41-51`.
`pc` follows `Dial`: `lock` (entering `session()`), `dial` and `auth` (connecting
with `mu` held), `open`, `discard`. Critical sections that cannot block are one
step. `sess` gives each session a condition; `stale` is a session whose peer is
gone although `isClosed` does not know yet, which is what the second try of `Dial`
is for. `carrier`, chosen initially from `Carriers`, decides what connecting and
opening look at: smux ignores the context when it opens a stream, KCP ignores it
when it dials, QUIC honours it and waits when `MaxStreams` is reached. An open may
fail on a session that works: with smux at any time (its own open time-out while
writing is stalled, stream ids used up), with QUIC when the context expires. `Dial`
discards the session after any error, so what `LiveSessionKept` says is that nobody
else's session is closed: not one that replaced the failed session meanwhile.

**UDPRelay.** One program counter for `run`, one per pump, one for the sweeper.
The sweeper's walk over the map is step by step with `mu` held; `old` is the set
of sessions with `lastSeen` before the cutoff and shrinks when a session is
touched, because `lastSeen` is atomic and read without `mu` being involved. A
session is identified by its memory, which may be reused when nobody refers to it
any more. The filters `up` and `down` decide whether a datagram is dropped; a
dropped datagram changes nothing.

**UDPFlows, UDPTunnel.** `UDPFlows` is what remains of a relay when goroutines,
locks and clocks are forgotten: sockets are opened for a peer, forgotten, closed.
`UDPTunnel` composes two of them. The client's peers are applications and its
sockets are the server's peers, the server's sockets are what the target sees. The
set `net` holds everything ever sent, so that loss, duplication, delay, reordering
and reflection are all there; datagrams of strangers, who have another token, are
added to it. A payload carries the application it concerns and its size: the write
of a datagram above `MaxUDP` fails, a read into a buffer of `MaxDatagramSize` cuts.
`DatagramService` is what applications and target may rely on: sockets, tags, tokens
and sessions are gone, and what is left is that a request reaches the target whole,
through a socket no other application uses, and a reply only the application it is
for. Of the tokens it keeps whether they are the same (`paired`).

**Handshake.** A nonce is identified with the run that drew it, a tag is a record
that somebody with the token has computed. What a side reads is any combination
of nonces and tags that were ever sent on any connection, so loss, replay,
reordering and misdelivery are all included. `Known` are the settings the client
can decode and validate. `Agreement` has neither nonces nor messages: a client run
trusts a free server run with its token (`ClientHandshake` succeeds), the server then
lets it in, and the client may then apply that server's settings, once, on a control
connection.

**ClientRunner.** `main` follows the goroutine of `Run` through `runControl` and
`apply`. Every `supervise` goroutine that `apply` starts is a member of `Runs` with
its own settings, cancellation, program counter `sup` and pause; `current` is the one
the runner knows. That never two of them are alive is a property (`OneTransport`), not
a matter of the variables. `static` is the static configuration of the client, or
`Nil` for one that asks the control port. `server` is the configuration the server
runs with; `ServerRestarts` may change it at any time and breaks the control
connection. All transports listen on one local address, once for TCP and once for
UDP. A listener may outlive its `Run` in two ways: udp's `run` returns on a read error
without closing it (`stuck`, and the relay's sweeper refers to it until the context is
done), and a `Run` that notices the end of its context by itself, in the pause of
`AcceptLoop` for instance, may disarm the `AfterFunc` that would have closed it
(`held`, until the garbage collector finds it). `Taken` makes the next `Run` fail to
listen meanwhile. `BecomesCalm` marks the moment from which nothing fails any more, so
that recovery can be stated without assuming anything before it.

**StreamRelay, Tunnel.** Bytes are counted, not represented. A side is a
connection with its far end; a side without `CloseWrite` (smux stream, WebSocket)
is closed as a whole on either end. In `Tunnel` the server's relay is `StreamRelay`
itself and the client's an instance of it with variables of its own; what one
relay writes to the stream is what arrives at the other. The target is dialed
while the client is already relaying. `kind` distinguishes a half-closing stream
(TCP, QUIC), an smux stream, and a WebSocket, where closing with unread data makes
TCP send a reset that may break the other direction too.

**ServerRun.** `srv` follows the goroutine of each listener, `hpc` each
connection's handler, `stm` each stream's. The AcceptLoop listeners (`serveTCP`,
`serveKCP`, `serveStealth`, `serveControl`) have one shape and are modelled once;
`serveQUIC` and `serveWebSocket` have their own. `mode`, chosen initially, is the
kind of data protocol. A connection that is being upgraded to a WebSocket, or whose
TLS handshake a stealth server relays to the web site, is at `upgrade`: it belongs
to `net/http` or the ShadowTLS library and not to `handleConn` yet. The closes and
defers of each path are steps of their own: `defers` holds what a handler has deferred
so far (the stop function, the closing of the smux or QUIC session or of the control
connection), a rejected connection is closed by `RejectCloses`, a relayed one by the
deferred calls of `Pipe` (`TargetCloses`, `StreamCloses`); `HandlersCleanUp` says that
together they leave nothing open. A stealth server has no control listener. The udp
protocol has no connections; its server is the `UDPRelay`. `context.AfterFunc` is modelled with its three
moments: armed, started when the context is done, finished; its stop function only
prevents a call that has not started.

**Deployment.** The files of both hosts, the two processes, and what happens when
they meet. A configuration file is a record; a field other than protocol and port
is right or wrong. A port is a text: a number, written plainly or padded (`08080`,
`+8080`). Validation compares the texts of the two ports, as `config.go:143` does;
listening and dialling go by the number. `LoadServer` and `LoadClient` are what the
processes make of a file: the fields they use, or `Nil` when validation fails.
`GenerateBegins` and `GenerateWrites` are the truncations and writes of
`GenerateSelfSigned`; `GenerateFails` ends an installation between them, or within a
write, which leaves a part of a file (`Torn`) that is not empty and does not load.
`ClientReceives` and `ClientApplies` are separate, so that a client may apply the
settings of a server that has been reconfigured meanwhile. The layers of a connection
are sequences, written once from the server's switch (`transport/server.go`) and once
from the client's (`transport/transport.go`, `client.go`); a connection is let in when
they agree up to the handshake, which knows the token only, and what the two ends then
make of it is recorded in `link`.

## 3. Runs

| Run | Shows |
|---|---|
| `session` | callers over KCP, whose dial ignores the context, and over QUIC with one stream per connection: no leak, a working session given up only by a caller whose own open on it failed, retries fresh, refinement of `SharedSession`; `Dial` and `Close` return |
| `udp` | all interleavings of reader, pumps, sweeper and shutdown: no orphan, fresh sessions kept, refinement of `UDPFlows`; shutdown completes, idle sessions expire |
| `udptunnel` | the target gets whole requests only, an application whole replies to itself only, and flows do not mix; refinement of `DatagramService` |
| `handshake` | agreement of both sides and authenticity of the settings; refinement of `Agreement` |
| `runner` | the announced transport runs, is kept, and never starts before the previous one has ended; recovery, service of a static client, termination |
| `tunnel` | nothing a half-closing side sends is lost; a reply or request whose end is seen is complete; over half-closing streams both arrive; both ends are released, also when the path breaks, the target refuses or a side never finishes |
| `server` | whatever path a handler takes through its closes and defers it leaves nothing open; errors are reported, shutdown closes all tunnel connections, a failed listener ends `Run` |
| `deployment` | every pair of files and every order of installation, crash, reconfiguration, restart and application of received settings: same layers on both ends, kept key pairs match, a TLS client is shown the certificate it was given, and what is configured for each other comes up |

The type invariants and some component invariants are proved (section 4) and are
not repeated in the runs.

Runs that show a disagreement between the code and what the repository says of it
(quoted in `PROJECT.json`):

| Run | What the code does |
|---|---|
| `session_quic_streams` | a caller whose context expires, or who is held up by the stream limit, closes the QUIC session others are using |
| `udp_restart` | after a read error the UDP listener stays bound, so the restarted transport cannot listen; `client/client.go:57` and `runner.go:102` say that a transport restarts with backoff if it fails. `Recovers` and `StaticServes` except a udp client in this state |
| `runner_kcp` | a static `utcpmux` client uses the default KCP parameters |
| `tunnel_mux` | a side that is done closes the smux stream as a whole, and bytes the other end had already sent are discarded |

Smaller disagreements met while modelling, which have no run of their own:

* `transport/session.go:89`: callers that waited for a failed attempt dial again, one
  after the other; `CHANGELOG.md:44` says that concurrent callers share one attempt.
* `client/client.go:95`: `runControl` returns false when `apply` fails after the server
  has accepted the client; the comment at line 68 says that it reports acceptance.
* `netutil/pipe.go:43`: when one connection breaks, the other one is only half-closed
  and stays until its far end is done; compare `CHANGELOG.md:46`.
* `netutil/accept.go:26`: a permanent accept error is retried for ever;
  `transport/transport.go:77` says that `Serve` ends on a fatal error.
* `transport/server.go:77`: when the HTTP server fails by itself, the deferred stop
  function disarms the `AfterFunc` that would close it, and connections that are not
  upgraded stay until the process exits (`Visitor` in `ServerRun`).
* `transport/server.go:179`: the handshake authenticates the token and not the
  protocol, so a static client configured with `tcp` is let in by a `tcpmux` server,
  and the two make different things of the connection. `SameLayers` therefore speaks
  of clients that run what the server announces, and does not cover a client with
  settings of before a reconfiguration; that such a state ends is part of
  `TunnelComesUp`.
* `config/config.go:143` compares ports as text: `8080` and `08080` pass as different
  ports and cannot both be bound, so that the service exits and is restarted for ever.
  `TunnelComesUp` excepts such a file (`SpelledTwice`).
* `tlsutil/tlsutil.go:66`: a write of the certificate that fails half-way leaves a file
  that is not empty; `install.sh:246` keeps it, and no TLS server starts until somebody
  removes it (`KeptPairMatches` excludes it).
* `install.sh:246`: on a host with the pasted `cert.pem` of a former client, an
  installation interrupted after the key was written leaves a pair that does not
  match and that every later installation keeps (`KeptPairMatches` excludes it).
* `install.sh:356`: installing a client again keeps a pinned certificate, also when
  the server has a new one.

### Bounds

Safety of the components is proved for every value of the constants, so the
instances are chosen for liveness and for what is only model-checked.

* `Callers = 2`, `Sessions = 3` (session): a session can be replaced twice. When
  sessions are used up, connecting can only fail.
* `Peers = 2`, `Ids = 2`, `Idle = 0` (udp): an old session can still be winding down
  beside its successor, and its memory be used for the other peer; a session is idle
  one tick after it was touched. Memory is reused, so behaviours are not bounded.
* `Apps = 2`, `Addrs = 3`, `Socks = 2` (udptunnel): an application can get a second
  client socket while the first one's datagrams are under way and the other
  application has its own. `Sizes = {0, 3}` with `MaxUDP = 3` and `Overhead = 1`: a
  payload that fits with its tag and one that does not.
* `Clients`, `Servers`: two and three runs, with two tokens; enough for a piece of
  one pair to be replayed to another and for reflection between roles.
* `Runs = 2` (runner): a second `supervise` goroutine can exist beside the current
  one; the code is checked never to use it before the first is done. A goroutine that
  has ended is used again, so behaviours are not bounded.
* `ServerConfigs`: with and without control port, over TCP and over UDP, and differing
  in KCP parameters only; a static client of two kinds, and one that is not static. `MinBackoff`, `MaxBackoff` 3 and 10 s keep one doubling
  below and one at the cap (the code has 3 and 60 s).
* `MaxBytes = 1` (tunnel): each far end sends nothing or something, and it can be at
  every place of the path when the other side is done. What concerns safety, and the
  two facts that progress rests on (section 4), is proved for any number of bytes.
* `Conns`, `Streams` (server): one each beside the two listeners. Connections do not
  share state in the server except `ctx` and the listeners, so one connection meets
  every race there is; that handlers clean up is proved for any number, and so are
  the bounds of the accept delay, which is 1 here.
* `Chosen` (deployment): six of the ten protocols, one of each kind (TCP or UDP, TLS
  or not, one stream or many, with or without control port, and `tcp` beside `tcpmux`,
  which share a carrier). `SameLayers` is proved for all ten.
* `MaxPort = 2`, `Padded = {1}` (deployment): two valid ports, one of which is written
  in two ways, with 0 and 3 out of range. `MaxPairs = 2`: one pair that is interrupted and one that
  replaces it.

The session and deployment runs check for deadlock. The others do not, because
those systems are meant to stop: `Run`, `Pipe` and the relay return, a handshake is
over, sockets are used up.

### Fairness

Weak fairness for the steps of goroutines that do not depend on a peer. Strong
fairness for steps that need a `sync.Mutex` (`SessionCall`, `Discard`, `Close`,
`PumpRemoves`, `CloseAll`): Go's mutex hands itself to a waiter after 1 ms, so
nobody starves. Connecting and opening are fair because each has a deadline
(`dialTimeout`, `handshakeTimeout`, the caller's context); `Expire`, `Tick`,
`SweepStarts`, the sleeps and delays because timers fire. The select of the sweeper
between its ticker and `ctx.Done()` picks at random, hence strong fairness for
`SweepEnds`. In `Tunnel` a broken path is noticed by either end (TCP keep-alive,
smux's and QUIC's idle time-outs) and the target's dial ends (`dialTimeout`). In
`ServerRun` a connection that was not upgraded ends with `srv.Close`. In
`Deployment` systemd starts a server that exited, the client's loops retry, and an
application that wants the tunnel dials again. In `ClientRunner` the garbage
collector closes a listener that nobody refers to any more (the runtime collects at
least every two minutes). `Tunnel` assumes that a write ends: whoever is at the far
side reads what was sent, or the connection breaks. `Pipe` sets no write deadline, so an
application or a target that stops reading for ever and stays connected keeps both
relays; `AllReleased` and `DoneSideReleased` do not speak of it. Nothing else is
assumed of peers, targets, applications, signals or of the network, with exceptions
that are stated in the properties themselves: `Recovers` and `StaticServes` speak of the time after
the environment stopped failing, and not of a udp transport that already keeps its
own listener open, `TunnelComesUp` of the time after the last
reconfiguration, stop and loss.

## 4. Proofs

Eight modules hold theorems, listed in `PROJECT.json`. Each proves an inductive
invariant `IInv` (`InitInv`, `NextInv`, one step per action) and derives the
theorems from it for every value of the constants. They assume only what the
specifications `ASSUME` of their constants.

* `SessionDialerProofs`: the key facts are that `mu` is held exactly by a caller
  that connects, that `cur` is `Nil` meanwhile, and that a session which is open is
  `cur`. A caller in its second try remembers in `got` a session that is not
  current any more. `Refinement` maps every step to a step of `SharedSession` or to
  a stutter: only `Connected`, `ConnectBegins`, `Discard` and `Close` change what
  the abstract specification sees. `WorkingSessionKept` holds for every carrier: whoever
  closes a working session other than `Close` is in `discard` with that session in
  `got`. That the failed open may say nothing about the session, and that others use
  it, is the finding of `session_quic_streams`.
* `UDPRelayProofs`: a session is in exactly one of the places that will close its
  socket (map, `idle`, its pump's last step), and the map holds each session under
  its own peer only. `Refinement` maps the map to `cur` and an open socket to the
  peer it serves: creating a session opens, sweeping and removing forget, and only
  the closes of pumps, sweeper and `closeAll` close.
* `HandshakeProofs`: every tag in circulation was computed by the run whose nonce
  it contains, in the state that run has recorded; labels keep the directions
  apart. `Refinement` adds that settings are only sent and received on control
  connections (`ControlInv`). A client's proof is the abstract `Trust`, the server's
  check of it `Accept`; no other client can be paired with that server run because a
  run answers one nonce only.
* `ClientRunnerProofs`: from the receipt of the settings until the connection is
  lost, `announced` is what the server announces; while holding the connection, the
  settings of `current` equal `announced`. `SupInv` is what makes `OneTransport`
  inductive: a goroutine that has not ended is `current`, and `apply` starts another
  one only where `stopLocked` has waited for the end of the former and forgotten it.
* `TunnelProofs`, one relay (`RelayInv`): conservation (sent = unread + held +
  written + lost on each side); a buffer is full only between a read and its write; a
  side is finished exactly when the copy that wrote to it is over; a copy that ends
  before its source did has lost something (`GaveUp`), and while a half-closing side
  is copied from, what the other one sends arrives (`Drains`). Conservation also
  bounds what is written. The step lemma is proved twice, for `StreamRelay` and for
  its instance `C` on the client.
* `TunnelProofs`, the tunnel (`TunnelInv`): both relays' invariants, and what joins
  them: what has arrived at an end of the stream was written at the other, all of it
  unless the stream broke, and an end of file says that the other end has finished
  (`ToServer`, `ToClient`). Every step of the tunnel is a step of each relay or leaves
  it alone (`BothRelays`, and as a theorem `RunsTwoRelays`), so the relays' lemmas
  apply. `ReplyComplete` and `RequestComplete` then follow by walking back along the
  path: over a half-closing stream from the end of file, otherwise from the fact that
  the side opposite is still being copied from. `NothingBetween` turns "the target has
  all of the request" into "nothing was given up on the way".
* `TunnelProofs`, progress: `NeverStuck` says that a tunnel in which nobody can move
  (`CanMove` collects the guards of the relays' steps) has delivered and released what
  `Delivered`, `AllReleased` and `DoneSideReleased` promise; a deadlock between the two
  relays would violate it. `WorkShrinks` gives a natural number that every step of
  `Relays` decreases: weights for the four places a byte passes, and the stages the
  copies, the pipes and the stream have left. Together they are the argument for the
  liveness properties without fairness itself; the last step, from `CanMove` to
  `ENABLED Relays` and on to "eventually", is left to TLC.
* `ServerRunProofs`: at every point of a handler either the connection is closed or
  one of the calls that are still to come closes it (`CloseInv`: the `Close` of a
  rejection, a deferred one, or that of the stream it is relayed as); a target is open
  only while its stream is relayed or unwinds (`StreamInv`). `err` is what the received
  results say; while `Run` waits for the rest exactly one listener is left.
* `UDPTunnelProofs`: everything in `net` was sealed by one of the two ends and is
  what was asked or answered, whatever concerns one client socket concerns one
  application, and what the target received through an open socket came from the
  client socket it serves. From this, datagrams that open were sent by the other end
  (`OpenedIsRequest`, `OpenedIsReply`), and a reply finds its application although
  the server only knows the socket. `Refinement` maps forwarding on the server to
  `DeliverRequest` and the client's replies to `DeliverReply`, and the expiry of sessions
  to a stutter; the abstract guard, that a socket has heard of one application
  only, is where the invariant about client sockets is needed.
* `DeploymentProofs`: what validation leaves of a file (`LoadedServer`,
  `LoadedClient`), a generated certificate is on disk only with its key, what was
  pinned or loaded is still on disk and will be kept (`CertHeld`), and a connection was
  let in by a listener of the running server with the carrier of the running transport.
  `LayersAgree` then needs that the two switches multiplex the same protocols, that
  only `tcp` and `tcpmux` are dialed as plain TCP (`PlainTCP`), and that a server that
  runs has bound both ports, which the validation of their texts does not guarantee.

## 5. Only model-checked

Liveness under fairness (`DialReturns`, `CloseReturns`, `ShutdownCompletes`,
`IdleExpires`, `Recovers`, `StaticServes`, `RunReturns`, `Delivered`,
`AllReleased`, `DoneSideReleased`, `ShutdownCloses`, `FailureEndsRun`,
`TunnelComesUp`) is outside what the prover supports, and so is checked on the
bounded instances only. For the three of the tunnel, the absence of deadlock and the
variant are proved (section 4). All safety properties of passing runs are proved, the
invariants, the action properties and the four refinements.

## 6. Abstractions

* Messages, payloads and addresses are identities; bytes are counts; time is
  `expired` flags, ages in ticks, or the freedom of an action to happen now.
* Cryptography is symbolic: tags cannot be guessed, nonces do not repeat.
* Logging and error texts are left out; errors are distinguished where the code does.
* `runner.mu` is only taken by one goroutine and is left out.
* `UDPTunnel` does not give a port to another socket while datagrams of its former
  use exist: the code cannot tell the two uses apart, and the kernel picks ephemeral
  ports at random.
* In `Deployment` at most one field of a file is wrong, and all paddings of a port
  are one text. A file of the pair is absent, whole, or a part that does not load.
* `ClientReceives` in `Deployment` is a connection, handshake and receipt that
  succeed; attempts that fail change nothing there and are in `ClientRunner`.

## 7. Not modelled

* The message framing of `wsConn` (`wsconn.go`): `Read` continues a message with the
  next one and `Write` sends one message per call, over a TCP connection that keeps
  their order. It has no state that anybody shares.
* What the parameters of KCP, smux and QUIC do inside those libraries, the ShadowTLS
  and uTLS handshakes, and `net/http` beyond accepting, upgrading and closing.
* Which TLS versions and ciphers are offered; a pinned certificate matches or not.
* `logging`; flags, usage and version output of the commands; what the scripts do to
  packages, the firewall, units and kernel parameters.

## 8. Plan

Done: the modules above, in the order session dialer, UDP relay, handshake, client,
stream relay, server, then the compositions and the abstract relay, then the
deployment; theorems for every safety property, then the end-to-end invariants of
`Tunnel`, the abstract specifications of handshake and datagram service with their
refinements, and the progress facts of `Tunnel`.

Left: progress facts of the same kind (nobody waits for ever, a variant) for the
session dialer, the UDP relay's shutdown and `server.Run`; `wsConn` as functions over
bounded message sequences, checked against concatenation.
