---------------------------- MODULE Deployment ----------------------------
(***************************************************************************)
(* One server host and one client host over their life: the installer     *)
(* makes the key pair, the operator writes configurations, the commands    *)
(* load and validate them, the server announces its protocol, and the      *)
(* client builds a transport and dials.  The server's and the client's     *)
(* layers are taken from two different switch statements; the handshake    *)
(* (module Handshake) knows the token and nothing of the layers above it.  *)
(* A field other than protocol and port is right or wrong, and at most one *)
(* field of a file is wrong; a port is a text for a number, of which 0 and *)
(* MaxPort + 1 stand for the ones out of range.                            *)
(***************************************************************************)
EXTENDS Naturals, Sequences

CONSTANTS
    Chosen,    \* the protocols that operators choose
    MaxPort,   \* the last valid port number (65535 in the code)
    Padded,    \* the ports that some file writes with a leading zero or a sign
    MaxPairs   \* bound on the key pairs the installer generates

ASSUME PortAssumption == MaxPort \in Nat \ {0}
ASSUME PaddedAssumption == Padded \subseteq 1 .. MaxPort
ASSUME PairsAssumption == MaxPairs \in Nat \ {0}

VARIABLES
    cert,     \* cert.pem on the server host
    key,      \* key.pem on the server host
    gen,      \* what GenerateSelfSigned does next
    made,     \* the key pairs generated so far
    conf,     \* the server's validated configuration, or Nil
    serving,  \* the certificate file the server process holds, or Nil
    cconf,    \* the client's validated configuration, or Nil
    pin,      \* cert.pem on the client host
    running,  \* the client's transport, or Nil
    control,  \* the client's control connection is open
    received, \* the settings received on it and not applied yet, or Nil
    link      \* the client's authenticated connection, or Nil

serverVars == <<cert, key, gen, made, conf, serving>>
clientVars == <<cconf, pin, running, control, received, link>>
vars == <<serverVars, clientVars>>

Nil == [none |-> TRUE]
Unset == ""   \* the protocol of a client's file that names none

----------------------------------------------------------------------------
(* Protocol names *)

Protocols == {"tcp", "udp", "ws", "wss", "tcpmux", "wsmux", "wssmux",
              "utcpmux", "quic", "stealth"}
Mux(p) == p \in {"tcpmux", "wsmux", "wssmux", "utcpmux", "stealth"}
WebSocket(p) == p \in {"ws", "wss", "wsmux", "wssmux"}
TLS(p) == p \in {"wss", "wssmux", "quic"}
UDPBased(p) == p \in {"udp", "utcpmux", "quic"}

ASSUME ChosenAssumption == Chosen \subseteq Protocols

----------------------------------------------------------------------------
(* Configuration files.  "wrong" is the field that does not validate; one  *)
(* that is not JSON at all has the protocol "bad".                         *)

\* strconv.Atoi and package net read a padded port like the plain one.
Text(n, padded) == [number |-> n, padded |-> padded]
Ports == {Text(n, FALSE) : n \in 0 .. MaxPort + 1} \cup {Text(n, TRUE) : n \in Padded}
ValidPort(t) == t.number \in 1 .. MaxPort
NoPort == Text(0, FALSE)

ServerFiles == [protocol : Chosen \cup {"bad"}, control : Ports, data : Ports,
                wrong : {"none", "site", "address", "token", "certs", "kcp"}]
ClientFiles == [protocol : Chosen \cup {Unset, "bad"}, control : Ports,
                data : Ports, wrong : {"none", "sni", "host", "address", "token"}]

Right(c, field) == c.wrong # field

\* A file without parameters gets DefaultKCP.
KCPValid(c) == Right(c, "kcp")

(* Bug: the two ports are not compared. *)
ServerValidUncompared(c) ==
    /\ c.protocol \in Protocols
    /\ ValidPort(c.data)
    /\ c.protocol # "stealth" => ValidPort(c.control)
    /\ c.wrong = "none"

ServerValid(c) ==
    /\ c.protocol \in Protocols
    /\ ValidPort(c.data)
    /\ IF c.protocol = "stealth" THEN Right(c, "site") ELSE ValidPort(c.control)
    /\ c.control = c.data => UDPBased(c.protocol)
    /\ Right(c, "address") /\ Right(c, "token")
    /\ TLS(c.protocol) => Right(c, "certs")
    /\ KCPValid(c)

ClientValid(c) ==
    /\ IF c.protocol # Unset
       THEN /\ c.protocol \in Protocols
            /\ ValidPort(c.data)
            /\ c.protocol = "stealth" => Right(c, "sni")
       ELSE ValidPort(c.control)
    /\ Right(c, "host") /\ Right(c, "address") /\ Right(c, "token")

\* What a process makes of its file: the fields it goes on to use, or Nil
\* when the file does not validate and the process exits.
LoadServer(c) ==
    IF ServerValid(c)
    THEN [protocol |-> c.protocol, data |-> c.data,
          control |-> IF c.protocol = "stealth" THEN NoPort ELSE c.control]
    ELSE Nil
LoadClient(c) ==
    IF ClientValid(c)
    THEN [protocol |-> c.protocol,
          control |-> IF c.protocol = Unset THEN c.control ELSE NoPort,
          data |-> IF c.protocol = Unset THEN NoPort ELSE c.data]
    ELSE Nil
ServerConfigs == {LoadServer(c) : c \in ServerFiles}
ClientConfigs == {LoadClient(c) : c \in ClientFiles}

----------------------------------------------------------------------------
(* The key pair.  A file is missing or empty (0), holds the pair number n, *)
(* a part of a key or a certificate, or, for a host that was a client      *)
(* before, a certificate pasted there.                                     *)

Pasted == MaxPairs + 1
Torn == MaxPairs + 2
Pairs == 1 .. MaxPairs

(* Bug: and for or; the pair is made anew every time. *)
KeptEither == cert # 0 \/ key # 0
KeptNever == FALSE

\* install.sh: a pair with both files non-empty is kept.
Kept == cert # 0 /\ key # 0

\* os.WriteFile truncates the key file before it writes it.
GenerateBegins ==
    /\ gen = "idle" /\ ~Kept /\ made < MaxPairs
    /\ made' = made + 1
    /\ key' = 0
    /\ gen' = "key"
    /\ UNCHANGED <<cert, conf, serving, clientVars>>

GenerateWrites ==
    \/ /\ gen = "key"
       /\ key' = made /\ gen' = "keyed"
       /\ UNCHANGED <<cert, made, conf, serving, clientVars>>
    \/ /\ gen = "keyed"
       /\ cert' = 0 /\ gen' = "cert"
       /\ UNCHANGED <<key, made, conf, serving, clientVars>>
    \/ /\ gen = "cert"
       /\ cert' = made /\ gen' = "idle"
       /\ UNCHANGED <<key, made, conf, serving, clientVars>>

\* A crash, a full disk: what is written stays, perhaps a part of what
\* WriteFile was given, and the installer ends.
GenerateFails ==
    /\ gen # "idle"
    /\ gen' = "idle"
    /\ key' \in IF gen = "key" THEN {key, Torn} ELSE {key}
    /\ cert' \in IF gen = "cert" THEN {cert, Torn} ELSE {cert}
    /\ UNCHANGED <<made, conf, serving, clientVars>>

----------------------------------------------------------------------------
(* Layers both ends share *)

\* tls.LoadX509KeyPair: both files are complete, and they match.
PairLoads == cert = key /\ cert \in Pairs

tlsLayer(p) == IF TLS(p) THEN <<"tls">> ELSE <<>>
alpn(p) == IF p = "quic" THEN <<"h3">> ELSE <<>>
kcpLayer == <<"udp", "kcp">>

----------------------------------------------------------------------------
(* The server *)

serveStealth == <<"tcp", "shadowtls">>

\* The layers of the data listener, outermost first: what Serve runs for a
\* protocol, and what handleConn puts on an authenticated connection.
ServerCarrier(p) ==
    CASE p \in {"tcp", "tcpmux"} -> <<"tcp">>
      [] p \in {"ws", "wss", "wsmux", "wssmux"} ->
             <<"tcp">> \o tlsLayer(p) \o <<"http", p>>
      [] p = "utcpmux" -> kcpLayer
      [] p = "quic" -> <<"udp">> \o tlsLayer(p) \o alpn(p)
      [] p = "udp" -> <<"udp", "datagrams">>
      [] p = "stealth" -> serveStealth
ServerStreams(p) == IF Mux(p) THEN "smux" ELSE "one"

Listeners(c) ==
    {[port |-> c.data.number, carrier |-> ServerCarrier(c.protocol),
      streams |-> ServerStreams(c.protocol)]}
    \cup (IF c.protocol = "stealth" THEN {}
          ELSE {[port |-> c.control.number, carrier |-> <<"tcp">>, streams |-> "settings"]})

\* A port is bound once for TCP and once for UDP.
CanListen(c) ==
    \A l, m \in Listeners(c) :
        l # m => l.port # m.port \/ Head(l.carrier) # Head(m.carrier)

\* What the process holds of a file: TLS servers load the pair at the start.
NoFile == 0

ServerDown ==
    /\ serving # Nil
    /\ serving' = Nil
    /\ control' = FALSE
    /\ link' = Nil
    /\ UNCHANGED <<cert, key, gen, made, conf, cconf, pin, running, received>>

\* An editor or the installer writes another file.
ServerConfigure(c) ==
    /\ serving = Nil /\ c # conf
    /\ conf' = c
    /\ UNCHANGED <<cert, key, gen, made, serving, clientVars>>

\* systemd starts the process again until it stays up: the pair loads and
\* matches, and both listeners bind.
ServerStarts ==
    /\ serving = Nil /\ conf # Nil
    /\ TLS(conf.protocol) => PairLoads
    /\ CanListen(conf)
    /\ serving' = [cert |-> IF TLS(conf.protocol) THEN cert ELSE NoFile]
    /\ UNCHANGED <<cert, key, gen, made, conf, clientVars>>

Announced == [protocol |-> conf.protocol, port |-> conf.data]

----------------------------------------------------------------------------
(* The client *)

dialStealth == <<"tcp", "shadowtls">>

ClientCarrier(p) ==
    CASE p = "udp" -> <<"udp", "datagrams">>
      [] p = "quic" -> <<"udp">> \o tlsLayer(p) \o alpn(p)
      [] WebSocket(p) -> <<"tcp">> \o tlsLayer(p) \o <<"http", p>>
      [] p = "stealth" -> dialStealth
      [] p = "utcpmux" -> kcpLayer
      [] OTHER -> <<"tcp">>

(* Bug: multiplexing is chosen for the TCP carriers only. *)
ClientStreamsPlain(p) == IF Mux(p) /\ ~UDPBased(p) THEN "smux" ELSE "one"

ClientStreams(p) == IF p # "quic" /\ Mux(p) THEN "smux" ELSE "one"

\* NewClient: a TLS transport keeps the certificate it read; a file without
\* a protocol names no SNI.
Transport(s) == [settings |-> s, pin |-> IF TLS(s.protocol) THEN pin ELSE NoFile]
NewClientFails(s) ==
    \/ TLS(s.protocol) /\ pin = 0
    \/ s.protocol = "stealth" /\ cconf.protocol = Unset

\* runner.apply: equal settings keep the running transport; otherwise it is
\* stopped first, and nothing runs when the new one cannot be made.
Same(s) == running # Nil /\ running.settings = s
apply(s) ==
    \/ Same(s) /\ UNCHANGED <<running, link>>
    \/ /\ ~Same(s)
       /\ link' = Nil
       /\ running' = IF NewClientFails(s) THEN Nil ELSE Transport(s)

ClientDown ==
    /\ cconf # Nil /\ (running # Nil \/ control \/ received # Nil)
    /\ running' = Nil /\ control' = FALSE /\ received' = Nil /\ link' = Nil
    /\ UNCHANGED <<serverVars, cconf, pin>>

\* The installer asks for the certificate the server's installer printed,
\* when the client has none, and refuses what is no certificate.
ClientPins ==
    /\ pin = 0 /\ running = Nil /\ ~control /\ received = Nil
    /\ gen = "idle" /\ cert \notin {0, Torn} /\ key # 0
    /\ pin' = cert
    /\ UNCHANGED <<serverVars, cconf, running, control, received, link>>

ClientConfigure(c) ==
    /\ running = Nil /\ ~control /\ received = Nil /\ c # cconf
    /\ cconf' = c
    /\ UNCHANGED <<serverVars, pin, running, control, received, link>>

\* runStatic: the settings of the file, and no control connection.
ClientStatic ==
    /\ cconf # Nil /\ cconf.protocol # Unset /\ running = Nil
    /\ apply([protocol |-> cconf.protocol, port |-> cconf.data])
    /\ UNCHANGED <<serverVars, cconf, pin, control, received>>

\* runControl: connect and receive the announcement of the server at the
\* other end.
ClientReceives ==
    /\ cconf # Nil /\ cconf.protocol = Unset /\ ~control /\ received = Nil
    /\ serving # Nil /\ conf.protocol # "stealth"
    /\ conf.control.number = cconf.control.number
    /\ control' = TRUE
    /\ received' = Announced
    /\ UNCHANGED <<serverVars, cconf, pin, running, link>>

\* runControl: apply what was received, also when the connection is gone or
\* the server is another one by now.  When apply fails the connection is
\* closed and made again after a pause.
ClientApplies ==
    /\ received # Nil
    /\ apply(received)
    /\ control' = (control /\ running' # Nil)
    /\ received' = Nil
    /\ UNCHANGED <<serverVars, cconf, pin>>

\* A TCP connection carrying nothing breaks while both ends live.
ControlLost ==
    /\ control
    /\ control' = FALSE
    /\ UNCHANGED <<serverVars, cconf, pin, running, received, link>>

\* The server shows exactly the certificate the transport was made with.
VerifyConnection == serving.cert = running.pin

\* The carrier reaches whatever listens on the port, and is authenticated
\* when both ends make the same layers of it; TLS needs the pinned
\* certificate.  Only the streams on top are taken for granted.
Dial ==
    /\ running # Nil /\ link = Nil /\ serving # Nil
    /\ \E l \in Listeners(conf) :
         /\ l.port = running.settings.port.number
         /\ l.carrier = ClientCarrier(running.settings.protocol)
         /\ TLS(running.settings.protocol) => VerifyConnection
         /\ link' = [streams |-> ClientStreams(running.settings.protocol),
                     peer |-> l.streams, pin |-> running.pin]
    /\ UNCHANGED <<serverVars, cconf, pin, running, control, received>>

----------------------------------------------------------------------------
Init ==
    /\ cert \in {0, Pasted} /\ key = 0
    /\ gen = "idle" /\ made = 0
    /\ conf = Nil /\ serving = Nil
    /\ cconf = Nil /\ pin = 0
    /\ running = Nil /\ control = FALSE /\ received = Nil /\ link = Nil

Next ==
    \/ GenerateBegins \/ GenerateWrites \/ GenerateFails
    \/ ServerDown \/ ServerStarts
    \/ \E c \in ServerConfigs : ServerConfigure(c)
    \/ ClientDown \/ ClientPins \/ ClientStatic
    \/ ClientReceives \/ ClientApplies
    \/ \E c \in ClientConfigs : ClientConfigure(c)
    \/ ControlLost \/ Dial

Spec == Init /\ [][Next]_vars

\* systemd restarts a server that exits, the client's loops retry for ever
\* and an application that wants the tunnel dials again.
FairSpec ==
    /\ Spec
    /\ WF_vars(ServerStarts)
    /\ WF_vars(ClientStatic) /\ WF_vars(ClientReceives) /\ WF_vars(ClientApplies)
    /\ WF_vars(Dial)

----------------------------------------------------------------------------
Settings == [protocol : Protocols, port : {t \in Ports : ValidPort(t)}]

\* Every variable keeps its type.
TypeOK ==
    /\ cert \in 0 .. Torn /\ key \in 0 .. Torn /\ pin \in 0 .. Torn
    /\ gen \in {"idle", "key", "keyed", "cert"} /\ made \in 0 .. MaxPairs
    /\ conf \in {Nil} \cup [protocol : Protocols, data : Ports, control : Ports]
    /\ cconf \in {Nil} \cup [protocol : Protocols \cup {Unset}, data : Ports, control : Ports]
    /\ serving \in {Nil} \cup [cert : 0 .. Torn]
    /\ running \in {Nil} \cup [settings : Settings, pin : 0 .. Torn]
    /\ control \in BOOLEAN
    /\ received \in {Nil} \cup Settings
    /\ link \in {Nil} \cup [streams : {"one", "smux"}, pin : 0 .. Torn,
                            peer : {"one", "smux", "settings"}]

\* The transport speaks the running server's protocol to its data port, which
\* the client's file may write in another way.
Current ==
    /\ serving # Nil /\ running # Nil
    /\ running.settings.protocol = conf.protocol
    /\ running.settings.port.number = conf.data.number

\* A client that runs what the server announces never reaches the control
\* listener with application data, and the two ends, whose layers come from
\* different switches, always make the same streams of the connection.
SameLayers == link # Nil /\ Current => link.streams = link.peer

\* A certificate that the installer keeps, and that was written whole, goes
\* with the key file beside it, wherever earlier installations stopped, on a
\* host where no client was installed before; otherwise a TLS server never
\* starts again.
KeptPairMatches == gen = "idle" /\ Kept => cert = key \/ cert \in {Pasted, Torn}

\* Whenever a client's TLS transport meets a TLS server, VerifyConnection
\* accepts the certificate: the one was made from the file pinned at some
\* installation of the client, the other loaded at some start of the server,
\* with any reinstallations, finished or not, before, between and after.
PinnedIsServed ==
    serving # Nil /\ running # Nil /\ serving.cert # NoFile /\ running.pin # NoFile
        => VerifyConnection

\* Both ends are configured for each other, and the certificate is pinned.
Paired ==
    /\ conf # Nil /\ cconf # Nil
    /\ IF cconf.protocol = Unset
       THEN conf.protocol # "stealth" /\ cconf.control.number = conf.control.number
       ELSE cconf.protocol = conf.protocol /\ cconf.data.number = conf.data.number
    /\ TLS(conf.protocol) => PairLoads /\ pin = cert

\* Validation compares the two ports as texts: of a TCP protocol it lets
\* through a file that writes one port in two ways, and then the server never
\* comes up.
SpelledTwice ==
    /\ conf.control # conf.data /\ conf.control.number = conf.data.number
    /\ ~UDPBased(conf.protocol)

\* Nobody stops or reconfigures an end and the network is quiet.
Calm ==
    /\ UNCHANGED <<conf, cconf>>
    /\ ~(ServerDown \/ ClientDown \/ ControlLost)

\* Apart from a port that is written in two ways, what validates works: once
\* they are left in peace, ends configured for each other share a tunnel,
\* whatever either of them ran before, also when the client applies the
\* settings of a server that was reconfigured meanwhile.  A pair that an
\* interrupted installation left unusable is no pair of such ends.
TunnelComesUp ==
    <>[][Calm]_vars => <>[](Paired /\ ~SpelledTwice => Current /\ link # Nil)
============================================================================
