-------------------------- MODULE DeploymentProofs --------------------------
(***************************************************************************)
(* Proofs about Deployment, for any protocols that are chosen, any range   *)
(* and writing of ports and any number of key pairs.                       *)
(***************************************************************************)
EXTENDS Deployment, SequenceTheorems, TLAPS

ServerConf == [protocol : Protocols, data : Ports, control : Ports]
ClientConf == [protocol : Protocols \cup {Unset}, data : Ports, control : Ports]
Running == [settings : Settings, pin : 0 .. Torn]
Link == [streams : {"one", "smux"}, pin : 0 .. Torn, peer : {"one", "smux", "settings"}]

(* What validation leaves of a file, and what a running server has shown:  *)
(* that its listeners do not exclude each other.                           *)
Validated ==
    /\ conf # Nil => ValidPort(conf.data)
    /\ cconf # Nil /\ cconf.protocol # Unset => ValidPort(cconf.data)
    /\ serving # Nil => conf # Nil /\ CanListen(conf)

(* A generated certificate is on disk only with its key and while no       *)
(* generation is under way.                                                *)
CertWithKey ==
    /\ cert \in Pairs => gen = "idle" /\ key = cert
    /\ gen # "idle" => made \in Pairs
    /\ gen \in {"keyed", "cert"} => key = made

(* What was pinned, read or loaded is still on disk, and kept there.       *)
CertHeld ==
    /\ pin # 0 => cert = pin /\ key # 0 /\ gen = "idle"
    /\ serving # Nil /\ serving.cert # 0 => cert = serving.cert /\ cert \in Pairs
    /\ running # Nil /\ running.pin # 0 => running.pin = pin

(* A connection was let in by a listener of the running server, on the     *)
(* port and with the carrier of the running transport.                     *)
LetIn ==
    link # Nil =>
        /\ serving # Nil /\ running # Nil
        /\ link.streams = ClientStreams(running.settings.protocol)
        /\ \E l \in Listeners(conf) :
              /\ l.port = running.settings.port.number
              /\ l.carrier = ClientCarrier(running.settings.protocol)
              /\ link.peer = l.streams

(* A control connection has a server at its other end.                     *)
Connected == control => serving # Nil

IInv == TypeOK /\ Validated /\ CertWithKey /\ CertHeld /\ Connected /\ LetIn
-----------------------------------------------------------------------------
(* Nil is none of the records. *)
LEMMA NilIsNone ==
    /\ \A x : x \in ServerConf => x # Nil
    /\ \A x : x \in ClientConf => x # Nil
    /\ \A x : x \in Running => x # Nil
    /\ \A x : x \in Link => x # Nil
    /\ \A x : x \in Settings => x # Nil
    /\ \A n : [cert |-> n] # Nil
<1>1. DOMAIN Nil = {"none"}
  BY DEF Nil
<1>2. \A x : x \in ServerConf => DOMAIN x = {"protocol", "data", "control"}
  BY DEF ServerConf
<1>3. \A x : x \in ClientConf => DOMAIN x = {"protocol", "data", "control"}
  BY DEF ClientConf
<1>4. \A x : x \in Running => DOMAIN x = {"settings", "pin"}
  BY DEF Running
<1>5. \A x : x \in Link => DOMAIN x = {"streams", "pin", "peer"}
  BY DEF Link
<1>6. \A n : DOMAIN [cert |-> n] = {"cert"}
  OBVIOUS
<1>7. \A x : x \in Settings => DOMAIN x = {"protocol", "port"}
  BY DEF Settings
<1> QED BY <1>1, <1>2, <1>3, <1>4, <1>5, <1>6, <1>7

(* The types of the files, with the arithmetic they need. *)
LEMMA FilesTyped ==
    ASSUME TypeOK
    PROVE  /\ cert \in 0 .. Torn /\ key \in 0 .. Torn /\ pin \in 0 .. Torn
           /\ gen \in {"idle", "key", "keyed", "cert"} /\ made \in 0 .. MaxPairs
  BY DEF TypeOK

(* Pasted and Torn are numbers of their own. *)
LEMMA Numbers ==
    /\ Pasted \in Nat /\ Torn \in Nat /\ MaxPairs \in Nat /\ 0 \in 0 .. MaxPairs
    /\ 0 \in 0 .. Torn /\ Pasted \in 0 .. Torn /\ Torn \in 0 .. Torn
    /\ Pasted # 0 /\ Torn # 0 /\ Pasted \notin Pairs /\ Torn \notin Pairs /\ 0 \notin Pairs
    /\ \A n \in Pairs : n # 0 /\ n \in 0 .. MaxPairs
    /\ \A n \in 0 .. MaxPairs : n \in 0 .. Torn /\ (n = 0 \/ n \in Pairs)
    /\ \A n \in 0 .. MaxPairs : n < MaxPairs => n + 1 \in Pairs /\ n + 1 \in 0 .. MaxPairs
    /\ \A n \in 0 .. Torn : n \in Pairs \/ n \in {0, Pasted, Torn}
  BY PairsAssumption DEF Pasted, Torn, Pairs

(* The text that stands for no port is one of the texts. *)
LEMMA NoPortIsText == NoPort \in Ports
<1>1. 0 \in 0 .. MaxPort + 1
  BY PortAssumption
<1> QED BY <1>1 DEF NoPort, Ports

(* What a process goes on with is Nil or validated. *)
LEMMA LoadedServer ==
    ASSUME NEW c \in ServerConfigs
    PROVE  /\ c \in {Nil} \cup ServerConf
           /\ c # Nil => ValidPort(c.data)
<1>1. PICK f \in ServerFiles : c = LoadServer(f)
  BY DEF ServerConfigs
<1>2. CASE ~ServerValid(f)
  BY <1>1, <1>2 DEF LoadServer
<1>3. CASE ServerValid(f)
  <2>1. f.protocol \in Protocols /\ ValidPort(f.data)
    BY <1>3 DEF ServerValid
  <2>2. f.data \in Ports /\ f.control \in Ports
    BY DEF ServerFiles
  <2>3. c = [protocol |-> f.protocol, data |-> f.data,
             control |-> IF f.protocol = "stealth" THEN NoPort ELSE f.control]
    BY <1>1, <1>3 DEF LoadServer
  <2> QED BY <2>1, <2>2, <2>3, NoPortIsText DEF ServerConf
<1> QED BY <1>2, <1>3

(* The same for the client. *)
LEMMA LoadedClient ==
    ASSUME NEW c \in ClientConfigs
    PROVE  /\ c \in {Nil} \cup ClientConf
           /\ c # Nil /\ c.protocol # Unset => ValidPort(c.data)
<1>1. PICK f \in ClientFiles : c = LoadClient(f)
  BY DEF ClientConfigs
<1>2. CASE ~ClientValid(f)
  BY <1>1, <1>2 DEF LoadClient
<1>3. CASE ClientValid(f)
  <2>1. f.protocol # Unset => f.protocol \in Protocols /\ ValidPort(f.data)
    BY <1>3 DEF ClientValid
  <2>2. f.data \in Ports /\ f.control \in Ports
    BY DEF ClientFiles
  <2>3. c = [protocol |-> f.protocol,
             control |-> IF f.protocol = Unset THEN f.control ELSE NoPort,
             data |-> IF f.protocol = Unset THEN NoPort ELSE f.data]
    BY <1>1, <1>3 DEF LoadClient
  <2>4. f.protocol \in Protocols \cup {Unset}
    BY <2>1
  <2>5. CASE f.protocol = Unset
    <3>1. c = [protocol |-> f.protocol, control |-> f.control, data |-> NoPort]
      BY <2>3, <2>5
    <3> QED BY <3>1, <2>2, <2>4, <2>5, NoPortIsText DEF ClientConf
  <2>6. CASE f.protocol # Unset
    <3>1. c = [protocol |-> f.protocol, control |-> NoPort, data |-> f.data]
      BY <2>3, <2>6
    <3>2. ValidPort(f.data)
      BY <2>1, <2>6, Zenon
    <3> QED BY <3>1, <3>2, <2>2, <2>4, NoPortIsText DEF ClientConf
  <2> QED BY <2>5, <2>6
<1> QED BY <1>2, <1>3

(* Only two protocols are dialed as plain TCP, which is what the control   *)
(* listener speaks.                                                        *)
LEMMA PlainTCP ==
    ASSUME NEW p \in Protocols, ClientCarrier(p) = <<"tcp">>
    PROVE  p \in {"tcp", "tcpmux"}
<1> SUFFICES ASSUME p \notin {"tcp", "tcpmux"} PROVE FALSE
  OBVIOUS
<1> DEFINE Names == {"tcp", "udp", "tls", "h3", "http"} \cup Protocols
           w == <<"http", p>>  t == <<"tcp">>  u == <<"udp">>  l == tlsLayer(p)  a == alpn(p)
<1>0. /\ w \in Seq(Names) /\ t \in Seq(Names) /\ u \in Seq(Names)
      /\ l \in Seq(Names) /\ a \in Seq(Names)
      /\ Len(w) = 2 /\ Len(t) = 1 /\ Len(u) = 1 /\ Len(l) \in Nat /\ Len(a) \in Nat
  <2>1. <<"tls">> \in Seq(Names) /\ <<>> \in Seq(Names) /\ <<"h3">> \in Seq(Names)
    OBVIOUS
  <2>2. l \in Seq(Names) /\ a \in Seq(Names)
    BY <2>1 DEF tlsLayer, alpn
  <2>3. w \in Seq(Names) /\ t \in Seq(Names) /\ u \in Seq(Names)
        /\ Len(w) = 2 /\ Len(t) = 1 /\ Len(u) = 1
    OBVIOUS
  <2> HIDE DEF l, a, Names
  <2>4. Len(l) \in Nat /\ Len(a) \in Nat
    BY <2>2
  <2> QED BY <2>2, <2>3, <2>4
<1>1. CASE p \in {"udp", "stealth", "utcpmux"}
  BY <1>1 DEF ClientCarrier, WebSocket, kcpLayer, dialStealth
<1>2. CASE p = "quic"
  <2>1. ClientCarrier(p) = (u \o l) \o a
    BY <1>2 DEF ClientCarrier
  <2>2. l = <<"tls">> /\ a = <<"h3">>
    BY <1>2 DEF tlsLayer, alpn, TLS
  <2>3. Len(l) = 1 /\ Len(a) = 1
    BY <2>2
  <2> HIDE DEF t, u, l, a, w, Names
  <2>4. u \o l \in Seq(Names) /\ Len(u \o l) = 2
    BY <1>0, <2>3, ConcatProperties
  <2>5. Len((u \o l) \o a) = 3
    BY <1>0, <2>3, <2>4, ConcatProperties
  <2>6. Len(ClientCarrier(p)) = 3
    BY <2>1, <2>5
  <2> QED BY <2>6
<1>3. CASE WebSocket(p)
  <2>1. ClientCarrier(p) = (t \o l) \o w
    BY <1>3 DEF ClientCarrier, WebSocket
  <2> HIDE DEF t, u, l, a, w, Names
  <2>2. t \in Seq(Names) /\ l \in Seq(Names) /\ w \in Seq(Names)
    BY <1>0
  <2>3. t \o l \in Seq(Names) /\ Len(t \o l) = Len(t) + Len(l)
    BY <2>2, ConcatProperties, Zenon
  <2>4. Len((t \o l) \o w) = Len(t \o l) + Len(w)
    BY <2>2, <2>3, ConcatProperties, Zenon
  <2>5. Len((t \o l) \o w) = 3 + Len(l)
    BY <2>3, <2>4, <1>0
  <2>6. 3 + Len(l) # 1
    BY <1>0
  <2>7. Len(ClientCarrier(p)) # 1
    BY <2>1, <2>5, <2>6, Zenon
  <2>8. Len(<<"tcp">>) = 1
    OBVIOUS
  <2> QED BY <2>7, <2>8, Zenon
<1> QED BY <1>1, <1>2, <1>3 DEF Protocols, WebSocket

(* Both switches multiplex the same protocols. *)
LEMMA SameStreams ==
    ASSUME NEW p \in Protocols
    PROVE  ClientStreams(p) = ServerStreams(p)
BY DEF ClientStreams, ServerStreams, Mux

(* The layers agree whenever a connection was let in on current settings.  *)
LEMMA LayersAgree == IInv => SameLayers
<1> SUFFICES ASSUME IInv, link # Nil, Current PROVE link.streams = link.peer
  BY DEF SameLayers
<1>1. conf \in ServerConf /\ CanListen(conf)
  BY DEF IInv, TypeOK, Validated, Current, ServerConf
<1>2. running.settings.protocol = conf.protocol
      /\ running.settings.port.number = conf.data.number
  BY DEF Current
<1>3. PICK l \in Listeners(conf) :
        /\ l.port = conf.data.number /\ l.carrier = ClientCarrier(conf.protocol)
        /\ link.peer = l.streams
  BY <1>2 DEF IInv, LetIn
<1>4. link.streams = ClientStreams(conf.protocol) /\ conf.protocol \in Protocols
  BY <1>1, <1>2 DEF IInv, LetIn, ServerConf
<1> DEFINE d == [port |-> conf.data.number, carrier |-> ServerCarrier(conf.protocol),
                 streams |-> ServerStreams(conf.protocol)]
<1>5. CASE l = d
  BY <1>3, <1>4, <1>5, SameStreams
<1>6. CASE conf.protocol # "stealth"
           /\ l = [port |-> conf.control.number, carrier |-> <<"tcp">>, streams |-> "settings"]
  <2>1. l.port = d.port /\ ClientCarrier(conf.protocol) = <<"tcp">> /\ l.carrier = <<"tcp">>
    BY <1>3, <1>6
  <2>2. ServerCarrier(conf.protocol) = <<"tcp">>
    BY <2>1, <1>4, PlainTCP DEF ServerCarrier
  <2>3. d.carrier = l.carrier /\ d.streams # l.streams
    BY <2>1, <2>2, <1>6 DEF ServerStreams
  <2>4. d \in Listeners(conf) /\ l # d
    BY <2>3 DEF Listeners
  <2> QED BY <2>1, <2>3, <2>4, <1>1, <1>3 DEF CanListen
<1> QED BY <1>5, <1>6 DEF Listeners
-----------------------------------------------------------------------------
(* The invariant holds before anything is installed. *)
THEOREM InitInv == Init => IInv
<1> SUFFICES ASSUME Init PROVE IInv
  OBVIOUS
<1>1. TypeOK
  <2>1. /\ cert \in 0 .. Torn /\ key \in 0 .. Torn /\ pin \in 0 .. Torn
        /\ made \in 0 .. MaxPairs
    BY Numbers DEF Init
  <2> QED BY <2>1 DEF Init, TypeOK
<1>2. Validated /\ Connected /\ LetIn /\ CertHeld
  BY DEF Init, Validated, Connected, LetIn, CertHeld
<1>3. CertWithKey
  BY Numbers DEF Init, CertWithKey
<1> QED BY <1>1, <1>2, <1>3 DEF IInv

(* The settings of either source are a transport's settings. *)
LEMMA SettingsOK ==
    ASSUME IInv
    PROVE  /\ serving # Nil => Announced \in Settings
           /\ cconf # Nil /\ cconf.protocol # Unset =>
                [protocol |-> cconf.protocol, port |-> cconf.data] \in Settings
<1>1. ASSUME serving # Nil PROVE Announced \in Settings
  <2>1. conf \in ServerConf /\ ValidPort(conf.data)
    BY <1>1 DEF IInv, TypeOK, Validated, ServerConf
  <2> QED BY <2>1 DEF Announced, ServerConf, Settings
<1>2. ASSUME cconf # Nil, cconf.protocol # Unset
      PROVE  [protocol |-> cconf.protocol, port |-> cconf.data] \in Settings
  <2>1. cconf \in ClientConf
    BY <1>2 DEF IInv, TypeOK, ClientConf
  <2>2. cconf.protocol \in Protocols \cup {Unset} /\ cconf.data \in Ports
    BY <2>1 DEF ClientConf
  <2>3. cconf.protocol \in Protocols
    BY <2>2, <1>2, Zenon
  <2>4. ValidPort(cconf.data)
    BY <1>2, Zenon DEF IInv, Validated
  <2> QED BY <2>2, <2>3, <2>4 DEF Settings
<1> QED BY <1>1, <1>2

(* What apply does to the transport and to its connection. *)
LEMMA Applied ==
    ASSUME IInv, NEW s \in Settings, apply(s)
    PROVE  /\ running' \in {Nil} \cup Running /\ link' \in {Nil} \cup Link
           /\ link' = Nil \/ (UNCHANGED <<running, link>>)
           /\ running' # Nil /\ running'.pin # 0 => running'.pin = pin
<1>1. CASE Same(s) /\ UNCHANGED <<running, link>>
  BY <1>1 DEF IInv, TypeOK, Same, Running, Link, CertHeld
<1>2. CASE link' = Nil /\ running' = IF NewClientFails(s) THEN Nil ELSE Transport(s)
  <2> DEFINE p == IF TLS(s.protocol) THEN pin ELSE NoFile
  <2>1. p \in 0 .. Torn /\ (p = pin \/ p = 0)
    BY FilesTyped, Numbers DEF IInv, NoFile
  <2>2. Transport(s) = [settings |-> s, pin |-> p]
    BY DEF Transport
  <2> HIDE DEF p
  <2>3. Transport(s) \in Running /\ Transport(s).pin = p
    BY <2>1, <2>2 DEF Running
  <2> QED BY <1>2, <2>1, <2>3
<1> QED BY <1>1, <1>2 DEF apply

(* Every step of either host keeps the invariant. *)
THEOREM NextInv == IInv /\ [Next]_vars => IInv'
<1> SUFFICES ASSUME IInv, [Next]_vars PROVE IInv'
  OBVIOUS
<1> USE DEF IInv
<1>0. /\ conf \in {Nil} \cup ServerConf /\ cconf \in {Nil} \cup ClientConf
      /\ running \in {Nil} \cup Running /\ link \in {Nil} \cup Link
      /\ serving # Nil => conf # Nil /\ serving \in [cert : 0 .. Torn]
      /\ link # Nil => serving # Nil /\ running # Nil
      /\ control => serving # Nil
  BY DEF TypeOK, Validated, LetIn, Connected, ServerConf, ClientConf, Running, Link
<1>1. CASE GenerateBegins \/ GenerateWrites \/ GenerateFails
  <2>1. UNCHANGED <<conf, serving, clientVars>>
    BY <1>1 DEF GenerateBegins, GenerateWrites, GenerateFails
  <2>2. /\ cert' \in 0 .. Torn /\ key' \in 0 .. Torn /\ made' \in 0 .. MaxPairs
        /\ gen' \in {"idle", "key", "keyed", "cert"}
        /\ CertWithKey'
    <3>1. CASE GenerateBegins
      BY <3>1, FilesTyped, Numbers DEF GenerateBegins, CertWithKey, Kept
    <3>2. CASE GenerateWrites
      BY <3>2, FilesTyped, Numbers DEF GenerateWrites, CertWithKey
    <3>3. CASE GenerateFails
      <4>1. /\ gen # "idle" /\ gen' = "idle" /\ made' = made
            /\ key' \in {key, Torn} /\ cert' \in {cert, Torn}
        BY <3>3 DEF GenerateFails
      <4>2. cert \notin Pairs
        BY <4>1 DEF CertWithKey
      <4> QED BY <4>1, <4>2, FilesTyped, Numbers DEF CertWithKey
    <3> QED BY <1>1, <3>1, <3>2, <3>3
  <2>3. TypeOK'
    BY <2>1, <2>2 DEF TypeOK, clientVars
  <2>4. gen # "idle" \/ ~Kept
    BY <1>1 DEF GenerateBegins, GenerateWrites, GenerateFails
  <2>5. cert \notin Pairs /\ pin = 0
    BY <2>4, Numbers DEF CertWithKey, CertHeld, Kept
  <2>6. CertHeld'
    BY <2>1, <2>5 DEF CertHeld, clientVars
  <2>7. Validated' /\ Connected' /\ LetIn'
    BY <2>1 DEF Validated, Connected, LetIn, clientVars
  <2> QED BY <2>2, <2>3, <2>6, <2>7
<1>2. CASE ServerDown
  <2> USE <1>2 DEF ServerDown
  <2>1. TypeOK'
    BY DEF TypeOK
  <2>2. Validated' /\ CertWithKey' /\ CertHeld'
    BY DEF Validated, CertWithKey, CertHeld
  <2>3. Connected' /\ LetIn'
    BY DEF Connected, LetIn
  <2> QED BY <2>1, <2>2, <2>3
<1>3. ASSUME NEW c \in ServerConfigs, ServerConfigure(c) PROVE IInv'
  <2>1. /\ serving = Nil /\ conf' = c
        /\ UNCHANGED <<cert, key, gen, made, serving, clientVars>>
    BY <1>3 DEF ServerConfigure
  <2>2. c \in {Nil} \cup ServerConf /\ (c # Nil => ValidPort(c.data))
    BY LoadedServer
  <2>3. TypeOK'
    BY <2>1, <2>2 DEF TypeOK, ServerConf, clientVars
  <2>4. Validated' /\ CertWithKey' /\ CertHeld'
    BY <2>1, <2>2 DEF Validated, CertWithKey, CertHeld, clientVars
  <2>5. ~control /\ link = Nil
    BY <1>0, <2>1
  <2>6. Connected' /\ LetIn'
    BY <2>1, <2>5 DEF Connected, LetIn, clientVars
  <2> QED BY <2>3, <2>4, <2>6
<1>4. CASE ServerStarts
  <2>1. /\ serving = Nil /\ conf # Nil /\ CanListen(conf)
        /\ UNCHANGED <<cert, key, gen, made, conf, clientVars>>
    BY <1>4 DEF ServerStarts
  <2> DEFINE n == IF TLS(conf.protocol) THEN cert ELSE NoFile
  <2>2. serving' = [cert |-> n] /\ n \in 0 .. Torn /\ (n = 0 \/ (n = cert /\ cert \in Pairs))
    BY <1>4, FilesTyped, Numbers DEF ServerStarts, PairLoads, NoFile
  <2> HIDE DEF n
  <2>3. TypeOK'
    BY <2>1, <2>2 DEF TypeOK, clientVars
  <2>4. Validated' /\ CertWithKey' /\ CertHeld'
    BY <2>1, <2>2 DEF Validated, CertWithKey, CertHeld, clientVars
  <2>5. ~control /\ link = Nil
    BY <1>0, <2>1
  <2>6. Connected' /\ LetIn'
    BY <2>1, <2>5 DEF Connected, LetIn, clientVars
  <2> QED BY <2>3, <2>4, <2>6
<1>5. CASE ClientDown
  <2> USE <1>5 DEF ClientDown, serverVars
  <2>1. TypeOK'
    BY DEF TypeOK
  <2>2. Validated' /\ CertWithKey' /\ CertHeld'
    BY DEF Validated, CertWithKey, CertHeld
  <2>3. Connected' /\ LetIn'
    BY DEF Connected, LetIn
  <2> QED BY <2>1, <2>2, <2>3
<1>6. CASE ClientPins
  <2>1. /\ running = Nil /\ gen = "idle" /\ key # 0 /\ pin' = cert
        /\ UNCHANGED <<serverVars, cconf, running, control, received, link>>
    BY <1>6 DEF ClientPins
  <2>2. TypeOK'
    BY <2>1 DEF TypeOK, serverVars
  <2>3. Validated' /\ CertWithKey' /\ CertHeld' /\ Connected' /\ LetIn'
    BY <2>1 DEF Validated, CertWithKey, CertHeld, Connected, LetIn, serverVars
  <2> QED BY <2>2, <2>3
<1>7. CASE ClientStatic
  <2> DEFINE s == [protocol |-> cconf.protocol, port |-> cconf.data]
  <2>1. /\ cconf # Nil /\ cconf.protocol # Unset /\ running = Nil /\ apply(s)
        /\ UNCHANGED <<serverVars, cconf, pin, control, received>>
    BY <1>7 DEF ClientStatic
  <2>2. s \in Settings
    BY <2>1, SettingsOK, Zenon
  <2> HIDE DEF s
  <2>3. /\ running' \in {Nil} \cup Running /\ link' \in {Nil} \cup Link
        /\ link' = Nil \/ UNCHANGED <<running, link>>
        /\ running' # Nil /\ running'.pin # 0 => running'.pin = pin
    BY <2>1, <2>2, Applied
  <2>4. TypeOK'
    BY <2>1, <2>3 DEF TypeOK, Running, Link, serverVars
  <2>5. Validated' /\ CertWithKey' /\ Connected' /\ LetIn'
    BY <2>1, <2>3 DEF Validated, CertWithKey, Connected, LetIn, serverVars
  <2>6. CertHeld'
    BY <2>1, <2>3 DEF CertHeld, serverVars
  <2> QED BY <2>4, <2>5, <2>6
<1>8. CASE ClientReceives
  <2>1. /\ serving # Nil /\ received' = Announced /\ control' = TRUE
        /\ UNCHANGED <<serverVars, cconf, pin, running, link>>
    BY <1>8 DEF ClientReceives
  <2>2. Announced \in Settings
    BY <2>1, SettingsOK, Zenon
  <2>3. TypeOK'
    BY <2>1, <2>2 DEF TypeOK, serverVars
  <2>4. Validated' /\ CertWithKey' /\ CertHeld' /\ Connected' /\ LetIn'
    BY <2>1 DEF Validated, CertWithKey, CertHeld, Connected, LetIn, serverVars
  <2> QED BY <2>3, <2>4
<1>9. CASE ClientApplies
  <2>1. /\ received # Nil /\ apply(received) /\ control' = (control /\ running' # Nil)
        /\ received' = Nil
        /\ UNCHANGED <<serverVars, cconf, pin>>
    BY <1>9 DEF ClientApplies
  <2>2. received \in Settings
    BY <2>1 DEF TypeOK
  <2>3. /\ running' \in {Nil} \cup Running /\ link' \in {Nil} \cup Link
        /\ link' = Nil \/ UNCHANGED <<running, link>>
        /\ running' # Nil /\ running'.pin # 0 => running'.pin = pin
    BY <2>1, <2>2, Applied
  <2>4. control' \in BOOLEAN /\ (control' => control)
    BY <2>1, Zenon DEF TypeOK
  <2>5. TypeOK'
    BY <2>1, <2>3, <2>4 DEF TypeOK, Running, Link, serverVars
  <2>6. Validated' /\ CertWithKey' /\ Connected' /\ LetIn'
    BY <2>1, <2>3, <2>4 DEF Validated, CertWithKey, Connected, LetIn, serverVars
  <2>7. CertHeld'
    BY <2>1, <2>3 DEF CertHeld, serverVars
  <2> QED BY <2>5, <2>6, <2>7
<1>10. ASSUME NEW c \in ClientConfigs, ClientConfigure(c) PROVE IInv'
  <2>1. cconf' = c /\ UNCHANGED <<serverVars, pin, running, control, received, link>>
    BY <1>10 DEF ClientConfigure
  <2>2. /\ c \in {Nil} \cup ClientConf
        /\ c # Nil /\ c.protocol # Unset => ValidPort(c.data)
    BY LoadedClient, Zenon
  <2>3. TypeOK'
    BY <2>1, <2>2 DEF TypeOK, ClientConf, serverVars
  <2>4. Validated'
    BY <2>1, <2>2, Zenon DEF Validated, serverVars
  <2>5. CertWithKey' /\ CertHeld' /\ Connected' /\ LetIn'
    BY <2>1 DEF CertWithKey, CertHeld, Connected, LetIn, serverVars
  <2> QED BY <2>3, <2>4, <2>5
<1>11. CASE ControlLost
  <2>1. control' = FALSE /\ UNCHANGED <<serverVars, cconf, pin, running, received, link>>
    BY <1>11 DEF ControlLost
  <2>2. TypeOK'
    BY <2>1 DEF TypeOK, serverVars
  <2>3. Validated' /\ CertWithKey' /\ CertHeld' /\ Connected' /\ LetIn'
    BY <2>1 DEF Validated, CertWithKey, CertHeld, Connected, LetIn, serverVars
  <2> QED BY <2>2, <2>3
<1>12. CASE Dial
  <2>1. /\ running # Nil /\ serving # Nil
        /\ UNCHANGED <<serverVars, cconf, pin, running, control, received>>
    BY <1>12 DEF Dial
  <2>2. PICK l \in Listeners(conf) :
          /\ l.port = running.settings.port.number
          /\ l.carrier = ClientCarrier(running.settings.protocol)
          /\ link' = [streams |-> ClientStreams(running.settings.protocol),
                      peer |-> l.streams, pin |-> running.pin]
    BY <1>12 DEF Dial
  <2>3. l.streams \in {"one", "smux", "settings"}
    BY DEF Listeners, ServerStreams
  <2>4. link' \in Link
    BY <1>0, <2>1, <2>2, <2>3 DEF Link, Running, ClientStreams
  <2>5. TypeOK'
    BY <2>1, <2>4 DEF TypeOK, Link, serverVars
  <2>6. Validated' /\ CertWithKey' /\ CertHeld' /\ Connected'
    BY <2>1 DEF Validated, CertWithKey, CertHeld, Connected, serverVars
  <2>7. LetIn'
    <3>1. link'.streams = ClientStreams(running.settings.protocol) /\ link'.peer = l.streams
      BY <2>2
    <3> QED BY <2>1, <2>2, <3>1 DEF LetIn, serverVars
  <2> QED BY <2>5, <2>6, <2>7
<1>13. CASE UNCHANGED vars
  <2>1. TypeOK'
    BY <1>13 DEF vars, serverVars, clientVars, TypeOK
  <2>2. Validated' /\ CertWithKey' /\ CertHeld' /\ Connected' /\ LetIn'
    BY <1>13 DEF vars, serverVars, clientVars, Validated, CertWithKey, CertHeld, Connected,
                 LetIn
  <2> QED BY <2>1, <2>2
<1> QED BY <1>1, <1>2, <1>3, <1>4, <1>5, <1>6, <1>7, <1>8, <1>9, <1>10, <1>11, <1>12, <1>13
        DEF Next

(* The inductive invariant holds in every reachable state. *)
THEOREM Invariant == Spec => []IInv
BY InitInv, NextInv, PTL DEF Spec

(* The state keeps its types; no process runs with a port out of range. *)
THEOREM TypeCorrect == Spec => []TypeOK
BY Invariant, PTL DEF IInv

(* SameLayers: the server's and the client's switch statements agree on    *)
(* every protocol, and the control port is never taken for the data port.  *)
THEOREM LayersMatch == Spec => []SameLayers
BY Invariant, LayersAgree, PTL

(* KeptPairMatches: no interruption leaves a pair that the installer       *)
(* keeps, of whole files, and that does not match.                         *)
THEOREM KeptPairsMatch == Spec => []KeptPairMatches
<1>1. IInv => KeptPairMatches
  BY FilesTyped, Numbers DEF IInv, KeptPairMatches, CertWithKey, Kept
<1> QED BY <1>1, Invariant, PTL

(* PinnedIsServed: every TLS server that ever runs shows the certificate   *)
(* that every TLS client that runs was given, whatever was reinstalled or  *)
(* interrupted before either of them started.                              *)
THEOREM PinnedCertificateServed == Spec => []PinnedIsServed
<1>1. IInv => PinnedIsServed
  BY Numbers DEF IInv, PinnedIsServed, VerifyConnection, NoFile, CertHeld
<1> QED BY <1>1, Invariant, PTL
=============================================================================
