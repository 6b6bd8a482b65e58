----------------------------- MODULE Handshake -----------------------------
(***************************************************************************)
(* The mutual handshake that opens every connection (internal/auth/        *)
(* auth.go) and the transport settings the server sends on a control       *)
(* connection (internal/control/control.go, handleControl in               *)
(* internal/server/server.go, runControl in internal/client/client.go).    *)
(*                                                                         *)
(* Clients and Servers are runs of the two sides, each with a fresh 32     *)
(* byte nonce; the nonce is identified with the run that drew it.  Nothing *)
(* is assumed of the connections between them: what a side reads is any    *)
(* combination of pieces that were ever sent, by any run on any            *)
(* connection, or unrelated bytes.  A tag is a symbolic HMAC: it exists    *)
(* only if somebody who has the token computed it.                         *)
(***************************************************************************)
EXTENDS Naturals

CONSTANTS Clients, Servers,   \* runs of ClientHandshake and ServerHandshake
          Control,            \* the runs on control connections; others carry data
          Token,              \* the token each run is configured with
          Announce,           \* the settings each server run announces
          Known,              \* settings the client can decode, parse and validate
          Nil,                \* not set
          Junk                \* 32 bytes that are nobody's nonce

ASSUME HandshakeAssumption ==
    /\ Clients \cap Servers = {}
    /\ {Nil, Junk} \cap (Clients \cup Servers) = {} /\ Nil # Junk
    /\ \A s \in Servers : Announce[s] # Nil
    /\ Nil \notin Known

VARIABLES
    cpc,      \* where each client run is
    cns,      \* the server nonce the client accepted
    got,      \* the settings the client received
    spc,      \* where each server run is
    snc,      \* the client nonce the server read
    nonces,   \* every nonce that was sent
    tags      \* every tag that was sent

cvars == <<cpc, cns, got>>
svars == <<spc, snc>>
vars == <<cvars, svars, nonces, tags>>

(* auth.Sign: keyed with the token over label, nonces and body. *)
Sign(token, label, nc, ns, body) ==
    [key |-> token, label |-> label, nc |-> nc, ns |-> ns, body |-> body]

labelServer == "gtun/v1/server"

(* Bug: both proofs use the same label. *)
labelSame == "gtun/v1/server"

labelClient == "gtun/v1/client"

labelConfig == "gtun/v1/config"

ServerTag(token, nc, ns) == Sign(token, labelServer, nc, ns, Nil)

ClientTag(token, nc, ns) == Sign(token, labelClient, nc, ns, Nil)

(* Bug: the message is not bound to the channel. *)
ConfigTagUnbound(token, nc, ns, body) == Sign(token, labelConfig, Nil, Nil, body)

(* The channel is the transcript of the two nonces. *)
ConfigTag(token, nc, ns, body) == Sign(token, labelConfig, nc, ns, body)

TypeOK ==
    /\ cpc \in [Clients -> {"start", "reply", "config", "done", "failed"}]
    /\ cns \in [Clients -> Clients \cup Servers \cup {Junk, Nil}]
    /\ got \in [Clients -> Known \cup {Nil}]
    /\ spc \in [Servers -> {"hello", "proof", "announce", "done", "failed"}]
    /\ snc \in [Servers -> Clients \cup Servers \cup {Junk, Nil}]
    /\ nonces \subseteq Clients \cup Servers \cup {Junk}

Init ==
    /\ cpc = [c \in Clients |-> "start"]
    /\ cns = [c \in Clients |-> Nil]
    /\ got = [c \in Clients |-> Nil]
    /\ spc = [s \in Servers |-> "hello"]
    /\ snc = [s \in Servers |-> Nil]
    /\ nonces = {Junk}
    /\ tags = {}
-----------------------------------------------------------------------------
(* ClientHandshake draws and sends its nonce. *)
ClientHello(c) ==
    /\ cpc[c] = "start"
    /\ cpc' = [cpc EXCEPT ![c] = "reply"]
    /\ nonces' = nonces \cup {c}
    /\ UNCHANGED <<cns, got, svars, tags>>

(* ServerHandshake reads a client nonce and answers with its own and the   *)
(* server proof.                                                           *)
ServerReply(s, nc) ==
    /\ spc[s] = "hello" /\ nc \in nonces
    /\ spc' = [spc EXCEPT ![s] = "proof"]
    /\ snc' = [snc EXCEPT ![s] = nc]
    /\ nonces' = nonces \cup {s}
    /\ tags' = tags \cup {ServerTag(Token[s], nc, s)}
    /\ UNCHANGED cvars

(* Bug: the client does not verify that the proof covers its own nonce. *)
ClientProofStale(c, ns) ==
    /\ cpc[c] = "reply" /\ ns \in nonces
    /\ \E nc \in nonces : ServerTag(Token[c], nc, ns) \in tags
    /\ cpc' = [cpc EXCEPT ![c] = IF c \in Control THEN "config" ELSE "done"]
    /\ cns' = [cns EXCEPT ![c] = ns]
    /\ tags' = tags \cup {ClientTag(Token[c], c, ns)}
    /\ UNCHANGED <<got, svars, nonces>>

(* ClientHandshake reads a nonce with a proof that verifies, and sends the *)
(* client proof.                                                           *)
ClientProof(c, ns) ==
    /\ cpc[c] = "reply" /\ ns \in nonces
    /\ ServerTag(Token[c], c, ns) \in tags
    /\ cpc' = [cpc EXCEPT ![c] = IF c \in Control THEN "config" ELSE "done"]
    /\ cns' = [cns EXCEPT ![c] = ns]
    /\ tags' = tags \cup {ClientTag(Token[c], c, ns)}
    /\ UNCHANGED <<got, svars, nonces>>

(* ServerHandshake reads a client proof that verifies. *)
ServerAccept(s) ==
    /\ spc[s] = "proof"
    /\ ClientTag(Token[s], snc[s], s) \in tags
    /\ spc' = [spc EXCEPT ![s] = IF s \in Control THEN "announce" ELSE "done"]
    /\ UNCHANGED <<cvars, snc, nonces, tags>>

(* Bug: the settings are sent without waiting for the client's proof. *)
ServerAnnounceEarly(s) ==
    /\ spc[s] \in {"proof", "announce"}
    /\ spc' = [spc EXCEPT ![s] = "done"]
    /\ tags' = tags \cup {ConfigTag(Token[s], snc[s], s, Announce[s])}
    /\ UNCHANGED <<cvars, snc, nonces>>

(* handleControl sends the settings: control.Send. *)
ServerAnnounce(s) ==
    /\ spc[s] = "announce"
    /\ spc' = [spc EXCEPT ![s] = "done"]
    /\ tags' = tags \cup {ConfigTag(Token[s], snc[s], s, Announce[s])}
    /\ UNCHANGED <<cvars, snc, nonces>>

(* control.Receive reads a message that verifies, decodes and validates. *)
ClientReceive(c, body) ==
    /\ cpc[c] = "config"
    /\ ConfigTag(Token[c], c, cns[c], body) \in tags
    /\ cpc' = [cpc EXCEPT ![c] = "done"]
    /\ got' = [got EXCEPT ![c] = body]
    /\ UNCHANGED <<cns, svars, nonces, tags>>

(* What a side reads does not verify or decode, the deadline passes or the *)
(* connection breaks: the side gives up and closes the connection.         *)
ClientFails(c) ==
    /\ cpc[c] \notin {"done", "failed"}
    /\ cpc' = [cpc EXCEPT ![c] = "failed"]
    /\ UNCHANGED <<cns, got, svars, nonces, tags>>

ServerFails(s) ==
    /\ spc[s] \notin {"done", "failed"}
    /\ spc' = [spc EXCEPT ![s] = "failed"]
    /\ UNCHANGED <<cvars, snc, nonces, tags>>

Next ==
    \/ \E c \in Clients :
          \/ ClientHello(c) \/ ClientFails(c)
          \/ \E ns \in Clients \cup Servers \cup {Junk} : ClientProof(c, ns)
          \/ \E body \in Known : ClientReceive(c, body)
    \/ \E s \in Servers :
          \/ ServerAccept(s) \/ ServerAnnounce(s) \/ ServerFails(s)
          \/ \E nc \in Clients \cup Servers \cup {Junk} : ServerReply(s, nc)

Spec == Init /\ [][Next]_vars
-----------------------------------------------------------------------------
(* "The handshake is mutual, replay-resistant ... and direction-bound"     *)
(* (auth.go:11-12), seen from the server: when it has accepted, a client   *)
(* run with the same token took part, with exactly these two nonces, and   *)
(* no other server run has accepted on the strength of that client run.    *)
Accepted(s) == spc[s] \in {"announce", "done"}

ServerAgreement ==
    \A s \in Servers : Accepted(s) =>
        /\ snc[s] \in Clients
        /\ Token[snc[s]] = Token[s]
        /\ cns[snc[s]] = s
        /\ \A t \in Servers \ {s} : Accepted(t) => snc[t] # snc[s]

(* The same from the client: the nonce it accepted is that of a server run *)
(* with the same token that answered this very client run.                 *)
ClientAgreement ==
    \A c \in Clients : cns[c] # Nil =>
        /\ cns[c] \in Servers
        /\ Token[cns[c]] = Token[c]
        /\ snc[cns[c]] = c

(* "so a man in the middle cannot alter or replay it" (control.go:39-40):  *)
(* the settings a client applies are the ones announced, after it accepted *)
(* this client, by the server run the client shook hands with.             *)
ConfigAuthentic ==
    \A c \in Clients : got[c] # Nil =>
        LET s == cns[c]
        IN  /\ s \in Servers
            /\ got[c] = Announce[s]
            /\ snc[s] = c
            /\ spc[s] = "done"

(* On a network that mixes everything the runs still pair up as Agreement  *)
(* specifies: one to one, in this order, and never again.                  *)
Agreed == INSTANCE Agreement
             WITH trusted <- cns, applied <- got,
                  accepted <- {s \in Servers : Accepted(s)}

AgreementSpec == Agreed!Spec
=============================================================================
