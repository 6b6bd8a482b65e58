----------------------------- MODULE Agreement -----------------------------
(***************************************************************************)
(* What the handshake and the settings message promise together, without   *)
(* nonces, tags or a network: client runs and server runs with the same    *)
(* token are paired, one to one and for good; first the client knows its   *)
(* server, then the server lets this client in, and then the client may    *)
(* apply the settings of the server it is paired with, once and only if    *)
(* both are on a control connection.                                       *)
(***************************************************************************)
CONSTANTS Clients, Servers, Control, Token, Announce, Nil

VARIABLES trusted,   \* the server run that each client run is paired with
          accepted,  \* the server runs that have let their client in
          applied    \* the settings each client run got

agreementVars == <<trusted, accepted, applied>>

Init ==
    /\ trusted = [c \in Clients |-> Nil]
    /\ accepted = {}
    /\ applied = [c \in Clients |-> Nil]

(* ClientHandshake succeeds. *)
Trust(c, s) ==
    /\ trusted[c] = Nil /\ Token[c] = Token[s]
    /\ \A d \in Clients : trusted[d] # s
    /\ trusted' = [trusted EXCEPT ![c] = s]
    /\ UNCHANGED <<accepted, applied>>

(* ServerHandshake succeeds. *)
Accept(s) ==
    /\ s \notin accepted /\ \E c \in Clients : trusted[c] = s
    /\ accepted' = accepted \cup {s}
    /\ UNCHANGED <<trusted, applied>>

(* The control connection fails before the settings are sent. *)
Leave(s) ==
    /\ s \in accepted
    /\ accepted' = accepted \ {s}
    /\ UNCHANGED <<trusted, applied>>

(* The client receives its server's settings. *)
Apply(c) ==
    /\ applied[c] = Nil /\ trusted[c] \in accepted
    /\ {c, trusted[c]} \subseteq Control
    /\ applied' = [applied EXCEPT ![c] = Announce[trusted[c]]]
    /\ UNCHANGED <<trusted, accepted>>

Next ==
    \/ \E c \in Clients : Apply(c) \/ \E s \in Servers : Trust(c, s)
    \/ \E s \in Servers : Accept(s) \/ Leave(s)

Spec == Init /\ [][Next]_agreementVars
=============================================================================
