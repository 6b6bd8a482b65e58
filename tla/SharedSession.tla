--------------------------- MODULE SharedSession ---------------------------
(***************************************************************************)
(* What sessionDialer (internal/transport/session.go) promises about the   *)
(* multiplexed connections it owns, whatever its callers do: there is at   *)
(* most one open session, a session that was given up never comes back,    *)
(* and once the dialer is shut nothing is open and nothing is established  *)
(* again.  SessionDialer is shown to implement this specification.         *)
(***************************************************************************)
CONSTANT Sessions     \* identities of the sessions that can ever be created

VARIABLES open,       \* the sessions that hold resources
          used,       \* the sessions created so far
          shut        \* has the dialer been closed?

vars == <<open, used, shut>>

Init == open = {} /\ used = {} /\ shut = FALSE

(* A new session may be established only when no other one is open. *)
Establish(s) ==
    /\ ~shut /\ open = {} /\ s \notin used
    /\ open' = {s}
    /\ used' = used \cup {s}
    /\ UNCHANGED shut

(* The open session is given up. *)
Retire ==
    /\ open # {} /\ ~shut
    /\ open' = {}
    /\ UNCHANGED <<used, shut>>

(* The owner closes the dialer. *)
Shut ==
    /\ ~shut
    /\ shut' = TRUE
    /\ open' = {}
    /\ UNCHANGED used

Next == (\E s \in Sessions : Establish(s)) \/ Retire \/ Shut

Spec == Init /\ [][Next]_vars
=============================================================================
