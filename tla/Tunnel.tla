------------------------------- MODULE Tunnel -------------------------------
(***************************************************************************)
(* One tunnelled connection from end to end: application, client relay,    *)
(* stream, server relay, target.  The server's Pipe(stream, target) is     *)
(* StreamRelay itself, with "a" the stream and "b" the target; the         *)
(* client's Pipe(local, stream) is the instance C, with "a" the            *)
(* application and "b" the stream.  What one end writes to the stream is   *)
(* what arrives at the other: the far end of the stream is the other       *)
(* relay.  handleStream (internal/transport/server.go) dials the target    *)
(* before it starts the server's relay.                                    *)
(*                                                                         *)
(* "half" is a stream with CloseWrite (tcp, quic), "mux" an smux stream    *)
(* and "ws" a WebSocket, that is a TCP connection that is only closed as a *)
(* whole.  TCP answers data that nobody will read with a reset.            *)
(***************************************************************************)
EXTENDS StreamRelay

CONSTANT Kinds        \* the kinds of stream among "half", "mux" and "ws"

ASSUME TunnelAssumption ==
    /\ Kinds \subseteq {"half", "mux", "ws"}
    /\ {{"a"}, {"b"}, {"a", "b"}} \subseteq HalfCloses

VARIABLES
    kind,     \* what the configured protocol carries a stream over
    link,     \* the path between client and server: "up" or "broken"
    target,   \* handleStream: "dialing", "dialed" or "refused"
    csent, cunread, cheld, cwrote, clost, cend, cshut, cclosed, cpc, cpipe

clientVars == <<csent, cunread, cheld, cwrote, clost, cend, cshut, cclosed, cpc, cpipe>>
tunnelVars == <<kind, link, target, vars, clientVars>>

(* The client's sides with CloseWrite: the application, and the stream if  *)
(* its kind has it.                                                        *)
chalf == IF "a" \in half THEN {"a", "b"} ELSE {"a"}

C == INSTANCE StreamRelay
        WITH half <- chalf, sent <- csent, unread <- cunread, held <- cheld,
             wrote <- cwrote, lost <- clost, end <- cend, shut <- cshut,
             closed <- cclosed, pc <- cpc, pipe <- cpipe

TunnelInit ==
    /\ kind \in Kinds
    /\ half = IF kind = "half" THEN {"a", "b"} ELSE {"b"}
    /\ Init
    /\ C!Init
    /\ link = "up"
    /\ target = "dialing"
-----------------------------------------------------------------------------
(* The application, the target, and the network between the two relays     *)

App ==
    /\ UNCHANGED <<kind, link, target, vars>>
    /\ C!PeerSends("a") \/ C!PeerFinishes("a") \/ C!PeerBreaks("a")

Target ==
    /\ target = "dialed"
    /\ PeerSends("b") \/ PeerFinishes("b") \/ PeerBreaks("b")
    /\ UNCHANGED <<kind, link, target, clientVars>>

LinkBreaks ==
    /\ link = "up" /\ link' = "broken"
    /\ UNCHANGED <<kind, target, vars, clientVars>>

(* An end notices that the path is gone (keep-alive), or its data was      *)
(* answered with a reset because the other end had closed the stream.      *)
ServerNotices ==
    /\ link = "broken" \/ (kind # "mux" /\ cclosed["b"] /\ clost["b"] > 0)
    /\ PeerBreaks("a")
    /\ UNCHANGED <<kind, link, target, clientVars>>

ClientNotices ==
    /\ \/ link = "broken"
       \/ kind # "mux" /\ target = "refused" /\ cwrote["b"] > 0
       \/ kind # "mux" /\ closed["a"] /\ lost["a"] > 0
    /\ UNCHANGED <<kind, link, target, vars>>
    /\ C!PeerBreaks("b")
-----------------------------------------------------------------------------
(* What an end does to the stream happens to the other end, unless the     *)
(* path or the other end's stream is broken.                               *)

ReachesServer(n) ==
    IF link = "up" /\ end["a"] = "no" THEN Arrive("a", n) ELSE UNCHANGED vars
ReachesClient(n) ==
    IF link = "up" /\ cend["b"] = "no" THEN C!Arrive("b", n) ELSE UNCHANGED clientVars

ServerSeesEnd ==
    IF link = "up" /\ end["a"] = "no" THEN PeerFinishes("a") ELSE UNCHANGED vars
ClientSeesEnd ==
    IF link = "up" /\ cend["b"] = "no" THEN C!PeerFinishes("b") ELSE UNCHANGED clientVars

(* The client's relay. *)
ClientCopies ==
    /\ \/ ReachesServer(cheld["a"]) /\ C!Write("a")
       \/ ServerSeesEnd /\ C!Finishes("a")
       \/ /\ UNCHANGED vars
          /\ \/ C!Write("b") \/ C!Finishes("b") \/ C!PipeReturns
             \/ \E x \in Sides : C!Read(x) \/ C!ReadEnds(x) \/ C!WriteFails(x)
    /\ UNCHANGED <<kind, link, target>>

(* The server's relay. *)
ServerCopies ==
    /\ target = "dialed"
    /\ \/ Write("b") /\ ReachesClient(held["b"])
       \/ Finishes("b") /\ ClientSeesEnd
       \/ /\ \/ Write("a") \/ Finishes("a") \/ PipeReturns
             \/ \E x \in Sides : Read(x) \/ ReadEnds(x) \/ WriteFails(x)
          /\ UNCHANGED clientVars
    /\ UNCHANGED <<kind, link, target>>

(* Bug: the stream is left open when the target cannot be dialed. *)
TargetRefusedForgotten ==
    /\ target = "dialing" /\ target' = "refused"
    /\ end' = [end EXCEPT !["a"] = "err"]
    /\ UNCHANGED <<half, sent, unread, held, wrote, lost, shut, closed, pc, pipe>>
    /\ UNCHANGED <<kind, link, clientVars>>

(* handleStream: the target cannot be dialed, and the stream is closed.    *)
(* There will be no relay: to the model's, the stream is broken.           *)
TargetRefused ==
    /\ target = "dialing" /\ target' = "refused"
    /\ end' = [end EXCEPT !["a"] = "err"]
    /\ UNCHANGED <<half, sent, unread, held, wrote, lost, shut, closed, pc, pipe>>
    /\ ClientSeesEnd
    /\ UNCHANGED <<kind, link>>

(* handleStream: the target is dialed and Pipe starts. *)
TargetDialed ==
    /\ target = "dialing" /\ target' = "dialed"
    /\ UNCHANGED <<kind, link, vars, clientVars>>

HandleStream == TargetDialed \/ TargetRefused

Relays == HandleStream \/ ServerNotices \/ ClientNotices \/ ClientCopies \/ ServerCopies

TunnelNext == App \/ Target \/ LinkBreaks \/ Relays

TunnelSpec == TunnelInit /\ [][TunnelNext]_tunnelVars

(* The goroutines of both ends run, the target's dial ends (dialTimeout),  *)
(* a write does not block for ever, and a broken path is noticed: by TCP   *)
(* keep-alive, smux's KeepAliveTimeout or QUIC's idle timeout.  Together   *)
(* they take finitely many steps for what application and target do        *)
(* (TunnelProofs!WorkShrinks), so that fairness of all of them is fairness *)
(* of each.  Nothing is assumed of application and target.                 *)
TunnelFairSpec == TunnelSpec /\ WF_tunnelVars(Relays)
-----------------------------------------------------------------------------
NothingBroke == \A x \in Sides : end[x] # "err" /\ cend[x] # "err"

(* A reply that ends cleanly is complete.  When the application sees the   *)
(* end of file, it has all the target ever sent: always over a stream with *)
(* CloseWrite, and otherwise if the application is still there and all it  *)
(* sent had reached the target.                                            *)
ReplyComplete ==
    NothingBroke /\ cshut["a"]
    /\ (kind = "half" \/ (cend["a"] = "no" /\ wrote["b"] = csent["a"]))
       => end["b"] = "eof" /\ cwrote["a"] = sent["b"]

(* The same for what the application sends: an upload whose end the target *)
(* sees is complete.                                                       *)
RequestComplete ==
    NothingBroke /\ shut["b"]
    /\ (kind = "half" \/ (end["b"] = "no" /\ cwrote["a"] = sent["b"]))
       => cend["a"] = "eof" /\ wrote["b"] = csent["a"]

(* Over a stream with CloseWrite, all that the application sent before it  *)
(* finished reaches the target, and its end of file too, although nobody   *)
(* else need ever finish; and the same for the target's reply.             *)
Delivered ==
    /\ kind = "half" /\ cend["a"] = "eof" ~>
          ~NothingBroke \/ (shut["b"] /\ wrote["b"] = csent["a"])
    /\ kind = "half" /\ end["b"] = "eof" ~>
          ~NothingBroke \/ (cshut["a"] /\ cwrote["a"] = sent["b"])

ClientReleased == cpipe = "returned"
ServerReleased == pipe = "returned" \/ target = "refused"

(* When the application and the target are both done, all connections are  *)
(* closed on both ends, whatever broke, closed first or was never dialed.  *)
AllReleased ==
    cend["a"] # "no" /\ (end["b"] # "no" \/ target = "refused")
       ~> ClientReleased /\ ServerReleased

(* Without CloseWrite "netutil.Pipe closes the whole stream as soon as     *)
(* either side is done" (session.go:156-157): an end whose own side is     *)
(* done is released without waiting for the other end.                     *)
DoneSideReleased ==
    /\ kind # "half" /\ cend["a"] # "no" ~> ClientReleased
    /\ kind # "half" /\ end["b"] # "no" ~> ServerReleased

(* "... which never loses data that was already sent" (session.go:157): no *)
(* step discards bytes of an smux stream that had already been sent.       *)
AlreadySentKept ==
    [][kind = "mux" /\ NothingBroke' =>
          /\ clost'["b"] > clost["b"] => csent'["b"] > csent["b"]
          /\ lost'["a"] > lost["a"] => sent'["a"] > sent["a"]]_tunnelVars
=============================================================================
