----------------------------- MODULE StreamRelay -----------------------------
(***************************************************************************)
(* netutil.Pipe (internal/netutil/pipe.go), which relays one tunnel stream *)
(* on both ends of the tunnel: Pipe(local, stream) on the client and       *)
(* Pipe(stream, target) on the server.                                     *)
(*                                                                         *)
(* A side is one of the two connections together with whoever is at its    *)
(* far end.  A side with CloseWrite is a TCP connection or a quicStream; a *)
(* side without is an smux stream behind muxStream or a WebSocket, and can *)
(* only be closed as a whole, which discards what was received and not yet *)
(* read (session.go:154-157).  That holds at both ends of the stream: when *)
(* its far end is finished it no longer receives either.                   *)
(***************************************************************************)
EXTENDS Integers

CONSTANTS HalfCloses,  \* which sides may have CloseWrite: a set of sets
          MaxBytes     \* bytes a far end sends at most

Sides == {"a", "b"}
Other(x) == IF x = "a" THEN "b" ELSE "a"

ASSUME RelayAssumption == HalfCloses \subseteq SUBSET Sides /\ MaxBytes \in Nat \ {0}

VARIABLES
    half,     \* the sides that have CloseWrite
    sent,     \* bytes the far end of a side has sent
    unread,   \* bytes received from a side and not read by Pipe
    held,     \* bytes read from a side, in the buffer of its copyHalf
    wrote,    \* bytes written to a side
    lost,     \* bytes sent by a side's far end that will never be written
    end,      \* the far end's sending: "no", "eof" or "err" (connection broken)
    shut,     \* our writing to a side was finished with CloseWrite
    closed,   \* we closed the side
    pc,       \* where the copyHalf that reads from a side is
    pipe      \* "running" or "returned"

vars == <<half, sent, unread, held, wrote, lost, end, shut, closed, pc, pipe>>

TypeOK ==
    /\ half \in HalfCloses
    /\ sent \in [Sides -> 0 .. MaxBytes]
    /\ unread \in [Sides -> 0 .. MaxBytes]
    /\ held \in [Sides -> 0 .. MaxBytes]
    /\ wrote \in [Sides -> 0 .. MaxBytes]
    /\ lost \in [Sides -> 0 .. MaxBytes]
    /\ end \in [Sides -> {"no", "eof", "err"}]
    /\ shut \in [Sides -> BOOLEAN]
    /\ closed \in [Sides -> BOOLEAN]
    /\ pc \in [Sides -> {"read", "write", "finish", "done"}]
    /\ pipe \in {"running", "returned"}

Init ==
    /\ half \in HalfCloses
    /\ sent = [x \in Sides |-> 0]
    /\ unread = [x \in Sides |-> 0]
    /\ held = [x \in Sides |-> 0]
    /\ wrote = [x \in Sides |-> 0]
    /\ lost = [x \in Sides |-> 0]
    /\ end = [x \in Sides |-> "no"]
    /\ shut = [x \in Sides |-> FALSE]
    /\ closed = [x \in Sides |-> FALSE]
    /\ pc = [x \in Sides |-> "read"]
    /\ pipe = "running"

Goto(x, l) == pc' = [pc EXCEPT ![x] = l]

(* The far end is finished, and with a whole Close. *)
Gone(x) == x \notin half /\ end[x] = "eof"
-----------------------------------------------------------------------------
(* The far ends *)

(* n more bytes arrive; on a side that is closed nobody will read them. *)
Arrive(x, n) ==
    /\ end[x] = "no" /\ sent[x] + n <= MaxBytes
    /\ sent' = [sent EXCEPT ![x] = @ + n]
    /\ IF closed[x]
         THEN lost' = [lost EXCEPT ![x] = @ + n] /\ UNCHANGED unread
         ELSE unread' = [unread EXCEPT ![x] = @ + n] /\ UNCHANGED lost
    /\ UNCHANGED <<half, held, wrote, end, shut, closed, pc, pipe>>

PeerSends(x) == \E n \in 1 .. MaxBytes : Arrive(x, n)

(* The far end finishes: CloseWrite, or Close where there is none. *)
PeerFinishes(x) ==
    /\ end[x] = "no"
    /\ end' = [end EXCEPT ![x] = "eof"]
    /\ UNCHANGED <<half, sent, unread, held, wrote, lost, shut, closed, pc, pipe>>

(* The connection breaks: reset, or the tunnel session died. *)
PeerBreaks(x) ==
    /\ end[x] # "err"
    /\ end' = [end EXCEPT ![x] = "err"]
    /\ UNCHANGED <<half, sent, unread, held, wrote, lost, shut, closed, pc, pipe>>
-----------------------------------------------------------------------------
(* copyHalf(Other(x), x) *)

(* One read of io.CopyBuffer. *)
Read(x) ==
    /\ pc[x] = "read" /\ ~closed[x] /\ unread[x] > 0
    /\ held' = [held EXCEPT ![x] = unread[x]]
    /\ unread' = [unread EXCEPT ![x] = 0]
    /\ Goto(x, "write")
    /\ UNCHANGED <<half, sent, wrote, lost, end, shut, closed, pipe>>

(* One write of io.CopyBuffer. *)
Write(x) ==
    /\ pc[x] = "write"
    /\ ~closed[Other(x)] /\ end[Other(x)] # "err"
    /\ wrote' = [wrote EXCEPT ![Other(x)] = @ + held[x]]
    /\ held' = [held EXCEPT ![x] = 0]
    /\ Goto(x, "read")
    /\ UNCHANGED <<half, sent, unread, lost, end, shut, closed, pipe>>

(* The write fails: the destination is broken or was closed.  If only its  *)
(* far end closed it, the write may as well seem to succeed.               *)
WriteFails(x) ==
    /\ pc[x] = "write"
    /\ closed[Other(x)] \/ end[Other(x)] = "err" \/ Gone(Other(x))
    /\ lost' = [lost EXCEPT ![x] = @ + held[x]]
    /\ held' = [held EXCEPT ![x] = 0]
    /\ Goto(x, "finish")
    /\ UNCHANGED <<half, sent, unread, wrote, end, shut, closed, pipe>>

(* Bug: the end of the stream is acted on before the rest is read. *)
ReadEndsEarly(x) ==
    /\ pc[x] = "read"
    /\ end[x] # "no" \/ closed[x]
    /\ Goto(x, "finish")
    /\ UNCHANGED <<half, sent, unread, held, wrote, lost, end, shut, closed, pipe>>

(* The read reports the end: all was read, the connection broke, or it was *)
(* closed by the other copyHalf.                                           *)
ReadEnds(x) ==
    /\ pc[x] = "read"
    /\ \/ end[x] = "eof" /\ unread[x] = 0
       \/ end[x] = "err"
       \/ closed[x]
    /\ Goto(x, "finish")
    /\ UNCHANGED <<half, sent, unread, held, wrote, lost, end, shut, closed, pipe>>

(* Bug: the destination is always closed as a whole. *)
FinishesClosing(x) ==
    /\ pc[x] = "finish"
    /\ closed' = [closed EXCEPT ![Other(x)] = TRUE]
    /\ lost' = [lost EXCEPT ![Other(x)] = @ + unread[Other(x)]]
    /\ unread' = [unread EXCEPT ![Other(x)] = 0]
    /\ Goto(x, "done")
    /\ UNCHANGED <<half, sent, held, wrote, end, shut, pipe>>

(* Bug: a destination without CloseWrite is left open. *)
FinishesHalfOnly(x) ==
    /\ pc[x] = "finish"
    /\ shut' = [shut EXCEPT ![Other(x)] = TRUE]
    /\ Goto(x, "done")
    /\ UNCHANGED <<half, sent, unread, held, wrote, lost, end, closed, pipe>>

(* The destination is finished: CloseWrite if it has it, Close otherwise. *)
Finishes(x) ==
    /\ pc[x] = "finish"
    /\ IF Other(x) \in half
         THEN /\ shut' = [shut EXCEPT ![Other(x)] = TRUE]
              /\ UNCHANGED <<closed, lost, unread>>
         ELSE /\ closed' = [closed EXCEPT ![Other(x)] = TRUE]
              /\ lost' = [lost EXCEPT ![Other(x)] = @ + unread[Other(x)]]
              /\ unread' = [unread EXCEPT ![Other(x)] = 0]
              /\ UNCHANGED shut
    /\ Goto(x, "done")
    /\ UNCHANGED <<half, sent, held, wrote, end, pipe>>

(* Both directions are over: the deferred Close of both sides. *)
PipeReturns ==
    /\ pipe = "running" /\ \A x \in Sides : pc[x] = "done"
    /\ pipe' = "returned"
    /\ closed' = [x \in Sides |-> TRUE]
    /\ lost' = [x \in Sides |-> lost[x] + unread[x]]
    /\ unread' = [x \in Sides |-> 0]
    /\ UNCHANGED <<half, sent, held, wrote, end, shut, pc>>

CopyHalf(x) == Read(x) \/ Write(x) \/ WriteFails(x) \/ ReadEnds(x) \/ Finishes(x)

Next ==
    \/ \E x \in Sides : PeerSends(x) \/ PeerFinishes(x) \/ PeerBreaks(x) \/ CopyHalf(x)
    \/ PipeReturns

Spec == Init /\ [][Next]_vars
-----------------------------------------------------------------------------
Broken == \E x \in Sides : end[x] = "err"

(* A connection broke, or the far end of a stream left for good. *)
Severed == Broken \/ \E x \in Sides : Gone(x)

(* "so the peer sees a clean EOF while the opposite direction can still    *)
(* drain" (pipe.go:22-24): whoever finishes first, nothing that comes from *)
(* a side with CloseWrite is lost, unless there is nobody left to send to. *)
NothingLost == ~Severed => \A x \in half : lost[x] = 0

(* A clean EOF is passed on only after everything that preceded it: the    *)
(* destination, finished or closed, has all that the source ever sent.     *)
CleanEOF ==
    ~Severed => \A x \in half : pc[x] = "done" =>
        end[x] = "eof" /\ wrote[Other(x)] = sent[x]
-----------------------------------------------------------------------------
(* The inductive invariant behind NothingLost and CleanEOF.                *)

NatTypes ==
    /\ half \subseteq Sides /\ half \in HalfCloses
    /\ sent \in [Sides -> 0 .. MaxBytes]
    /\ unread \in [Sides -> Nat] /\ held \in [Sides -> Nat]
    /\ wrote \in [Sides -> Nat] /\ lost \in [Sides -> Nat]
    /\ end \in [Sides -> {"no", "eof", "err"}]
    /\ shut \in [Sides -> BOOLEAN] /\ closed \in [Sides -> BOOLEAN]
    /\ pc \in [Sides -> {"read", "write", "finish", "done"}]
    /\ pipe \in {"running", "returned"}

(* Every byte that was sent is unread, in a buffer, written or lost. *)
Conserved ==
    \A x \in Sides :
        sent[x] = unread[x] + held[x] + wrote[Other(x)] + lost[x]

(* A buffer is full between a read and its write, and only then; a side is *)
(* finished by the copyHalf that wrote to it, at its end; one that has     *)
(* CloseWrite is closed only when Pipe returns.                            *)
CopyInv ==
    /\ \A x \in Sides : pc[x] = "write" <=> held[x] > 0
    /\ \A x \in Sides : shut[x] \/ closed[x] => pc[Other(x)] = "done"
    /\ \A x \in half : pc[Other(x)] = "done" => shut[x]
    /\ \A x \in Sides \ half : pc[Other(x)] = "done" => closed[x]
    /\ \A x \in half : closed[x] => pipe = "returned"
    /\ pipe = "returned" => \A x \in Sides : pc[x] = "done"

(* A copyHalf that reads from a side with CloseWrite ends at its EOF. *)
EndInv ==
    ~Severed => \A x \in half : pc[x] \in {"finish", "done"} =>
        end[x] = "eof" /\ unread[x] = 0

(* If it ends before, then because it lost what it could not write. *)
GaveUp ==
    \A x \in half : end[x] = "no" /\ pc[x] \in {"finish", "done"} => lost[x] > 0

(* While a side with CloseWrite is still copied from, all that the other   *)
(* one sends is written to it, and an end of file comes last.              *)
Drains ==
    ~Broken => \A x \in half : pc[x] \in {"read", "write"} =>
        /\ lost[Other(x)] = 0
        /\ pc[Other(x)] \in {"finish", "done"} =>
              end[Other(x)] = "eof" /\ unread[Other(x)] = 0

RelayInv ==
    NatTypes /\ Conserved /\ CopyInv /\ EndInv /\ NothingLost /\ GaveUp /\ Drains
=============================================================================
