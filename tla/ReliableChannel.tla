-------------------------- MODULE ReliableChannel --------------------------
(***************************************************************************)
(* What the reliable substreams of a session promise the application       *)
(* (spec.md 4.2, 4.4 and 8): while the session is open the receiver        *)
(* accepts, on each substream, the sender's bytes in the sender's order,   *)
(* each once; a handshake opens the session with nothing accepted, and a   *)
(* SYN, a DISCONNECT or the removal of the peer closes it.  How the bytes  *)
(* travel (packets, sequence ids, reordering, retransmission, encryption)  *)
(* is not part of the promise.                                             *)
(***************************************************************************)
EXTENDS Naturals, Sequences

CONSTANTS
    Sessions,    \* the sessions there can be
    Substreams   \* the substreams of a session

VARIABLES
    sent,      \* the bytes the sender puts on each substream, in its order
    open,      \* open[c]: session c has its substreams
    received   \* received[c][s]: the bytes accepted on substream s since c opened

channel == <<sent, open, received>>

Nothing == [s \in Substreams |-> <<>>]

Init ==
    /\ sent \in Seq(Nat)
    /\ open = [c \in Sessions |-> FALSE]
    /\ received = [c \in Sessions |-> Nothing]

\* CONNECT: the session opens, or opens anew, with nothing accepted.
Open(c) ==
    /\ open' = [open EXCEPT ![c] = TRUE]
    /\ received' = [received EXCEPT ![c] = Nothing]
    /\ UNCHANGED sent

\* SYN, DISCONNECT, expiry: what was accepted is gone with the session.
Close(c) ==
    /\ open[c]
    /\ open' = [open EXCEPT ![c] = FALSE]
    /\ received' = [received EXCEPT ![c] = Nothing]
    /\ UNCHANGED sent

\* The receiver accepts the next bytes of a substream, one or several.
Accept(c, s) ==
    /\ open[c]
    /\ \E n \in (Len(received[c][s]) + 1)..Len(sent) :
           received' = [received EXCEPT ![c][s] = SubSeq(sent, 1, n)]
    /\ UNCHANGED <<sent, open>>

Next == \E c \in Sessions : Open(c) \/ Close(c) \/ \E s \in Substreams : Accept(c, s)

Spec == Init /\ [][Next]_channel

=============================================================================
