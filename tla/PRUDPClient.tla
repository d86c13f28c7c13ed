---------------------------- MODULE PRUDPClient ----------------------------
(***************************************************************************)
(* The per-peer session object (PRUDPClient) and its reliable substreams   *)
(* (ReliableSubstream with its resend scheduler).                          *)
(*                                                                         *)
(* The server in src/prudp_server.go calls these types on every packet,    *)
(* but their source is not among the repository's files: the operators     *)
(* below are written from spec.md (sections 3, 4.2 and 4.3) and are pure   *)
(* functions from a record to a record.  PRUDPServer gives them a state.   *)
(*                                                                         *)
(* Byte strings (signatures, keys) are tuples of model values; payloads    *)
(* are tuples of naturals, one per byte.                                   *)
(***************************************************************************)
EXTENDS Integers, Sequences, FiniteSets, FiniteSetsExt, Functions, TLC

CONSTANTS
    SeqSpace    \* number of sequence ids: 2^16 in the code (uint16), small here

ASSUME SeqSpace \in Nat \ {0, 1}

\* An empty []byte: the signature and the session key of a peer that has none.
NoBytes == <<>>

\* The stream type and port pairs of a peer that has sent no SYN (Go zero values).
ZeroEndpoints == <<0, 0>>

\* A map with no entry (sequence id -> something).
NoEntries == <<>>

\* The successor of a uint16 counter.
NextID(id) == (id + 1) % SeqSpace

-----------------------------------------------------------------------------
(* ReliableSubstream (spec.md 3, 4.2) *)

\* Both sequence counters start at 1.  outCipher and inCipher are the
\* positions of the two RC4 keystreams, in bytes.  sent, got and delivered
\* are history: how many packets took an outgoing id, which of them the
\* remote peer has received, and the messages handed upstream so far.
NewReliableSubstream ==
    [ outSeq     |-> 1,
      inSeq      |-> 1,
      pending    |-> NoEntries,
      fragmented |-> <<>>,
      resend     |-> NoEntries,
      outCipher  |-> 0,
      inCipher   |-> 0,
      sent       |-> 0,
      got        |-> {},
      delivered  |-> <<>> ]

\* How many packets, starting with the expected id, are waiting in a row.
ReadyCount(pending, expected) ==
    Max({ k \in 0..Cardinality(DOMAIN pending) :
            \A i \in 0..(k - 1) : (expected + i) % SeqSpace \in DOMAIN pending })

\* Update: enqueue the packet under its sequence id, then pull the packets
\* from the expected id on for as long as the next one is there.
Update(sub, packet) ==
    LET pending == (packet.sequenceID :> packet) @@ sub.pending
        count   == ReadyCount(pending, sub.inSeq)
        pulled  == { (sub.inSeq + i) % SeqSpace : i \in 0..(count - 1) }
    IN  [ ready |-> [i \in 1..count |-> pending[(sub.inSeq + i - 1) % SeqSpace]],
          sub   |-> [sub EXCEPT !.pending = Restrict(pending, DOMAIN pending \ pulled),
                                !.inSeq   = (sub.inSeq + count) % SeqSpace] ]

\* RC4 is a keystream: bytes decrypt to what was encrypted only at the
\* position they were encrypted at.  A ciphertext is the plaintext and the
\* position; anything decrypted elsewhere is garbage (byte 0).
Encrypt(sub, payload) ==
    [bytes |-> payload, at |-> sub.outCipher]

Decrypt(sub, cipher) ==
    IF cipher.at = sub.inCipher THEN cipher.bytes ELSE [i \in DOMAIN cipher.bytes |-> 0]

\* AddFragment appends to the accumulator; the caller gets the accumulator.
AddFragment(sub, fragment) ==
    [sub EXCEPT !.fragmented = @ \o fragment]

ResetFragmentedPayload(sub) ==
    [sub EXCEPT !.fragmented = <<>>]

\* NextOutgoingSequenceID returns sub.outSeq and advances the counter.
AfterNextOutgoingSequenceID(sub) ==
    [sub EXCEPT !.outSeq = NextID(@), !.sent = @ + 1]

\* ResendScheduler.AddPacket: keep the bytes as sent, start its timer.
AddPacket(sub, packet) ==
    [sub EXCEPT !.resend = (packet.sequenceID :> [packet |-> packet, n |-> sub.sent, tries |-> 0]) @@ @]

\* ResendScheduler.AcknowledgePacket: stop and forget the entry, if there is one.
AcknowledgePacket(sub, sequenceID) ==
    [sub EXCEPT !.resend = Restrict(@, DOMAIN @ \ {sequenceID})]

-----------------------------------------------------------------------------
(* PRUDPClient (spec.md 3, 4.3) *)

\* heartbeat is the state of the peer's two timers: "stopped", "armed" (the
\* heartbeat timer runs) or "kick" (a ping is out and the removal timer runs).
NewPRUDPClient(address) ==
    [ address                   |-> address,
      clientConnectionSignature |-> NoBytes,
      serverConnectionSignature |-> NoBytes,
      endpoints                 |-> ZeroEndpoints,
      sessionKey                |-> NoBytes,
      pid                       |-> 0,
      reliableSubstreams        |-> <<>>,
      unreliableSeq             |-> 1,
      pingSeq                   |-> 1,
      heartbeat                 |-> "stopped" ]

StartHeartbeat(client) == [client EXCEPT !.heartbeat = "armed"]

\* Any inbound packet restarts the heartbeat timer and cancels a removal.
ResetHeartbeat(client) == [client EXCEPT !.heartbeat = "armed"]

\* reset, on SYN: the peer is as new (signatures, key, substreams and their
\* resend timers, counters); its address and its heartbeat stay.
Reset(client) ==
    [NewPRUDPClient(client.address) EXCEPT !.heartbeat = client.heartbeat]

\* cleanup, on DISCONNECT and on expiry: stop the timers, drop the substreams.
Cleanup(client) ==
    [client EXCEPT !.reliableSubstreams = <<>>, !.heartbeat = "stopped"]

\* createReliableSubstreams(max): substreams 0..max, all new.
CreateReliableSubstreams(client, max) ==
    [client EXCEPT !.reliableSubstreams = [i \in 1..(max + 1) |-> NewReliableSubstream]]

\* Is reliableSubstream(id) an element of the table?  (Substream id is index id+1.)
HasReliableSubstream(client, id) == id + 1 \in DOMAIN client.reliableSubstreams

ReliableSubstream(client, id) == client.reliableSubstreams[id + 1]

WithReliableSubstream(client, id, sub) ==
    [client EXCEPT !.reliableSubstreams[id + 1] = sub]

\* A retransmission timer of the peer is running.
HasResendTimer(client) ==
    \E i \in DOMAIN client.reliableSubstreams : DOMAIN client.reliableSubstreams[i].resend # {}

=============================================================================
