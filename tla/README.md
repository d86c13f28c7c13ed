# TLA+ models of nex-go's PRUDP server and byte streams

This directory holds TLA+ specifications of the PRUDP transport and of the
byte streams in `src/`, the
TLC configurations that check them, and `PROJECT.json`, which maps every
definition to the source lines it models and lists the runs, the findings and
the hazards.

    tlc -workers 2 -config session.cfg MCPRUDPServer
    tlc -workers 2 -config streams.cfg MCStreams

## The system

`src/prudp_server.go` is a UDP server for the PRUDP protocol (versions 0 and 1).

| Part | Source | What it does |
|---|---|---|
| Listeners | `Listen`, `listenDatagram`, `handleSocketMessage` | `runtime.NumCPU()` goroutines read datagrams from one socket; each looks the sender up in the registry `s.clients`, creates and registers a peer if there is none, parses the datagram into packets and processes them in order |
| Dispatch | `processPacket` | restarts the sender's heartbeat, then routes by flag (ACK, MULTI_ACK) and type |
| Handshake | `handleSyn`, `handleConnect`, `readKerberosTicket` | SYN resets the peer and answers with a connection signature; CONNECT creates the reliable substreams and, on a secure server, reads the Kerberos ticket and the request in the payload, installs the session key and the pid they give and answers the request's check value |
| Reliable data in | `handleData`, `handleReliable` | acknowledges, puts the packet in the substream's window (`Update`), decrypts and accumulates the packets that are in order, and emits `reliable-data` when a message is complete |
| Acknowledgements in | `handleAcknowledgment`, `handleMultiAcknowledgment` | take packets out of the resend scheduler: one id, or a base and a list, in two payload formats |
| Goodbye and ping | `handleDisconnect`, `handlePing`, `sendPing` | acknowledge; clean the peer up and delete its registry entry; ping a silent peer |
| Send path | `Send`, `sendPacket`, `sendRaw`, `acknowledgePacket` | fragment a payload, give each packet a sequence id, encrypt, sign, schedule for resending, write |
| Events | `on`, `emit` | handlers registered per event name, each called in a goroutine of its own |
| Peer, substream, scheduler | not in `src/` | `PRUDPClient`, `ReliablePacketSubstreamManager`, `ResendScheduler`: described in `spec.md` 3, 4.2, 4.3 |
| Packet codec | not in `src/` | `PRUDPPacketV0/V1`: parsing, encoding, signatures |
| Input stream | `src/stream_in.go` | `StreamIn`: typed reads over a byte buffer with a cursor: numbers in both byte orders, PID, string, buffer, qBuffer, lists, maps, structures with a header; every read compares what it takes with `Remaining()` |
| Output stream | `src/byte_stream_out.go` | `ByteStreamOut`: typed little-endian writes at the end of a growing buffer |
| Value types | `src/unnamed/part_000` | `QBuffer`, `PrimitiveF64`: write themselves to a writable, extract themselves from a readable |
| Ticket generator | `src/test/generate_ticket.go` | builds a ticket for tests |

Concurrency: the listeners run in parallel and share the registry (a map with a
mutex per operation) and the peers. The timers of a peer (heartbeat, removal,
one retransmission timer per scheduled packet) fire in goroutines of their own.
The application calls `Send` from the handlers of its events, and `emit` starts
a goroutine for every handler of every event. `src/prudp_server.go` takes no
lock of a peer anywhere: not in the handlers, not in `Send`, not in
`sendPacket`. The streams are sequential: a stream
belongs to the goroutine that handles the packet. What makes them hard is
their input, which is whatever a remote peer sends.

## The modules

**`PRUDPClient`** is the peer and its substreams as records, with one operator
per method (`Update`, `AddFragment`, `NextOutgoingSequenceID`, `AddPacket`,
`AcknowledgePacket`, `reset`, `cleanup`, `createReliableSubstreams`, ...).
Their source is not in `src/`; every operator is written from `spec.md` and
marked `spec_modelled`. Three fields of a substream are history, not state of
the program: `sent` (packets that took an outgoing id), `got` (which of them
the remote peer received) and `delivered` (messages handed upstream).

**`PRUDPServer`** is the server. Its variables:

| Variable | Code |
|---|---|
| `clients` | `s.clients`: address to registered peer |
| `peers` | every `PRUDPClient` allocated, registered or not: a removed peer still has its timers and may still be held by a listener |
| `workers` | per listener goroutine: its place (`read`, `create`, `process`, `deliver`, `delete`: between `cleanup` and `clients.Delete` in `handleDisconnect`), its peer, the packets left of its datagram; in the loop of `handleReliable` the packets `Update` returned and are still to deliver (`ready`), and whether the substream it took from the table before the loop is still the peer's (`orphaned`) |
| `out` | what the last step wrote to the socket and emitted, in order |
| `fatal` | `none`, or how the process ended: `closed` (`ReadFromUDP` returned an error: `listenDatagram` lets `Listen` return and panics), `panic` (an index out of range that nothing recovers), `oom` (a loop that only allocates) |
| `cstream` | the fragment ids of the remote peer's reliable packets, fixed in `Init` |
| `senders` | per application goroutine: the call of `Send` it is in (`client`, `packet`, the `data` left, `fragmentID`, the `turns` left of the loop), which are gone when `Send` returns, with the history of its last reliable call: the `payload` it was given, the reliable packets `written`, and `crossed`, whether the session of the peer ended or began anew under it |
| `expiring` | the peers a timer has cleaned up and whose registry entry it has not deleted yet |

Its actions, one per handler: `ReadDatagram` (`ReadFromUDP` and `clients.Get`),
`SocketFails` (the error of `ReadFromUDP`, which ends the process),
`CreateClient` (`NewPRUDPClient`, `startHeartbeat`, `clients.Set`), `HandleSyn`,
`HandleConnect`, `HandleReliable` (the acknowledgement and `Update`) and
`DeliverPending` (a turn of its loop), `HandleUnreliable`, `HandleDisconnect`
(the acknowledgement and `cleanup`) and `DeleteClient` (`clients.Delete` and
the event), `HandlePing`, `HandleAcknowledgment`, `HandleMultiAcknowledgment` (with
`MultiAcknowledgmentSpins` for the input on which its loop does not end),
`Send` (the call and the first turn of its loop) and `SendNext` (the turns
that follow); from `spec.md`, the timers: `SendPing` (the heartbeat timer,
which calls `sendPing` of `prudp_server.go`, the operator `Ping`), `Kick`,
`Resend`, `GiveUp`, and `DeleteExpired`, the second step of a removal by
`Kick` or `GiveUp`; and `Receive`, the remote peer getting a packet. Every handler
action includes `resetHeartbeat` from `processPacket`, everything the handler
sends and emits, and the step to the next packet of the datagram.

**`ReliableChannel`** is the abstract specification of what the reliable
substreams of a session promise the application: per session a flag `open`
and, per substream, the bytes `received` so far, which are always a prefix of
what the sender `sent`. Its three actions are `Open` (CONNECT: nothing
accepted yet), `Close` (SYN, DISCONNECT, expiry) and `Accept` (the next bytes
of the sender, one or several). Packets, sequence ids, the window, the
accumulator, encryption and the listeners are not in it. `PRUDPServer`
instantiates it as `Channel`, with `open` the peer having a substream table
and `received` the messages handed upstream followed by the accumulator, and
`ImplementsReliableChannel` is its specification as a property of the server.

**`MCPRUDPServer`** defines the packets, tickets and streams the configurations
choose from.

**`StreamIn`** has no variables: a stream is a record `[data, offset]` and
every reader of `stream_in.go` is an operator from a stream to a result
`[err, value, stream, capacity]`: the error, the value, the stream as the
call leaves it, and what a list reader allocated. The 18 readers of numbers
and `ReadBool` are `ReadPrimitive` applied to a kind (type, width, byte
order); `ReadBuffer`, `ReadQBuffer` and `ReadString` are `ReadPrefixed` with
their length type. The list readers are two families: `ReadListOfNumbers`
(the 18 readers from `ReadListUInt8` to `ReadListFloat64BE`) compares the
length, times the factor `ListCheck` gives for the kind (the element size, 4
for both float types), with the bytes that remain before it allocates;
`ReadListOfValues` (the readers of lists of PIDs, strings, buffers, qbuffers
and station URLs) allocates for the length as read. Both end in
`ReadElements`, the allocation and the loop, and `ReadList` chooses the
family by the kind.
`StreamReadStructure` reads a header and the fields for every type from the
root of the inheritance chain down to the type asked for. **`ByteStreamOut`**
is the writers as operators on the bytes written, and **`Types`** the
`WriteTo` and `ExtractFrom` of `QBuffer` and `PrimitiveF64`.

**`Streams`** puts them to work. Its variables: `bso` (the bytes of a
`ByteStreamOut`), `stream` (the `StreamIn`), `last` (the last call on it and
what it returned), and the history `written`, `expected`, `position` (what was
written, and how far the reader has read it back). Its actions are the calls:
`WritesPrimitive`, `WritesData`, `WritesQBuffer`, `WritesPrimitiveF64`,
`CopiesNew`; `Delivers` (a `StreamIn` on the bytes written) and `Receives` (a
`StreamIn` on any bytes); `Reads`, `ExtractsQBuffer`, `ExtractsPrimitiveF64`,
`ReadsList`, `ReadsMap`, `ReadsStructure`, `ReadsListStructure`,
`ReadsRemaining`. The reader of bytes from the network calls anything in any
order; the reader of a written message asks for the kinds that were written,
in their order, and for anything after them. **`MCStreams`** names the kinds,
maps and structure types of the runs.

### Granularity

`spec.md` 5 says the state of a peer is guarded by a per-peer lock that all
packet processing acquires. The code in `src/` acquires none, so the steps of
the model are cut where another goroutine can see or change what a handler is
in the middle of:

* the registry lookup and the registration of a new peer (`ReadDatagram`,
  `CreateClient`);
* the lookup and the later processing of each packet of the datagram, between
  which timers and other listeners run;
* in `handleDisconnect`, `client.cleanup()` (line 336) and
  `s.clients.Delete` (line 337): in between the peer is in the registry with
  its timers stopped, another listener finds it there, and by the time of
  the delete the registry may hold another peer for the address. The
  removal of a peer by its timers is cut the same way (`TornDown`,
  `DeleteExpired`); their code is not in `src/`, and `spec.md` 4.3 has the
  same two calls in the same order;
* in `handleReliable`, `Update` and each turn of the loop over what it
  returned (`HandleReliable`, `DeliverPending`): the listener holds the
  substream and the packets in local variables, and the table of the peer may
  be replaced (SYN, CONNECT) or dropped (DISCONNECT, expiry) meanwhile;
* in `Send`, each turn of the loop (`Send`, `SendNext`): acknowledgements,
  retransmissions, handshakes and other calls of `Send` come between two
  fragments.

A step of the model is otherwise one handler, or one `sendPacket`: a short
sequence of calls on one peer, each of which is a method of the client or of
its scheduler. Their interleavings with one another inside a handler are not
explored; what each leaves behind is.

### Abstraction of data

A packet is a record of the fields the server reads or sets. A connection
signature is `<<address>>`, a session key a tuple of one model value: what
matters is which one it is. RC4 is modelled by what a keystream does: a
ciphertext is the plaintext with the position it was encrypted at, and
decrypts to garbage at any other position. Sequence ids and fragment ids
keep a width: `SeqSpace` and `FragSpace` stand for 2^16 and 2^8 and are small
in the runs, so that wrapping happens.

The payloads the server parses are bytes, read and written by the stream
modules: `PRUDPServer` instantiates `ByteStreamOut` (which extends
`StreamIn`) as `Wire`. The payload of a CONNECT is two buffers, the ticket
and the request, each a 32-bit length and its bytes. `ReadKerberosTicket`
reads them with `ReadBuffer` and the request's three words (user pid,
connection id, check value) with `ReadPrimitive`, and fails at the first read
that fails, as `readKerberosTicket` does; `CheckResponse` writes the answer,
a length of 4 and `checkValue + 1` in `uint32` (a uint32 is four bytes of
`ByteSpace` values, so the largest check value of a run is answered with 0).
The decryptions are not in `src/` and are modelled by what they decide
(`spec.md` 4.4): the request in the payload is its plaintext, and the packet
carries beside its payload a record `ticket` with the key the ticket is
sealed with, its age, the user and the session key in it, and the key the
request is sealed with. A key is `DeriveKerberosKey(pid, password)`, the
pair of the two. The ticket opens if its key is that of pid 2 and of the
server's `KerberosPassword`, the request if its key is the ticket's session
key. `GenerateTicket` is `generateTicket` of `test/generate_ticket.go`: it
seals a ticket for a target pid with the password `"password"`. The record
also says what the client that wrote the payload meant (`framed`,
`request`), which only the property reads. The payload of an aggregate acknowledgement is bytes as well:
the remote peer writes it with `WritePrimitive`
(`Bytes8`, `Bytes16`), and `handleMultiAcknowledgment` reads it with
`ReadPrimitive`, dropping the errors as the code does: a read that fails
gives 0 and consumes nothing (`ReadIDs`, `NewFormat`, `OldFormat`). Which
payloads have an id too few or keep the old-format loop reading for ever
(`ReadsForEver`) follows from the readers. A sequence id is two bytes, so in
the runs with acknowledgements `SeqSpace` is `ByteSpace^2`. The payload of a
data packet is one natural per byte and is not read as a stream.

In the stream modules the byte is small: `ByteSpace`
is the number of values of a byte (2 in the runs, 256 in the code), so a
`uint16` has `ByteSpace^2` values and a `uint32` `ByteSpace^4`. Widths in
bytes, byte order, two's complement and the wrap of `uint32` products are
those of the code. A float is its bits. The bytes of a string are trimmed of
trailing zeros and not decoded further; a station URL is its string. The
value of a list of structures is the sequence of all fields read.

### Assumptions

* `client.reliableSubstream(id)` indexes a slice, as `spec.md` 3 describes the
  table (indexed `0..N`); an id past the end is a run-time panic.
* `reset` leaves a peer as new except for its address and heartbeat.
* A panic in a listener or a timer ends the process: nothing in `src/`
  recovers, and `listenDatagram` itself ends with `panic(err)`.
* `crunch.Buffer` (not in the repository): `ReadBytesNext(n)` returns the next
  `n` bytes and moves the cursor by `n`; the integer readers and writers are
  little- or big-endian as named. A read past the end, on which the library
  panics, is modelled as a cursor outside the buffer, which
  `CursorWithinBuffer` excludes.
* The readable of `QBuffer` and `PrimitiveF64` is `StreamIn`.

## The runs

The server runs have one address and a secure server, and one substream per
session except `acks`, which has two; a byte of an acknowledgement payload
has 2 values where `SeqSpace` is at most 4 and 3 otherwise. The stream runs
have `ByteSpace` 2, 16-bit string lengths, 32-bit PIDs and structure headers.

| Run | Expect | Properties | Bounds |
|---|---|---|---|
| `session` | pass | `TypeOK`, `KeysComeFromValidTickets`, `AcksAnswerReceipts` | 1 listener, 1 peer, datagrams of up to 2 packets, 1 ping, `SeqSpace` 2; SYN and CONNECT of both versions with the good ticket, CONNECT of version 1 with 4 bad tickets and 4 torn payloads; ping, disconnect, 1 reliable packet, unreliable data both ways, ping acks |
| `listeners` | pass | `TypeOK`, `SilentPeersAreRemoved`, `RegistryEmpties` | `FairSpec`; 2 listeners, 2 peers, 1 packet per datagram, any number of pings (the ping counter has `SeqSpace` 2 values); SYN, DISCONNECT, PING |
| `reassembly` | pass | `TypeOK`, `BytesInOrder`, `ImplementsReliableChannel`, `SentIsAccepted` | `IsSecureServer` false, so CONNECT reads no ticket (true in every other run); 4 reliable packets cut into messages in all 8 ways, `SeqSpace` 6, datagrams of up to 2 packets, any order, any repetition |
| `acks` | pass | `TypeOK`, `UnreceivedStaysScheduled`, `SentFragmentsReassemble`, `RetransmissionsEnd` | `RetrySpec`; sessions of 2 substreams; 1 goroutine in `Send`; payloads of 0..2 bytes with `FragmentSize` 1 (1 to 3 fragments), 3 packets per session over both substreams, `SeqSpace` 4 (no wrap), 1 retransmission, all five acknowledgement shapes |
| `fragments` | violation | `MessagesAreClientMessages` | 3 reliable packets, 1 per datagram |
| `wrap` | violation | `UnreceivedStaysScheduled` | 4 packets with `SeqSpace` 4: the fourth has id 0 |
| `survive` | violation | `ServerSurvives` | as `session`, 1 packet per datagram |
| `spin` | violation | `ListenerLeavesReadLoop` | as `acks`, 1 substream |
| `one_peer` | violation | `OnePeerPerAddress` | 2 listeners, 2 peers |
| `unlocked` | violation | `BytesInOrder` | as `reassembly`, with 2 listeners, 2 packets, 1 per datagram |
| `streams` | pass | `TypeOK`, `CursorWithinBuffer`, `ReadsInvertWrites` | every byte string of up to 5 bytes; 2 writes of any kind with values at the ends of each range, data and qBuffers of up to 2 bytes; every reader, list reader, 2 map types, 2 structure types |
| `alloc` | violation | `AllocationWithinInput` | as `streams`, with `ReadListUInt16LE` as the only list reader |

What the passing runs show:

* **`KeysComeFromValidTickets`**: a peer's session key and pid are those of a
  CONNECT whose client wrote two whole buffers and a request of three words,
  whose ticket was generated for pid 2 with the server's password and is at
  most 120 s old, and whose request is sealed with the ticket's session key;
  the pid is the one that client wrote in the request (the user in the
  ticket is not compared with it). `handleConnect` installs what
  `readKerberosTicket` returns even when it returns an error; the property
  holds because every error path returns no key, and because the readers of
  `StreamIn` refuse every payload that is not two buffers. The CONNECTs of
  the run carry one good ticket at exactly 120 s, one at 121 s, one generated
  for another server, one whose request is sealed with the session key of
  another ticket, a request of two words, and four torn payloads: the
  last byte lost, the request missing, a ticket that announces more bytes
  than there are, and no payload. A failed ticket is still answered, with
  CONNECT+ACK and the response to check value 0.
* **`AcksAnswerReceipts`** (action property): every acknowledgement written
  echoes type, sequence, fragment and substream id of the packet being
  processed in that step, with ports exchanged, to its sender; DISCONNECT
  three times.
* **`SilentPeersAreRemoved`** (liveness, `spec.md` 8 property 6): if from some
  point on no datagram arrives, then from some point on no peer has a running
  timer: each was pinged by `sendPing` and then cleaned up, deleted and
  reported. It holds for the peers the findings are about as well: the peer a
  listener re-armed after its removal and the peer another one replaced in
  the registry (`one_peer`) keep their own timers and are removed
  by them. Datagrams still being processed when the arrivals stop re-arm
  heartbeats; the property needs no fairness of the listeners, because a
  listener that never finishes re-arms nothing.
* **`RegistryEmpties`** (liveness, `spec.md` 4.3 and 5): if from some point
  on no datagram arrives, then from some point on the registry holds nobody.
  A removal is two calls, `cleanup` and the delete by address, and between
  them the registry holds a peer whose timers are stopped: the other
  listener takes it from there and re-arms it, or registers a new peer in
  its place, which the delete then removes from the registry while its
  timers run. That a registered peer has running timers, or a peer with
  running timers is registered, holds of no state of the code; what holds is
  that every entry goes in the end, because each cleanup is followed by its
  delete, each re-armed or orphaned peer expires by its own timers, and each
  expiry deletes by address again. A `handleDisconnect` that returned
  before `clients.Delete` would keep `SilentPeersAreRemoved` and lose this.
* **`BytesInOrder`**: what was handed upstream plus the accumulator is the
  bytes of packets 1, 2, ... in order, each decrypted at its keystream
  position, and with the packets the listener has in hand in its loop they
  are the packets before the expected sequence id, whatever order the
  packets arrived in and however often. It holds with one listener; with two
  it is the property `unlocked` finds violated.
* **`ImplementsReliableChannel`** (refinement): every step of the server is a
  step of `ReliableChannel` or leaves the channel as it is. What a substream
  has accepted only ever grows by the sender's next bytes; it is never
  changed or taken back while the session lasts; it starts anew only when the
  substream table is created or dropped; and nothing is accepted by a peer
  without a session. The invariant `BytesInOrder` says what the accepted
  bytes are in a state; the refinement says what a step may do to them,
  across handshakes, disconnects and duplicates arriving late. The channel
  lets an open session open again, because `handleConnect` re-creates the
  substreams of a connected peer; `spec.md` 4.3 expects CONNECT before the
  session is open only.
* **`SentIsAccepted`** (liveness): if the remote peer goes on retransmitting
  every packet of its stream, handshake and control packets stop arriving
  after some time, and every listener comes back to `ReadFromUDP` again and
  again, then the process ends or some session accepts the whole stream. The
  safety properties hold of a server that accepts nothing; this one says that
  a packet waiting in the window is pulled when the gap before it closes,
  that the loop of `handleReliable` delivers every packet `Update` returns,
  and that duplicates of waiting and of delivered packets block nothing. A
  server that delivers only the first packet `Update` returns keeps every
  safety property and loses this one.
* **`UnreceivedStaysScheduled`**: while the sequence id has not wrapped, no
  acknowledgement (single, aggregate in either format, short) removes from
  the scheduler a packet the remote peer has not received. The two
  substreams of the run number their packets alike, so an acknowledgement
  applied to the wrong substream would remove a packet that is still due.
  The property holds on three conditions of the run, each of which the
  code depends on as well. The sequence ids do not wrap (`wrap`). The remote
  peer uses the old aggregate format for substream 0 only: the code reads
  every old-format acknowledgement as one of substream 0, and a header with
  substream id 1 as the new format (the TODO at line 189). And the remote
  peer acknowledges no ping: `handleAcknowledgment` does not look at the
  type of the packet, so the acknowledgement of ping n removes reliable
  packet n of substream 0 (see the findings without a run).
* **`SentFragmentsReassemble`**: the packets a call of `Send` has written
  have consecutive sequence ids and keystream positions, fragment ids 1, 2,
  ... and 0 for the last only, and their payloads concatenate to the payload,
  whatever acknowledgements, retransmissions and give-ups come between two
  fragments. It is said of the calls whose session lasted: a call that a
  CONNECT overtakes writes the rest of its payload as the first packets of
  the new session, and one that a SYN, a DISCONNECT or the expiry overtakes
  ends the process at its next fragment (`sendPacket` indexes the table that
  was dropped). It is said of one goroutine in `Send`: see the findings
  without a run.
* **`RetransmissionsEnd`** (liveness, `spec.md` 4.2 and 7, SchedulerGiveUp):
  once no handshake arrives any more, from some point on every resend
  scheduler is empty, or the process has ended. Each packet `sendPacket`
  scheduled was removed by an acknowledgement or went with its peer when the
  last retransmission stayed unanswered. `UnreceivedStaysScheduled` holds of
  a scheduler that never lets go; this property says it does, whatever
  acknowledgements (short, late, repeated, for the other substream) arrive
  between the retransmissions, and although nothing is assumed of the
  listeners or of the remote peer. A handshake begins a session in which the
  application sends anew, hence the antecedent.

* **`CursorWithinBuffer`**: no sequence of reads, of any kinds, on any bytes,
  takes the cursor out of the buffer. It relies on every length-prefixed
  reader comparing the length it has just read with what remains, and on
  the element readers comparing again inside lists whose own comparison is
  too weak (float64, at `length*4`) or absent.
* **`ReadsInvertWrites`**: what `ByteStreamOut`, `QBuffer` and `PrimitiveF64`
  write, `StreamIn` reads back: same value, no error, for every kind, for
  negative numbers and the largest of each width, whatever was written
  before and after. It holds while a qBuffer is shorter than 2^16 bytes
  (`MaxQBuffer` below `ByteSpace^2`); see the hazards in `PROJECT.json`.

Each property has a mutant in `PROJECT.json`: a plausible bug in the mapped
definition under which TLC finds the property violated.

### Findings (the violation runs)

| Run | Line | What happens |
|---|---|---|
| `fragments` | `prudp_server.go:444` | `handleReliable` tests the fragment id of the packet that arrived, not of the packet it pulled from the window. Packets 1 (fragment 1), 2 (fragment 0), 3 (fragment 0) arriving as 2, 1: the arrival of 1 pulls both and emits no message until a packet with fragment id 0 arrives, and an arrival with fragment id 0 that pulls several packets emits one message per packet. |
| `wrap` | `prudp_server.go:204` | `sequenceID <= baseSequenceID` on `uint16`: after the wrap, packets with ids 0, 1, ... sent after the base are removed from the scheduler and never retransmitted. |
| `survive` | `prudp_server.go:165` | The acknowledgement of the server's own ping, from a peer that sent no CONNECT, indexes an empty substream table. Reliable DATA before CONNECT does the same at line 438. One datagram ends the server. |
| `spin` | `prudp_server.go:195` | Old-format MULTI_ACK with an odd payload length: `ReadUInt16LE` fails on the last byte without consuming it, its error is dropped, `Remaining()` stays 1. |
| `one_peer` | `prudp_server.go:104` | `Get` then `Set` in two steps: two listeners create two peers for one address, both with timers. |
| `unlocked` | `prudp_server.go:440` | No lock of the peer between `Update` and the loop. Listener 1 reads packet 1 and gets it from `Update`; listener 2 reads packet 2 and gets it from `Update`; listener 2 runs its loop first: packet 2 is decrypted at keystream position 0 and handed upstream as a message of garbage before packet 1. `spec.md` 5 has all packet processing of a peer under its lock and `reliable-data` events in sequence order. |
| `alloc` | `stream_in.go:382` | The list readers compare `Remaining()` with `int(length*2)`, a `uint32` product. In the run the data are `<<0,0,0,1>>`: length 8 of 16 values, times 2 is 0, the comparison passes with nothing left and the capacity allocated is 8. In the code: length `0x80000000`, `make([]uint16, 0, 2^31)` for a four-byte payload. The list readers of PIDs, strings, buffers and structures allocate without any comparison. |

Findings without a run of their own. Each was met while modelling and is
reproduced by the change of a configuration given here:

* `prudp_server.go:136`: a listener holds a peer that its heartbeat, or the
  DISCONNECT earlier in the same datagram, has removed; `processPacket`
  re-arms the heartbeat of the removed peer, which then has running timers
  and no registry entry, and whose later expiry deletes, by address, whatever
  peer is registered then. (`session.cfg` with the invariant
  `\A c \in PeerIds : Live(c) => clients[peers[c].address] = c`: violated by
  a datagram of DISCONNECT and SYN.)
* `prudp_server.go:165`: `handleAcknowledgment` removes the entry with the
  packet's sequence id from the scheduler of the substream the packet names,
  whatever the packet's type. Pings are numbered by a counter of their own
  and carry substream id 0, so the acknowledgement of ping 1 removes
  reliable packet 1 of substream 0, which the remote peer may not have
  received and which is then never retransmitted. (`acks.cfg` with
  `MaxPings = 1` and `"ping"` among the `AckFormats` violates
  `UnreceivedStaysScheduled` in eight steps: CONNECT, the ping, `Send`, the
  acknowledgement of the ping.)
* `prudp_server.go:499`: two goroutines in `Send` for one substream interleave
  their fragments, which take sequence ids in the order of the calls of
  `sendPacket`: the remote peer reassembles a mixture. (`acks.cfg` with
  `Senders = {s1, s2}` violates `SentFragmentsReassemble` after two calls and
  one more turn.)
* `unnamed/part_000:18`: `QBuffer.WriteTo` writes the length modulo 2^16.
  (`streams.cfg` with `MaxQBuffer = 4` violates `ReadsInvertWrites`.)

### Bounds

Every bound is a constant of `PRUDPServer` and appears in a guard: `MaxPeers`
(`ReadDatagram`), `MaxDatagram` (`Read`), `MaxPings` (`SendPing`), `MaxResends`
(`Resend`, `GiveUp`), `MaxOut` (the reliable packets of a session, over all
its substreams) and `MaxPayload` (`Send`). In `listeners` `MaxPings` equals
`SeqSpace`, the number of values of the ping counter, and bounds nothing: a
peer is pinged as often as it is heard again. They are enough for
the cases the properties are about: reordering needs 3 packets and a message
of 2 fragments (the runs have 4 packets and messages of up to 4); the wrap
needs `MaxOut = SeqSpace`; the registry race needs 2 listeners and 2 peers; the race of two loops of
`handleReliable` needs 2 listeners and 2 packets; a session that ends under
a call of `Send` needs a call of 2 fragments;
the fragment-id counter wraps at `FragSpace` 4, above the 3 fragments of
`acks`. `MaxResends` is a bound of the model and not of the code: `spec.md`
4.2 and 9 say that the attempts are limited and that the source does not
say by what. With removals in two steps `listeners` has two peers, which
is what each case of `RegistryEmpties` and `SilentPeersAreRemoved` takes (a
peer that is cleaned up, and one registered in its place or re-armed); with
three peers it has 6.6 million states and the liveness check does not end
in fifteen minutes. Larger bounds were tried for `session` (2 peers,
`SeqSpace` 4) and `listeners` (2 packets per datagram): no new violation,
but more than five minutes.

The bounds of `Streams` are `MaxData` (`Receives`), `MaxWrites` and
`MaxQBuffer` (the writes) and `Samples` (the numbers written). With
`ByteSpace` 2 a byte string of 5 bytes holds a 32-bit length and one more
byte, a 16-bit length with up to three bytes of content, and a structure
header; lengths from 0 to 15 meet at most 1 byte of content, so every
comparison is taken on both sides, and 8 * 2 wraps in `uint32`. 64-bit
values are read from written messages only (up to 16 bytes). `Samples` has
the least and greatest value of each signed and unsigned width.

### Deadlock and fairness

The server configurations have `CHECK_DEADLOCK FALSE`. The server may rest: with no
datagram arriving and no timer running nothing happens, and the bounds end a
run where the program would go on. A process that has ended (`fatal` not
`none`) takes no step. The stream configurations check deadlock: a stream
can always be read again.

`listeners` runs `FairSpec`, which adds `TimersFire`: weak fairness of
`SendPing(c)`, `Kick(c)` and `DeleteExpired(c)` for every peer. A heartbeat or removal timer is a
`time.AfterFunc`: once it has expired the runtime runs its function in a
goroutine of its own, whatever the listeners do, and it stays due until it
runs or is reset. The action is enabled exactly while the timer is in that
state, so weak fairness is what the runtime gives; the goroutine that has
cleaned a peer up goes on to the delete. `FairSpec` also has
`ListenersDelete`, weak fairness of `DeleteClient(w)`: a listener that has
returned from `cleanup` calls `clients.Delete` next, and the lock of the
registry, the only one it waits for, is held for one map operation at a
time. Nothing is assumed of the network (a datagram may never arrive) nor
of the listeners elsewhere: a listener may stay for ever before any other
step.

`acks` runs `RetrySpec`: weak fairness, for every peer, of `Retransmits(c)`,
the retransmission or the give-up of some packet in one of its resend
schedulers. The timers of a scheduler are timers like the heartbeat's. The
fairness is of the disjunction, which is less than the runtime gives (every
timer fires) and enough: each firing counts an attempt or ends the peer.

`reassembly` runs `Spec`, with no fairness: what `SentIsAccepted` needs is an
assumption about the remote peer and the scheduler, and it is written as the
antecedent of the property, where it can be read. Retransmission is
`[]<>` of the arrival of each data packet; the listeners are assumed to be at
`ReadFromUDP` infinitely often, which a goroutine that is scheduled and meets
no blocking call between two reads does (the only lock the handlers take is that
of the client table, held for the length of one lookup or update). The other runs check safety only.

## Not modelled

* The packet codec and signature verification (not in `src/`): packets arrive
  parsed, all packets of a datagram by the parser of one version (`Parsed`).
  Malformed datagrams, which the parser drops, are not generated.
* `on`, and what the handler goroutines `emit` starts do apart from calling
  `Send`: `out` keeps the order of the `emit` calls, and the handlers are the
  application's. `on` appends to a map of slices that `emit` reads without a
  lock; registration is what an application does while it sets the server
  up, before `Listen`, and no caller of it is in `src/`.
* The accessors and setters of the server (`prudp_server.go` 543-684): each
  reads or writes one field, none is called by the code modelled here while
  it runs, and the four settings that reach a decision (`IsSecureServer`,
  `KerberosPassword`, `PRUDPVersion`, `FragmentSize`) are constants of a
  run. The `ASSUME` of `PRUDPServer` says what values they take:
  `FragmentSize` is positive, as `Send` divides by it and `SetFragmentSize`
  takes any `int`.
* The steps inside `sendPacket` and inside the handlers other than
  `handleReliable` (see Granularity).
* `ReadVariant`, `ReadDataHolder`, `ReadListDataHolder`: they call
  `ExtractFromStream` of types that are not in `src/`.
* `Copy`, `Equals`, `String` and the constructors of `QBuffer` and
  `PrimitiveF64`: they compare or copy one value and touch no stream. The
  settings accessors of `ByteStreamOut` are constants of `StreamIn`.
* The layer of a ticket that is sealed for its user, and `DeriveKerberosKey`
  as a hash: a key is the pair it is derived from.
* More than one address in a run. More than one substream per session on the
  inbound side (`reassembly`).

## Plan

1. Structure content confined to the length of its header
   (`stream_in.go:940`).
2. The session state machine of `spec.md` 4.3: a channel whose `Open` needs a
   closed session, which a CONNECT in mid-session (`prudp_server.go:284`)
   does not implement.
3. The channel of messages, above the channel of bytes: `handleReliable` with
   the fragment test on the pulled packet shown to implement a FIFO of the
   sender's messages.
4. Two callers of `Send` on one session, whose packets are numbered in one
   order and encrypted in the other. With two senders the `acks`
   configuration does not finish in fifteen minutes; it needs a model of its
   own with one substream and no retransmission.
