---------------------------- MODULE PRUDPServer ----------------------------
(***************************************************************************)
(* The PRUDP server of src/prudp_server.go: the registry of peers, the     *)
(* listener goroutines that read datagrams and dispatch their packets, the *)
(* packet handlers, the timers of a peer and the application's Send.       *)
(*                                                                         *)
(* A step is one handler run on one packet, one expiry of a timer, or one  *)
(* piece of what the code does not make atomic: a half of the registry     *)
(* lookup (Get, then create and Set), a turn of the loop of handleReliable *)
(* over the packets Update returned, a turn of the loop of Send over the   *)
(* fragments of a payload.                                                 *)
(***************************************************************************)
EXTENDS PRUDPClient, SequencesExt

CONSTANTS
    Addrs,            \* remote UDP addresses
    Workers,          \* listener goroutines (runtime.NumCPU() of them in Listen)
    Senders,          \* application goroutines that call Send (emit starts one
                      \* for every handler of every event)
    IsSecureServer,   \* s.IsSecureServer
    KerberosPassword, \* s.kerberosPassword
    PRUDPVersion,     \* s.PRUDPVersion, the version of the pings the server makes
    FragmentSize,     \* s.FragmentSize, 1300 in the code
    FragSpace,        \* number of fragment ids: 2^8 in the code (uint8)
    ByteSpace,        \* number of values of a byte in the payloads the server
                      \* parses and writes: 2^8 in the code
    ZeroByte,         \* the byte 0 of a zeroed connection signature
    MaxPeers,         \* bound: PRUDPClient objects ever allocated
    MaxDatagram,      \* bound: packets in one datagram
    MaxPings,         \* bound: pings the heartbeat of one peer sends
    MaxResends,       \* bound: retransmissions of one packet before the scheduler gives up
    MaxOut,           \* bound: reliable packets the application sends in one session
    MaxPayload,       \* bound: bytes in one payload given to Send
    SendFlags,        \* the flag sets of the packets the application sends
    Substreams,       \* the substream ids remote peers and the application use
    ClientStreams,    \* the streams a remote peer may send: tuples of fragment ids
    HandshakePackets, \* SYN and CONNECT packets a remote peer may send
    ControlPackets,   \* PING, DISCONNECT and other packets a remote peer may send
    AckFormats        \* acknowledgements a remote peer makes: subset of
                      \* {"single", "new", "old", "ping", "short", "odd"}

\* SetFragmentSize takes any int; Send divides by it.
ASSUME /\ Addrs # {} /\ Workers # {}
       /\ IsSecureServer \in BOOLEAN
       /\ PRUDPVersion \in {0, 1}
       /\ FragmentSize \in Nat \ {0}
       /\ FragSpace \in Nat \ {0, 1}
       /\ {MaxPeers, MaxDatagram, MaxPings, MaxResends, MaxOut, MaxPayload} \subseteq Nat
       /\ Substreams \subseteq Nat
       /\ AckFormats \subseteq {"single", "new", "old", "ping", "short", "odd"}

VARIABLES
    clients,   \* s.clients: address -> id of the registered peer, 0 if none
    peers,     \* every PRUDPClient allocated so far; its id is its index
    workers,   \* per listener: where it is, its peer (the address, until the peer
               \* is created), the packets left of its datagram, and in the loop
               \* of handleReliable the packets left to deliver
    out,       \* what the last step wrote to the socket and emitted, in order
    fatal,     \* "none" while the process runs; else how it ended
    cstream,   \* the fragment ids of the reliable packets the remote peers send
    senders,   \* per application goroutine: the call of Send it is in
    expiring   \* the peers a timer has cleaned up and not yet deleted from
               \* the registry

vars == <<clients, peers, workers, out, fatal, cstream, senders, expiring>>

NoClient == 0
PeerIds  == 1..Len(peers)

\* Packet types and flags (constants of the codec).
SynPacket == "SYN"
ConnectPacket == "CONNECT"
DataPacket == "DATA"
DisconnectPacket == "DISCONNECT"
PingPacket == "PING"

FlagAck == "ACK"
FlagReliable == "RELIABLE"
FlagNeedsAck == "NEEDS_ACK"
FlagHasSize == "HAS_SIZE"
FlagMultiAck == "MULTI_ACK"

PacketTypes == {SynPacket, ConnectPacket, DataPacket, DisconnectPacket, PingPacket}
Flags       == {FlagAck, FlagReliable, FlagNeedsAck, FlagHasSize, FlagMultiAck}

\* DeriveKerberosKey(pid, password): one key per pid and password.
DeriveKerberosKey(pid, password) == <<pid, password>>

\* What the bytes of a CONNECT payload do not show.  Of its encryption: the
\* key the ticket is sealed with, its age, the user and the session key
\* inside it, the key the request is sealed with.  Of the client that wrote
\* it: that both buffers are whole, and the words of the request.
NoTicket ==
    [ key |-> NoBytes, age |-> 0, sourcePID |-> 0, sessionKey |-> NoBytes,
      requestKey |-> NoBytes, framed |-> FALSE, request |-> <<>> ]

\* generateTicket: the ticket of a user for the server with this pid, issued
\* now and sealed with the key of that server (and then, for the user, with
\* the user's: the layer its client takes off).
GenerateTicket(userPID, targetPID, sessionKey) ==
    [ NoTicket EXCEPT !.key = DeriveKerberosKey(targetPID, "password"),
                      !.sourcePID = userPID, !.sessionKey = sessionKey ]

\* NewPRUDPPacketV0/V1(client, nil): a packet with nothing set.  payload is
\* a tuple of bytes: of a byte with ByteSpace values in an acknowledgement and
\* in a CONNECT, which the server parses; numbered 1, 2, ... in data, which it
\* does not.
NewPRUDPPacket(version) ==
    [ version |-> version, type |-> SynPacket, flags |-> {}, endpoints |-> ZeroEndpoints,
      substreamID |-> 0, sequenceID |-> 0, fragmentID |-> 0,
      connectionSignature |-> NoBytes, maximumSubstreamID |-> 0,
      payload |-> <<>>, at |-> 0, ticket |-> NoTicket,
      signature |-> <<NoBytes, NoBytes>>, message |-> <<>> ]

HasFlag(packet, flag) == flag \in packet.flags

\* The two stream type/port pairs of a packet, source and destination exchanged.
Swapped(endpoints) == <<endpoints[2], endpoints[1]>>

\* calculateSignature(header, connection signature, key, payload): what it is keyed with.
CalculateSignature(sessionKey, connectionSignature) == <<sessionKey, connectionSignature>>

\* calculateConnectionSignature(address): an HMAC of the address, one per address.
CalculateConnectionSignature(address) == <<address>>

\* make([]byte, len(signature)): as many zero bytes.
Zeroed(bytes) == [i \in DOMAIN bytes |-> ZeroByte]

\* Entries of `out`.
SendRaw(address, packet) == [op |-> "send", to |-> address, event |-> "", packet |-> packet]
Emit(event, packet)      == [op |-> "emit", to |-> NoClient, event |-> event, packet |-> packet]

-----------------------------------------------------------------------------
(* sendPacket and what is built on it *)

IsAcknowledgement(packet) == HasFlag(packet, FlagAck) \/ HasFlag(packet, FlagMultiAck)

\* sendPacket: give the packet a sequence id (unless it is an acknowledgement),
\* encrypt reliable data, sign, hand it to the resend scheduler if it is
\* reliable and needs an acknowledgement, write it.  The result is the client
\* after the call and the packet written, or a panic where the code indexes a
\* substream the client does not have.
SendPacket(client, packet) ==
    LET fresh    == ~IsAcknowledgement(packet)
        reliable == HasFlag(packet, FlagReliable)
        numbered == fresh /\ reliable
        tracked  == reliable /\ HasFlag(packet, FlagNeedsAck)
        sub      == ReliableSubstream(client, packet.substreamID)
        sub1     == IF numbered THEN AfterNextOutgoingSequenceID(sub) ELSE sub
        encrypts == packet.type = DataPacket /\ numbered
        cipher   == Encrypt(sub1, packet.payload)
        sub2     == IF encrypts THEN [sub1 EXCEPT !.outCipher = @ + Len(packet.payload)] ELSE sub1
        signed   == [packet EXCEPT
                        !.sequenceID = CASE ~fresh                   -> @
                                         [] reliable                 -> sub.outSeq
                                         [] packet.type = DataPacket -> client.unreliableSeq
                                         [] packet.type = PingPacket -> client.pingSeq
                                         [] OTHER                    -> 0,
                        !.at         = IF encrypts THEN cipher.at ELSE @,
                        !.signature  = CalculateSignature(client.sessionKey,
                                                          client.serverConnectionSignature)]
        sub3     == IF tracked THEN AddPacket(sub2, signed) ELSE sub2
        counted  == [client EXCEPT
                        !.unreliableSeq = IF fresh /\ ~reliable /\ packet.type = DataPacket
                                          THEN NextID(@) ELSE @,
                        !.pingSeq       = IF fresh /\ ~reliable /\ packet.type = PingPacket
                                          THEN NextID(@) ELSE @]
    IN  IF (numbered \/ tracked) /\ ~HasReliableSubstream(client, packet.substreamID)
        THEN [panic |-> TRUE, client |-> client, wire |-> <<>>]
        ELSE [panic  |-> FALSE,
              client |-> IF numbered \/ tracked
                         THEN WithReliableSubstream(counted, packet.substreamID, sub3)
                         ELSE counted,
              wire   |-> <<SendRaw(client.address, signed)>>]

\* Mutation of Acknowledgement: the ports are copied, not exchanged.
AcknowledgementUnswapped(packet) ==
    [NewPRUDPPacket(packet.version) EXCEPT
        !.type = packet.type, !.flags = {FlagAck},
        !.endpoints = packet.endpoints,
        !.sequenceID = packet.sequenceID, !.fragmentID = packet.fragmentID,
        !.substreamID = packet.substreamID]

\* The acknowledgement of a packet: its type, ids and substream, ports exchanged.
Acknowledgement(packet) ==
    [NewPRUDPPacket(packet.version) EXCEPT
        !.type = packet.type, !.flags = {FlagAck},
        !.endpoints = Swapped(packet.endpoints),
        !.sequenceID = packet.sequenceID, !.fragmentID = packet.fragmentID,
        !.substreamID = packet.substreamID]

\* acknowledgePacket: what it writes.  An acknowledgement takes no sequence
\* id and is not tracked, so the client is as before.  DISCONNECT is
\* acknowledged three times.
AcknowledgePacketTo(client, packet) ==
    LET wire == SendPacket(client, Acknowledgement(packet)).wire
    IN  IF packet.type = DisconnectPacket THEN wire \o wire \o wire ELSE wire

\* The acknowledgement a handler sends first, if the packet asks for one.
AcknowledgedIfNeeded(client, packet) ==
    IF HasFlag(packet, FlagNeedsAck) THEN AcknowledgePacketTo(client, packet) ELSE <<>>

-----------------------------------------------------------------------------
(* The listeners: handleSocketMessage *)

Idle == [pc |-> "read", client |-> NoClient, queue |-> <<>>, ready |-> <<>>, orphaned |-> FALSE]

\* A listener with the packets of a datagram and their sender.
Dispatching(client, packets) ==
    IF packets = <<>> THEN Idle
    ELSE [Idle EXCEPT !.pc = "process", !.client = client, !.queue = packets]

\* Peers allocated, and about to be by a listener that found none registered.
Allocating == Len(peers) + Cardinality({w \in Workers : workers[w].pc = "create"})

\* Mutation of ReadDatagram: the result of Get is used whether or not a peer
\* was found.
ReadDatagramUnchecked(w, address, packets) ==
    /\ fatal = "none"
    /\ workers[w].pc = "read"
    /\ workers' = [workers EXCEPT ![w] = Dispatching(clients[address], packets)]
    /\ out' = <<>>
    /\ UNCHANGED <<clients, peers, fatal, cstream, senders, expiring>>

\* ReadFromUDP and s.clients.Get: every packet of the datagram will have as
\* its sender the peer found now, or the one the listener creates next.
ReadDatagram(w, address, packets) ==
    /\ fatal = "none"
    /\ workers[w].pc = "read"
    /\ clients[address] = NoClient => Allocating < MaxPeers
    /\ workers' = [workers EXCEPT ![w] =
                      IF clients[address] = NoClient
                      THEN [Idle EXCEPT !.pc = "create", !.client = address, !.queue = packets]
                      ELSE Dispatching(clients[address], packets)]
    /\ out' = <<>>
    /\ UNCHANGED <<clients, peers, fatal, cstream, senders, expiring>>

\* ReadFromUDP fails: handleSocketMessage returns the error, listenDatagram
\* leaves its loop, lets Listen return and panics with the error.
SocketFails(w) ==
    /\ fatal = "none"
    /\ workers[w].pc = "read"
    /\ fatal' = "closed"
    /\ out' = <<>>
    /\ UNCHANGED <<clients, peers, workers, cstream, senders, expiring>>

\* NewPRUDPClient, startHeartbeat and s.clients.Set, for a listener whose Get
\* found no peer.  Set overwrites what another listener may have set since.
CreateClient(w) ==
    /\ fatal = "none"
    /\ workers[w].pc = "create"
    /\ LET address == workers[w].client
           id      == Len(peers) + 1
       IN  /\ peers'   = Append(peers, StartHeartbeat(NewPRUDPClient(address)))
           /\ clients' = [clients EXCEPT ![address] = id]
           /\ workers' = [workers EXCEPT ![w] = Dispatching(id, workers[w].queue)]
    /\ out' = <<>>
    /\ UNCHANGED <<fatal, cstream, senders, expiring>>

-----------------------------------------------------------------------------
(* processPacket and the handlers *)

\* The packet a listener is about to process, and its sender.
Current(w) == Head(workers[w].queue)
Sender(w)  == workers[w].client

\* processPacket begins with resetHeartbeat on the sender, whatever comes next.
Heard(w) == ResetHeartbeat(peers[Sender(w)])

\* The listeners when w has gone on to the next packet of its datagram, or
\* to the next read.
AfterPacket(w) ==
    [workers EXCEPT ![w] = Dispatching(Sender(w), Tail(workers[w].queue))]

Processed(w) == workers' = AfterPacket(w)

\* The substreams of peer c are dropped or made anew.  A listener in the loop
\* of handleReliable took its substream from the table before the loop: it
\* goes on with an object the peer no longer has.
Unlinked(c, listeners) ==
    [w \in Workers |->
        IF listeners[w].pc = "deliver" /\ listeners[w].client = c
        THEN [listeners[w] EXCEPT !.orphaned = TRUE] ELSE listeners[w]]

\* The session of peer c is reset, opened anew or closed while calls of Send
\* are writing to it: they go on in the next session, or in none.
Crossed(c) ==
    [a \in Senders |->
        IF senders[a].turns > 0 /\ senders[a].client = c
        THEN [senders[a] EXCEPT !.crossed = TRUE] ELSE senders[a]]

\* processPacket routes the current packet of w to the handler of this kind.
Routes(w, acknowledgement, type) ==
    /\ fatal = "none"
    /\ workers[w].pc = "process"
    /\ IsAcknowledgement(Current(w)) = acknowledgement
    /\ ~acknowledgement => Current(w).type = type

\* The substream a handler takes from its packet's sender.
Substream(w, id) == ReliableSubstream(Heard(w), id)

\* The handler used substream id: the client has it and it becomes sub, or
\* the client does not and the index panics, which ends the process.
OnSubstream(w, id, sub) ==
    IF HasReliableSubstream(Heard(w), id)
    THEN /\ peers' = [peers EXCEPT ![Sender(w)] = WithReliableSubstream(Heard(w), id, sub)]
         /\ fatal' = fatal
    ELSE /\ peers' = [peers EXCEPT ![Sender(w)] = Heard(w)]
         /\ fatal' = "panic"

\* handleSyn: reset the peer, store the signature computed for its address and
\* the packet's ports, answer with SYN+ACK carrying the signature.
HandleSyn(w) ==
    /\ Routes(w, FALSE, SynPacket)
    /\ LET packet    == Current(w)
           signature == CalculateConnectionSignature(Heard(w).address)
           ack == [NewPRUDPPacket(packet.version) EXCEPT
                      !.type = SynPacket, !.flags = {FlagAck, FlagHasSize},
                      !.endpoints = Swapped(packet.endpoints),
                      !.connectionSignature = signature,
                      !.signature = CalculateSignature(NoBytes, NoBytes)]
       IN  /\ peers' = [peers EXCEPT ![Sender(w)] =
                           [Reset(Heard(w)) EXCEPT !.clientConnectionSignature = signature,
                                                   !.endpoints = packet.endpoints]]
           /\ out' = <<Emit("syn", ack), SendRaw(Heard(w).address, ack)>>
    /\ workers' = Unlinked(Sender(w), AfterPacket(w))
    /\ senders' = Crossed(Sender(w))
    /\ UNCHANGED <<clients, fatal, cstream, expiring>>

\* The ticket is valid for two minutes from its issue.
TicketLifetime == 120

\* The payloads the server parses (a CONNECT, an aggregate acknowledgement)
\* are read with a StreamIn and, by the remote peer, written with a
\* ByteStreamOut.  The settings of the stream are those the reads of numbers
\* and buffers do not look at.
Wire == INSTANCE ByteStreamOut WITH
            StringLengthSize <- 2, LargePID <- FALSE, UseStructureHeader <- FALSE

\* What readKerberosTicket returns with an error.
NoSession == [err |-> TRUE, sessionKey |-> NoBytes, pid |-> 0, check |-> 0]

\* Mutation of ReadKerberosTicket: the age of the ticket is not looked at.
ReadKerberosTicketUndated(packet) ==
    LET requestData == Wire!ReadBuffer(Wire!ReadBuffer(Wire!NewStreamIn(packet.payload)).stream)
        words == Wire!ReadEach(Wire!NewStreamIn(requestData.value),
                               <<Wire!UInt32LE, Wire!UInt32LE, Wire!UInt32LE>>)
    IN  IF \/ requestData.err \/ words.err
           \/ packet.ticket.key # DeriveKerberosKey(2, KerberosPassword)
           \/ packet.ticket.requestKey # packet.ticket.sessionKey
        THEN NoSession
        ELSE [err |-> FALSE, sessionKey |-> packet.ticket.sessionKey,
              pid |-> words.value[1], check |-> words.value[3]]

\* readKerberosTicket: the two buffers of the payload, the ticket's
\* decryption with the key of pid 2, its age, the request's decryption with
\* the ticket's session key and its three words, in this order; the first
\* failure returns no key, pid 0, check value 0 and an error.
ReadKerberosTicket(packet) ==
    LET ticketData  == Wire!ReadBuffer(Wire!NewStreamIn(packet.payload))
        requestData == Wire!ReadBuffer(ticketData.stream)
        ticket      == packet.ticket
        userPID     == Wire!ReadPrimitive(Wire!NewStreamIn(requestData.value), Wire!UInt32LE)
        cid         == Wire!ReadPrimitive(userPID.stream, Wire!UInt32LE)
        check       == Wire!ReadPrimitive(cid.stream, Wire!UInt32LE)
    IN  IF \/ ticketData.err \/ requestData.err
           \/ ticket.key # DeriveKerberosKey(2, KerberosPassword)
           \/ ticket.age > TicketLifetime
           \/ ticket.requestKey # ticket.sessionKey
           \/ userPID.err \/ cid.err \/ check.err
        THEN NoSession
        ELSE [err |-> FALSE, sessionKey |-> ticket.sessionKey,
              pid |-> userPID.value, check |-> check.value]

\* The answer to a ticket: a buffer of four bytes, checkValue + 1.
CheckResponse(checkValue) ==
    Wire!WritePrimitive(Wire!WritePrimitive(Wire!NewByteStreamOut, Wire!UInt32LE, 4),
                        Wire!UInt32LE, Wire!UInt32(checkValue + 1))

\* handleConnect: store the packet's signature, create the substreams the
\* packet asks for (one for version 0), on a secure server install the key
\* and pid readKerberosTicket returned, answer with CONNECT+ACK.
HandleConnect(w) ==
    /\ Routes(w, FALSE, ConnectPacket)
    /\ LET packet == Current(w)
           max    == IF packet.version = 1 THEN packet.maximumSubstreamID ELSE 0
           ticket == ReadKerberosTicket(packet)
           opened == CreateReliableSubstreams(
                         [Heard(w) EXCEPT !.serverConnectionSignature = packet.connectionSignature],
                         max)
           ack == [NewPRUDPPacket(packet.version) EXCEPT
                      !.type = ConnectPacket, !.flags = {FlagAck, FlagHasSize},
                      !.endpoints = Swapped(packet.endpoints),
                      !.connectionSignature = Zeroed(CalculateConnectionSignature(Heard(w).address)),
                      !.sequenceID = 1,
                      !.maximumSubstreamID = max,
                      !.payload = IF IsSecureServer THEN CheckResponse(ticket.check) ELSE <<>>,
                      !.signature = CalculateSignature(NoBytes, packet.connectionSignature)]
       IN  /\ peers' = [peers EXCEPT ![Sender(w)] =
                           IF IsSecureServer
                           THEN [opened EXCEPT !.pid = ticket.pid, !.sessionKey = ticket.sessionKey]
                           ELSE opened]
           /\ out' = <<Emit("connect", ack), SendRaw(Heard(w).address, ack)>>
    /\ workers' = Unlinked(Sender(w), AfterPacket(w))
    /\ senders' = Crossed(Sender(w))
    /\ UNCHANGED <<clients, fatal, cstream, expiring>>

\* handleDisconnect, up to cleanup: acknowledge (three times) if asked and
\* clean the peer up.  The peer is still in the registry, and no lock is
\* held: another listener may look it up before the next step.
HandleDisconnect(w) ==
    /\ Routes(w, FALSE, DisconnectPacket)
    /\ peers'   = [peers EXCEPT ![Sender(w)] = Cleanup(Heard(w))]
    /\ out'     = AcknowledgedIfNeeded(Heard(w), Current(w))
    /\ workers' = Unlinked(Sender(w), [workers EXCEPT ![w].pc = "delete"])
    /\ senders' = Crossed(Sender(w))
    /\ UNCHANGED <<clients, fatal, cstream, expiring>>

\* Mutation of DeleteClient: the registry entry stays.
DeleteClientKeepsEntry(w) ==
    /\ fatal = "none"
    /\ workers[w].pc = "delete"
    /\ out' = <<Emit("disconnect", Current(w))>>
    /\ Processed(w)
    /\ UNCHANGED <<clients, peers, fatal, cstream, senders, expiring>>

\* handleDisconnect, from s.clients.Delete on: delete whatever the registry
\* holds now for the address of the peer, emit "disconnect".
DeleteClient(w) ==
    /\ fatal = "none"
    /\ workers[w].pc = "delete"
    /\ clients' = [clients EXCEPT ![peers[Sender(w)].address] = NoClient]
    /\ out' = <<Emit("disconnect", Current(w))>>
    /\ Processed(w)
    /\ UNCHANGED <<peers, fatal, cstream, senders, expiring>>

\* handlePing: acknowledge if asked.
HandlePing(w) ==
    /\ Routes(w, FALSE, PingPacket)
    /\ peers' = [peers EXCEPT ![Sender(w)] = Heard(w)]
    /\ out'   = AcknowledgedIfNeeded(Heard(w), Current(w))
    /\ Processed(w)
    /\ UNCHANGED <<clients, fatal, cstream, senders, expiring>>

\* handleData without FlagReliable: handleUnreliable, which does nothing.
HandleUnreliable(w) ==
    /\ Routes(w, FALSE, DataPacket)
    /\ ~HasFlag(Current(w), FlagReliable)
    /\ peers' = [peers EXCEPT ![Sender(w)] = Heard(w)]
    /\ out'   = <<>>
    /\ Processed(w)
    /\ UNCHANGED <<clients, fatal, cstream, senders, expiring>>

-----------------------------------------------------------------------------
(* Acknowledgements from the remote peer *)

\* handleAcknowledgment, single: forget the entry with the packet's sequence
\* id in the substream the packet names.  The packet's type is not looked at.
HandleAcknowledgment(w) ==
    /\ Routes(w, TRUE, DataPacket)
    /\ ~HasFlag(Current(w), FlagMultiAck)
    /\ OnSubstream(w, Current(w).substreamID,
                   AcknowledgePacket(Substream(w, Current(w).substreamID), Current(w).sequenceID))
    /\ out' = <<>>
    /\ Processed(w)
    /\ UNCHANGED <<clients, cstream, senders, expiring>>

\* The new format has substream id 1 in the header, and the real substream,
\* the count of ids and the base in the payload; the old format is always
\* about substream 0 and has the base in the header.
IsNewFormat(packet) == packet.substreamID = 1

\* `count` reads of a 16-bit id with the error dropped: a read that fails
\* gives 0 and consumes nothing.
ReadIDs(stream, count) ==
    FoldLeft(LAMBDA acc, i :
                 LET read == Wire!ReadPrimitive(acc.stream, Wire!UInt16LE)
                 IN  [stream |-> read.stream, ids |-> acc.ids \cup {read.value}],
             [stream |-> stream, ids |-> {}], [i \in 1..count |-> i])

\* The reads of the new format: substream id, count, base, then the ids.
NewFormat(packet) ==
    LET substreamID == Wire!ReadPrimitive(Wire!NewStreamIn(packet.payload), Wire!UInt8)
        count       == Wire!ReadPrimitive(substreamID.stream, Wire!UInt8)
        base        == Wire!ReadPrimitive(count.stream, Wire!UInt16LE)
    IN  [ substream |-> substreamID.value, base |-> base.value,
          ids |-> ReadIDs(base.stream, count.value).ids ]

\* The old format reads ids while bytes remain: here, the reads that succeed.
OldFormat(packet) ==
    ReadIDs(Wire!NewStreamIn(packet.payload), Len(packet.payload) \div 2)

AcknowledgedSubstream(packet) ==
    IF IsNewFormat(packet) THEN NewFormat(packet).substream ELSE 0

BaseSequenceID(packet) ==
    IF IsNewFormat(packet) THEN NewFormat(packet).base ELSE packet.sequenceID

AdditionalIDs(packet) ==
    IF IsNewFormat(packet) THEN NewFormat(packet).ids ELSE OldFormat(packet).ids

\* Mutation of UpToBase: every scheduled id counts as acknowledged by the base.
UpToBaseAll(resend, base) == DOMAIN resend

\* The scheduler's ids the base acknowledges: those not above it.
UpToBase(resend, base) == { id \in DOMAIN resend : id <= base }

\* The old format reads 16-bit ids while bytes remain; when a read fails it
\* has consumed nothing, bytes still remain, and the loop appends 0 for ever.
ReadsForEver(packet) ==
    LET rest == OldFormat(packet).stream
    IN  /\ ~IsNewFormat(packet)
        /\ Wire!Remaining(rest) > 0
        /\ Wire!ReadPrimitive(rest, Wire!UInt16LE).stream = rest

\* handleMultiAcknowledgment: forget the listed ids and every scheduled id up
\* to the base.
HandleMultiAcknowledgment(w) ==
    /\ Routes(w, TRUE, DataPacket)
    /\ HasFlag(Current(w), FlagMultiAck)
    /\ ~(ReadsForEver(Current(w)) /\ HasReliableSubstream(Heard(w), 0))
    /\ OnSubstream(w, AcknowledgedSubstream(Current(w)),
                   [Substream(w, AcknowledgedSubstream(Current(w))) EXCEPT !.resend =
                        Restrict(@, DOMAIN @ \ (AdditionalIDs(Current(w))
                                                \cup UpToBase(@, BaseSequenceID(Current(w)))))])
    /\ out' = <<>>
    /\ Processed(w)
    /\ UNCHANGED <<clients, cstream, senders, expiring>>

\* handleMultiAcknowledgment on an old-format payload of odd length:
\* the listener never leaves the read loop and the slice grows until the
\* process runs out of memory.
MultiAcknowledgmentSpins(w) ==
    /\ Routes(w, TRUE, DataPacket)
    /\ HasFlag(Current(w), FlagMultiAck)
    /\ ReadsForEver(Current(w)) /\ HasReliableSubstream(Heard(w), 0)
    /\ peers' = [peers EXCEPT ![Sender(w)] = Heard(w)]
    /\ fatal' = "oom"
    /\ out' = <<>>
    /\ UNCHANGED <<clients, workers, cstream, senders, expiring>>

-----------------------------------------------------------------------------
(* Reliable data from the remote peer *)

\* Mutation of Deliver: the payload decrypted and appended is the arriving
\* packet's, not the pulled one's.
DeliverArriving(packet, sub, pending) ==
    LET plain == Decrypt(sub, [bytes |-> packet.payload, at |-> packet.at])
        added == AddFragment([sub EXCEPT !.inCipher = @ + Len(packet.payload)], plain)
    IN  IF packet.fragmentID = 0
        THEN [ sub    |-> [ResetFragmentedPayload(added) EXCEPT
                              !.delivered = Append(@, added.fragmented)],
               events |-> <<Emit("reliable-data", [packet EXCEPT !.message = added.fragmented])>> ]
        ELSE [ sub |-> added, events |-> <<>> ]

\* The body of handleReliable's loop, for one packet Update returned: decrypt
\* it, append it to the accumulator and, if the fragment id of the packet
\* that ARRIVED is 0, hand the accumulator upstream as a message and empty it.
Deliver(packet, sub, pending) ==
    LET plain == Decrypt(sub, [bytes |-> pending.payload, at |-> pending.at])
        added == AddFragment([sub EXCEPT !.inCipher = @ + Len(pending.payload)], plain)
    IN  IF packet.fragmentID = 0
        THEN [ sub    |-> [ResetFragmentedPayload(added) EXCEPT
                              !.delivered = Append(@, added.fragmented)],
               events |-> <<Emit("reliable-data", [packet EXCEPT !.message = added.fragmented])>> ]
        ELSE [ sub |-> added, events |-> <<>> ]

\* Mutation of HandleReliable: no Update, the packet that arrived is
\* delivered as it comes.
HandleReliableAsArrived(w) ==
    /\ Routes(w, FALSE, DataPacket)
    /\ HasFlag(Current(w), FlagReliable)
    /\ OnSubstream(w, Current(w).substreamID, Substream(w, Current(w).substreamID))
    /\ workers' = IF HasReliableSubstream(Heard(w), Current(w).substreamID)
                  THEN [workers EXCEPT ![w].pc = "deliver", ![w].ready = <<Current(w)>>]
                  ELSE AfterPacket(w)
    /\ out' = AcknowledgedIfNeeded(Heard(w), Current(w))
    /\ UNCHANGED <<clients, cstream, senders, expiring>>

\* handleReliable up to its loop: acknowledge first if asked, take the
\* substream from the sender's table, Update.  What Update returned is the
\* listener's to deliver, one packet a turn; no lock is held meanwhile.
HandleReliable(w) ==
    /\ Routes(w, FALSE, DataPacket)
    /\ HasFlag(Current(w), FlagReliable)
    /\ LET id      == Current(w).substreamID
           updated == Update(Substream(w, id), Current(w))
       IN  /\ OnSubstream(w, id, updated.sub)
           /\ workers' = IF HasReliableSubstream(Heard(w), id) /\ updated.ready # <<>>
                         THEN [workers EXCEPT ![w].pc = "deliver", ![w].ready = updated.ready]
                         ELSE AfterPacket(w)
    /\ out' = AcknowledgedIfNeeded(Heard(w), Current(w))
    /\ UNCHANGED <<clients, cstream, senders, expiring>>

\* What a substream the peer no longer has hands upstream: bytes of a session
\* that is gone.
Stale == <<0>>

\* The listener after a turn of the loop: the next turn, or the next packet
\* of the datagram.
AfterTurn(w) ==
    IF Len(workers[w].ready) = 1 THEN AfterPacket(w)
    ELSE [workers EXCEPT ![w].ready = Tail(@)]

\* Mutation of DeliverPending: the loop ends after its first turn.
DeliverPendingOnce(w) ==
    /\ fatal = "none"
    /\ workers[w].pc = "deliver"
    /\ LET packet == Current(w)
           turn   == Deliver(packet, ReliableSubstream(peers[Sender(w)], packet.substreamID),
                             Head(workers[w].ready))
       IN  /\ peers' = [peers EXCEPT ![Sender(w)] =
                           WithReliableSubstream(@, packet.substreamID, turn.sub)]
           /\ out'   = turn.events
    /\ workers' = AfterPacket(w)
    /\ UNCHANGED <<clients, fatal, cstream, senders, expiring>>

\* One turn of handleReliable's loop, on the substream the listener took
\* before the loop: the table's, unless the table has changed since.
DeliverPending(w) ==
    /\ fatal = "none"
    /\ workers[w].pc = "deliver"
    /\ LET packet == Current(w)
           turn   == Deliver(packet, ReliableSubstream(peers[Sender(w)], packet.substreamID),
                             Head(workers[w].ready))
       IN  IF workers[w].orphaned
           THEN /\ peers' = peers
                /\ out'   = IF packet.fragmentID = 0
                            THEN <<Emit("reliable-data", [packet EXCEPT !.message = Stale])>>
                            ELSE <<>>
           ELSE /\ peers' = [peers EXCEPT ![Sender(w)] =
                                WithReliableSubstream(@, packet.substreamID, turn.sub)]
                /\ out'   = turn.events
    /\ workers' = AfterTurn(w)
    /\ UNCHANGED <<clients, fatal, cstream, senders, expiring>>

-----------------------------------------------------------------------------
(* The timers of a peer *)

SequenceIDs == 0..(SeqSpace - 1)

\* Pings the heartbeat of the client has sent.
PingsSent(client) == (client.pingSeq + SeqSpace - 1) % SeqSpace

\* The resend scheduler of substream s of peer c; empty if there is none.
Schedule(c, s) ==
    IF c \in PeerIds /\ HasReliableSubstream(peers[c], s)
    THEN ReliableSubstream(peers[c], s).resend
    ELSE NoEntries

\* sendPing: a PING that needs an acknowledgement, with the ports of the
\* peer exchanged, numbered and written by sendPacket.
Ping(client) ==
    SendPacket(client, [NewPRUDPPacket(PRUDPVersion) EXCEPT
                           !.type = PingPacket, !.flags = {FlagNeedsAck},
                           !.endpoints = Swapped(client.endpoints), !.substreamID = 0])

\* Mutation of SendPing: the ping goes out and the removal timer is not
\* started.
SendPingUnwatched(c) ==
    /\ fatal = "none"
    /\ c \in PeerIds
    /\ peers[c].heartbeat = "armed"
    /\ PingsSent(peers[c]) < MaxPings
    /\ peers' = [peers EXCEPT ![c] = Ping(@).client]
    /\ out'   = Ping(peers[c]).wire
    /\ UNCHANGED <<clients, workers, fatal, cstream, senders, expiring>>

\* The heartbeat timer of a peer expires: it calls sendPing and starts the
\* removal timer.
SendPing(c) ==
    /\ fatal = "none"
    /\ c \in PeerIds
    /\ peers[c].heartbeat = "armed"
    /\ PingsSent(peers[c]) < MaxPings
    /\ peers' = [peers EXCEPT ![c] = [Ping(@).client EXCEPT !.heartbeat = "kick"]]
    /\ out'   = Ping(peers[c]).wire
    /\ UNCHANGED <<clients, workers, fatal, cstream, senders, expiring>>

\* The peer is given up: its timer cleans it up, as handleDisconnect does,
\* and has the registry left to do.  Two removals of one peer that are
\* under way at once are not told apart.
TornDown(c) ==
    /\ peers'    = [peers EXCEPT ![c] = Cleanup(@)]
    /\ expiring' = expiring \cup {c}
    /\ out'      = <<>>
    /\ workers'  = Unlinked(c, workers)
    /\ senders'  = Crossed(c)
    /\ UNCHANGED <<clients, fatal, cstream>>

\* The timer that gave the peer up deletes whatever the registry holds now
\* for its address and emits "disconnect".
DeleteExpired(c) ==
    /\ fatal = "none"
    /\ c \in expiring
    /\ clients'  = [clients EXCEPT ![peers[c].address] = NoClient]
    /\ expiring' = expiring \ {c}
    /\ out'      = <<Emit("disconnect", NewPRUDPPacket(PRUDPVersion))>>
    /\ UNCHANGED <<peers, workers, fatal, cstream, senders>>

\* The removal timer expires: nothing came since the ping.
Kick(c) ==
    /\ fatal = "none"
    /\ c \in PeerIds
    /\ peers[c].heartbeat = "kick"
    /\ TornDown(c)

\* Mutation of Resend: the attempt is not counted.
ResendUncounted(c, s, id) ==
    /\ fatal = "none"
    /\ id \in DOMAIN Schedule(c, s)
    /\ Schedule(c, s)[id].tries < MaxResends
    /\ out' = <<SendRaw(peers[c].address, Schedule(c, s)[id].packet)>>
    /\ UNCHANGED <<clients, peers, workers, fatal, cstream, senders, expiring>>

\* A retransmission timer expires: the packet goes out again as it was.
Resend(c, s, id) ==
    /\ fatal = "none"
    /\ id \in DOMAIN Schedule(c, s)
    /\ Schedule(c, s)[id].tries < MaxResends
    /\ peers' = [peers EXCEPT ![c].reliableSubstreams[s + 1].resend[id].tries = @ + 1]
    /\ out'   = <<SendRaw(peers[c].address, Schedule(c, s)[id].packet)>>
    /\ UNCHANGED <<clients, workers, fatal, cstream, senders, expiring>>

\* The last retransmission was not acknowledged either: the peer is unreachable.
GiveUp(c, s, id) ==
    /\ fatal = "none"
    /\ id \in DOMAIN Schedule(c, s)
    /\ Schedule(c, s)[id].tries = MaxResends
    /\ TornDown(c)

-----------------------------------------------------------------------------
(* Send *)

\* The number of the last turn of Send's loop: int(len(data) / FragmentSize).
Fragments(length) == length \div FragmentSize

\* An application goroutine that is not in Send.  payload, written and
\* crossed are history, of the call it is in or of its last: the payload
\* given, the reliable packets written, and whether the session of the peer
\* was reset, opened anew or closed under the call.
Returned ==
    [ client |-> NoClient, packet |-> NewPRUDPPacket(PRUDPVersion), payload |-> <<>>,
      data |-> <<>>, fragmentID |-> 1, turns |-> 0, written |-> <<>>, crossed |-> FALSE ]

\* Mutation of SendFragment: the fragment id is not advanced.
SendFragmentSameID(call) ==
    LET last == Len(call.data) < FragmentSize
    IN  [call EXCEPT
            !.packet.payload    = IF last THEN call.data ELSE SubSeq(call.data, 1, FragmentSize),
            !.packet.fragmentID = IF last THEN 0 ELSE call.fragmentID,
            !.data  = IF last THEN @ ELSE SubSeq(@, FragmentSize + 1, Len(@)),
            !.turns = @ - 1]

\* A turn of Send's loop up to sendPacket: the rest as fragment 0 if it is
\* shorter than a fragment, else the next FragmentSize bytes under the next
\* fragment id (a uint8).
SendFragment(call) ==
    LET last == Len(call.data) < FragmentSize
    IN  [call EXCEPT
            !.packet.payload    = IF last THEN call.data ELSE SubSeq(call.data, 1, FragmentSize),
            !.packet.fragmentID = IF last THEN 0 ELSE call.fragmentID,
            !.data       = IF last THEN @ ELSE SubSeq(@, FragmentSize + 1, Len(@)),
            !.fragmentID = IF last THEN @ ELSE (@ + 1) % FragSpace,
            !.turns      = @ - 1]

\* The reliable packets the peer was sent in this session, on all substreams.
PacketsSent(client) ==
    SumFunction([i \in DOMAIN client.reliableSubstreams |-> client.reliableSubstreams[i].sent])

\* The goroutine after a turn that wrote these packets: in the next turn,
\* or out of Send with its locals gone.
AfterSend(call, packets) ==
    LET reliable == SelectSeq(packets, LAMBDA packet : FlagReliable \in packet.flags)
        turned   == [call EXCEPT !.written = @ \o reliable]
    IN  IF call.turns > 0 THEN turned
        ELSE [Returned EXCEPT !.payload = turned.payload, !.written = turned.written,
                              !.crossed = turned.crossed]

\* A turn of the loop, of the call goroutine a is in: cut the fragment, then
\* sendPacket on the peer as it is now.  Between two turns the listeners,
\* the timers and the other callers of Send go on.
SendTurn(a, call) ==
    /\ fatal = "none"
    /\ LET cut  == SendFragment(call)
           sent == SendPacket(peers[call.client], cut.packet)
       IN  /\ peers'   = [peers EXCEPT ![call.client] = sent.client]
           /\ out'     = sent.wire
           /\ fatal'   = IF sent.panic THEN "panic" ELSE fatal
           /\ senders' = [senders EXCEPT ![a] =
                             AfterSend(cut, [i \in DOMAIN sent.wire |-> sent.wire[i].packet])]
    /\ UNCHANGED <<clients, workers, cstream, expiring>>

\* Send, called by the application with a DATA packet for a peer it knows:
\* the first turn of its loop.
Send(a, c, substreamID, flags, length) ==
    /\ senders[a].turns = 0
    /\ c \in PeerIds
    /\ FlagReliable \in flags /\ HasReliableSubstream(peers[c], substreamID)
         => PacketsSent(peers[c]) + Fragments(length) < MaxOut
    /\ LET packet == [NewPRUDPPacket(PRUDPVersion) EXCEPT
                         !.type = DataPacket, !.flags = flags, !.substreamID = substreamID,
                         !.payload = [i \in 1..length |-> i]]
       IN  SendTurn(a, [Returned EXCEPT !.client = c, !.packet = packet,
                                        !.payload = packet.payload, !.data = packet.payload,
                                        !.turns = Fragments(length) + 1])

\* The turns that follow.
SendNext(a) ==
    /\ senders[a].turns > 0
    /\ SendTurn(a, senders[a])

-----------------------------------------------------------------------------
(* The remote peers *)

\* A packet the server sent on a substream reaches the remote peer.
Receive(c, s, n) ==
    /\ fatal = "none"
    /\ c \in PeerIds /\ HasReliableSubstream(peers[c], s)
    /\ n \in 1..ReliableSubstream(peers[c], s).sent
    /\ n \notin ReliableSubstream(peers[c], s).got
    /\ peers' = [peers EXCEPT ![c].reliableSubstreams[s + 1].got = @ \cup {n}]
    /\ out' = <<>>
    /\ UNCHANGED <<clients, workers, fatal, cstream, senders, expiring>>

\* The reliable data of a remote peer: packet n of its stream has sequence id
\* n, the fragment id the stream gives it, the byte n as its payload, and is
\* encrypted at position n - 1.
DataPackets ==
    { [NewPRUDPPacket(PRUDPVersion) EXCEPT
          !.type = DataPacket, !.flags = {FlagReliable, FlagNeedsAck},
          !.substreamID = s, !.sequenceID = n % SeqSpace, !.fragmentID = cstream[n],
          !.payload = <<n>>, !.at = n - 1] : n \in DOMAIN cstream, s \in Substreams }

AckPacket(type, flags, substreamID, sequenceID, payload) ==
    [NewPRUDPPacket(PRUDPVersion) EXCEPT
        !.type = type, !.flags = flags, !.substreamID = substreamID,
        !.sequenceID = sequenceID, !.payload = payload]

\* What the remote peer writes: numbers of 8 and of 16 bits, little-endian.
Bytes8(value)  == Wire!WritePrimitive(Wire!NewByteStreamOut, Wire!UInt8, value)
Bytes16(value) == Wire!WritePrimitive(Wire!NewByteStreamOut, Wire!UInt16LE, value)

\* What a remote peer may acknowledge of substream s, of which it has got
\* the packets in `got`: one packet; or all up to a base and at most one
\* more, in the new or (substream 0) the old format; "short" and "odd" are
\* the two malformed payloads: one id less than announced, one byte too many.
SubstreamAcks(s, got) ==
    LET Ids(ns)  == FlattenSeq([i \in 1..Cardinality(ns) |-> Bytes16(SetToSeq(ns)[i] % SeqSpace)])
        Bases    == { b \in got : 1..b \subseteq got }
        More(b)  == {{}} \cup { {n} : n \in got \ 1..b }
        Header(count, b) == Bytes8(s) \o Bytes8(count) \o Bytes16(b % SeqSpace)
    IN  UNION {
          IF "single" \in AckFormats
          THEN { AckPacket(DataPacket, {FlagAck}, s, n % SeqSpace, <<>>) : n \in got } ELSE {},
          IF "new" \in AckFormats
          THEN { AckPacket(DataPacket, {FlagMultiAck}, 1, 0, Header(Cardinality(ns), b) \o Ids(ns)) :
                     <<b, ns>> \in UNION { {b} \X More(b) : b \in Bases } } ELSE {},
          IF "short" \in AckFormats
          THEN { AckPacket(DataPacket, {FlagMultiAck}, 1, 0, Header(1, b)) :
                     b \in Bases } ELSE {},
          IF "old" \in AckFormats /\ s = 0
          THEN { AckPacket(DataPacket, {FlagMultiAck}, 0, b % SeqSpace, Ids(ns)) :
                     <<b, ns>> \in UNION { {b} \X More(b) : b \in Bases } } ELSE {},
          IF "odd" \in AckFormats /\ s = 0
          THEN { AckPacket(DataPacket, {FlagMultiAck}, 0, b % SeqSpace, Ids(ns) \o Bytes8(0)) :
                     <<b, ns>> \in UNION { {b} \X More(b) : b \in Bases } } ELSE {} }

\* The acknowledgements of the pings the client was sent.
PingAcks(client) ==
    IF "ping" \in AckFormats
    THEN { AckPacket(PingPacket, {FlagAck}, 0, k, <<>>) : k \in 1..PingsSent(client) }
    ELSE {}

\* Every packet a datagram from the address may carry now.
Inbound(address) ==
    HandshakePackets \cup ControlPackets \cup DataPackets \cup
    IF clients[address] = NoClient THEN {}
    ELSE LET client == peers[clients[address]]
         IN  PingAcks(client) \cup
             UNION { SubstreamAcks(i - 1, client.reliableSubstreams[i].got) :
                         i \in DOMAIN client.reliableSubstreams }

-----------------------------------------------------------------------------
(* The specification *)

Init ==
    /\ clients = [a \in Addrs |-> NoClient]
    /\ peers = <<>>
    /\ workers = [w \in Workers |-> Idle]
    /\ out = <<>>
    /\ fatal = "none"
    /\ cstream \in ClientStreams
    /\ senders = [a \in Senders |-> Returned]
    /\ expiring = {}

\* The first two bytes of a datagram choose the parser of one version, which
\* reads packets until no data is left: what it returns has that version.
Parsed(packets) ==
    \A i, j \in DOMAIN packets : packets[i].version = packets[j].version

\* A datagram arrives from an address, for a listener that waits in
\* ReadFromUDP: any packets the remote peer may send now.
Read(w, a) ==
    /\ workers[w].pc = "read"
    /\ \E packets \in BoundedSeq(Inbound(a), MaxDatagram) :
           Parsed(packets) /\ ReadDatagram(w, a, packets)

Next ==
    \/ \E w \in Workers, a \in Addrs : Read(w, a)
    \/ \E w \in Workers :
           \/ SocketFails(w)
           \/ CreateClient(w)
           \/ HandleSyn(w)
           \/ HandleConnect(w)
           \/ HandleReliable(w)
           \/ DeliverPending(w)
           \/ HandleUnreliable(w)
           \/ HandleDisconnect(w)
           \/ DeleteClient(w)
           \/ HandlePing(w)
           \/ HandleAcknowledgment(w)
           \/ HandleMultiAcknowledgment(w)
           \/ MultiAcknowledgmentSpins(w)
    \/ \E a \in Senders : SendNext(a)
    \/ \E c \in 1..MaxPeers :
           \/ SendPing(c)
           \/ Kick(c)
           \/ DeleteExpired(c)
           \/ \E s \in Substreams, id \in SequenceIDs : Resend(c, s, id) \/ GiveUp(c, s, id)
           \/ \E a \in Senders, s \in Substreams, flags \in SendFlags, length \in 0..MaxPayload :
                  Send(a, c, s, flags, length)
           \/ \E s \in Substreams, n \in 1..MaxOut : Receive(c, s, n)

Spec == Init /\ [][Next]_vars

\* A datagram arrives.
Arrives == \E w \in Workers, a \in Addrs : Read(w, a)

\* A timer that has expired fires: the runtime runs the function of a
\* time.AfterFunc in a goroutine of its own, whatever the listeners do.
TimersFire ==
    \A c \in 1..MaxPeers : WF_vars(SendPing(c)) /\ WF_vars(Kick(c)) /\ WF_vars(DeleteExpired(c))

\* A listener in handleDisconnect goes on from cleanup to s.clients.Delete:
\* the lock of the registry is held for one map operation only, so the
\* goroutine is never blocked for good.
ListenersDelete == \A w \in Workers : WF_vars(DeleteClient(w))

FairSpec == Spec /\ TimersFire /\ ListenersDelete

\* So do the timers of the resend schedulers: of the packets a peer has not
\* acknowledged, one is retransmitted or given up.
Retransmits(c) == \E s \in Substreams, id \in SequenceIDs : Resend(c, s, id) \/ GiveUp(c, s, id)

RetrySpec == Spec /\ \A c \in 1..MaxPeers : WF_vars(Retransmits(c))

-----------------------------------------------------------------------------
(* Types *)

\* Signatures are of an address or zeroed; a payload is bytes, or the fields
\* of an acknowledgement.
MaxValue    == SeqSpace + MaxPayload + Len(cstream)
ByteStrings == Seq(Addrs \cup {ZeroByte})
Payloads    == Seq(0..MaxValue)

IsPacket(packet) ==
    /\ packet.version \in {0, 1}
    /\ packet.type \in PacketTypes
    /\ packet.flags \subseteq Flags
    /\ packet.substreamID \in Nat
    /\ packet.sequenceID \in 0..(SeqSpace - 1)
    /\ packet.fragmentID \in 0..(FragSpace - 1)
    /\ packet.payload \in Payloads
    /\ packet.message \in Payloads
    /\ packet.at \in Nat

IsSubstream(sub) ==
    /\ sub.outSeq \in 0..(SeqSpace - 1)
    /\ sub.inSeq \in 0..(SeqSpace - 1)
    /\ DOMAIN sub.pending \subseteq 0..(SeqSpace - 1)
    /\ \A id \in DOMAIN sub.pending : IsPacket(sub.pending[id])
    /\ sub.fragmented \in Payloads
    /\ DOMAIN sub.resend \subseteq 0..(SeqSpace - 1)
    /\ \A id \in DOMAIN sub.resend :
           /\ IsPacket(sub.resend[id].packet)
           /\ sub.resend[id].n \in 1..sub.sent
           /\ sub.resend[id].tries \in 0..MaxResends
    /\ sub.outCipher \in Nat /\ sub.inCipher \in Nat
    /\ sub.sent \in 0..MaxOut
    /\ sub.got \subseteq 1..sub.sent
    /\ \A i \in DOMAIN sub.delivered : sub.delivered[i] \in Payloads

IsClient(client) ==
    /\ client.address \in Addrs
    /\ client.clientConnectionSignature \in ByteStrings
    /\ client.serverConnectionSignature \in ByteStrings
    /\ client.sessionKey \in {NoBytes} \cup { packet.ticket.sessionKey : packet \in HandshakePackets }
    /\ client.pid \in Nat
    /\ client.unreliableSeq \in 0..(SeqSpace - 1)
    /\ client.pingSeq \in 0..(SeqSpace - 1)
    /\ client.heartbeat \in {"stopped", "armed", "kick"}
    /\ \A i \in DOMAIN client.reliableSubstreams : IsSubstream(client.reliableSubstreams[i])

TypeOK ==
    /\ clients \in [Addrs -> {NoClient} \cup PeerIds]
    /\ \A c \in PeerIds : IsClient(peers[c])
    /\ \A w \in Workers :
           /\ workers[w].pc \in {"read", "create", "process", "deliver", "delete"}
           /\ workers[w].pc = "read" => workers[w] = Idle
           /\ workers[w].pc = "create" => workers[w].client \in Addrs
           /\ workers[w].pc \in {"process", "deliver", "delete"} =>
                  workers[w].client \in PeerIds /\ workers[w].queue # <<>>
           /\ workers[w].pc = "deliver" <=> workers[w].ready # <<>>
           /\ workers[w].orphaned \in BOOLEAN
           /\ \A i \in DOMAIN workers[w].queue : IsPacket(workers[w].queue[i])
           /\ \A i \in DOMAIN workers[w].ready : IsPacket(workers[w].ready[i])
    /\ \A a \in Senders :
           /\ senders[a].client \in {NoClient} \cup PeerIds
           /\ IsPacket(senders[a].packet)
           /\ senders[a].payload \in Payloads /\ senders[a].data \in Payloads
           /\ senders[a].fragmentID \in 0..(FragSpace - 1)
           /\ senders[a].turns \in 0..(MaxPayload \div FragmentSize)
           /\ \A i \in DOMAIN senders[a].written : IsPacket(senders[a].written[i])
           /\ senders[a].crossed \in BOOLEAN
    /\ \A i \in DOMAIN out : out[i].op \in {"send", "emit"} /\ IsPacket(out[i].packet)
    /\ fatal \in {"none", "closed", "panic", "oom"}
    /\ cstream \in ClientStreams
    /\ expiring \subseteq PeerIds

-----------------------------------------------------------------------------
(* Properties *)

\* Every substream a peer has now.
SubstreamsNow == UNION { Range(peers[c].reliableSubstreams) : c \in PeerIds }

\* A peer whose timers run.
Live(c) == peers[c].heartbeat # "stopped"

\* The session key and the pid a peer holds are those of a CONNECT that
\* readKerberosTicket had to accept: its client wrote two whole buffers and a
\* request of at least three words, the ticket was generated for this server
\* and not more than two minutes ago, and the request is sealed with the
\* ticket's session key; the pid is the first word that client wrote.
\* handleConnect installs what readKerberosTicket returns, whatever the error.
KeysComeFromValidTickets ==
    \A c \in PeerIds :
        peers[c].sessionKey # NoBytes =>
            \E packet \in HandshakePackets :
                LET ticket == packet.ticket
                IN  /\ ticket.framed /\ Len(ticket.request) >= 3
                    /\ ticket.key = DeriveKerberosKey(2, KerberosPassword)
                    /\ ticket.requestKey = ticket.sessionKey /\ ticket.age <= 120
                    /\ peers[c].sessionKey = ticket.sessionKey
                    /\ peers[c].pid = ticket.request[1]

\* Every acknowledgement of a DATA, PING or DISCONNECT packet that goes out
\* answers the packet a listener is processing in this step: that packet asked
\* for it, and acknowledgePacket echoed its type, sequence, fragment and
\* substream ids and exchanged its ports, to its sender's address.
AcksAnswerReceipts ==
    [][\A i \in DOMAIN out' :
           LET ack == out'[i].packet
           IN  /\ out'[i].op = "send"
               /\ FlagAck \in ack.flags
               /\ ack.type \in {DataPacket, PingPacket, DisconnectPacket}
               => \E w \in Workers :
                      /\ workers[w].pc = "process" /\ workers'[w] # workers[w]
                      /\ FlagNeedsAck \in Current(w).flags
                      /\ ack.type = Current(w).type
                      /\ ack.sequenceID = Current(w).sequenceID
                      /\ ack.fragmentID = Current(w).fragmentID
                      /\ ack.substreamID = Current(w).substreamID
                      /\ ack.endpoints = <<Current(w).endpoints[2], Current(w).endpoints[1]>>
                      /\ out'[i].to = peers[Sender(w)].address]_vars

\* Substream s of peer c as the application sees it: the bytes the remote peer
\* sends, whether the peer has the substream, and what handleReliable has
\* accepted of it (the messages handed upstream, then the accumulator).
Accepted(c, s) ==
    IF c \in PeerIds /\ HasReliableSubstream(peers[c], s)
    THEN FlattenSeq(ReliableSubstream(peers[c], s).delivered) \o
         ReliableSubstream(peers[c], s).fragmented
    ELSE <<>>

Channel ==
    INSTANCE ReliableChannel WITH
        Sessions <- 1..MaxPeers,
        sent     <- [n \in DOMAIN cstream |-> n],
        open     <- [c \in 1..MaxPeers |-> c \in PeerIds /\ peers[c].reliableSubstreams # <<>>],
        received <- [c \in 1..MaxPeers |-> [s \in Substreams |-> Accepted(c, s)]]

\* The server implements the reliable channel: every step of every handler
\* and timer either leaves what the substreams have accepted alone, or
\* extends one of them by the next bytes of the remote peer (handleReliable,
\* after Update has put the packets in order), or starts a session anew
\* (handleConnect creates the substreams; handleSyn, handleDisconnect and the
\* removal of a silent peer drop them).  Nothing accepted is ever taken back
\* or changed while the session lasts, and nothing is accepted without one.
ImplementsReliableChannel == Channel!Spec

\* The packets the listeners in the loop of handleReliable have in hand for
\* substream s of peer c.
InHand(c, s) ==
    UNION { Range(workers[w].ready) :
                w \in { v \in Workers : /\ workers[v].pc = "deliver" /\ ~workers[v].orphaned
                                        /\ Sender(v) = c /\ Current(v).substreamID = s } }

\* What handleReliable has accepted of a substream (the messages handed
\* upstream, then the accumulator) is, end to end, the bytes of the remote
\* peer's packets 1, 2, ... in their order, and with the packets the
\* listeners still have in hand they are the packets before the expected
\* sequence id: whatever the order and the repetition the packets arrived in,
\* none is lost, repeated, out of place or decrypted at the wrong keystream
\* position.  spec.md 5 has all packet processing of a peer under the peer's
\* lock; handleReliable takes none between Update and the turns of its loop.
BytesInOrder ==
    \A c \in PeerIds, s \in Substreams :
        HasReliableSubstream(peers[c], s) =>
            /\ Accepted(c, s) = [n \in 1..Len(Accepted(c, s)) |-> n]
            /\ Len(Accepted(c, s)) + Cardinality(InHand(c, s))
                   = ReliableSubstream(peers[c], s).inSeq - 1

\* A listener has read a datagram that carries a packet of the set.
ArrivesWith(packets) ==
    \E w \in Workers :
        /\ workers[w].pc = "read" /\ workers'[w].pc # "read"
        /\ Range(workers'[w].queue) \cap packets # {}

\* The packets of the longest stream a remote peer sends.
StreamLength == Max({ Len(stream) : stream \in ClientStreams })

\* A registered peer has accepted the whole stream on every substream.
EverythingAccepted ==
    \E c \in PeerIds : \A s \in Substreams : Accepted(c, s) = [n \in DOMAIN cstream |-> n]

\* Reliable delivery (spec.md 8, property 1): what the remote peer sends is
\* accepted in the end, "regardless of arrival order or duplication".  If the
\* remote peer retransmits (every packet of its stream arrives again and
\* again, in any order), the handshakes and disconnects come to an end and
\* the listeners keep returning to ReadFromUDP, then the whole stream is
\* accepted, or the process has ended: a packet that waits in the window for
\* its turn is pulled by handleReliable when the gap closes, and no duplicate,
\* of a packet that waits or of one long delivered, blocks the window.
SentIsAccepted ==
    /\ \A w \in Workers : []<>(workers[w].pc = "read")
    /\ <>[][~ArrivesWith(HandshakePackets \cup ControlPackets)]_vars
    /\ \A n \in 1..StreamLength :
           []<><<ArrivesWith({ p \in DataPackets : p.sequenceID = n % SeqSpace })>>_vars
    => <>(fatal # "none" \/ EverythingAccepted)

\* The messages of a stream that are complete within its first m packets:
\* a message ends with the packet that has fragment id 0.
MessagesOf(stream, m) ==
    LET ends     == { n \in 1..m : stream[n] = 0 }
        End(k)   == CHOOSE e \in ends : Cardinality({ d \in ends : d <= e }) = k
        Start(k) == IF k = 1 THEN 1 ELSE End(k - 1) + 1
    IN  [k \in 1..Cardinality(ends) |-> [j \in 1..(End(k) - Start(k) + 1) |-> Start(k) + j - 1]]

\* The "reliable-data" events of a substream carry exactly the messages the
\* remote peer sent, in its order, regardless of the order of arrival (spec.md
\* 8, properties 1 and 5, scenario S3).  handleReliable ends a message when
\* the packet that ARRIVED has fragment id 0, not the packet it pulled.
MessagesAreClientMessages ==
    \A sub \in SubstreamsNow :
        sub.delivered = MessagesOf(cstream, Len(FlattenSeq(sub.delivered)) + Len(sub.fragmented))

\* A packet the server sent reliably and the remote peer has not received
\* is still with the resend scheduler, so it will be sent again: an
\* acknowledgement, single or aggregate, in the old or the new format,
\* removes only what the remote peer has got.
UnreceivedStaysScheduled ==
    \A sub \in SubstreamsNow :
        \A n \in 1..sub.sent :
            n \notin sub.got => \E id \in DOMAIN sub.resend : sub.resend[id].n = n

\* Retransmission ends (spec.md 4.2, "retransmission continues until the
\* scheduler's attempt limit"; 7, SchedulerGiveUp): every packet sendPacket
\* gave to a resend scheduler leaves it, removed by an acknowledgement of the
\* remote peer, single or aggregate, or with the peer that is given up after
\* the last retransmission.  No acknowledgement, malformed, late or repeated,
\* and no handshake in mid-session leaves an entry whose timer never fires
\* again, once the handshakes have come to an end (each begins a session,
\* in which the application sends anew).
RetransmissionsEnd ==
    <>[][~ArrivesWith(HandshakePackets)]_vars
    => <>[](fatal = "none" => \A sub \in SubstreamsNow : sub.resend = NoEntries)

\* One call of Send on a reliable substream writes the payload it was given,
\* cut into packets that take consecutive sequence ids and consecutive
\* keystream positions, numbered 1, 2, ... as fragments with 0 for the last
\* and for the last only: what the remote peer reassembles is the payload.
\* The loop of Send and sendPacket hold no lock: the listeners acknowledge,
\* the timers resend between two fragments.  (A call that outlives the
\* session it began in writes the rest of its payload to the next.)
SentFragmentsReassemble ==
    \A a \in Senders :
        LET call   == senders[a]
            packet == call.written
            bytes  == FlattenSeq([i \in DOMAIN packet |-> packet[i].payload])
        IN  packet # <<>> /\ ~call.crossed =>
                /\ bytes = SubSeq(call.payload, 1, Len(bytes))
                /\ call.turns = 0 => bytes = call.payload
                /\ \A i \in DOMAIN packet :
                       /\ packet[i].fragmentID = IF call.turns = 0 /\ i = Len(packet) THEN 0 ELSE i
                       /\ i > 1 => /\ packet[i].sequenceID = NextID(packet[i - 1].sequenceID)
                                   /\ packet[i].at = packet[i - 1].at + Len(packet[i - 1].payload)

\* For any address at most one peer exists (spec.md 3): of two peers made
\* for one address, one has been cleaned up.  handleSocketMessage looks a
\* peer up and registers a new one in two steps.
OnePeerPerAddress ==
    \A c, d \in PeerIds :
        c # d /\ peers[c].address = peers[d].address => ~Live(c) \/ ~Live(d)

\* A peer with no inbound traffic is removed (spec.md 8, property 6; a
\* CONNECT that was refused "eventually times out via heartbeat"): once
\* datagrams stop arriving, every peer is pinged by sendPing and then torn
\* down, also the peer a listener re-armed after its removal, and the peer
\* that another one replaced in the registry.
SilentPeersAreRemoved ==
    <>[][~Arrives]_vars => <>[](fatal = "none" => \A c \in PeerIds : ~Live(c))

\* On DISCONNECT and on expiry the registry entry is removed (spec.md 4.3
\* and 5, resource cleanup): once datagrams stop arriving the registry holds
\* nobody.  handleDisconnect and the timers clean a peer up and delete by its
\* address in two calls without a lock (lines 336 and 337), so a listener
\* finds the cleaned-up peer in between and re-arms it, or registers a new
\* peer that the delete then removes; each of them is deleted by its own
\* expiry, and no entry of a peer whose timers have stopped stays behind.
RegistryEmpties ==
    <>[][~Arrives]_vars => <>[](fatal = "none" => \A a \in Addrs : clients[a] = NoClient)

\* A packet that is unexpected in the state of its peer is dropped (spec.md
\* 7, ProtocolError) and a fault of a handler does not reach the read loop:
\* the process goes on.  The handlers index the substream table of a peer
\* that has none.
ServerSurvives == fatal # "panic"

\* A malformed packet is dropped (spec.md 7, DecodeError).  The old-format
\* loop of handleMultiAcknowledgment does not end on a payload with an odd
\* number of bytes.
ListenerLeavesReadLoop == fatal # "oom"

=============================================================================
