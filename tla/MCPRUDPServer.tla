--------------------------- MODULE MCPRUDPServer ---------------------------
(***************************************************************************)
(* PRUDPServer for TLC: the packets remote peers send and the streams they *)
(* split into fragments, as definitions the configurations choose from.    *)
(***************************************************************************)
EXTENDS PRUDPServer

CONSTANTS
    KeyByte     \* the byte session keys are made of

\* The ports of a remote peer's packets: its own, then the server's.
ClientEndpoints == <<15, 1>>

Syn(version) ==
    [NewPRUDPPacket(version) EXCEPT !.type = SynPacket, !.endpoints = ClientEndpoints]

Control(type, flags) ==
    [NewPRUDPPacket(PRUDPVersion) EXCEPT
        !.type = type, !.flags = flags, !.endpoints = ClientEndpoints, !.sequenceID = 1]

\* A buffer as the client writes it: its length in 32 bits, then its bytes.
Buffer(data) ==
    Wire!Write(Wire!WritePrimitive(Wire!NewByteStreamOut, Wire!UInt32LE, Len(data)), data)

\* The request under its encryption: its words in 32 bits each.
Words(request) ==
    FoldLeft(LAMBDA bso, word : Wire!WritePrimitive(bso, Wire!UInt32LE, word),
             Wire!NewByteStreamOut, request)

\* The largest 32-bit number.
MaxUInt32 == ByteSpace ^ 4 - 1

\* The request of user 7 for the station with connection id 1; the check value
\* is the largest, so that the answer to it wraps.
Request == <<7, 1, MaxUInt32>>

\* A session key of `length` bytes.
SessionKey(length) == [i \in 1..length |-> KeyByte]

\* What a client with a ticket for the secure server (pid 2) sends `age`
\* seconds after it was issued: the ticket, and a request of these words
\* sealed with its session key of `length` bytes.
Ticket(age, length, request) ==
    [ GenerateTicket(request[1], 2, SessionKey(length)) EXCEPT
          !.age = age, !.requestKey = SessionKey(length), !.framed = TRUE, !.request = request ]

\* The payload of a CONNECT with this ticket: the ticket, one byte here, and
\* the request, a buffer each.
Payload(ticket) == Buffer(<<1>>) \o Buffer(Words(ticket.request))

GoodTicket == Ticket(TicketLifetime, 1, Request)

\* Tickets: a good one at the limit of its life, one a second older, one
\* generated for another server, one whose request is sealed with another
\* key, one with a request of two words; each bad ticket has a session key
\* only it has.
Tickets ==
    { GoodTicket, Ticket(TicketLifetime + 1, 2, Request),
      [Ticket(0, 3, Request) EXCEPT !.key = GenerateTicket(7, 3, SessionKey(3)).key],
      [Ticket(0, 4, Request) EXCEPT !.requestKey = SessionKey(1)],
      Ticket(0, 5, <<7, 1>>) }

Connect(version, signature, max, ticket) ==
    [NewPRUDPPacket(version) EXCEPT
        !.type = ConnectPacket, !.flags = {FlagReliable, FlagNeedsAck, FlagHasSize},
        !.endpoints = ClientEndpoints, !.sequenceID = 1,
        !.connectionSignature = signature, !.maximumSubstreamID = max,
        !.payload = Payload(ticket), !.ticket = ticket]

\* CONNECTs that verify but whose payload is not two buffers: its last byte
\* lost, the request missing, a ticket that announces more bytes than there
\* are, nothing at all.
Torn(version, signature) ==
    LET connect(length) == [Connect(version, signature, 0, Ticket(0, length, Request))
                               EXCEPT !.ticket.framed = FALSE]
    IN  { [connect(6) EXCEPT !.payload = Front(@)],
          [connect(7) EXCEPT !.payload = Buffer(<<1>>)],
          [connect(8) EXCEPT !.payload = Wire!WritePrimitive(<<>>, Wire!UInt32LE, MaxUInt32) \o <<1>>],
          [connect(9) EXCEPT !.payload = <<>>] }

\* Every way of cutting n packets into messages of at most `longest`
\* fragments: fragment ids count up from 1 within a message and its last
\* packet has 0.
StreamsOf(n, longest) ==
    { s \in [1..n -> 0..(longest - 1)] :
        /\ n > 0 => s[n] = 0
        /\ \A i \in 1..n : s[i] # 0 =>
               s[i] = IF i = 1 \/ s[i - 1] = 0 THEN 1 ELSE s[i - 1] + 1 }

\* The remote peers send no reliable data.
NoStream == {<<>>}

\* One packet, a message of its own.
OnePacket == StreamsOf(1, 1)

\* Two packets: one message of two fragments, or two messages.
TwoPackets == StreamsOf(2, 2)

\* Three packets, cut into messages in every way.
ThreePackets == StreamsOf(3, 3)

\* Four packets, cut into messages of at most three in every way.
FourPackets == StreamsOf(4, 4)

\* The handshake packets of remote peers that echo the signature of their
\* address.
Handshakes(versions, maxes, tickets) ==
    { Syn(v) : v \in versions } \cup
    { Connect(v, CalculateConnectionSignature(a), max, t) :
          v \in versions, a \in Addrs, max \in maxes, t \in tickets }

\* Both versions with the good ticket; every other ticket and every torn
\* payload in version 1, as readKerberosTicket is the same for both.
SessionHandshakes ==
    Handshakes({0, 1}, {0}, {GoodTicket}) \cup Handshakes({1}, {0}, Tickets) \cup
    UNION { Torn(1, CalculateConnectionSignature(a)) : a \in Addrs }

\* Version 1 with the good ticket.
HonestHandshakes == Handshakes({1}, {0}, {GoodTicket})

\* Version 1 with the good ticket, for sessions of two substreams.
TwoSubstreamHandshakes == Handshakes({1}, {1}, {GoodTicket})

\* Pings and disconnects with and without FlagNeedsAck, unreliable data.
SessionControls ==
    { Control(PingPacket, {}), Control(PingPacket, {FlagNeedsAck}),
      Control(DisconnectPacket, {FlagNeedsAck}), Control(DataPacket, {}) }

\* A SYN, and a disconnect and a ping: what it takes to make, touch and
\* remove a peer.
SynOnly == { Syn(1) }
Goodbyes == { Control(DisconnectPacket, {FlagNeedsAck}), Control(PingPacket, {}) }

NoPackets == {}

=============================================================================
