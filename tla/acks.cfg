\* Reliable data to a remote peer on two substreams: the application sends
\* payloads of one to three fragments, the remote peer receives some of the packets and
\* acknowledges what it has, one packet at a time and in both aggregate
\* formats, well-formed or not; the resend scheduler retransmits and gives up.
SPECIFICATION RetrySpec
CONSTANTS
    Addrs = {a1}
    Workers = {w1}
    Senders = {s1}
    IsSecureServer = TRUE
    KerberosPassword = "password"
    PRUDPVersion = 1
    SeqSpace = 4
    FragSpace = 4
    ByteSpace = 2
    FragmentSize = 1
    ZeroByte = zero
    KeyByte = key
    MaxPeers = 1
    MaxDatagram = 1
    MaxPings = 0
    MaxResends = 1
    MaxOut = 3
    MaxPayload = 2
    SendFlags = {{"RELIABLE", "NEEDS_ACK"}}
    Substreams = {0, 1}
    ClientStreams <- NoStream
    HandshakePackets <- TwoSubstreamHandshakes
    ControlPackets <- NoPackets
    AckFormats = {"single", "new", "old", "short", "odd"}
INVARIANT TypeOK
INVARIANT UnreceivedStaysScheduled
INVARIANT SentFragmentsReassemble
PROPERTY RetransmissionsEnd
CHECK_DEADLOCK FALSE
