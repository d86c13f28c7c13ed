\* The life of a peer on a secure server with one listener: handshakes of
\* both versions with good and bad tickets, pings, the heartbeat and the
\* removal of a silent peer, disconnects, unreliable data both ways.
SPECIFICATION Spec
CONSTANTS
    Addrs = {a1}
    Workers = {w1}
    Senders = {s1}
    IsSecureServer = TRUE
    KerberosPassword = "password"
    PRUDPVersion = 1
    SeqSpace = 2
    FragSpace = 4
    ByteSpace = 2
    FragmentSize = 2
    ZeroByte = zero
    KeyByte = key
    MaxPeers = 1
    MaxDatagram = 2
    MaxPings = 1
    MaxResends = 1
    MaxOut = 1
    MaxPayload = 0
    SendFlags = {{}}
    Substreams = {0}
    ClientStreams <- OnePacket
    HandshakePackets <- SessionHandshakes
    ControlPackets <- SessionControls
    AckFormats = {"ping"}
INVARIANT TypeOK
INVARIANT KeysComeFromValidTickets
PROPERTY AcksAnswerReceipts
CHECK_DEADLOCK FALSE
