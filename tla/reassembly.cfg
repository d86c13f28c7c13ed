\* Reliable data from a remote peer: four packets cut into messages in every
\* way, arriving in any order and any number of times, one or two to a
\* datagram, between and across handshakes.
SPECIFICATION Spec
CONSTANTS
    Addrs = {a1}
    Workers = {w1}
    Senders = {s1}
    IsSecureServer = FALSE
    KerberosPassword = "password"
    PRUDPVersion = 1
    SeqSpace = 6
    FragSpace = 4
    ByteSpace = 3
    FragmentSize = 2
    ZeroByte = zero
    KeyByte = key
    MaxPeers = 1
    MaxDatagram = 2
    MaxPings = 0
    MaxResends = 1
    MaxOut = 1
    MaxPayload = 0
    SendFlags = {}
    Substreams = {0}
    ClientStreams <- FourPackets
    HandshakePackets <- HonestHandshakes
    ControlPackets <- NoPackets
    AckFormats = {}
INVARIANT TypeOK
INVARIANT BytesInOrder
PROPERTY ImplementsReliableChannel
PROPERTY SentIsAccepted
CHECK_DEADLOCK FALSE
