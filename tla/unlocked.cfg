\* Reliable data of one peer in the hands of two listeners: two packets, one
\* to a datagram, each datagram read by whichever listener is free.
SPECIFICATION Spec
CONSTANTS
    Addrs = {a1}
    Workers = {w1, w2}
    Senders = {s1}
    IsSecureServer = TRUE
    KerberosPassword = "password"
    PRUDPVersion = 1
    SeqSpace = 6
    FragSpace = 4
    ByteSpace = 3
    FragmentSize = 2
    ZeroByte = zero
    KeyByte = key
    MaxPeers = 1
    MaxDatagram = 1
    MaxPings = 0
    MaxResends = 1
    MaxOut = 1
    MaxPayload = 0
    SendFlags = {}
    Substreams = {0}
    ClientStreams <- TwoPackets
    HandshakePackets <- HonestHandshakes
    ControlPackets <- NoPackets
    AckFormats = {}
INVARIANT BytesInOrder
CHECK_DEADLOCK FALSE
