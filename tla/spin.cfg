\* Reliable data to a remote peer as in acks.cfg: does a listener return
\* from every acknowledgement?
SPECIFICATION Spec
CONSTANTS
    Addrs = {a1}
    Workers = {w1}
    Senders = {s1}
    IsSecureServer = TRUE
    KerberosPassword = "password"
    PRUDPVersion = 1
    SeqSpace = 4
    FragSpace = 4
    ByteSpace = 2
    FragmentSize = 1
    ZeroByte = zero
    KeyByte = key
    MaxPeers = 1
    MaxDatagram = 1
    MaxPings = 0
    MaxResends = 1
    MaxOut = 3
    MaxPayload = 2
    SendFlags = {{"RELIABLE", "NEEDS_ACK"}}
    Substreams = {0}
    ClientStreams <- NoStream
    HandshakePackets <- HonestHandshakes
    ControlPackets <- NoPackets
    AckFormats = {"single", "new", "old", "short", "odd"}
INVARIANT ListenerLeavesReadLoop
CHECK_DEADLOCK FALSE
