\* Two listeners and datagrams of one address, no timers.
SPECIFICATION Spec
CONSTANTS
    Addrs = {a1}
    Workers = {w1, w2}
    Senders = {s1}
    IsSecureServer = TRUE
    KerberosPassword = "password"
    PRUDPVersion = 1
    SeqSpace = 4
    FragSpace = 4
    ByteSpace = 2
    FragmentSize = 2
    ZeroByte = zero
    KeyByte = key
    MaxPeers = 2
    MaxDatagram = 1
    MaxPings = 0
    MaxResends = 1
    MaxOut = 1
    MaxPayload = 0
    SendFlags = {}
    Substreams = {0}
    ClientStreams <- NoStream
    HandshakePackets <- SessionHandshakes
    ControlPackets <- SessionControls
    AckFormats = {"ping"}
INVARIANT OnePeerPerAddress
CHECK_DEADLOCK FALSE
