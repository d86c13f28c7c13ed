\* The life of a peer as in session.cfg: does the process outlive every
\* packet a remote peer may send?
SPECIFICATION Spec
CONSTANTS
    Addrs = {a1}
    Workers = {w1}
    Senders = {s1}
    IsSecureServer = TRUE
    KerberosPassword = "password"
    PRUDPVersion = 1
    SeqSpace = 4
    FragSpace = 4
    ByteSpace = 2
    FragmentSize = 2
    ZeroByte = zero
    KeyByte = key
    MaxPeers = 1
    MaxDatagram = 1
    MaxPings = 1
    MaxResends = 1
    MaxOut = 1
    MaxPayload = 0
    SendFlags = {}
    Substreams = {0}
    ClientStreams <- NoStream
    HandshakePackets <- SessionHandshakes
    ControlPackets <- SessionControls
    AckFormats = {"ping"}
INVARIANT ServerSurvives
CHECK_DEADLOCK FALSE
