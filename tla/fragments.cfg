\* Reliable data from a remote peer, as in reassembly.cfg with three packets:
\* are the messages handed upstream the messages the remote peer sent?
SPECIFICATION Spec
CONSTANTS
    Addrs = {a1}
    Workers = {w1}
    Senders = {s1}
    IsSecureServer = TRUE
    KerberosPassword = "password"
    PRUDPVersion = 1
    SeqSpace = 5
    FragSpace = 4
    ByteSpace = 3
    FragmentSize = 2
    ZeroByte = zero
    KeyByte = key
    MaxPeers = 1
    MaxDatagram = 1
    MaxPings = 0
    MaxResends = 1
    MaxOut = 1
    MaxPayload = 0
    SendFlags = {}
    Substreams = {0}
    ClientStreams <- ThreePackets
    HandshakePackets <- HonestHandshakes
    ControlPackets <- NoPackets
    AckFormats = {}
INVARIANT MessagesAreClientMessages
CHECK_DEADLOCK FALSE
