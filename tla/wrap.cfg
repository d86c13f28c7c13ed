\* Reliable data to a remote peer as in acks.cfg, with one packet more than
\* there are sequence ids above 0, so that the fourth takes id 0, and
\* aggregate acknowledgements in the new format.
SPECIFICATION Spec
CONSTANTS
    Addrs = {a1}
    Workers = {w1}
    Senders = {s1}
    IsSecureServer = TRUE
    KerberosPassword = "password"
    PRUDPVersion = 1
    SeqSpace = 4
    FragSpace = 4
    ByteSpace = 2
    FragmentSize = 1
    ZeroByte = zero
    KeyByte = key
    MaxPeers = 1
    MaxDatagram = 1
    MaxPings = 0
    MaxResends = 1
    MaxOut = 4
    MaxPayload = 0
    SendFlags = {{"RELIABLE", "NEEDS_ACK"}}
    Substreams = {0}
    ClientStreams <- NoStream
    HandshakePackets <- HonestHandshakes
    ControlPackets <- NoPackets
    AckFormats = {"new"}
INVARIANT UnreceivedStaysScheduled
CHECK_DEADLOCK FALSE
