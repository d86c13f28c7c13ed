\* Two listeners reading datagrams of one address at the same time, while
\* the heartbeat of its peers pings and removes them: peers are made,
\* registered over one another, disconnected and removed in every order,
\* each removal in two steps (cleanup, then the delete by address).
\* The ping counter has two values and MaxPings does not bound it: a peer is
\* pinged as often as it is heard again.
SPECIFICATION FairSpec
CONSTANTS
    Addrs = {a1}
    Workers = {w1, w2}
    Senders = {s1}
    IsSecureServer = TRUE
    KerberosPassword = "password"
    PRUDPVersion = 1
    SeqSpace = 2
    FragSpace = 4
    ByteSpace = 2
    FragmentSize = 2
    ZeroByte = zero
    KeyByte = key
    MaxPeers = 2
    MaxDatagram = 1
    MaxPings = 2
    MaxResends = 1
    MaxOut = 1
    MaxPayload = 0
    SendFlags = {}
    Substreams = {0}
    ClientStreams <- NoStream
    HandshakePackets <- SynOnly
    ControlPackets <- Goodbyes
    AckFormats = {}
INVARIANT TypeOK
PROPERTY SilentPeersAreRemoved
PROPERTY RegistryEmpties
CHECK_DEADLOCK FALSE
