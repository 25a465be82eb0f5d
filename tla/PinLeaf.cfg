SPECIFICATION Spec
CONSTANTS
    Certs = {"leaf", "ca", "root", "other"}
    CAs = {"ca", "root"}
    Roots = {"root"}
    Signs <- MCSigns
    NoCert = "none"
    BadCert = "bad"
    MaxChain = 3
    MaxEdits = 1
    MaxPins = 1
\* a client that was refused, or whose handshake is over, does nothing more
CHECK_DEADLOCK FALSE
INVARIANT
    LeafMatchesPin
