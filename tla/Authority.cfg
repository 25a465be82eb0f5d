SPECIFICATION Spec
CONSTANTS
    Addresses = {a1, a2}
    Signers = {g1, g2}
    Nil = Nil
    Own = Own
    MaxDials = 3
    MaxNonces = 4
    MaxChanges = 3
\* the handshakes of the instance run out
CHECK_DEADLOCK FALSE
INVARIANTS
    OneHandshakeEach
    AuthorityInForce
    NoUnsignedDial
