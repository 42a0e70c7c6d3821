SPECIFICATION Spec
CONSTANTS
    Bytes <- MCBytes
    Xor <- MCXor
    IsUtf8 <- MCIsUtf8
    PeerFrames <- MCFrames
    Nothing = Nothing
    max_frm_size = 5
    ControlLimit = 2
    MaxFrames = 4
INVARIANT
    ConformingServed
\* the connection ends, or the peer has sent all it will
CHECK_DEADLOCK FALSE
