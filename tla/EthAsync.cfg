SPECIFICATION Spec
CONSTANTS
    NUM_RX_BUFS = 2
    NUM_TX_BUFS = 2
    RxRing = 2
    TxRing = 1
    Frames = {"f"}
    Packets = {"p"}
    LoopScore = 1
    None = "none"
INVARIANTS TypeOK InOnePlace Remembered
PROPERTIES DeliversFrames DeliversPackets PacketSent
