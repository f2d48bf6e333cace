CONSTANTS
  NumClients = 1
  RX_BUFS = 3
  CLIENT_RX_BUFS = 3
  CLIENT_TX_BUFS = 1
  RxRing = 2
  TxRing = 1
  mac0 = mac0
  f0 = f0  fg = fg  p0 = p0
  Frames = {f0, fg}
  Packets = {p0}
  FrameDst <- MCFrameDst
  MacOf <- MCMacOf
  Group = Group
  None = None
  LoopScore = 1
SPECIFICATION LinkSpec
INVARIANT CardArmed
PROPERTIES FrameTaken DeliversFrames
