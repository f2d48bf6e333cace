CONSTANTS
  NumClients = 2
  RX_BUFS = 2
  CLIENT_RX_BUFS = 2
  CLIENT_TX_BUFS = 2
  RxRing = 2
  TxRing = 2
  mac0 = mac0  mac1 = mac1  noMac = noMac
  f0 = f0  f1 = f1  fg = fg  fx = fx
  Frames = {f0, f1, fg, fx}
  p0 = p0
  Packets = {p0}
  FrameDst <- MCFrameDst
  MacOf <- MCMacOf
  Group = Group
  None = None
SPECIFICATION Spec
INVARIANTS TypeOK RxOwned NotifyArmed TxOwned
PROPERTIES DeliversFrames TxInFlightStable
