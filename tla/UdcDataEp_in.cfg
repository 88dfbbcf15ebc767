SPECIFICATION FairSpec
CONSTANTS
  Out = {}
  In = {"in1"}
  Idx <- MCIdx
  Ctl = Ctl
  Buf = {b1, b2}
  MsgQSize = 2
  MPS = 1
  RoomSizes = {1}
  Lengths = {0, 2}
  MaxPkt = 0
  Disables = TRUE
INVARIANT TypeOK
INVARIANT MaskedMeansWaiting
INVARIANT FifoNotOverrun
PROPERTY InDelivered
