SPECIFICATION FairSpec
CONSTANTS
  Out = {"out1"}
  In = {}
  Idx <- MCIdx
  Ctl = Ctl
  Buf = {b1}
  MsgQSize = 2
  MPS = 1
  RoomSizes = {1, 2}
  Lengths = {2}
  MaxPkt = 1
  Disables = TRUE
PROPERTY ClearHaltPrepares
