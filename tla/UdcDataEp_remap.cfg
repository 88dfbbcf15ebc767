SPECIFICATION Spec
CONSTANTS
  Out = {"out1", "out3"}
  In = {}
  Idx <- MCIdx
  Ctl = Ctl
  Buf = {b1}
  MsgQSize = 1
  MPS = 1
  RoomSizes = {1}
  Lengths = {0}
  MaxPkt = 1
  Disables = FALSE
INVARIANT NoLostWakeup
INVARIANT BufferConserved
