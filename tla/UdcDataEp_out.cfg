SPECIFICATION FairSpec
CONSTANTS
  Out = {"out1"}
  In = {}
  Idx <- MCIdx
  Ctl = Ctl
  Buf = {b1, b2}
  MsgQSize = 1
  MPS = 2
  RoomSizes = {2, 3}
  Lengths = {0}
  MaxPkt = 2
  Disables = TRUE
INVARIANT NoStrandedPacket
INVARIANT OutInOrder
INVARIANT RoomForPacket
PROPERTY ImplementsPipe
PROPERTY OutDelivered
