SPECIFICATION Spec
CONSTANTS
  MsgQSize = 2
  OutPackets = 1
  InPackets = 1
  MaxReqs = 3
  MaxOther = 1
  Faults <- AllFaults
INVARIANTS
  TypeOK
  LastSetupWins
  DataIsOfRequest
  AnswerIsOwn
  NoStatusStolen
  EnumerationAgrees
  SuspendIsReported
PROPERTIES
  DataStageEnds
  RequestEnds
\* The host stops at the bound MaxReqs.
CHECK_DEADLOCK FALSE
