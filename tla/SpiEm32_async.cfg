SPECIFICATION FairSpec
CONSTANTS
  Thread = {"t1", "t2"}
  Cfg = {"a", "b"}
  CfgOf <- MCCfgOf
  LockOn = {"a"}
  HoldCs = {"a"}
  Unsupported = {}
  SpiAsync = TRUE
  CallModes = {TRUE}
  Transfers <- MCShort
  Depth = 2
  Trigger = 1
  Boot = Boot
CHECK_DEADLOCK FALSE
INVARIANT CallbackOnce
PROPERTY CallbackComes
