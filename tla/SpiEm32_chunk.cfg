SPECIFICATION Spec
CONSTANTS
  Thread = {"t1", "t2"}
  Cfg = {"a", "a2", "b"}
  CfgOf <- MCCfgOf
  LockOn = {"a"}
  HoldCs = {"a"}
  Unsupported = {"a2"}
  SpiAsync = FALSE
  CallModes = {FALSE}
  Transfers <- MCShrinking
  Depth = 2
  Trigger = 1
  Boot = Boot
CHECK_DEADLOCK FALSE
INVARIANT CsCoversTransfer
