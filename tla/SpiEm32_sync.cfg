SPECIFICATION FairSpec
CONSTANTS
  Thread = {"t1", "t2"}
  Cfg = {"a", "a2", "b"}
  CfgOf <- MCCfgOf
  LockOn = {"a"}
  HoldCs = {"a"}
  Unsupported = {"a2"}
  SpiAsync = FALSE
  CallModes = {FALSE}
  Transfers <- MCTransfers
  Depth = 2
  Trigger = 1
  Boot = Boot
INVARIANT TypeOK
INVARIANT Exclusive
INVARIANT LockOnHeld
INVARIANT LockAccounted
INVARIANT SuccessMeansMoved
INVARIANT CsCoversTransfer
INVARIANT OneChipSelected
CHECK_DEADLOCK FALSE
PROPERTY CallReturns
INVARIANT FreeMeansDone
