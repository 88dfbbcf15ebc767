SPECIFICATION FairSpec
CONSTANTS
  app = app
  Threads = {app}
  Users = {app}
  Timeouts = {1, 3}
  Scale = 2
  Width = 5
  MaxAge = 4
  Registers = 2
  RegBytes = 2
  Values = {0, 9}
  Pattern = 9
  Lost = 0
  Writes <- WriteSet
INVARIANTS TypeOK BytesSurvive CallsTakeEffect NoEarlyReset
PROPERTY HungBoardRestarts
