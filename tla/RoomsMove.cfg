CONSTANTS
  Client = {c1, c2}
  Room = {r1, r2}
  KeptRoom = {r1}
  NoRoom = NoRoom
  MaxJoins = 2
  MaxKicks = 1
  MaxTimers = 1
SPECIFICATION FairSpec
INVARIANTS TypeOK RoomsInUseExist DestroyFindsEntry OnlyDesertedUnregistered
PROPERTY TransferArrives
CHECK_DEADLOCK FALSE
