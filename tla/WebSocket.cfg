SPECIFICATION FairSpec
CONSTANTS
  ca = ca  u1 = u1  u2 = u2  u3 = u3
  Client = {ca}
  Update = {u1, u2}
  TypeOf <- MCTypeOf
  PlaceOf <- MCPlaceOf
  Cell <- MCCell
  CellsAt <- MCCellsAt
  Cover <- MCCover
  Area <- MCArea
  UpdatesBuffer = 1
  RegisterBuffer = 1
  SendBuffer = 1
  BatchSize = 2
  MaxSubscribes = 1
INVARIANTS
  WebSocketTypeOK
  Subscriptions
  DeliveredOnce
PROPERTIES
  NearAreServed
  UpdatesProcessed
  Departs
  NoLockOut
CHECK_DEADLOCK FALSE
