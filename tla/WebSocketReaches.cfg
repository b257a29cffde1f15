SPECIFICATION Spec
CONSTANTS
  ca = ca  u1 = u1  u2 = u2  u3 = u3
  Client = {ca}
  Update = {u1, u3}
  TypeOf <- MCTypeOf
  PlaceOf <- MCPlaceOf
  Cell <- MCCell
  CellsAt <- MCCellsAt
  Cover <- MCCover
  Area <- MCArea
  UpdatesBuffer = 1
  RegisterBuffer = 1
  SendBuffer = 1
  BatchSize = 2
  MaxSubscribes = 1
INVARIANT
  UpdatesReach
CHECK_DEADLOCK FALSE
