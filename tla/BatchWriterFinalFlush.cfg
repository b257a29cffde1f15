SPECIFICATION Spec
CONSTANTS
  p1 = p1  p2 = p2  p3 = p3  t1 = t1
  Item = {p1, p2}
  KindOf <- MCKindOf
  Nil = Nil
  BatchSize = 3
  ChannelBuffer = 2
  MaxRetries = 1
  Faulty = FALSE
  LostAcks = FALSE
  FlushCalled = FALSE
INVARIANT FinalFlushSaves
