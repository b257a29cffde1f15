SPECIFICATION FairSpec
CONSTANTS
  p1 = p1  p2 = p2  p3 = p3  t1 = t1
  Item = {p1, p2}
  KindOf <- MCKindOf
  Nil = Nil
  BatchSize = 2
  ChannelBuffer = 1
  MaxRetries = 1
  Faulty = TRUE
  LostAcks = TRUE
  FlushCalled = FALSE
PROPERTIES
  EventuallySettled
  StopReturns
  ImplementsWriteBehind
