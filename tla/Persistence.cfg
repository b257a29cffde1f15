SPECIFICATION Spec
CONSTANTS
  d1 = d1  d2 = d2
  Device = {d1, d2}
  Place = {1}
  Indexable = {1}
  Zero = {}
  None = None
  PilotTTL = 2
  MaxTrackPoints = 0
  RadiusCount = 1
  Horizon = 3
  BatchSize = 2
  LoadLimit = 2
  MaxQueue = 2
  MaxId = 3
  MaxMessages = 3
SYMMETRY Symmetry
CHECK_DEADLOCK FALSE
INVARIANTS
  TypeOK
  OwnPositions
  AgeBounded
  LastIsNewest
