SPECIFICATION PartsSpec
CHECK_DEADLOCK FALSE
CONSTANTS
  \* PilotStore
  Device = {d1}
  Place = {0, 1, 3}
  Indexable = {1, 3}
  Zero = {0}
  None = None
  PilotTTL = 2
  MaxTrackPoints = 1
  RadiusCount = 1
  Horizon = 5
  \* ObjectStore
  Source = {d1}
  Spot = {0, 1, 3}
  Mappable = {1, 3}
  Nil = Nil
  TTL <- MCTTL
  MaxRows = 1
  Midnight = 4
  \* GeoCover
  Radii = {1, 2, 5, 6, 7, 8, 9, 10, 12, 15, 19, 20, 22, 24, 30, 157, 170, 185, 200}
  \* FanetParser
  Unparsed = Unparsed
  Nothing = Nothing
  Coordinates <- MCCoordinates
  Altitudes = {500, 501, 2047, 2048, 2049, 2051, 3999, 4000}
  Lengths = {1, 2, 6, 7, 8, 9, 10, 11, 12, 13, 14, 15, 16}
  Headers = {0, 2, 8, 16, 18, 32, 48, 64, 96, 122, 255}
  \* TrackFilter
  Jumps <- MCJumps
  Gaps = {1, 40}
  MaxPoints = 5
  Infinity = 1000000
  MinDistance = 1
  MinTimeInterval = 1
  ClusterRadius = 10
  ClusterPoints = 5
  MaxReasonableSpeed = 300
  DuplicateThreshold = 2
  PingPongThreshold = 3
  DetectorSize = 10
  SlidingWindowSize = 3
  SpeedMultiplier = 10
  FirstPointMin = 3
  ExtremeDistance = 20000
  MinClusterRadius = 2000
  MaxClusterRadius = 20000
  NeighborDistance = 5000
  NeighborWindow = 5
  NearbyRadius = 1000
  NearbyCount = 2
  GapMinutes = 30
  SpeedThreshold = 8
  HysteresisLower = 6
  HysteresisUpper = 10
  MinSegmentPoints = 2
  MinSegmentDuration = 2
  \* SpatialIndex
  Object = {o1, o2}
  Position <- MCPosition
  Centre <- MCCentre
  Querier = {q1}
  World = 4
  NodeCapacity = 1
  MaxDepth = 2
  MinNodeSize = 1
  Radius = 2
  Box = 2
  Rounding = 2
  CacheCapacity = 1
  CacheTTL = 0
  IndexMaxAge = 1
  IndexHorizon = 2
  MaxQueried = 2
  \* TokenCache
  Token = {t1}
  Account = {visitor, admin}
  Admin = {admin}
  Verified = {admin}
  Request = {r1, r2}
  Absent = Absent
  Malformed = Malformed
  TokenTTL = 1
  TokenHorizon = 2
  \* Adaptive
  Score = {0, 5, 10}
  MinInterval = 1
  MaxInterval = 4
  Timer = {a1, a2, a3}
  \* Visibility
  Site = {0, 2, 3}
  TrackingRadius = 1
  OgnRadius = 4
  GracePeriod = 2
  MinMovement = 2
  AircraftType = {p1}
  Reporter = {g1, g2}
  MaxAges = {1}
  DefaultMaxAge = 3
  Unset = Unset
  Midday = 5
  \* Lifecycle
  MaxAttempts = 5
  Worker = {w1, w2}
INVARIANTS
  PartsTypeOK
  ShownWhereSaved
  StaleOnlyWithoutPosition
  ObjectsAreFound
  CoverIsSound
  PacketsAreRead
  TrackIsKept
  TreeHoldsMap
  ServedAsHolder
  UpdateIsArmed
  MovementDecides
  HandlersEndFirst
PROPERTIES
  AnswersSettle
  LateCallbacksEnd
