SPECIFICATION Spec
CONSTANTS
  Device = {d1}
  d1 = d1
  slow = slow
  fast = fast
  Place = {0, 1, 9}
  NoPlace = NoPlace
  Unknown = Unknown
  Aircraft = {slow, fast}
  MaxSpeed <- MCMaxSpeed
  InitialScore = 50
  ValidPacketBonus = 15
  InvalidPacketPenalty = 25
  MinScoreToAdd = 70
  MaxScoreToRemove = 30
  MaxScore = 100
  MaxTimeDelta = 2
  MaxAge = 3
  Horizon = 6
  MaxPackets = 8
INVARIANTS
  TypeOK
  Hysteresis
  ScoreIsEarned
PROPERTIES
  NoFlicker
  ReferenceNeverGoesBack
