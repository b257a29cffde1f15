SPECIFICATION IngestSpec
CONSTANTS
  Device = {d1}
  d1 = d1
  slow = slow
  maria = maria
  Place = {0, 9}
  NoPlace = NoPlace
  Unknown = Unknown
  None = None
  NoName = NoName
  Aircraft = {slow}
  MaxSpeed <- MCMaxSpeed
  InitialScore = 50
  ValidPacketBonus = 15
  InvalidPacketPenalty = 25
  MinScoreToAdd = 70
  MaxScoreToRemove = 30
  MaxScore = 100
  MaxTimeDelta = 2
  Horizon = 9
  MaxPackets = 9
  MaxAge = 2
  Name = {maria}
  Load <- MCLoad
INVARIANTS
  IngestTypeOK
  NoPhantom
  SerialAgreement
