SPECIFICATION Spec
CONSTANTS
  u1 = u1
  u2 = u2
  Probe = Probe
  NoUser = NoUser
  Users <- TwoUsers
  Readings <- OneReading
  Bytes <- NoiseBytes
  MaxNoise = 1
  MaySilent = TRUE
  MayStop = TRUE
CHECK_DEADLOCK FALSE
INVARIANTS TypeOK StoredIsSent
PROPERTY UpdateEnds
