SPECIFICATION Spec
CONSTANTS
  Degree = 4
  Primitive <- MCPrimitive
  DataBits = 3
  EccBits = 10
  T = 3
  Embedded <- MCEmbedded
  MaxErrors = 4
  IdBits = 2
  CrcBits = 2
  Reps = 3
  CrcPoly <- MCCrcPoly
  Soft <- MCSoft
  VIDEO_FRAMES = 2
  Claims <- MCClaims
  Logs = {first, second}
  Bodies <- MCBodies
  Positions <- MCPositions
  Commands <- MCCommands
  Disk <- MCDisk
  Verdicts <- MCVerdicts
  Shipped <- MCShipped
INVARIANTS
  PhotoIsReadRight
  ReadingIsEarned
  LocationIsEarned
  ExitCodeIsHonest
CHECK_DEADLOCK FALSE
