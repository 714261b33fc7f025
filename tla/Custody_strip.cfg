CONSTANTS
  Logs = {l1}
  NoLog = NoLog
  None = None
  Undeclared = Undeclared
  AppDigests <- OneAppEach
  ChainSince = 1
  ChainUntil = 1
  TsaUntil = 2
  TsaSkew = 1
  MaxTime = 2
  Platforms = {"android"}
  Claims = {"tee"}
  Levels = {"tee"}
  Apps <- AnApp
  Clocks = {1}
  LeafLevels = {"tee"}
  Statements <- Hardware
  KeyEnds = {}
  Reasons = {"KEY_COMPROMISE"}
  Freezers = {l1}
  Slots = {"timestamp", "status"}
  Junk = {}
  Descriptions = {"original"}
  Contents = {}
  Readers <- StatusReaders
SPECIFICATION Spec
PROPERTIES DeletingNeverGreens
CHECK_DEADLOCK FALSE
