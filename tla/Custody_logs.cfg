\* Two logs that both admitted the key and a reader who may follow either or
\* both: whose word counts.
CONSTANTS
  Logs = {l1, l2}
  NoLog = NoLog
  None = None
  Undeclared = Undeclared
  AppDigests <- OneAppEach
  ChainSince = 1
  ChainUntil = 2
  TsaUntil = 2
  TsaSkew = 1
  MaxTime = 2
  Platforms = {"android"}
  Claims = {"tee"}
  Levels = {"tee"}
  Apps <- AnApp
  Clocks = {1, 2}
  LeafLevels = {"tee"}
  Statements <- Hardware
  KeyEnds <- LostAtOne
  Reasons = {}
  Freezers = {l1, l2}
  Slots = {"registry"}
  Junk = {"bad"}
  Descriptions = {"original"}
  Contents = {}
  Readers <- LogReaders
SPECIFICATION Spec
INVARIANTS OneLogVouches
CHECK_DEADLOCK FALSE
