\* One log, nothing revoked.  A plain capture with tokens, anchors, tree heads and
\* clocks in every order while its chain and the TSA certificate expire; and, in
\* the first instant, both platforms with every level, app, statement and content.
CONSTANTS
  Logs = {l1}
  NoLog = NoLog
  None = None
  Undeclared = Undeclared
  AppDigests <- OneAppEach
  ChainSince = 1
  ChainUntil = 2
  TsaUntil = 3
  TsaSkew = 1
  MaxTime = 4
  Platforms = {"android", "ios"}
  Claims = {"tee", "secureEnclave"}
  Levels = {"tee", "none"}
  Apps <- OwnOrOther
  Clocks <- AnyClock
  LeafLevels = {"tee", "secureEnclave"}
  Statements <- AnyStatement
  KeyEnds = {}
  Reasons = {}
  Freezers = {}
  Slots = {"attestation", "registry", "integrity", "anchor", "timestamp"}
  Junk = {"unreadable", "bad"}
  Descriptions = {"original", "restyled", "retimed", "misdescribed"}
  Contents = {"recut"}
  Readers <- TimeReaders
SPECIFICATION BoundedSpec
INVARIANTS GreenInstantAfterSeal GreenLoggedBeforeToken IosIsAmberAtBest LightIsExplained
PROPERTIES GreenOutlivesItsCertificates LosingAConditionNeverGreens
CHECK_DEADLOCK FALSE
