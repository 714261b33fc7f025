\* One log; the key and the chain end in every way, before and after the
\* signature, and the list stops speaking of the chain at instant 3.
CONSTANTS
  Logs = {l1}
  NoLog = NoLog
  None = None
  Undeclared = Undeclared
  AppDigests <- OneAppEach
  ChainSince = 1
  ChainUntil = 2
  TsaUntil = 3
  TsaSkew = 1
  MaxTime = 3
  Platforms = {"android"}
  Claims = {"tee"}
  Levels = {"tee"}
  Apps <- AnApp
  Clocks = {1}
  LeafLevels = {"tee"}
  Statements <- Hardware
  KeyEnds <- AnyKeyEnd
  Reasons = {"KEY_COMPROMISE", "SUPERSEDED"}
  Freezers = {l1}
  Slots = {"timestamp", "status"}
  Junk = {}
  Descriptions = {"original"}
  Contents = {}
  Readers <- StatusReaders
SPECIFICATION Spec
INVARIANTS RevokedKeyIsRed RedExactlyWhenDeserved
CHECK_DEADLOCK FALSE
