\* An anchored file whose watermark needs the detector and one without a proof; a
\* reader who brings a detection or a model, one of two unreadable, and throws a
\* switch, while loads are under way.
CONSTANTS
  Files = {marked, bare}
  Declares = {marked}
  Bare = {bare}
  Anchored = {marked}
  Models = {mine, broken}
  Unreadable = {broken}
  Detections <- ADetection
  Pinned = Pinned
  None = None
  Switches = {"chain"}
  TrustMounted = FALSE
  MaxChecks = 2
  MaxLoads = 2
  MaxTakes = 1
SPECIFICATION FairSpec
ACTION_CONSTRAINT OneSupplied
INVARIANTS WellFormed ReadByTheModelInUse AnswersUnderTrustInUse
PROPERTIES ImplementsAnswers NewestIsAnswered
CHECK_DEADLOCK FALSE
