\* A file without a proof, and a file dropped while the detector reads its mark.
CONSTANTS
  Files = {marked, bare}
  Declares = {marked}
  Bare = {bare}
  Anchored = {}
  Models = {}
  Unreadable = {}
  Detections <- NoDetection
  Pinned = Pinned
  None = None
  Switches = {}
  TrustMounted = TRUE
  MaxChecks = 3
  MaxLoads = 3
  MaxTakes = 2
SPECIFICATION Spec
INVARIANTS MarkIsOfTheFileShown
CHECK_DEADLOCK FALSE
