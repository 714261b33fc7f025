CONSTANTS
  b1 = b1
  rebuilt = rebuilt
  b2 = b2
  dirty = dirty
  c1 = c1
  c2 = c2
  m1 = m1
  m2 = m2
  Builds = {b1, rebuilt, b2, dirty}
  CommitOf <- Commits
  Clean = {b1, rebuilt, b2}
  Names = {"index.html", "verifier.js", "detector.json", "detector.js", "sw.js"}
  Deferred = {"detector.js"}
  Keys = {k1, k2}
  None = None
  Touchable = {"index.html"}
  MaxLog = 2
  MaxTouches = 1
  MaxDeploys = 2
  Html = "index.html"
  Bundle = "verifier.js"
  DetectorJson = "detector.json"
  Worker = "sw.js"
  Models = {m1, m2}
  Pin <- Pinned
SPECIFICATION Spec
ACTION_CONSTRAINT OneOfTwo
INVARIANTS Continuity AcceptedIsWhatWasSigned PageIsOfOneBuild OfflineIsWhole
CHECK_DEADLOCK FALSE
