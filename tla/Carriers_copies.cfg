CONSTANTS
  Payloads <- SmallPayloads
  Stores <- SmallStores
  Held <- SmallHeld
  SealedIn <- BareStore
  MaxDepth = 2
  MaxEdits = 3
SPECIFICATION Spec
INVARIANTS CopiesNeverHarm SidecarGainsWhatDeletingGives DifferenceIsTold DerivedIsNotAccused
PROPERTIES ReplacingKeepsTheOutcome
CHECK_DEADLOCK FALSE
