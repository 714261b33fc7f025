\* Honest claims about trees of up to 20 leaves, forged ones about trees of up to 4.
CONSTANTS
  MaxSize = 20
  ForgedSize = 4
  ForgedPath = 3
SPECIFICATION Spec
INVARIANTS OnlyHonestClaims HonestLogsPass
CHECK_DEADLOCK FALSE
