SPECIFICATION Spec
CONSTANTS
  Keycodes = {26}
  MaxScore = 7
  Hundred = 4
INVARIANTS
  ScoreTypeOK
  
  ShownIsKept
PROPERTIES
  HighScoreKept
  PartedByPlayer
