SPECIFICATION PoolSpec
CONSTANTS
  KeyCount = 3
  MaxConcurrent = 1
  StopThreshold = 1
  MaxCredits = 1
  Seed = 2
  RotateCooldown = 1
  RetryCap = 2
  MaxReset = 1
INVARIANTS PoolTypeOK LoopPicksRichestOfTier CooldownNeverRefuses CountWithinCap
PROPERTY ReenabledKeyServes
