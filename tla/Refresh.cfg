SPECIFICATION FairSpec
CONSTANTS
  r1 = r1
  r2 = r2
  f1 = f1
  w1 = w1
  KeyCount = 1
  MaxConcurrent = 0
  StopThreshold = 1
  MaxCredits = 1
  Seed = 2
  RotateCooldown = 1
  RetryCap = 1
  MaxReset = 1
  Requests = {r1, r2}
  Fetchers = {f1}
  Warmer = w1
  MaxCost = 1
  LowMark = 1
  LowInterval = 1
  DailyInterval = 1
INVARIANTS RefresherTypeOK LowRefreshThrottled EstimateErrsByWhatItMissed
PROPERTY StrandedKeyReturns
