SPECIFICATION Spec
CONSTANTS
  r1 = r1
  r2 = r2
  r3 = r3
  r4 = r4
  KeyCount = 2
  MaxConcurrent = 0
  StopThreshold = 1
  MaxCredits = 1
  Seed = 2
  RotateCooldown = 1
  RetryCap = 1
  MaxReset = 1
  Requests = {r1, r2}
  Profile = "tavily"
  MaxPasses = 1
  Saturation = "queue"
  QueueWait = FALSE
  Replies <- OkReplies
  Costs = {1}
  RetryAfters = {0}
  Balances = {0, 1}
  Resets = {1}
  Cancels = {}
PROPERTY BelowStopNeverServes
