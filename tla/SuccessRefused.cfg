SPECIFICATION Spec
CONSTANTS
  r1 = r1
  r2 = r2
  r3 = r3
  r4 = r4
  KeyCount = 1
  MaxConcurrent = 0
  StopThreshold = 1
  MaxCredits = 1
  Seed = 1
  RotateCooldown = 1
  RetryCap = 1
  MaxReset = 1
  Requests = {r1, r2}
  Profile = "exa"
  MaxPasses = 1
  Saturation = "queue"
  QueueWait = FALSE
  Replies <- OkReplies
  Costs = {1}
  RetryAfters = {0}
  Balances = {}
  Resets = {1}
  Cancels = {}
PROPERTY SuccessIsServed
