SPECIFICATION Spec
CONSTANTS
  r1 = r1
  r2 = r2
  r3 = r3
  r4 = r4
  KeyCount = 2
  MaxConcurrent = 1
  StopThreshold = 0
  MaxCredits = 0
  Seed = 1
  RotateCooldown = 1
  RetryCap = 1
  MaxReset = 1
  Requests = {r1, r2, r3, r4}
  Profile = "firecrawl"
  MaxPasses = 1
  Saturation = "queue"
  QueueWait = TRUE
  Replies <- OkReplies
  Costs = {0}
  RetryAfters = {0}
  Balances = {}
  Resets = {}
  Cancels = {}
SYMMETRY Symmetry
INVARIANTS CapRespected WaiterHasWaker
PROPERTY ImplementsLeases
