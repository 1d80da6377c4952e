SPECIFICATION Spec
CONSTANTS
  r1 = r1
  r2 = r2
  r3 = r3
  r4 = r4
  KeyCount = 2
  MaxConcurrent = 0
  StopThreshold = 1
  MaxCredits = 2
  Seed = 2
  RotateCooldown = 1
  RetryCap = 2
  MaxReset = 2
  Requests = {r1, r2}
  Profile = "fmp"
  MaxPasses = 1
  Saturation = "queue"
  QueueWait = FALSE
  Replies <- FinanceReplies
  Costs = {0}
  RetryAfters = {0, 2}
  Balances = {}
  Resets = {2}
  Cancels = {}
SYMMETRY Symmetry
INVARIANTS TypeOK StopKeyHeldBack
PROPERTY VerbatimAnswer
