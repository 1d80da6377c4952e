SPECIFICATION FairSpec
CONSTANTS
  r1 = r1
  r2 = r2
  r3 = r3
  r4 = r4
  KeyCount = 1
  MaxConcurrent = 1
  StopThreshold = 1
  MaxCredits = 1
  Seed = 2
  RotateCooldown = 1
  RetryCap = 1
  MaxReset = 1
  Requests = {r1, r2}
  Profile = "firecrawl"
  MaxPasses = 2
  Saturation = "queue"
  QueueWait = TRUE
  Replies <- DrainReplies
  Costs = {1}
  RetryAfters = {0}
  Balances = {0}
  Resets = {1}
  Cancels = {r1}
INVARIANT SlotsMatchHolders
PROPERTIES EveryRequestAnswered DisabledKeyComesBack LeasesReturned
