SPECIFICATION FairSpec
CONSTANTS
  Unset = Unset
  Garbage = Garbage
  Backoffs = 3
  LastMonth = 27
  FirstDay <- Calendar
  Envs <- Environments
  Segments <- Names
  Paths <- Ways
  Followed <- Watched
  Null = Null
  Amounts = {0, 4, 15}
  UsagePauses = 1
  Answered <- Heard
  Warmed <- Measured
  Instants <- Turns
  PeriodEnds <- Ahead
  Links <- Strings
  Hosts <- Named
CHECK_DEADLOCK FALSE
INVARIANTS
  AcceptedConfigServes OwnPrefixReachesProfile NextComesBack
  ExhaustionIsActedOn SuccessNeverRotates TransientNeverDisables
  EdgeBlockIsNotHammered ResetWithinAYear FallbackMeetsTheDay
  BalanceFitsEveryLimit RefusedFetchIsNotRepeated
PROPERTIES NobodyCallsForTheGone EndsAsOneVerdict AttemptEnds
