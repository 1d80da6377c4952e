SPECIFICATION Spec
CONSTANTS
  Unset = Unset
  Garbage = Garbage
  Backoffs = 3
  LastMonth = 27
  FirstDay <- Calendar
  Envs <- Plain
  Segments <- Names
  Paths <- Scrape
  Followed <- Scraped
  Null = Null
  Amounts = {0, 4, 15}
  UsagePauses = 1
  Answered <- None
  Warmed <- None
  Instants <- Turns
  PeriodEnds <- Ahead
  Links <- None
  Hosts <- Named
CHECK_DEADLOCK FALSE
INVARIANT AuthNeverDisables
