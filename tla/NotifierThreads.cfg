CONSTANTS
  w1 = w1
  w2 = w2
  w3 = w3
  c1 = c1
  c2 = c2
  Workers = {w1, w2, w3}
  Callers = {c1, c2}
  None = None
  MayNotStart = TRUE
  MaxJobs = 2
SPECIFICATION FairSpec
CHECK_DEADLOCK FALSE
INVARIANTS OneAtATime NoneStranded FlushTellsTrue
PROPERTIES IsNotificationQueue EveryJobEnds FlushReturns
