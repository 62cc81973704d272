CONSTANTS
  Ops = {o1}
  Own = {o1}
  Instances = {i1, i2}
  Exposers = {i1}
  Claimers = {i1}
  Tasks = {t1}
  None = None
  Callback = FALSE
  MaxEnds = 1
  MaxFaults = 1
  Faulty = {"post", "claim", "end", "stop", "sweep", "outage"}
  o1 = o1
  i1 = i1
  i2 = i2
  t1 = t1
SPECIFICATION FairSpec
CHECK_DEADLOCK FALSE
INVARIANT NoZombie
PROPERTIES FeedbackIsNoWork SweepSparesTheLive ClaimedEnds QueuedIsTaken
