CONSTANTS
  bc = bc
  be = be
  cc = cc
  ce = ce
  Blocking = {be}
  Coroutines = {ce}
  Wanted <- WantedOf
  MayLose = TRUE
  MaxStray = 2
SPECIFICATION FairWaits
CHECK_DEADLOCK FALSE
INVARIANTS NoLostWakeUp ReadsOnceMore
PROPERTY WaitEnds
