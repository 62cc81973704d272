SPECIFICATION ObservedSpec
CONSTANTS
  Capacity = 1
  Rounds = 2
  NoToken = NoToken
  MaxSeq = 3
  MaxStarts = 2
  MaxDrops = 1
  Kinds = {"mqtt", "rest"}
  Values = {v1, v2}
  Unset = Unset
CHECK_DEADLOCK FALSE
INVARIANTS UntoldWasRaced ShownIsStamped
PROPERTIES NothingTwice CatchesUp StopEnds
