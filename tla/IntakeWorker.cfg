SPECIFICATION Spec
CONSTANTS
  peers = peers
  self = self
  abroad = abroad
  n1 = n1
  n2 = n2
  None = None
  Ops = {peers, self, abroad}
  Own = {self, abroad}
  Mine = {peers, self}
  Slots = {n1, n2}
  MaxNotes = 2
  MaxCrashes = 1
  MaxFaults = 1
CHECK_DEADLOCK FALSE
INVARIANTS NoneWithoutWorker ReadAfterWait
PROPERTIES OwnLivesOnce QueuedIsRun
