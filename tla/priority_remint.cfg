CONSTANTS
  Workers = {w1, w2}
  Keys = {k1}
  Awbs = {a1, a2}
  NoKey = NoKey
  NoAwb = NoAwb
  NoWorker = NoWorker
  InitialStatuses <- FirstTime
  SlowBooking = FALSE
  Cancellation = FALSE
  Crashes = FALSE
  Lists <- VelocityOnly
  Reminted = FALSE
  VelocityIds = 2
SPECIFICATION PrioritySpec
CONSTRAINT Undisturbed
CHECK_DEADLOCK FALSE
INVARIANTS OneVelocityShipment
