CONSTANTS
  Workers = {w1, w2}
  Keys = {k1}
  Awbs = {a1, a2, a3}
  NoKey = NoKey
  NoAwb = NoAwb
  NoWorker = NoWorker
  InitialStatuses <- AnyUnbooked
  SlowBooking = FALSE
  Cancellation = FALSE
  Crashes = TRUE
  Lists <- ShortLists
  Reminted = TRUE
  VelocityIds = 4
SPECIFICATION PrioritySpec
SYMMETRY Symmetry
CHECK_DEADLOCK FALSE
INVARIANTS EveryShipmentIsKnown
PROPERTIES OneShipmentPerRequest UpdatedIsStored ShippedStatusKept
