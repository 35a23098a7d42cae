CONSTANTS
  Workers = {w1, w2}
  Keys = {k1}
  Awbs = {a1, a2}
  NoKey = NoKey
  NoAwb = NoAwb
  NoWorker = NoWorker
  InitialStatuses <- AnyUnbooked
  SlowBooking = TRUE
  Cancellation = TRUE
  Crashes = TRUE
SPECIFICATION LorrigoSpec
SYMMETRY Symmetry
INVARIANTS LiveIsKnown OneKnownShipment UnsavedIsFlagged
PROPERTIES AwbNotReplaced
