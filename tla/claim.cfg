CONSTANTS
  Workers = {w1, w2, w3}
  Keys = {k1, k2}
  Awbs = {a1}
  NoKey = NoKey
  NoAwb = NoAwb
  NoWorker = NoWorker
  InitialStatuses <- AnyUnbooked
  SlowBooking = TRUE
  Cancellation = TRUE
SPECIFICATION FairSpec
INVARIANTS TypeOK ClaimExclusion HolderOwnsDocument ClaimIsDated
PROPERTIES ClaimNotStuck
