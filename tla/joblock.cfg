CONSTANTS
  r1 = r1
  r2 = r2
  r3 = r3
  p1 = p1
  p2 = p2
  Processes = {p1, p2}
  Runners = {r1, r2, r3}
  Proc <- TwoTimersAndOne
  NoRunner = NoRunner
  TTL = 2
  MaxSkew = 1
  Lags = {0, 1}
  MaxTime = 6
SPECIFICATION JobSpec
SYMMETRY Symmetry
INVARIANTS JobLockTypeOK MutexNotLeaked JobExclusion
