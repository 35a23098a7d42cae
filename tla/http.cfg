CONSTANTS
  read1 = read1
  create1 = create1
  create2 = create2
  Calls <- OneReadTwoCreates
  Creates <- TwoCreates
  MaxConcurrent = 2
  MaxRetries = 1
SPECIFICATION ClientFairSpec
INVARIANTS SlotsAccounted CreatedOnce SecondTryIsAuthorized
PROPERTIES EveryCallEnds
