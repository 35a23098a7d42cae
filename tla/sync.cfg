CONSTANTS
  Orders = {o1, o2}
  Busy = {o1}
  Attempts = 2
  Batch = 1
  MaxDisturbances = 3
SPECIFICATION FairSpec
INVARIANTS UnbookedIsBookable
PROPERTIES LiveShipmentKept DeliveredStays SettledInTheEnd
