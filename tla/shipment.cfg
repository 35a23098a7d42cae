CONSTANTS
  User = u1
  Users <- OneUser
  Orders = {o1, o2}
  Refs = {o1, o2}
  Calls = {"shipment", "adjust"}
  Amounts = {2, 4}
  Charge <- ChargeOf
  NoRef = NoRef
  Indexed = FALSE
  Funds = 4
  Dear = {o2}
  Opening <- OpeningFunds
  Batch = 1
  MaxOthers = 1
  MaxFaults = 1
SPECIFICATION ShipmentFairSpec
CHECK_DEADLOCK FALSE
INVARIANTS ChargeTracked 
PROPERTIES ChargedInTheEnd
