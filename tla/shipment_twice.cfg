CONSTANTS
  User = u1
  Users <- OneUser
  Orders = {o1}
  Refs = {o1}
  Calls = {"shipment", "adjust"}
  Amounts = {2, 4}
  Charge <- ChargeOf
  NoRef = NoRef
  Indexed = FALSE
  Funds = 4
  Dear = {}
  Opening <- OpeningFunds
  Batch = 1
  MaxOthers = 0
  MaxFaults = 1
SPECIFICATION ShipmentSpec
CHECK_DEADLOCK FALSE
INVARIANT PostedOnce
