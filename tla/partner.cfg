CONSTANTS
  Requests = {q1, q2}
  Keys = {k1, k2}
  Bodies = {b1}
  Ids = {o1, o2}
  MaxAged = 1
  NoOrder = NoOrder
  NoKey = NoKey
  NoBody = NoBody
  Faults = TRUE
SPECIFICATION PartnerSpec
SYMMETRY Symmetry
INVARIANTS ShipmentFoundByReference ShipmentIsFlagged CompletedIsBooked
