SPECIFICATION Spec
CONSTANTS
  h1 = h1
  h2 = h2
  Booking = {b1, b2}
  Intent = {i1, i2}
  Order = {}
  Handler = {h1}
  NoRef = NoRef
  NoBooking = NoBooking
  Amount = 2
  Truncated = {}
  RefundAmounts = {}
  ManualStatuses = {}
  FaultKinds = {}
  MaxFaults = 0
INVARIANTS
  NextNumberIsFree
