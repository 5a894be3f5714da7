SPECIFICATION FairSpec
CONSTANTS
  h1 = h1
  h2 = h2
  Booking = {b1}
  Intent = {}
  Order = {o1, o2}
  Handler = {h1, h2}
  NoRef = NoRef
  NoBooking = NoBooking
  Amount = 2
  Truncated = {}
  RefundAmounts = {}
  ManualStatuses = {}
  FaultKinds = {}
  MaxFaults = 0
PROPERTIES
  PayPalMoneySettles
