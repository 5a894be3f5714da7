SPECIFICATION FairSpec
CONSTANTS
  h1 = h1
  h2 = h2
  Booking = {b1}
  Intent = {i1}
  Order = {}
  Handler = {h1}
  NoRef = NoRef
  NoBooking = NoBooking
  Amount = 2
  Truncated = {}
  RefundAmounts = {}
  ManualStatuses = {}
  FaultKinds = {"db"}
  MaxFaults = 1
PROPERTIES
  StripeMoneySettles
