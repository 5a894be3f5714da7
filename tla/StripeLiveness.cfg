SPECIFICATION FairSpec
CONSTANTS
  h1 = h1
  h2 = h2
  Booking = {b1}
  Intent = {i1}
  Order = {}
  Handler = {h1, h2}
  NoRef = NoRef
  NoBooking = NoBooking
  Amount = 3
  Truncated = {3}
  RefundAmounts = {1}
  ManualStatuses = {}
  FaultKinds = {"crash", "reply"}
  MaxFaults = 1

  
PROPERTIES
  StripeMoneySettles
