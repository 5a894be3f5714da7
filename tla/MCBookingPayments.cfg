SPECIFICATION Spec
CONSTANTS
  h1 = h1
  h2 = h2
  Booking = {b1}
  Intent = {i1}
  Order = {o1}
  Handler = {h1, h2}
  NoRef = NoRef
  NoBooking = NoBooking
  Amount = 3
  Truncated = {3}
  RefundAmounts = {0, 1}
  ManualStatuses = {"completed"}
  FaultKinds = {"db", "reply", "crash", "hold"}
  MaxFaults = 1
SYMMETRY HandlerSymmetry
INVARIANTS
  TypeOK
  SucceededIsPaid
  PaidIsOnRecord
  
  RefundNeverOverstated
  IInv
  ViewsAreBacked
PROPERTIES
  BookingStatusEarned
  ImplementsLifecycle
