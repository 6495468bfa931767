SPECIFICATION Spec
CONSTANTS
  Bookings = {b1}
  NoBooking = NoBooking
  Requests = {r1, r2}
  Ops <- LifecycleOps
  Faults = {}
  MaxRef = 2
  MaxRestarts = 0
INVARIANTS
  CancelledHoldsNoMoney
CHECK_DEADLOCK FALSE
