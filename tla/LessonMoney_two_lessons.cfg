SPECIFICATION Spec
CONSTANTS
  Bookings = {b1, b2}
  NoBooking = NoBooking
  Requests = {r1, r2}
  Ops <- LifecycleOps
  Faults = {}
  MaxRef = 2
  MaxRestarts = 0
SYMMETRY Symmetry
INVARIANTS
  CompletedIsCaptured
  RefReachesItsPayment
PROPERTIES
  KeepsEarningsPromise
CHECK_DEADLOCK FALSE
