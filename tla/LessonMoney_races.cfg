SPECIFICATION Spec
CONSTANTS
  Bookings = {b1}
  NoBooking = NoBooking
  Requests = {r1, r2}
  Ops <- RacingOps
  Faults = {"abort", "intent", "refund"}
  MaxRef = 2
  MaxRestarts = 1
SYMMETRY Symmetry
INVARIANTS
  MoneyRowsAgree
  PaidBeforeTaught
PROPERTIES
  NeverReopened
  EventsBackMoney
CHECK_DEADLOCK FALSE
