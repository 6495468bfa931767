SPECIFICATION FairSpec
CONSTANTS
  Bookings = {b1}
  NoBooking = NoBooking
  Requests = {r1}
  Ops <- RefundingOps
  Faults = {}
  MaxRef = 2
  MaxRestarts = 0
INVARIANTS
  SettledAgree
PROPERTIES
  CancelReleasesHold
CHECK_DEADLOCK FALSE
