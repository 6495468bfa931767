SPECIFICATION FairSpec
CONSTANTS
  Bookings = {l1, l2}
  Operators = {op1, op2}
  Hooks = {h1, h2}
  NoBooking = NoBooking
  MaxBatches = 2
INVARIANTS BatchTotalsAddUp
PROPERTIES RefundedIsNotOwed KeepsEarningsPromise EveryTransactionEnds
