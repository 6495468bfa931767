SPECIFICATION Spec
CONSTANTS
  Day = 4
  Week = 2
  Step = 2
  Teachers = {t1, t2}
  Students = {s1, s2}
  Lessons = {l1, l2}
  NoOne = NoOne
  Requests = {r1, r2}
  Weeks <- CollidingWeeks
  Durations = {2, 4}
  Asked <- LongOrHalf
  Window = 2
  Horizon = 2
SYMMETRY Symmetry
INVARIANTS NoDoubleBooking StoredWeekIsValid ListsExactlyFreeTime
CHECK_DEADLOCK FALSE
