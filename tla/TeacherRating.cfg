SPECIFICATION Spec
CONSTANTS
  Writers = {w1, w2}
  Bookings = {b1, b2}
  None = None
  Stars = {1, 5}
  BaseCount = 1
  BaseRating = 44
  MaxReviews = 3
SYMMETRY Symmetry
INVARIANTS ExactUnlessOvertaken CountsEachLessonOnce
PROPERTIES RemovedStaysRemoved
CHECK_DEADLOCK FALSE
