SPECIFICATION FairSpec
CONSTANTS
  Lessons = {l1}
  Requests = {r1, r2}
  Recipients = 2
  MaxRetry = 1
  MaxFaults = 2
INVARIANTS NoMailFromLaterRun CopiesHaveCause
PROPERTIES OffDrainsQueue ReminderArrives
CHECK_DEADLOCK FALSE
