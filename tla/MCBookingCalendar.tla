-------------------------- MODULE MCBookingCalendar --------------------------
(* Days of four ticks, lessons of one or two steps of two ticks.            *)
EXTENDS BookingCalendar, TLC

On(weekday, start, end) == [weekday |-> weekday, start |-> start, end |-> end]

\* For a week of two days: an evening that continues after midnight, and a week
\* that collides with it and continues after its own last midnight.
Evening   == {On(0, 2, 4), On(1, 0, 2)}
LongDays  == {On(0, 0, 4), On(1, 2, 4)}
CollidingWeeks == {Evening, LongDays}

\* For a week of four days: from a quarter past on the first day, without a gap
\* to the end of the week.
QuarterPast == {{On(0, 1, 4), On(1, 0, 4), On(2, 0, 4), On(3, 0, 4)}}

\* A long lesson, and a short one in each of its halves.
LongOrHalf == {<<2, 4>>, <<2, 2>>, <<4, 2>>}

Symmetry == Permutations(Teachers) \cup Permutations(Students) \cup Permutations(Lessons)
              \cup Permutations(Requests)
==============================================================================
