------------------------------- MODULE SlotGrid -------------------------------
(***************************************************************************)
(* The slot arithmetic of internal/bookings: a teacher's weekly spans are  *)
(* projected onto dates, merged into windows and cut into start times.     *)
(*                                                                         *)
(* Time is counted in ticks of the availability granularity (15 minutes),  *)
(* day 0 falls on weekday 0.  The program has Day = 96, Week = 7, Step = 2.*)
(***************************************************************************)
EXTENDS Integers, FiniteSets, Folds

CONSTANTS
  Day,    \* ticks of a day
  Week,   \* days of a week
  Step    \* slotStepMinutes in ticks

ASSUME GridAssumption ==
  /\ Day \in Nat \ {0} /\ Week \in Nat \ {0} /\ Step \in Nat \ {0}
  /\ Day % Step = 0

Span == [weekday : 0..(Week - 1), start : 0..(Day - 1), end : 1..Day]

\* validateSlots: spans are well-formed and those of one weekday do not overlap.
ValidWeek(spans) ==
  /\ \A s \in spans : s.start < s.end
  /\ \A s, t \in spans :
       s # t /\ s.weekday = t.weekday => s.end <= t.start \/ t.end <= s.start

\* Mutant of Collide: rows are told apart by where they start.
CollideAtStart(these, those) ==
  \E s \in these, t \in those : s.weekday = t.weekday /\ s.start = t.start

\* The EXCLUDE constraint of teacher_availability_slots has both sets at once.
Collide(these, those) ==
  \E s \in these, t \in those : s.weekday = t.weekday /\ s.start < t.end /\ t.start < s.end

\* An interval <<start, end>> is half-open, so that lessons may touch.
Overlap(i, j) == i[1] < j[2] /\ j[1] < i[2]

ProjectSpans(spans, from, to) ==
  UNION {{<<d * Day + s.start, d * Day + s.end>> : s \in {x \in spans : x.weekday = d % Week}} :
           d \in (from \div Day) - 1 .. (to \div Day) + 1}

\* Mutant of Extend: a window ends where the last span merged into it ends.
ExtendToLast(iv, windows) ==
  LET last == CHOOSE w \in windows : \A v \in windows : v[1] <= w[1] IN
  IF windows = {} \/ iv[1] > last[2]
    THEN windows \cup {iv}
    ELSE (windows \ {last}) \cup {iv}

\* An interval that overlaps or touches the last window extends it.
Extend(iv, windows) ==
  LET last == CHOOSE w \in windows : \A v \in windows : v[1] <= w[1] IN
  IF windows = {} \/ iv[1] > last[2]
    THEN windows \cup {iv}
    ELSE (windows \ {last}) \cup {<<last[1], IF iv[2] > last[2] THEN iv[2] ELSE last[2]>>}

\* Spans are taken in the order of their starts, so the fold picks the latest
\* of the rest each time.
MergeIntervals(ivs) ==
  MapThenFoldSet(Extend, {}, LAMBDA iv : iv,
                 LAMBDA S : CHOOSE iv \in S : \A jv \in S : jv[1] <= iv[1], ivs)

GenerateSlots(spans, booked, from, to, dur, now) ==
  LET lower   == IF now > from THEN now ELSE from
      windows == MergeIntervals(ProjectSpans(spans, from, to)) IN
  {s \in lower .. (to - dur) :
     /\ \E w \in windows :
          /\ s >= w[1] /\ s + dur <= w[2]
          /\ (s - w[1]) % Step = 0
     /\ \A i \in booked : ~Overlap(<<s, s + dur>>, i)}

\* The re-check of Create: the slots of a window that just holds the lesson.
IsBookableStart(spans, booked, start, dur, now) ==
  start \in GenerateSlots(spans, booked, start, start + dur, dur, now)

-----------------------------------------------------------------------------
(* What the arithmetic should come to, tick by tick.                        *)

Offered(spans, t) ==
  \E s \in spans : s.weekday = (t \div Day) % Week /\ t % Day \in s.start .. (s.end - 1)

OnGrid(spans) == \A s \in spans : s.start % Step = 0

FreeStarts(spans, booked, from, to, dur, now) ==
  LET free == {t \in from .. (to - 1) :
                 Offered(spans, t) /\ \A i \in booked : t \notin i[1] .. (i[2] - 1)} IN
  {s \in from .. (to - dur) : s >= now /\ s % Step = 0 /\ s .. (s + dur - 1) \subseteq free}
==============================================================================
