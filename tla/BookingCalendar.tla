--------------------------- MODULE BookingCalendar ---------------------------
(***************************************************************************)
(* Who may have which time: Create of bookings.Service with the reads it   *)
(* decides on, the exclusion constraints of the bookings table it races    *)
(* against, teachers replacing the weekly availability meanwhile, and      *)
(* cancellations and late completions that free and reclaim the time.      *)
(*                                                                         *)
(* A lesson is "booked" here while it is pending_payment or confirmed: no  *)
(* calendar decision tells the two apart (LessonMoney does).  Only the     *)
(* statements that read or write calendar state are steps.                 *)
(***************************************************************************)
EXTENDS SlotGrid

CONSTANTS
  Teachers,    \* teacher profiles
  Students,    \* accounts that book, none of them the owner of a profile
  Lessons,     \* rows of bookings
  NoOne,       \* not an account or a profile
  Requests,    \* handlers that may run at the same time
  Weeks,       \* the weekly sets teachers send
  Durations,   \* allowedDurations in ticks
  Window,      \* days of a slots query
  Asked,       \* bound: what students ask for, as <<start, duration>>
  Horizon      \* bound: the clock stops here

ASSUME CalendarAssumption ==
  /\ NoOne \notin Teachers \cup Students
  /\ Weeks \subseteq SUBSET Span
  /\ \A spans \in Weeks : ValidWeek(spans)
  /\ Durations \subseteq Nat \ {0}
  /\ Horizon \in Nat
  /\ Window \in Nat
  /\ Asked \subseteq Nat \X Durations

VARIABLES
  week,      \* teacher_availability_slots of each teacher
  lesson,    \* bookings
  req,       \* the handlers in flight
  now        \* the clock

vars == <<week, lesson, req, now>>

Lesson == [status : {"booked", "completed", "cancelled"}, teacher : Teachers,
           student : Students, start : Nat, end : Nat]

NoLesson == [status |-> "none", teacher |-> NoOne, student |-> NoOne, start |-> 0, end |-> 0]

Creating  == [at : {"booked_read", "insert"}, want : Lesson, spans : SUBSET Span]
Moving    == [at : {"no_show", "cancel"}, id : Lessons]
Replacing == [at : {"replace"}, teacher : Teachers, spans : Weeks, sees : SUBSET Span]
Idle      == [at |-> "idle"]

Init ==
  /\ week   \in [Teachers -> Weeks]
  /\ lesson = [b \in Lessons |-> NoLesson]
  /\ req    = [r \in Requests |-> Idle]
  /\ now    = 0

-----------------------------------------------------------------------------
Live(b) == lesson[b].status \in {"booked", "completed"}

When(l) == <<l.start, l.end>>

\* Mutant of Excluded: only the teacher's diary is constrained.
ExcludedByTeacher(l, b) ==
  \E c \in Lessons \ {b} :
    Live(c) /\ lesson[c].teacher = l.teacher /\ Overlap(When(lesson[c]), When(l))

\* The two EXCLUDE constraints refuse to have l as the live row b.
Excluded(l, b) ==
  \E c \in Lessons \ {b} :
    /\ Live(c)
    /\ lesson[c].teacher = l.teacher \/ lesson[c].student = l.student
    /\ Overlap(When(lesson[c]), When(l))

BookedIntervals(teacher) ==
  {When(lesson[b]) : b \in {c \in Lessons : Live(c) /\ lesson[c].teacher = teacher}}

-----------------------------------------------------------------------------
\* Create: the input is checked and the weekly availability is read.
StartCreate(r, teacher, student, start, dur) ==
  /\ req[r] = Idle
  /\ start > now
  /\ req' = [req EXCEPT ![r] =
               [at    |-> "booked_read",
                want  |-> [status |-> "booked", teacher |-> teacher, student |-> student,
                           start |-> start, end |-> start + dur],
                spans |-> week[teacher]]]
  /\ UNCHANGED <<week, lesson, now>>

\* The booked intervals are read and the slot set is derived again: a start it
\* does not produce is a 409 slot_unavailable.  (The time that StartCreate read
\* is earlier than the start, so that the start itself bounds the slots.)
ReadBooked(r) ==
  LET l == req[r].want IN
  /\ req[r].at = "booked_read"
  /\ req' = [req EXCEPT ![r] =
               IF IsBookableStart(req[r].spans, BookedIntervals(l.teacher), l.start, l.end - l.start, l.start)
                 THEN [req[r] EXCEPT !.at = "insert"]
                 ELSE Idle]
  /\ UNCHANGED <<week, lesson, now>>

\* The INSERT: the constraints refuse it with a 409 slot_taken.
InsertBooking(r) ==
  LET l == req[r].want IN
  /\ req[r].at = "insert"
  /\ \/ \E b \in Lessons :
          /\ lesson[b] = NoLesson /\ ~Excluded(l, b)
          /\ lesson' = [lesson EXCEPT ![b] = l]
     \/ /\ \E b \in Lessons : Excluded(l, b)
        /\ UNCHANGED lesson
  /\ req' = [req EXCEPT ![r] = Idle]
  /\ UNCHANGED <<week, now>>

\* Cancel reads a live booking and then cancels whatever the row has become.
StartCancel(r, b) ==
  /\ req[r] = Idle
  /\ lesson[b].status = "booked"
  /\ req' = [req EXCEPT ![r] = [at |-> "cancel", id |-> b]]
  /\ UNCHANGED <<week, lesson, now>>

CancelBooking(r) ==
  /\ req[r].at = "cancel"
  /\ lesson' = [lesson EXCEPT ![req[r].id].status = "cancelled"]
  /\ req' = [req EXCEPT ![r] = Idle]
  /\ UNCHANGED <<week, now>>

\* A no-show may be reported after the start of the lesson: within the tick that
\* begins with it.
StartNoShow(r, b) ==
  /\ req[r] = Idle
  /\ lesson[b].status = "booked" /\ now >= lesson[b].start
  /\ req' = [req EXCEPT ![r] = [at |-> "no_show", id |-> b]]
  /\ UNCHANGED <<week, lesson, now>>

\* Mutant of SetCompleted: the row returns without passing the constraints.
SetCompletedUnchecked(r) ==
  /\ req[r].at = "no_show"
  /\ lesson' = [lesson EXCEPT ![req[r].id].status = "completed"]
  /\ req' = [req EXCEPT ![r] = Idle]
  /\ UNCHANGED <<week, now>>

\* SetStatus(completed) does not look at the status: a booking cancelled since
\* the read comes back to life, unless its time has been taken meanwhile and
\* the UPDATE fails.  Complete does the same after the end of the lesson.
SetCompleted(r) ==
  LET b == req[r].id IN
  /\ req[r].at = "no_show"
  /\ lesson' = IF Excluded(lesson[b], b) THEN lesson
               ELSE [lesson EXCEPT ![b].status = "completed"]
  /\ req' = [req EXCEPT ![r] = Idle]
  /\ UNCHANGED <<week, now>>

\* ReplaceSlots: the DELETE sees the rows committed when it starts.
StartReplace(r, teacher, spans) ==
  /\ req[r] = Idle
  /\ req' = [req EXCEPT ![r] = [at |-> "replace", teacher |-> teacher, spans |-> spans,
                               sees |-> week[teacher]]]
  /\ UNCHANGED <<week, lesson, now>>

\* The rows it saw are gone, and lost to a DELETE that was waiting for them;
\* rows committed since stay, beside the new ones.  The transaction is rolled
\* back when the constraint refuses a new row or a statement fails.
CommitReplace(r) ==
  LET teacher == req[r].teacher
      kept    == week[teacher] \ req[r].sees IN
  /\ req[r].at = "replace"
  /\ \/ /\ ~Collide(kept, req[r].spans)
        /\ week' = [week EXCEPT ![teacher] = kept \cup req[r].spans]
        /\ req' = [q \in Requests |->
                     CASE q = r -> Idle
                       [] q # r /\ req[q].at = "replace" /\ req[q].teacher = teacher ->
                            [req[q] EXCEPT !.sees = @ \ req[r].sees]
                       [] OTHER -> req[q]]
     \/ /\ req' = [req EXCEPT ![r] = Idle]
        /\ UNCHANGED week
  /\ UNCHANGED <<lesson, now>>

Tick ==
  /\ now < Horizon
  /\ now' = now + 1
  /\ UNCHANGED <<week, lesson, req>>

Next ==
  \/ \E r \in Requests :
       \/ \E teacher \in Teachers, student \in Students, ask \in Asked :
            StartCreate(r, teacher, student, ask[1], ask[2])
       \/ ReadBooked(r) \/ InsertBooking(r) \/ CancelBooking(r) \/ SetCompleted(r)
       \/ CommitReplace(r)
       \/ \E b \in Lessons : StartCancel(r, b) \/ StartNoShow(r, b)
       \/ \E teacher \in Teachers, spans \in Weeks : StartReplace(r, teacher, spans)
  \/ Tick

Spec == Init /\ [][Next]_vars
-----------------------------------------------------------------------------
TypeOK ==
  /\ week   \in [Teachers -> SUBSET Span]
  /\ lesson \in [Lessons -> Lesson \cup {NoLesson}]
  /\ req    \in [Requests -> Creating \cup Moving \cup Replacing \cup {Idle}]
  /\ now    \in 0 .. Horizon

\* Nobody is in two lessons at once, whichever creates, cancellations and late
\* completions raced for the time.
NoDoubleBooking ==
  \A b, c \in Lessons :
    /\ b # c /\ Live(b) /\ Live(c)
    /\ lesson[b].teacher = lesson[c].teacher \/ lesson[b].student = lesson[c].student
    => ~Overlap(When(lesson[b]), When(lesson[c]))

\* However replacements of one week race, no two stored spans of a day overlap.
StoredWeekIsValid == \A teacher \in Teachers : ValidWeek(week[teacher])

\* The slots endpoint asked for the next lessons of dur ticks.
Listed(teacher, dur) ==
  GenerateSlots(week[teacher], BookedIntervals(teacher), now, now + Window * Day, dur, now)

\* For a week on the half-hour grid the slots endpoint lists exactly the free
\* half-hour starts of the offered time, across midnight and around bookings.
ListsExactlyFreeTime ==
  \A teacher \in Teachers, dur \in Durations :
    OnGrid(week[teacher]) =>
      Listed(teacher, dur) =
        FreeStarts(week[teacher], BookedIntervals(teacher), now, now + Window * Day, dur, now)

\* A slot that is listed would be accepted by Create at the same moment:
\* "generateSlots is the single source of truth ... both the slots endpoint and
\* the create re-check call it".
ListedIsBookable ==
  \A teacher \in Teachers, dur \in Durations :
    \A start \in Listed(teacher, dur) :
      IsBookableStart(week[teacher], BookedIntervals(teacher), start, dur, now)
==============================================================================
