------------------------ MODULE BookingCalendarProofs ------------------------
(***************************************************************************)
(* What BookingCalendar guarantees for every number of teachers, students, *)
(* lessons and handlers, for every weekly set and every slot grid.         *)
(***************************************************************************)
EXTENDS BookingCalendar, FiniteSetTheorems, TLAPS

\* A handler that moves a lesson moves one that was created.
MovesRealLesson ==
  \A r \in Requests : req[r].at \in {"no_show", "cancel"} => lesson[req[r].id] # NoLesson

TypeInv == TypeOK /\ MovesRealLesson

LEMMA OverlapIsSymmetric ==
  ASSUME NEW i, NEW j
  PROVE  Overlap(i, j) <=> Overlap(j, i)
  BY DEF Overlap

\* The three kinds of request are told apart by where they are.
LEMMA RequestKinds ==
  ASSUME NEW q \in Creating \cup Moving \cup Replacing \cup {Idle}
  PROVE  /\ q.at \in {"booked_read", "insert"} => q \in Creating
         /\ q.at \in {"no_show", "cancel"} => q \in Moving
         /\ q.at = "replace" => q \in Replacing
  BY DEF Creating, Moving, Replacing, Idle

-----------------------------------------------------------------------------
LEMMA InitTyped == Init => TypeInv
<1> SUFFICES ASSUME Init PROVE TypeInv
  OBVIOUS
<1>1. TypeOK
  BY CalendarAssumption DEF Init, TypeOK
<1>2. MovesRealLesson
  BY DEF Init, MovesRealLesson, Idle
<1> QED BY <1>1, <1>2 DEF TypeInv

\* What is written to the lesson table by one step.
LEMMA LessonMoves ==
  ASSUME TypeInv, [Next]_vars, lesson' # lesson
  PROVE  \/ \E r \in Requests, b \in Lessons :
              /\ req[r].at = "insert" /\ req[r].want \in Lesson
              /\ lesson[b] = NoLesson /\ ~Excluded(req[r].want, b)
              /\ lesson' = [lesson EXCEPT ![b] = req[r].want]
         \/ \E b \in Lessons :
              /\ lesson[b] \in Lesson
              /\ \/ lesson' = [lesson EXCEPT ![b].status = "cancelled"]
                 \/ /\ ~Excluded(lesson[b], b)
                    /\ lesson' = [lesson EXCEPT ![b].status = "completed"]
<1> USE DEF TypeInv, TypeOK
<1>1. ASSUME NEW r \in Requests, InsertBooking(r)
      PROVE  \E b \in Lessons :
               /\ req[r].at = "insert" /\ req[r].want \in Lesson
               /\ lesson[b] = NoLesson /\ ~Excluded(req[r].want, b)
               /\ lesson' = [lesson EXCEPT ![b] = req[r].want]
  <2>1. req[r].at = "insert" /\ req[r] \in Creating
    BY <1>1, RequestKinds DEF InsertBooking
  <2> QED BY <1>1, <2>1 DEF InsertBooking, Creating
<1>2. ASSUME NEW r \in Requests, CancelBooking(r) \/ SetCompleted(r)
      PROVE  \E b \in Lessons :
               /\ lesson[b] \in Lesson
               /\ \/ lesson' = [lesson EXCEPT ![b].status = "cancelled"]
                  \/ /\ ~Excluded(lesson[b], b)
                     /\ lesson' = [lesson EXCEPT ![b].status = "completed"]
  <2>1. req[r].at \in {"no_show", "cancel"} /\ req[r] \in Moving
    BY <1>2, RequestKinds DEF CancelBooking, SetCompleted
  <2>2. req[r].id \in Lessons /\ lesson[req[r].id] \in Lesson
    BY <2>1 DEF MovesRealLesson, Moving
  <2> QED BY <1>2, <2>2 DEF CancelBooking, SetCompleted
<1> QED BY <1>1, <1>2 DEF Next, StartCreate, ReadBooked, StartCancel, StartNoShow, StartReplace,
                          CommitReplace, Tick, vars

\* A replacement ends its own request and shortens what others are to delete.
LEMMA CommitMoves ==
  ASSUME TypeInv, NEW s \in Requests, CommitReplace(s), NEW r \in Requests
  PROVE  req'[r] = req[r] \/ req'[r] = Idle \/ req'[r] \in Replacing
<1> USE DEF TypeInv, TypeOK
<1>1. CASE req' = [req EXCEPT ![s] = Idle]
  BY <1>1
<1>2. CASE req' = [q \in Requests |->
                     CASE q = s -> Idle
                       [] q # s /\ req[q].at = "replace" /\ req[q].teacher = req[s].teacher ->
                            [req[q] EXCEPT !.sees = @ \ req[s].sees]
                       [] OTHER -> req[q]]
  <2>1. CASE r # s /\ req[r].at = "replace" /\ req[r].teacher = req[s].teacher
    <3>1. req[r] \in Replacing
      BY <2>1, RequestKinds
    <3>2. req'[r] = [req[r] EXCEPT !.sees = @ \ req[s].sees]
      BY <1>2, <2>1
    <3> QED BY <3>1, <3>2 DEF Replacing
  <2>2. CASE ~(r # s /\ req[r].at = "replace" /\ req[r].teacher = req[s].teacher)
    BY <1>2, <2>2
  <2> QED BY <2>1, <2>2
<1> QED BY <1>1, <1>2 DEF CommitReplace

LEMMA RequestStep ==
  ASSUME TypeInv, [Next]_vars, NEW r \in Requests
  PROVE  /\ req'[r] \in Creating \cup Moving \cup Replacing \cup {Idle}
         /\ req'[r].at \in {"no_show", "cancel"} =>
              \/ req'[r] = req[r]
              \/ req'[r].id \in Lessons /\ lesson[req'[r].id] \in Lesson
<1> USE DEF TypeInv, TypeOK
<1>1. ASSUME NEW s \in Requests, NEW teacher \in Teachers, NEW student \in Students,
             NEW ask \in Asked, StartCreate(s, teacher, student, ask[1], ask[2])
      PROVE  req'[r] = req[r] \/ req'[r] \in Creating
  <2>1. ask[1] \in Nat /\ ask[1] + ask[2] \in Nat
    <3>1. ask \in Nat \X Durations /\ Durations \subseteq Nat
      BY CalendarAssumption
    <3>2. ask[1] \in Nat /\ ask[2] \in Nat
      BY <3>1
    <3> QED BY <3>2
  <2> QED BY <1>1, <2>1 DEF StartCreate, Creating, Lesson
<1>2. ASSUME NEW s \in Requests, ReadBooked(s)
      PROVE  req'[r] = req[r] \/ req'[r] \in Creating \/ req'[r] = Idle
  <2>1. req[s] \in Creating
    BY <1>2, RequestKinds DEF ReadBooked
  <2> QED BY <1>2, <2>1 DEF ReadBooked, Creating
<1>3. ASSUME NEW s \in Requests, InsertBooking(s) \/ CancelBooking(s) \/ SetCompleted(s)
      PROVE  req'[r] = req[r] \/ req'[r] = Idle
  BY <1>3 DEF InsertBooking, CancelBooking, SetCompleted
<1>4. ASSUME NEW s \in Requests, NEW b \in Lessons, StartCancel(s, b) \/ StartNoShow(s, b)
      PROVE  \/ req'[r] = req[r]
             \/ req'[r] \in Moving /\ req'[r].id = b /\ lesson[b] \in Lesson
  <2>1. lesson[b] \in Lesson
    BY <1>4 DEF StartCancel, StartNoShow, NoLesson
  <2> QED BY <1>4, <2>1 DEF StartCancel, StartNoShow, Moving
<1>5. ASSUME NEW s \in Requests, NEW teacher \in Teachers, NEW spans \in Weeks,
             StartReplace(s, teacher, spans)
      PROVE  req'[r] = req[r] \/ req'[r] \in Replacing
  BY <1>5 DEF StartReplace, Replacing
<1>6. ASSUME NEW s \in Requests, CommitReplace(s)
      PROVE  req'[r] = req[r] \/ req'[r] = Idle \/ req'[r] \in Replacing
  BY <1>6, CommitMoves
<1>7. CASE UNCHANGED req
  BY <1>7
<1>8. \A q \in Creating \cup Replacing \cup {Idle} : q.at \notin {"no_show", "cancel"}
  BY DEF Creating, Replacing, Idle
<1>9. \/ req'[r] = req[r] \/ req'[r] \in Creating \cup Replacing \cup {Idle}
      \/ req'[r] \in Moving /\ req'[r].id \in Lessons /\ lesson[req'[r].id] \in Lesson
  BY <1>1, <1>2, <1>3, <1>4, <1>5, <1>6, <1>7 DEF Next, Tick, vars
<1> QED BY <1>8, <1>9

LEMMA TypeStep ==
  ASSUME TypeInv, [Next]_vars
  PROVE  TypeInv'
<1> USE DEF TypeInv, TypeOK
<1>1. lesson' \in [Lessons -> Lesson \cup {NoLesson}]
      /\ \A b \in Lessons : lesson[b] # NoLesson => lesson'[b] # NoLesson
  <2>1. NoLesson \notin Lesson
    BY DEF Lesson, NoLesson
  <2>2. CASE lesson' = lesson
    BY <2>2
  <2>3. ASSUME NEW b \in Lessons, NEW l \in Lesson, lesson' = [lesson EXCEPT ![b] = l]
        PROVE  /\ lesson' \in [Lessons -> Lesson \cup {NoLesson}]
               /\ \A c \in Lessons : lesson[c] # NoLesson => lesson'[c] # NoLesson
    BY <2>1, <2>3
  <2>4. ASSUME NEW b \in Lessons, lesson[b] \in Lesson, NEW s \in {"cancelled", "completed"},
               lesson' = [lesson EXCEPT ![b].status = s]
        PROVE  \E l \in Lesson : lesson' = [lesson EXCEPT ![b] = l]
    <3>1. [lesson[b] EXCEPT !.status = s] \in Lesson
      BY <2>4 DEF Lesson
    <3> QED BY <2>4, <3>1
  <2> QED BY <2>2, <2>3, <2>4, LessonMoves
<1>2. req' \in [Requests -> Creating \cup Moving \cup Replacing \cup {Idle}]
  <2>1. DOMAIN req' = Requests /\ req' = [r \in Requests |-> req'[r]]
    BY DEF Next, StartCreate, ReadBooked, InsertBooking, StartCancel, CancelBooking, StartNoShow,
           SetCompleted, StartReplace, CommitReplace, Tick, vars
  <2>2. \A r \in Requests : req'[r] \in Creating \cup Moving \cup Replacing \cup {Idle}
    BY RequestStep
  <2> HIDE DEF TypeInv, TypeOK
  <2> QED BY <2>1, <2>2
<1>3. week' \in [Teachers -> SUBSET Span] /\ now' \in 0 .. Horizon
  <2>1. CASE UNCHANGED <<week, now>>
    BY <2>1
  <2>2. ASSUME NEW r \in Requests, CommitReplace(r)
        PROVE  week' \in [Teachers -> SUBSET Span] /\ now' = now
    <3>1. req[r] \in Replacing
      BY <2>2, RequestKinds DEF CommitReplace
    <3> QED BY <2>2, <3>1, CalendarAssumption DEF CommitReplace, Replacing
  <2>3. CASE Tick
    BY <2>3, CalendarAssumption DEF Tick
  <2> QED BY <2>1, <2>2, <2>3
          DEF Next, StartCreate, ReadBooked, InsertBooking, StartCancel, CancelBooking,
              StartNoShow, SetCompleted, StartReplace, vars
<1>4. MovesRealLesson'
  <2> SUFFICES ASSUME NEW r \in Requests, req'[r].at \in {"no_show", "cancel"}
               PROVE  lesson'[req'[r].id] # NoLesson
    BY DEF MovesRealLesson
  <2>1. NoLesson \notin Lesson
    BY DEF Lesson, NoLesson
  <2>2. req'[r].id \in Lessons /\ lesson[req'[r].id] # NoLesson
    BY <2>1, RequestStep, RequestKinds DEF MovesRealLesson, Moving
  <2> QED BY <1>1, <2>2
<1> QED BY <1>1, <1>2, <1>3, <1>4

LEMMA AlwaysTyped == Spec => []TypeInv
  BY InitTyped, TypeStep, PTL DEF Spec

\* Every variable keeps its type, for every instance.
THEOREM TypeCorrect == Spec => []TypeOK
<1>1. TypeInv => TypeOK
  BY DEF TypeInv
<1> QED BY <1>1, AlwaysTyped, PTL

-----------------------------------------------------------------------------
\* A row that the constraints let through overlaps no live lesson of its
\* teacher or student; a row that leaves the calendar disturbs nobody.
LEMMA DoubleBookingStep ==
  ASSUME TypeInv, NoDoubleBooking, [Next]_vars
  PROVE  NoDoubleBooking'
<1> USE DEF TypeInv, TypeOK
<1>1. CASE lesson' = lesson
  BY <1>1 DEF NoDoubleBooking, Live
<1>2. ASSUME NEW b \in Lessons, NEW l, ~Excluded(l, b), lesson' = [lesson EXCEPT ![b] = l]
      PROVE  NoDoubleBooking'
  <2>1. \A c \in Lessons \ {b} : lesson'[c] = lesson[c] /\ (Live(c)' <=> Live(c))
    BY <1>2 DEF Live
  <2>2. lesson'[b] = l
    BY <1>2
  <2>3. \A c \in Lessons \ {b} :
          Live(c) /\ (lesson[c].teacher = l.teacher \/ lesson[c].student = l.student)
            => ~Overlap(When(lesson[c]), When(l)) /\ ~Overlap(When(l), When(lesson[c]))
    BY <1>2, OverlapIsSymmetric DEF Excluded
  <2> QED BY <2>1, <2>2, <2>3 DEF NoDoubleBooking
<1>3. ASSUME NEW b \in Lessons, lesson' = [lesson EXCEPT ![b].status = "cancelled"]
      PROVE  NoDoubleBooking'
  <2>1. ~Live(b)'
    BY <1>3 DEF Live, Lesson, NoLesson
  <2>2. \A c \in Lessons \ {b} : lesson'[c] = lesson[c] /\ (Live(c)' <=> Live(c))
    BY <1>3 DEF Live
  <2> QED BY <2>1, <2>2 DEF NoDoubleBooking
<1>4. ASSUME NEW b \in Lessons, lesson[b] \in Lesson, ~Excluded(lesson[b], b),
             lesson' = [lesson EXCEPT ![b].status = "completed"]
      PROVE  NoDoubleBooking'
  <2> DEFINE l == [lesson[b] EXCEPT !.status = "completed"]
  <2>1. l.teacher = lesson[b].teacher /\ l.student = lesson[b].student /\ When(l) = When(lesson[b])
    BY <1>4 DEF Lesson, When
  <2>2. ~Excluded(l, b)
    BY <1>4, <2>1 DEF Excluded
  <2>3. lesson' = [lesson EXCEPT ![b] = l]
    BY <1>4
  <2> HIDE DEF l
  <2> QED BY <1>2, <2>2, <2>3
<1> QED BY <1>1, <1>2, <1>3, <1>4, LessonMoves

\* However creates, cancellations, late completions and changes of the weekly
\* availability interleave, no teacher and no student is in two lessons at once.
THEOREM NoDoubleBookingHolds == Spec => []NoDoubleBooking
<1>1. Init => NoDoubleBooking
  BY DEF Init, NoDoubleBooking, Live, NoLesson
<1>2. TypeInv /\ NoDoubleBooking /\ [Next]_vars => NoDoubleBooking'
  BY DoubleBookingStep
<1> QED BY <1>1, <1>2, AlwaysTyped, PTL DEF Spec

-----------------------------------------------------------------------------
\* Rows of a valid week and of another one that do not collide make a valid week.
LEMMA UnionIsValid ==
  ASSUME NEW these \in SUBSET Span, NEW those \in SUBSET Span,
         ValidWeek(these), ValidWeek(those), ~Collide(these, those)
  PROVE  ValidWeek(these \cup those)
<1>1. \A s, t \in these \cup those :
        s # t /\ s.weekday = t.weekday => s.end <= t.start \/ t.end <= s.start
  <2> SUFFICES ASSUME NEW s \in these \cup those, NEW t \in these \cup those,
                      s # t, s.weekday = t.weekday
               PROVE  s.end <= t.start \/ t.end <= s.start
    OBVIOUS
  <2>1. s.start \in Nat /\ s.end \in Nat /\ t.start \in Nat /\ t.end \in Nat
    BY GridAssumption DEF Span
  <2>2. CASE s \in these /\ t \in these
    BY <2>2 DEF ValidWeek
  <2>3. CASE s \in those /\ t \in those
    BY <2>3 DEF ValidWeek
  <2>4. CASE s \in these /\ t \in those
    BY <2>1, <2>4 DEF Collide
  <2>5. CASE s \in those /\ t \in these
    BY <2>1, <2>5 DEF Collide
  <2> QED BY <2>2, <2>3, <2>4, <2>5
<1> QED BY <1>1 DEF ValidWeek

\* Two replacements of one week may leave the union of what was sent, but the
\* stored spans of a day never overlap, so slot generation never sees a week
\* that validateSlots would have refused.
THEOREM StoredWeekIsValidHolds == Spec => []StoredWeekIsValid
<1>1. Init => StoredWeekIsValid
  BY CalendarAssumption DEF Init, StoredWeekIsValid
<1>2. ASSUME TypeInv, StoredWeekIsValid, [Next]_vars
      PROVE  StoredWeekIsValid'
  <2>1. CASE UNCHANGED week
    BY <1>2, <2>1 DEF StoredWeekIsValid
  <2>2. ASSUME NEW r \in Requests, CommitReplace(r), ~UNCHANGED week
        PROVE  StoredWeekIsValid'
    <3> DEFINE sent == req[r].spans
               kept == week[req[r].teacher] \ req[r].sees
    <3>1. req[r] \in Replacing
      BY <1>2, <2>2, RequestKinds DEF CommitReplace, TypeInv, TypeOK
    <3>2. sent \in SUBSET Span /\ ValidWeek(sent)
      BY <3>1, CalendarAssumption DEF Replacing
    <3>3. kept \in SUBSET Span /\ ValidWeek(kept)
      BY <1>2, <3>1 DEF TypeInv, TypeOK, Replacing, StoredWeekIsValid, ValidWeek
    <3>4. ~Collide(kept, sent) /\ week' = [week EXCEPT ![req[r].teacher] = kept \cup sent]
      BY <2>2 DEF CommitReplace
    <3>5. ValidWeek(kept \cup sent)
      BY <3>2, <3>3, <3>4, UnionIsValid
    <3>6. req[r].teacher \in Teachers /\ week \in [Teachers -> SUBSET Span]
      BY <1>2, <3>1 DEF TypeInv, TypeOK, Replacing
    <3> HIDE DEF kept, sent
    <3> QED BY <1>2, <3>4, <3>5, <3>6 DEF StoredWeekIsValid
  <2> QED BY <1>2, <2>1, <2>2
          DEF Next, StartCreate, ReadBooked, InsertBooking, StartCancel, CancelBooking,
              StartNoShow, SetCompleted, StartReplace, Tick, vars
<1> QED BY <1>1, <1>2, AlwaysTyped, PTL DEF Spec

-----------------------------------------------------------------------------
\* A family of finite sets that is not empty has a member without a smaller one
\* in the family.
LEMMA SmallestSet ==
  ASSUME NEW S, NEW Sets, Sets # {},
         \A A \in Sets : A \subseteq S /\ IsFiniteSet(A)
  PROVE  \E A \in Sets : \A B \in Sets : B \subseteq A => B = A
<1>1. Sets \subseteq FiniteSubsetsOf(S)
  BY DEF FiniteSubsetsOf
<1>2. IsWellFoundedOn(StrictSubsetOrdering(S), FiniteSubsetsOf(S))
  BY FS_StrictSubsetOrderingWellFounded
<1>3. PICK A \in Sets : \A B \in Sets : ~ (<<B, A>> \in StrictSubsetOrdering(S))
  BY <1>1, <1>2, WFMin
<1>4. ASSUME NEW B \in Sets, B \subseteq A, B # A
      PROVE  FALSE
  <2>1. <<B, A>> \in (SUBSET S) \X (SUBSET S)
    OBVIOUS
  <2>2. <<B, A>> \in StrictSubsetOrdering(S)
    BY <2>1, <1>4 DEF StrictSubsetOrdering
  <2> QED BY <2>2, <1>3
<1> QED BY <1>4

LEMMA SmallestIn ==
  ASSUME NEW S, IsFiniteSet(S), NEW Sets \in SUBSET (SUBSET S), Sets # {}
  PROVE  \E A \in Sets : \A B \in Sets : B \subseteq A => B = A
<1>1. \A A \in Sets : A \subseteq S /\ IsFiniteSet(A)
  BY FS_Subset
<1> QED BY <1>1, SmallestSet

\* A family of subsets of a finite set that has the empty set, and whatever is
\* one element larger than a member, has the whole set.
LEMMA GrowingFamily ==
  ASSUME NEW S, IsFiniteSet(S), NEW Good, {} \in Good,
         \A A \in SUBSET S : \A x \in A : A \ {x} \in Good => A \in Good
  PROVE  S \in Good
<1> DEFINE Bad == {A \in SUBSET S : A \notin Good}
<1>1. SUFFICES ASSUME S \notin Good PROVE FALSE
  OBVIOUS
<1>2. \A A \in Bad : A \subseteq S /\ IsFiniteSet(A)
  BY FS_Subset
<1>3. Bad # {}
  BY <1>1
<1>4. PICK A \in Bad : \A B \in Bad : B \subseteq A => B = A
  <2> HIDE DEF Bad
  <2> QED BY <1>2, <1>3, SmallestSet
<1>5. PICK x \in A : TRUE
  BY <1>4
<1>6. A \ {x} \in Good
  BY <1>4, <1>5
<1> QED BY <1>4, <1>5, <1>6

-----------------------------------------------------------------------------
\* Intervals as MergeIntervals gets them, and its choice among them.
AreIntervals(ivs) ==
  IsFiniteSet(ivs) /\ ivs \subseteq Int \X Int /\ \A iv \in ivs : iv[1] < iv[2]

Latest(ivs) == CHOOSE iv \in ivs : \A jv \in ivs : jv[1] <= iv[1]

LEMMA LatestIsLatest ==
  ASSUME NEW ivs, AreIntervals(ivs), ivs # {}
  PROVE  Latest(ivs) \in ivs /\ \A jv \in ivs : jv[1] <= Latest(ivs)[1]
<1> DEFINE Good == {A \in SUBSET ivs : A # {} => \E iv \in A : \A jv \in A : jv[1] <= iv[1]}
<1>1. {} \in Good
  OBVIOUS
<1>2. ASSUME NEW A \in SUBSET ivs, NEW x \in A, A \ {x} \in Good
      PROVE  \E iv \in A : \A jv \in A : jv[1] <= iv[1]
  <2>1. \A iv \in A : iv[1] \in Int
    BY DEF AreIntervals
  <2>2. CASE A \ {x} = {}
    <3>1. \A jv \in A : jv = x
      BY <2>2
    <3> QED BY <2>1, <3>1
  <2>3. CASE A \ {x} # {}
    <3>1. PICK y \in A \ {x} : \A jv \in A \ {x} : jv[1] <= y[1]
      BY <1>2, <2>3
    <3>2. CASE x[1] <= y[1]
      BY <3>1, <3>2
    <3>3. CASE y[1] <= x[1]
      BY <2>1, <3>1, <3>3
    <3> QED BY <2>1, <3>1, <3>2, <3>3
  <2> QED BY <2>2, <2>3
<1>3. \A A \in SUBSET ivs : \A x \in A : A \ {x} \in Good => A \in Good
  BY <1>2
<1>4. IsFiniteSet(ivs)
  BY DEF AreIntervals
<1>5. ivs \in Good
  <2> HIDE DEF Good
  <2> QED BY <1>1, <1>3, <1>4, GrowingFamily
<1> QED BY <1>5 DEF Latest

-----------------------------------------------------------------------------
\* The recursive function inside the fold, as an equation.
MergesUpTo(g, sets) ==
  g = [s \in sets |-> IF s = {} THEN {} ELSE Extend(Latest(s), g[s \ {Latest(s)}])]

Smaller(ivs, n) == {s \in SUBSET ivs : Cardinality(s) <= n}

LEMMA OneFewer ==
  ASSUME NEW ivs, AreIntervals(ivs), NEW n \in Nat, NEW s \in Smaller(ivs, n + 1), s # {}
  PROVE  s \ {Latest(s)} \in Smaller(ivs, n) /\ Latest(s) \in s
<1>1. AreIntervals(s) /\ s \subseteq ivs
  BY FS_Subset DEF AreIntervals, Smaller
<1>2. Latest(s) \in s
  BY <1>1, LatestIsLatest
<1>3. IsFiniteSet(s)
  BY <1>1 DEF AreIntervals
<1>4. Cardinality(s) \in Nat /\ Cardinality(s \ {Latest(s)}) = Cardinality(s) - 1
  BY <1>2, <1>3, FS_RemoveElement, FS_CardinalityType
<1> QED BY <1>1, <1>2, <1>4 DEF Smaller

\* The equation has a solution, whatever ivs is.
LEMMA FoldIsDefined ==
  ASSUME NEW ivs, AreIntervals(ivs)
  PROVE  \E g : MergesUpTo(g, SUBSET ivs)
<1> DEFINE Solved(n) == \E g : MergesUpTo(g, Smaller(ivs, n))
<1> DEFINE Counts == {0 .. k : k \in {n \in Nat : ~Solved(n)}}
<1>1. Solved(0)
  <2> DEFINE g == [s \in Smaller(ivs, 0) |-> {}]
  <2>1. \A s \in Smaller(ivs, 0) : s = {}
    <3> SUFFICES ASSUME NEW s \in Smaller(ivs, 0) PROVE s = {}
      OBVIOUS
    <3>1. IsFiniteSet(s)
      BY FS_Subset DEF Smaller, AreIntervals
    <3>2. Cardinality(s) \in Nat /\ Cardinality(s) <= 0
      BY <3>1, FS_CardinalityType DEF Smaller
    <3>3. Cardinality(s) = 0
      BY <3>2
    <3> QED BY <3>1, <3>3, FS_EmptySet
  <2>2. MergesUpTo(g, Smaller(ivs, 0))
    BY <2>1 DEF MergesUpTo
  <2> QED BY <2>2
<1>2. ASSUME NEW n \in Nat, Solved(n)
      PROVE  Solved(n + 1)
  <2>1. PICK g : MergesUpTo(g, Smaller(ivs, n))
    BY <1>2
  <2> DEFINE h == [s \in Smaller(ivs, n + 1) |->
                     IF s = {} THEN {} ELSE Extend(Latest(s), g[s \ {Latest(s)}])]
  <2>2. \A s \in Smaller(ivs, n) : s \in Smaller(ivs, n + 1) /\ h[s] = g[s]
    <3>1. SUFFICES ASSUME NEW s \in Smaller(ivs, n) PROVE s \in Smaller(ivs, n + 1) /\ h[s] = g[s]
      OBVIOUS
    <3>2. s \in Smaller(ivs, n + 1)
      <4>1. IsFiniteSet(s)
        BY FS_Subset DEF Smaller, AreIntervals
      <4> QED BY <4>1, FS_CardinalityType DEF Smaller
    <3>3. g[s] = IF s = {} THEN {} ELSE Extend(Latest(s), g[s \ {Latest(s)}])
      BY <2>1 DEF MergesUpTo
    <3> QED BY <3>2, <3>3
  <2>3. \A s \in Smaller(ivs, n + 1) :
          h[s] = IF s = {} THEN {} ELSE Extend(Latest(s), h[s \ {Latest(s)}])
    <3>1. SUFFICES ASSUME NEW s \in Smaller(ivs, n + 1)
                   PROVE  h[s] = IF s = {} THEN {} ELSE Extend(Latest(s), h[s \ {Latest(s)}])
      OBVIOUS
    <3>2. h[s] = IF s = {} THEN {} ELSE Extend(Latest(s), g[s \ {Latest(s)}])
      OBVIOUS
    <3>3. s # {} => h[s \ {Latest(s)}] = g[s \ {Latest(s)}]
      BY <2>2, OneFewer
    <3> HIDE DEF h
    <3> QED BY <3>2, <3>3
  <2>4. h = [s \in Smaller(ivs, n + 1) |-> h[s]]
    OBVIOUS
  <2> HIDE DEF h
  <2>5. MergesUpTo(h, Smaller(ivs, n + 1))
    BY <2>3, <2>4 DEF MergesUpTo
  <2> QED BY <2>5
<1>3. \A n \in Nat : Solved(n)
  <2> HIDE DEF Solved
  <2>1. SUFFICES ASSUME NEW m \in Nat, ~Solved(m) PROVE FALSE
    OBVIOUS
  <2>2. Counts # {}
    BY <2>1
  <2>3. \A A \in Counts : A \subseteq Nat /\ IsFiniteSet(A)
    <3>1. SUFFICES ASSUME NEW k \in Nat PROVE 0 .. k \subseteq Nat /\ IsFiniteSet(0 .. k)
      OBVIOUS
    <3> QED BY FS_Interval
  <2>4. PICK A \in Counts : \A B \in Counts : B \subseteq A => B = A
    <3> HIDE DEF Counts
    <3>1. \E A \in Counts : \A B \in Counts : B \subseteq A => B = A
      BY ONLY <2>2, <2>3, SmallestSet
    <3> QED BY <3>1
  <2>5. PICK n \in Nat : A = 0 .. n /\ ~Solved(n)
    BY <2>4
  <2>6. n # 0
    BY <1>1, <2>5
  <2>7. Solved(n - 1)
    <3>1. CASE ~Solved(n - 1)
      <4>1. 0 .. (n - 1) \in Counts /\ 0 .. (n - 1) \subseteq A /\ 0 .. (n - 1) # A
        BY <2>5, <2>6, <3>1
      <4> QED BY <2>4, <4>1
    <3> QED BY <3>1
  <2> QED BY <1>2, <2>5, <2>6, <2>7
<1>4. Cardinality(ivs) \in Nat /\ Smaller(ivs, Cardinality(ivs)) = SUBSET ivs
  BY FS_Subset, FS_CardinalityType DEF AreIntervals, Smaller
<1> QED BY <1>3, <1>4

\* What the fold computes, one interval at a time.
LEMMA FoldEquation ==
  ASSUME NEW ivs, AreIntervals(ivs)
  PROVE  \E g : /\ MergesUpTo(g, SUBSET ivs)
                /\ MergeIntervals(ivs) = g[ivs]
<1> DEFINE g == CHOOSE h : MergesUpTo(h, SUBSET ivs)
<1>1. MergesUpTo(g, SUBSET ivs)
  BY FoldIsDefined
<1>2. MergeIntervals(ivs) = g[ivs]
  BY DEF MergeIntervals, MapThenFoldSet, MergesUpTo, Latest
<1> HIDE DEF g
<1> QED BY <1>1, <1>2

-----------------------------------------------------------------------------
\* What the windows of MergeIntervals are to the intervals.
Begins(w, ivs) == \E iv \in ivs : iv[1] = w[1]

Covered(t, ivs) == \E iv \in ivs : iv[1] <= t /\ t < iv[2]

AreWindows(ws, ivs) ==
  /\ ws \subseteq Int \X Int /\ \A w \in ws : w[1] < w[2]
  /\ \A w \in ws : Begins(w, ivs)
  /\ \A w \in ws : \A t \in Int : w[1] <= t /\ t < w[2] => Covered(t, ivs)
  /\ \A iv \in ivs : \E w \in ws : w[1] <= iv[1] /\ iv[2] <= w[2]
  /\ \A v, w \in ws : v # w => v[2] < w[1] \/ w[2] < v[1]

HasLast(ws) == ws # {} => \E w \in ws : \A v \in ws : v[1] <= w[1]

\* Extend adds an interval that begins no earlier than the others.
LEMMA ExtendKeepsWindows ==
  ASSUME NEW ivs, AreIntervals(ivs), NEW iv \in ivs, \A jv \in ivs : jv[1] <= iv[1],
         NEW ws, AreWindows(ws, ivs \ {iv}), HasLast(ws)
  PROVE  AreWindows(Extend(iv, ws), ivs) /\ HasLast(Extend(iv, ws))
<1> DEFINE last == CHOOSE w \in ws : \A v \in ws : v[1] <= w[1]
           longer == <<last[1], IF iv[2] > last[2] THEN iv[2] ELSE last[2]>>
<1>1. iv \in Int \X Int /\ iv[1] \in Int /\ iv[2] \in Int /\ iv[1] < iv[2]
  BY DEF AreIntervals
<1>2. \A w \in ws : w[1] \in Int /\ w[2] \in Int /\ w[1] < w[2] /\ w[1] <= iv[1]
  <2>1. SUFFICES ASSUME NEW w \in ws PROVE w[1] \in Int /\ w[2] \in Int /\ w[1] < w[2] /\ w[1] <= iv[1]
    OBVIOUS
  <2>2. w \in Int \X Int /\ w[1] < w[2]
    BY DEF AreWindows
  <2>3. PICK jv \in ivs : jv[1] = w[1]
    BY DEF AreWindows, Begins
  <2> QED BY <2>2, <2>3
<1>3. \A t \in Int : Covered(t, ivs \ {iv}) \/ (iv[1] <= t /\ t < iv[2]) => Covered(t, ivs)
  BY DEF Covered
<1>4. \A w : Begins(w, ivs \ {iv}) => Begins(w, ivs)
  BY DEF Begins
<1>5. \A w \in ws : \A t \in Int : w[1] <= t /\ t < w[2] => Covered(t, ivs)
  <2>1. SUFFICES ASSUME NEW w \in ws, NEW t \in Int, w[1] <= t, t < w[2] PROVE Covered(t, ivs)
    OBVIOUS
  <2>2. Covered(t, ivs \ {iv})
    BY <2>1 DEF AreWindows
  <2> HIDE DEF last
  <2> QED BY <1>3, <2>2
<1>6. \A w \in ws : Begins(w, ivs)
  BY <1>4 DEF AreWindows
<1>7. CASE ws = {} \/ iv[1] > last[2]
  <2>1. Extend(iv, ws) = ws \cup {iv}
    <3>1. CASE ws = {}
      BY <3>1 DEF Extend
    <3>2. CASE ws # {}
      BY <1>7, <3>2 DEF Extend
    <3> QED BY <3>1, <3>2
  <2>2. \A w \in ws : w[2] < iv[1]
    <3>1. SUFFICES ASSUME NEW w \in ws PROVE w[2] < iv[1]
      OBVIOUS
    <3>2. last \in ws /\ w[1] <= last[1]
      BY DEF HasLast
    <3>3. w = last \/ w[2] < last[1] \/ last[2] < w[1]
      BY <3>2 DEF AreWindows
    <3> HIDE DEF last
    <3> QED BY <1>1, <1>2, <1>7, <3>2, <3>3
  <2> HIDE DEF last
  <2>3. HasLast(ws \cup {iv})
    BY <1>1, <1>2 DEF HasLast
  <2>4. AreWindows(ws \cup {iv}, ivs)
    <3>1. ws \cup {iv} \subseteq Int \X Int /\ \A w \in ws \cup {iv} : w[1] < w[2]
      BY <1>1, <1>2 DEF AreWindows
    <3>2. \A w \in ws \cup {iv} : Begins(w, ivs)
      BY <1>6 DEF Begins
    <3>3. \A w \in ws \cup {iv} : \A t \in Int : w[1] <= t /\ t < w[2] => Covered(t, ivs)
      BY <1>3, <1>5
    <3>4. \A jv \in ivs : \E w \in ws \cup {iv} : w[1] <= jv[1] /\ jv[2] <= w[2]
      <4>1. SUFFICES ASSUME NEW jv \in ivs
                     PROVE  \E w \in ws \cup {iv} : w[1] <= jv[1] /\ jv[2] <= w[2]
        OBVIOUS
      <4>2. CASE jv = iv
        BY <1>1, <4>2
      <4>3. CASE jv # iv
        BY <4>3 DEF AreWindows
      <4> QED BY <4>2, <4>3
    <3>5. \A v, w \in ws \cup {iv} : v # w => v[2] < w[1] \/ w[2] < v[1]
      BY <2>2 DEF AreWindows
    <3> QED BY <3>1, <3>2, <3>3, <3>4, <3>5 DEF AreWindows
  <2> QED BY <2>1, <2>3, <2>4
<1>8. CASE ws # {} /\ ~(iv[1] > last[2])
  <2>1. last \in ws /\ \A w \in ws : w[1] <= last[1]
    BY <1>8 DEF HasLast
  <2> DEFINE wider == (ws \ {last}) \cup {longer}
  <2>2. Extend(iv, ws) = wider
    BY <1>8 DEF Extend
  <2> HIDE DEF last
  <2>3. /\ last[1] \in Int /\ last[2] \in Int /\ last[1] < last[2]
        /\ last[1] <= iv[1] /\ iv[1] <= last[2]
    BY <1>1, <1>2, <1>8, <2>1
  <2>4. /\ longer[1] = last[1] /\ longer \in Int \X Int
        /\ longer[2] = last[2] \/ longer[2] = iv[2]
        /\ last[2] <= longer[2] /\ iv[2] <= longer[2]
    BY <1>1, <2>3
  <2>5. \A w \in ws \ {last} : w[2] < last[1]
    <3>1. SUFFICES ASSUME NEW w \in ws \ {last} PROVE w[2] < last[1]
      OBVIOUS
    <3>2. w[2] < last[1] \/ last[2] < w[1]
      BY <2>1 DEF AreWindows
    <3>3. w[2] \in Int /\ w[1] <= last[1] /\ w[1] \in Int
      BY <1>2, <2>1
    <3> QED BY <2>3, <3>2, <3>3
  <2> HIDE DEF longer
  <2>6. \A w \in wider : w = longer \/ (w \in ws /\ w # last)
    OBVIOUS
  <2>7. wider \subseteq Int \X Int /\ \A w \in wider : w[1] < w[2]
    <3>1. longer[1] < longer[2]
      <4> QED BY <2>3, <2>4
    <3>2. ws \subseteq Int \X Int
      BY DEF AreWindows
    <3> HIDE DEF wider
    <3> QED BY <1>2, <2>4, <2>6, <3>1, <3>2
  <2>8. \A w \in wider : Begins(w, ivs)
    <3>1. Begins(last, ivs)
      BY <1>6, <2>1
    <3>2. Begins(longer, ivs)
      BY <2>4, <3>1 DEF Begins
    <3> QED BY <1>6, <2>6, <3>2
  <2>9. \A w \in wider : \A t \in Int : w[1] <= t /\ t < w[2] => Covered(t, ivs)
    <3>2. ASSUME NEW t \in Int, longer[1] <= t, t < longer[2]
          PROVE  Covered(t, ivs)
      <4>1. CASE t < last[2]
        BY <1>5, <2>1, <2>4, <3>2, <4>1
      <4>2. CASE last[2] <= t
        <5>1. iv[1] <= t /\ t < iv[2]
          BY <1>1, <2>3, <2>4, <3>2, <4>2
        <5> QED BY <1>3, <5>1
      <4> QED BY <2>3, <4>1, <4>2
    <3> QED BY <1>5, <2>6, <3>2
  <2>10. \A jv \in ivs : \E w \in wider : w[1] <= jv[1] /\ jv[2] <= w[2]
    <3>1. SUFFICES ASSUME NEW jv \in ivs PROVE \E w \in wider : w[1] <= jv[1] /\ jv[2] <= w[2]
      OBVIOUS
    <3>2. CASE jv = iv
      BY <1>1, <2>3, <2>4, <3>2
    <3>3. CASE jv # iv
      <4>1. PICK w \in ws : w[1] <= jv[1] /\ jv[2] <= w[2]
        BY <3>3 DEF AreWindows
      <4>2. CASE w # last
        BY <4>1, <4>2
      <4>3. CASE w = last
        <5>1. jv[1] \in Int /\ jv[2] \in Int
          BY DEF AreIntervals
        <5>2. longer[1] <= jv[1] /\ jv[2] <= longer[2]
          BY <1>1, <2>3, <2>4, <4>1, <4>3, <5>1
        <5> QED BY <5>2
      <4> QED BY <4>2, <4>3
    <3> QED BY <3>2, <3>3
  <2>11. \A v, w \in wider : v # w => v[2] < w[1] \/ w[2] < v[1]
    <3>1. \A v, w \in ws : v # w => v[2] < w[1] \/ w[2] < v[1]
      BY DEF AreWindows
    <3> HIDE DEF wider
    <3> QED BY <1>2, <2>3, <2>4, <2>5, <2>6, <3>1
  <2>12. HasLast(wider)
    <3>1. longer \in wider /\ \A w \in wider : w[1] <= longer[1]
      <4> QED BY <2>1, <2>3, <2>4, <2>6
    <3> QED BY <3>1 DEF HasLast
  <2> HIDE DEF wider
  <2> QED BY <2>2, <2>7, <2>8, <2>9, <2>10, <2>11, <2>12 DEF AreWindows
<1> QED BY <1>7, <1>8

\* MergeIntervals returns the windows of its intervals, for every set of them.
LEMMA MergedAreWindows ==
  ASSUME NEW ivs, AreIntervals(ivs)
  PROVE  AreWindows(MergeIntervals(ivs), ivs)
<1>1. PICK g : MergesUpTo(g, SUBSET ivs) /\ MergeIntervals(ivs) = g[ivs]
  BY FoldEquation
<1> DEFINE Good == {s \in SUBSET ivs : AreWindows(g[s], s) /\ HasLast(g[s])}
<1>2. \A s \in SUBSET ivs : g[s] = IF s = {} THEN {} ELSE Extend(Latest(s), g[s \ {Latest(s)}])
  BY <1>1 DEF MergesUpTo
<1>3. {} \in Good
  BY <1>2 DEF AreWindows, HasLast
<1>4. ASSUME NEW s \in SUBSET ivs, s # {}, s \ {Latest(s)} \in Good
      PROVE  s \in Good
  <2>1. AreIntervals(s)
    BY FS_Subset DEF AreIntervals
  <2>2. Latest(s) \in s /\ \A jv \in s : jv[1] <= Latest(s)[1]
    BY <1>4, <2>1, LatestIsLatest
  <2>3. g[s] = Extend(Latest(s), g[s \ {Latest(s)}])
    BY <1>2, <1>4
  <2> QED BY <1>4, <2>1, <2>2, <2>3, ExtendKeepsWindows
<1>5. ivs \in Good
  <2> DEFINE Bad == {s \in SUBSET ivs : s \notin Good}
  <2>1. SUFFICES ASSUME ivs \notin Good PROVE FALSE
    OBVIOUS
  <2>2. \A s \in Bad : s \subseteq ivs /\ IsFiniteSet(s)
    BY FS_Subset DEF AreIntervals
  <2>3. Bad # {}
    BY <2>1
  <2>4. PICK s \in Bad : \A u \in Bad : u \subseteq s => u = s
    <3> HIDE DEF Good
    <3>1. Bad \in SUBSET (SUBSET ivs) /\ IsFiniteSet(ivs)
      BY DEF AreIntervals
    <3>2. \E A \in Bad : \A B \in Bad : B \subseteq A => B = A
      <4> HIDE DEF Bad
      <4> QED BY <2>3, <3>1, SmallestIn
    <3> QED BY <3>2
  <2> HIDE DEF Good
  <2>5. s # {}
    BY <1>3, <2>4
  <2>6. Latest(s) \in s
    <3>1. AreIntervals(s)
      BY FS_Subset DEF AreIntervals
    <3> QED BY <2>5, <3>1, LatestIsLatest
  <2>7. s \ {Latest(s)} \in Good
    BY <2>4, <2>6
  <2> QED BY <1>4, <2>4, <2>5, <2>7
<1> QED BY <1>1, <1>5

-----------------------------------------------------------------------------
\* Days and steps of the grid.
LEMMA DayParts ==
  ASSUME NEW d \in Int, NEW a \in 0 .. (Day - 1)
  PROVE  (d * Day + a) \div Day = d /\ (d * Day + a) % Day = a
<1>1. ASSUME NEW b \in Nat \ {0}, NEW q \in Int, NEW r \in 0 .. (b - 1)
      PROVE  (b * q + r) \div b = q /\ (b * q + r) % b = r
  OBVIOUS
<1>2. d * Day = Day * d
  BY GridAssumption
<1> QED BY <1>1, <1>2, GridAssumption

LEMMA PartsOfTime ==
  ASSUME NEW t \in Int
  PROVE  /\ t \div Day \in Int /\ t % Day \in 0 .. (Day - 1)
         /\ t = (t \div Day) * Day + (t % Day)
         /\ (t \div Day) % Week \in 0 .. (Week - 1)
<1>1. ASSUME NEW a \in Int, NEW b \in Nat \ {0}
      PROVE  a = b * (a \div b) + (a % b) /\ a % b \in 0 .. (b - 1) /\ a \div b \in Int
  OBVIOUS
<1>2. t = Day * (t \div Day) + (t % Day) /\ t % Day \in 0 .. (Day - 1) /\ t \div Day \in Int
  BY <1>1, GridAssumption
<1>3. Day * (t \div Day) = (t \div Day) * Day
  BY <1>2, GridAssumption
<1> QED BY <1>1, <1>2, <1>3, GridAssumption

LEMMA Multiples ==
  ASSUME NEW b \in Nat \ {0}
  PROVE  /\ \A q \in Int : (b * q) % b = 0
         /\ \A a \in Int : a % b = 0 => \E q \in Int : a = b * q
<1>1. ASSUME NEW q \in Int PROVE (b * q) % b = 0
  OBVIOUS
<1>2. ASSUME NEW a \in Int, a % b = 0 PROVE \E q \in Int : a = b * q
  <2>1. a = b * (a \div b) + (a % b) /\ a \div b \in Int
    OBVIOUS
  <2>2. a = b * (a \div b)
    BY <1>2, <2>1
  <2> QED BY <2>1, <2>2
<1> QED BY <1>1, <1>2

\* A multiple of the step on some day is one on the time line.
LEMMA GridOfDay ==
  ASSUME NEW d \in Int, NEW a \in Int, a % Step = 0
  PROVE  (d * Day + a) % Step = 0
<1>1. PICK k \in Int : Day = Step * k
  BY GridAssumption, Multiples
<1>2. PICK m \in Int : a = Step * m
  BY GridAssumption, Multiples
<1>3. d * (Step * k) + Step * m = Step * (d * k + m)
  BY GridAssumption
<1>4. d * k + m \in Int
  OBVIOUS
<1>5. (Step * (d * k + m)) % Step = 0
  BY <1>4, GridAssumption, Multiples
<1> QED BY <1>1, <1>2, <1>3, <1>5

LEMMA GridFromStart ==
  ASSUME NEW s \in Int, NEW a \in Int, a % Step = 0
  PROVE  (s - a) % Step = 0 <=> s % Step = 0
<1>1. PICK m \in Int : a = Step * m
  BY GridAssumption, Multiples
<1>2. ASSUME s % Step = 0 PROVE (s - a) % Step = 0
  <2>1. PICK k \in Int : s = Step * k
    BY <1>2, GridAssumption, Multiples
  <2>2. s - a = Step * (k - m) /\ k - m \in Int
    BY <1>1, <2>1, GridAssumption
  <2> QED BY <2>2, GridAssumption, Multiples
<1>3. ASSUME (s - a) % Step = 0 PROVE s % Step = 0
  <2>1. PICK k \in Int : s - a = Step * k
    <3>1. s - a \in Int
      OBVIOUS
    <3> QED BY <1>3, <3>1, GridAssumption, Multiples
  <2>2. Step * k + Step * m = Step * (k + m) /\ k + m \in Int
    BY GridAssumption
  <2>3. s = Step * (k + m)
    BY <1>1, <2>1, <2>2, GridAssumption
  <2> QED BY <2>2, <2>3, GridAssumption, Multiples
<1> QED BY <1>2, <1>3

-----------------------------------------------------------------------------
\* Lessons of a length lie in one window exactly if all their time is covered.
LEMMA RunsLieInWindows ==
  ASSUME NEW ivs, AreIntervals(ivs), NEW ws, AreWindows(ws, ivs),
         NEW s \in Int, NEW dur \in Nat \ {0}
  PROVE  (\A t \in s .. (s + dur - 1) : Covered(t, ivs))
           <=> \E w \in ws : s >= w[1] /\ s + dur <= w[2]
<1>1. ASSUME NEW w \in ws, s >= w[1], s + dur <= w[2], NEW t \in s .. (s + dur - 1)
      PROVE  Covered(t, ivs)
  <2>1. w[1] \in Int /\ w[2] \in Int
    BY DEF AreWindows
  <2>2. w[1] <= t /\ t < w[2]
    BY <1>1, <2>1
  <2> QED BY <2>2 DEF AreWindows
<1>2. ASSUME \A t \in s .. (s + dur - 1) : Covered(t, ivs)
      PROVE  \E w \in ws : s >= w[1] /\ s + dur <= w[2]
  <2>1. ASSUME NEW t \in s .. (s + dur - 1)
        PROVE  \E w \in ws : w[1] \in Int /\ w[2] \in Int /\ w[1] <= t /\ t < w[2]
    <3>1. PICK iv \in ivs : iv[1] <= t /\ t < iv[2]
      BY <1>2 DEF Covered
    <3>2. PICK w \in ws : w[1] <= iv[1] /\ iv[2] <= w[2]
      BY DEF AreWindows
    <3>3. w[1] \in Int /\ w[2] \in Int /\ iv[1] \in Int /\ iv[2] \in Int
      BY DEF AreWindows, AreIntervals
    <3> QED BY <3>1, <3>2, <3>3
  <2>2. PICK w \in ws : w[1] \in Int /\ w[2] \in Int /\ w[1] <= s /\ s < w[2]
    BY <2>1
  <2>3. ASSUME w[2] < s + dur PROVE FALSE
    <3>1. w[2] \in s .. (s + dur - 1)
      BY <2>2, <2>3
    <3>2. PICK v \in ws : v[1] \in Int /\ v[2] \in Int /\ v[1] <= w[2] /\ w[2] < v[2]
      BY <2>1, <3>1
    <3>3. v = w \/ v[2] < w[1] \/ w[2] < v[1]
      BY DEF AreWindows
    <3> QED BY <2>2, <3>2, <3>3
  <2> QED BY <2>2, <2>3
<1> QED BY <1>1, <1>2

\* The projected spans are intervals, and cover the offered time of the query.
LEMMA ProjectedSpan ==
  ASSUME NEW spans \in SUBSET Span, NEW from \in Int, NEW to \in Int,
         NEW iv \in ProjectSpans(spans, from, to)
  PROVE  \E d \in (from \div Day) - 1 .. (to \div Day) + 1, s \in spans :
           s.weekday = d % Week /\ iv = <<d * Day + s.start, d * Day + s.end>>
  BY DEF ProjectSpans

LEMMA ProjectedAreIntervals ==
  ASSUME NEW spans \in SUBSET Span, \A s \in spans : s.start < s.end,
         NEW from \in Int, NEW to \in Int
  PROVE  AreIntervals(ProjectSpans(spans, from, to))
<1> DEFINE first == (from \div Day) - 1
           final == (to \div Day) + 1
           ivs   == ProjectSpans(spans, from, to)
           Dates == (first * Day) .. (final * Day + Day)
<1>1. first \in Int /\ final \in Int
  BY PartsOfTime
<1>2. ASSUME NEW iv \in ivs
      PROVE  iv \in Dates \X Dates /\ iv \in Int \X Int /\ iv[1] < iv[2]
  <2>1. PICK d \in first .. final, s \in spans : iv = <<d * Day + s.start, d * Day + s.end>>
    BY ProjectedSpan
  <2>2. s.start \in 0 .. (Day - 1) /\ s.end \in 1 .. Day /\ s.start < s.end
    BY DEF Span
  <2> HIDE DEF first, final
  <2>3. first * Day <= d * Day /\ d * Day <= final * Day /\ d * Day \in Int
        /\ first * Day \in Int /\ final * Day \in Int
    BY <1>1, GridAssumption
  <2>4. d * Day + s.start \in Dates /\ d * Day + s.end \in Dates
    BY <2>2, <2>3, GridAssumption
  <2> QED BY <2>1, <2>2, <2>3, <2>4, GridAssumption
<1>3. IsFiniteSet(Dates \X Dates)
  <2>1. first * Day \in Int /\ final * Day + Day \in Int
    BY <1>1, GridAssumption
  <2> HIDE DEF first, final
  <2>2. IsFiniteSet(Dates)
    BY <2>1, FS_Interval
  <2> QED BY <2>2, FS_Product
<1>4. IsFiniteSet(ivs)
  <2>1. ivs \subseteq Dates \X Dates
    BY <1>2
  <2> HIDE DEF ivs, Dates
  <2> QED BY <1>3, <2>1, FS_Subset
<1> QED BY <1>2, <1>4 DEF AreIntervals

LEMMA CoveredIsOffered ==
  ASSUME NEW spans \in SUBSET Span, NEW from \in Int, NEW to \in Int,
         NEW t \in Int, Covered(t, ProjectSpans(spans, from, to))
  PROVE  Offered(spans, t)
<1>1. PICK iv \in ProjectSpans(spans, from, to) : iv[1] <= t /\ t < iv[2]
  BY DEF Covered
<1>2. PICK d \in (from \div Day) - 1 .. (to \div Day) + 1, s \in spans :
        s.weekday = d % Week /\ iv = <<d * Day + s.start, d * Day + s.end>>
  BY ProjectedSpan
<1>3. d \in Int /\ s.start \in 0 .. (Day - 1) /\ s.end \in 1 .. Day
  BY PartsOfTime DEF Span
<1> DEFINE a == t - d * Day
<1>4. d * Day \in Int
  BY <1>3, GridAssumption
<1>5. d * Day + s.start <= t /\ t < d * Day + s.end
  BY <1>1, <1>2
<1>6. a \in Int /\ s.start <= a /\ a < s.end /\ t = d * Day + a /\ a \in 0 .. (Day - 1)
  BY <1>3, <1>4, <1>5, GridAssumption
<1> HIDE DEF a
<1>7. t \div Day = d /\ t % Day = a
  BY <1>3, <1>6, DayParts
<1>8. a \in s.start .. (s.end - 1)
  BY <1>3, <1>6
<1> QED BY <1>2, <1>7, <1>8 DEF Offered

LEMMA OfferedIsCovered ==
  ASSUME NEW spans \in SUBSET Span, NEW from \in Int, NEW to \in Int,
         NEW t \in from .. to, Offered(spans, t)
  PROVE  Covered(t, ProjectSpans(spans, from, to))
<1> DEFINE d == t \div Day
<1>1. PICK s \in spans : s.weekday = d % Week /\ t % Day \in s.start .. (s.end - 1)
  BY DEF Offered
<1>2. d \in Int /\ t % Day \in Int /\ t = d * Day + (t % Day) /\ d * Day \in Int
  <2>1. t \in Int
    OBVIOUS
  <2>2. d \in Int /\ t % Day \in Int /\ t = d * Day + (t % Day)
    BY <2>1, PartsOfTime
  <2> HIDE DEF d
  <2>3. d * Day \in Int
    BY <2>2, GridAssumption
  <2> QED BY <2>2, <2>3
<1>3. d \in (from \div Day) - 1 .. (to \div Day) + 1
  <2>1. ASSUME NEW x \in Int, NEW y \in Int, x <= y
        PROVE  x \div Day <= y \div Day
    <3>1. x = (x \div Day) * Day + (x % Day) /\ y = (y \div Day) * Day + (y % Day)
          /\ x \div Day \in Int /\ y \div Day \in Int
          /\ x % Day \in 0 .. (Day - 1) /\ y % Day \in 0 .. (Day - 1)
      BY PartsOfTime
    <3> DEFINE p == x \div Day
               q == y \div Day
               u == x % Day
               v == y % Day
    <3> HIDE DEF p, q, u, v
    <3>2. ASSUME q + 1 <= p PROVE FALSE
      <4>1. (q + 1) * Day <= p * Day
        BY <3>1, <3>2, GridAssumption DEF p, q
      <4>2. (q + 1) * Day = q * Day + Day
        BY <3>1, GridAssumption DEF q
      <4>3. p * Day \in Int /\ q * Day \in Int
        BY <3>1, GridAssumption DEF p, q
      <4>4. x = p * Day + u /\ y = q * Day + v /\ u >= 0 /\ v < Day /\ u \in Int /\ v \in Int
        BY <3>1, GridAssumption DEF p, q, u, v
      <4> QED BY <2>1, <4>1, <4>2, <4>3, <4>4, GridAssumption
    <3> QED BY <3>1, <3>2 DEF p, q
  <2>2. from \div Day <= d /\ d <= to \div Day
    BY <2>1
  <2>3. from \div Day \in Int /\ to \div Day \in Int
    BY PartsOfTime
  <2> HIDE DEF d
  <2> QED BY <1>2, <2>2, <2>3
<1> HIDE DEF d
<1> DEFINE iv == <<d * Day + s.start, d * Day + s.end>>
<1>4. iv \in ProjectSpans(spans, from, to)
  BY <1>1, <1>3 DEF ProjectSpans
<1>5. iv[1] <= t /\ t < iv[2]
  <2>1. s.start \in Int /\ s.end \in Int
    BY GridAssumption DEF Span
  <2> QED BY <1>1, <1>2, <2>1
<1> HIDE DEF iv
<1> QED BY <1>4, <1>5 DEF Covered

\* For every week on the grid, the slots that are generated are the starts of
\* the grid at which the teacher is free for as long as the lesson takes: the
\* windows lose nothing across midnight, and add nothing, nor do bookings.
THEOREM SlotsAreFreeStarts ==
  ASSUME NEW spans \in SUBSET Span, \A s \in spans : s.start < s.end, OnGrid(spans),
         NEW booked \in SUBSET (Int \X Int), \A i \in booked : i[1] < i[2],
         NEW from \in Int, NEW to \in Int, NEW dur \in Nat \ {0}, NEW clock \in Int
  PROVE  GenerateSlots(spans, booked, from, to, dur, clock)
           = FreeStarts(spans, booked, from, to, dur, clock)
<1> DEFINE ivs == ProjectSpans(spans, from, to)
           ws  == MergeIntervals(ivs)
           In(s, w) == s >= w[1] /\ s + dur <= w[2]
           Free(t) == Offered(spans, t) /\ \A i \in booked : t \notin i[1] .. (i[2] - 1)
<1>1. AreIntervals(ivs) /\ AreWindows(ws, ivs)
  BY ProjectedAreIntervals, MergedAreWindows
<1>2. \A w \in ws : w[1] \in Int /\ w[1] % Step = 0
  <2>1. SUFFICES ASSUME NEW w \in ws PROVE w[1] \in Int /\ w[1] % Step = 0
    OBVIOUS
  <2>2. PICK iv \in ivs : iv[1] = w[1]
    <3> HIDE DEF ivs, ws
    <3> QED BY <1>1 DEF AreWindows, Begins
  <2>3. PICK d \in (from \div Day) - 1 .. (to \div Day) + 1, s \in spans :
          iv = <<d * Day + s.start, d * Day + s.end>>
    BY ProjectedSpan
  <2>4. d \in Int /\ s.start \in Int /\ s.start % Step = 0
    BY PartsOfTime, GridAssumption DEF Span, OnGrid
  <2>5. w[1] = d * Day + s.start
    BY <2>2, <2>3
  <2>6. d * Day + s.start \in Int
    BY <2>4, GridAssumption
  <2> QED BY <2>4, <2>5, <2>6, GridOfDay
<1>3. ASSUME NEW s \in from .. (to - dur)
      PROVE  (\E w \in ws : In(s, w)) <=> \A t \in s .. (s + dur - 1) : Offered(spans, t)
  <2>1. \A t \in s .. (s + dur - 1) : t \in Int /\ t \in from .. to
    OBVIOUS
  <2>2. \A t \in s .. (s + dur - 1) : Covered(t, ivs) <=> Offered(spans, t)
    BY <2>1, CoveredIsOffered, OfferedIsCovered
  <2>3. s \in Int
    OBVIOUS
  <2> HIDE DEF ivs, ws
  <2>4. (\A t \in s .. (s + dur - 1) : Covered(t, ivs)) <=> \E w \in ws : In(s, w)
    BY <1>1, <2>3, RunsLieInWindows
  <2> QED BY <2>2, <2>4
<1>4. ASSUME NEW s \in Int
      PROVE  (\E w \in ws : In(s, w) /\ (s - w[1]) % Step = 0)
               <=> s % Step = 0 /\ \E w \in ws : In(s, w)
  <2> HIDE DEF ws, In
  <2> QED BY <1>2, GridFromStart
<1>5. ASSUME NEW s \in Int, NEW i \in booked
      PROVE  ~Overlap(<<s, s + dur>>, i) <=> \A t \in s .. (s + dur - 1) : t \notin i[1] .. (i[2] - 1)
  <2>1. i[1] \in Int /\ i[2] \in Int /\ i[1] < i[2]
    OBVIOUS
  <2>2. ASSUME ~(s < i[2] /\ i[1] < s + dur), NEW t \in s .. (s + dur - 1)
        PROVE  t \notin i[1] .. (i[2] - 1)
    BY <2>1, <2>2
  <2>3. ASSUME s < i[2], i[1] < s + dur
        PROVE  \E t \in s .. (s + dur - 1) : t \in i[1] .. (i[2] - 1)
    <3>1. CASE s >= i[1]
      BY <2>1, <2>3, <3>1
    <3>2. CASE s < i[1]
      BY <2>1, <2>3, <3>2
    <3> QED BY <2>1, <3>1, <3>2
  <2> QED BY <2>2, <2>3 DEF Overlap
<1>6. ASSUME NEW s \in from .. (to - dur)
      PROVE  s .. (s + dur - 1) \subseteq {t \in from .. (to - 1) : Free(t)}
               <=> /\ \A t \in s .. (s + dur - 1) : Offered(spans, t)
                   /\ \A i \in booked : ~Overlap(<<s, s + dur>>, i)
  <2>1. s .. (s + dur - 1) \subseteq from .. (to - 1) /\ s \in Int
    OBVIOUS
  <2>2. (\A i \in booked : ~Overlap(<<s, s + dur>>, i))
          <=> \A i \in booked : \A t \in s .. (s + dur - 1) : t \notin i[1] .. (i[2] - 1)
    BY <1>5, <2>1
  <2> QED BY <2>1, <2>2
<1> DEFINE lower == IF clock > from THEN clock ELSE from
           Left  == {s \in lower .. (to - dur) :
                       /\ \E w \in ws : In(s, w) /\ (s - w[1]) % Step = 0
                       /\ \A i \in booked : ~Overlap(<<s, s + dur>>, i)}
           Right == {s \in from .. (to - dur) :
                       /\ s >= clock /\ s % Step = 0
                       /\ s .. (s + dur - 1) \subseteq {t \in from .. (to - 1) : Free(t)}}
<1>7. GenerateSlots(spans, booked, from, to, dur, clock) = Left
  BY DEF GenerateSlots
<1>8. FreeStarts(spans, booked, from, to, dur, clock) = Right
  BY DEF FreeStarts
<1>9. \A s : s \in lower .. (to - dur) <=> s \in from .. (to - dur) /\ s >= clock
  OBVIOUS
<1>10. \A s \in from .. (to - dur) :
         (\E w \in ws : In(s, w) /\ (s - w[1]) % Step = 0)
            /\ (\A i \in booked : ~Overlap(<<s, s + dur>>, i))
         <=> s % Step = 0 /\ s .. (s + dur - 1) \subseteq {t \in from .. (to - 1) : Free(t)}
  <2> HIDE DEF ws, In, Free
  <2> QED BY <1>3, <1>4, <1>6
<1>11. Left = Right
  <2> HIDE DEF ws, In, Free, lower
  <2> QED BY <1>9, <1>10
<1> QED BY <1>7, <1>8, <1>11

\* Lessons, and what Create wants, end after they start.
LessonsTakeTime ==
  /\ \A b \in Lessons : lesson[b] # NoLesson => lesson[b].start < lesson[b].end
  /\ \A r \in Requests : req[r].at \in {"booked_read", "insert"} => req[r].want.start < req[r].want.end

LEMMA WantStep ==
  ASSUME TypeInv, LessonsTakeTime, [Next]_vars, NEW r \in Requests,
         req'[r].at \in {"booked_read", "insert"}
  PROVE  req'[r].want.start < req'[r].want.end
<1> USE DEF TypeInv, TypeOK
<1>1. ASSUME NEW s \in Requests, NEW teacher \in Teachers, NEW student \in Students,
             NEW ask \in Asked, StartCreate(s, teacher, student, ask[1], ask[2])
      PROVE  req'[r] = req[r] \/ req'[r].want.start < req'[r].want.end
  <2>1. ask[1] \in Nat /\ ask[2] \in Nat \ {0}
    <3>1. ask \in Nat \X Durations /\ Durations \subseteq Nat \ {0}
      BY CalendarAssumption
    <3> QED BY <3>1
  <2> QED BY <1>1, <2>1 DEF StartCreate
<1>2. ASSUME NEW s \in Requests, ReadBooked(s)
      PROVE  req'[r] = req[r] \/ req'[r] = Idle
             \/ (req[r].at = "booked_read" /\ req'[r].want = req[r].want)
  <2>1. req[s] \in Creating
    BY <1>2, RequestKinds DEF ReadBooked
  <2> QED BY <1>2, <2>1 DEF ReadBooked, Creating
<1>3. ASSUME NEW s \in Requests, InsertBooking(s) \/ CancelBooking(s) \/ SetCompleted(s)
      PROVE  req'[r] = req[r] \/ req'[r] = Idle
  BY <1>3 DEF InsertBooking, CancelBooking, SetCompleted
<1>4. ASSUME NEW s \in Requests, NEW b \in Lessons, StartCancel(s, b) \/ StartNoShow(s, b)
      PROVE  req'[r] = req[r] \/ req'[r].at \in {"cancel", "no_show"}
  BY <1>4 DEF StartCancel, StartNoShow
<1>5. ASSUME NEW s \in Requests, NEW teacher \in Teachers, NEW spans \in Weeks,
             StartReplace(s, teacher, spans)
      PROVE  req'[r] = req[r] \/ req'[r].at = "replace"
  BY <1>5 DEF StartReplace
<1>6. ASSUME NEW s \in Requests, CommitReplace(s)
      PROVE  req'[r] = req[r] \/ req'[r] = Idle \/ req'[r].at = "replace"
  BY <1>6, CommitMoves DEF Replacing
<1>7. CASE UNCHANGED req
  BY <1>7 DEF LessonsTakeTime
<1>8. \/ req'[r] = req[r] \/ req'[r] = Idle \/ req'[r].at \in {"replace", "cancel", "no_show"}
      \/ req[r].at = "booked_read" /\ req'[r].want = req[r].want
      \/ req'[r].want.start < req'[r].want.end
  BY <1>1, <1>2, <1>3, <1>4, <1>5, <1>6, <1>7 DEF Next, Tick, vars
<1> QED BY <1>8 DEF LessonsTakeTime, Idle

LEMMA TimeStep ==
  ASSUME TypeInv, LessonsTakeTime, [Next]_vars
  PROVE  LessonsTakeTime'
<1>1. ASSUME NEW b \in Lessons, lesson'[b] # NoLesson
      PROVE  lesson'[b].start < lesson'[b].end
  <2> USE DEF TypeInv, TypeOK
  <2>1. CASE lesson' = lesson
    BY <1>1, <2>1 DEF LessonsTakeTime
  <2>2. ASSUME NEW r \in Requests, NEW c \in Lessons, req[r].at = "insert",
               lesson' = [lesson EXCEPT ![c] = req[r].want]
        PROVE  lesson'[b].start < lesson'[b].end
    BY <1>1, <2>2 DEF LessonsTakeTime
  <2>3. ASSUME NEW c \in Lessons, lesson[c] \in Lesson, NEW s \in {"cancelled", "completed"},
               lesson' = [lesson EXCEPT ![c].status = s]
        PROVE  lesson'[b].start < lesson'[b].end
    <3>1. lesson[c].start < lesson[c].end
      BY <2>3 DEF LessonsTakeTime, Lesson, NoLesson
    <3> QED BY <1>1, <2>3, <3>1 DEF LessonsTakeTime, Lesson
  <2> QED BY <2>1, <2>2, <2>3, LessonMoves
<1>2. \A r \in Requests :
        req'[r].at \in {"booked_read", "insert"} => req'[r].want.start < req'[r].want.end
  BY WantStep
<1> QED BY <1>1, <1>2 DEF LessonsTakeTime

\* What was read for a listing is fit for the slot arithmetic.
LEMMA CalendarRead ==
  ASSUME TypeInv, LessonsTakeTime, StoredWeekIsValid, NEW teacher \in Teachers, NEW dur \in Durations
  PROVE  /\ week[teacher] \in SUBSET Span /\ \A s \in week[teacher] : s.start < s.end
         /\ BookedIntervals(teacher) \in SUBSET (Int \X Int)
         /\ \A i \in BookedIntervals(teacher) : i[1] < i[2]
         /\ now \in Int /\ dur \in Nat \ {0} /\ now + Window * Day \in Int
<1>1. week[teacher] \in SUBSET Span /\ \A s \in week[teacher] : s.start < s.end
  BY DEF TypeInv, TypeOK, StoredWeekIsValid, ValidWeek
<1>2. ASSUME NEW i \in BookedIntervals(teacher)
      PROVE  i \in Int \X Int /\ i[1] < i[2]
  <2>1. PICK b \in Lessons : Live(b) /\ i = <<lesson[b].start, lesson[b].end>>
    BY DEF BookedIntervals, When
  <2>2. lesson[b] \in Lesson /\ lesson[b].start < lesson[b].end
    BY <2>1 DEF TypeInv, TypeOK, Live, LessonsTakeTime, NoLesson
  <2> QED BY <2>1, <2>2 DEF Lesson
<1>3. now \in Int /\ dur \in Nat \ {0}
  BY CalendarAssumption DEF TypeInv, TypeOK
<1>4. now + Window * Day \in Int
  BY <1>3, CalendarAssumption, GridAssumption
<1> QED BY <1>1, <1>2, <1>3, <1>4

LEMMA LessonsAlwaysTakeTime == Spec => [](TypeInv /\ LessonsTakeTime /\ StoredWeekIsValid)
<1>1. Init => LessonsTakeTime
  BY DEF Init, LessonsTakeTime, Idle
<1>2. TypeInv /\ LessonsTakeTime /\ [Next]_vars => LessonsTakeTime'
  BY TimeStep
<1> QED BY <1>1, <1>2, AlwaysTyped, StoredWeekIsValidHolds, PTL DEF Spec

\* Whatever weeks were stored and lessons booked, the slots endpoint lists the
\* free half-hour starts of the offered time, and nothing else.
THEOREM ListsExactlyFreeTimeHolds == Spec => []ListsExactlyFreeTime
<1>1. ASSUME TypeInv, LessonsTakeTime, StoredWeekIsValid
      PROVE  ListsExactlyFreeTime
  <2> SUFFICES ASSUME NEW teacher \in Teachers, NEW dur \in Durations, OnGrid(week[teacher])
               PROVE  Listed(teacher, dur) =
                        FreeStarts(week[teacher], BookedIntervals(teacher), now,
                                   now + Window * Day, dur, now)
    BY DEF ListsExactlyFreeTime
  <2> DEFINE to == now + Window * Day
  <2>1. /\ week[teacher] \in SUBSET Span /\ \A s \in week[teacher] : s.start < s.end
        /\ BookedIntervals(teacher) \in SUBSET (Int \X Int)
        /\ \A i \in BookedIntervals(teacher) : i[1] < i[2]
        /\ now \in Int /\ dur \in Nat \ {0} /\ to \in Int
    BY <1>1, CalendarRead
  <2> HIDE DEF to
  <2>2. GenerateSlots(week[teacher], BookedIntervals(teacher), now, to, dur, now)
          = FreeStarts(week[teacher], BookedIntervals(teacher), now, to, dur, now)
    BY <2>1, SlotsAreFreeStarts
  <2> QED BY <2>2 DEF Listed, to
<1> QED BY <1>1, LessonsAlwaysTakeTime, PTL

\* On the grid it does not matter for which window a free start is sought.
LEMMA FreeInAnyWindow ==
  ASSUME NEW spans, NEW booked, NEW from \in Int, NEW to \in Int, NEW clock \in Int,
         NEW dur \in Nat \ {0}, NEW s \in Int, NEW end \in Int, end = s + dur, from <= s, end <= to
  PROVE  s \in FreeStarts(spans, booked, from, to, dur, clock)
           <=> s \in FreeStarts(spans, booked, s, end, dur, clock)
<1> DEFINE Free(t) == Offered(spans, t) /\ \A i \in booked : t \notin i[1] .. (i[2] - 1)
           Right == s >= clock /\ s % Step = 0 /\ \A t \in s .. (s + dur - 1) : Free(t)
<1> HIDE DEF Free
<1>1. s .. (s + dur - 1) \subseteq from .. (to - 1) /\ s .. (s + dur - 1) \subseteq s .. (end - 1)
  OBVIOUS
<1>2. s \in from .. (to - dur) /\ s \in s .. (end - dur)
  OBVIOUS
<1>3. s \in FreeStarts(spans, booked, from, to, dur, clock) <=> Right
  BY <1>1, <1>2 DEF FreeStarts, Free
<1>4. s \in FreeStarts(spans, booked, s, end, dur, clock) <=> Right
  BY <1>1, <1>2 DEF FreeStarts, Free
<1> QED BY <1>3, <1>4

WindowEnd == now + Window * Day

\* A start in the window of the slots endpoint is listed if and only if the
\* re-check of Create, which derives the slots of one lesson's time, takes it.
ListIsTheRecheck ==
  \A teacher \in Teachers, dur \in Durations :
    OnGrid(week[teacher]) =>
      \A start \in now .. (WindowEnd - dur) :
        start \in Listed(teacher, dur)
          <=> IsBookableStart(week[teacher], BookedIntervals(teacher), start, dur, now)

\* generateSlots is the single source of truth, for both of its callers and for
\* every week on the half-hour grid, though they pad and merge different spans.
THEOREM ListIsTheRecheckHolds == Spec => []ListIsTheRecheck
<1>1. ASSUME TypeInv, LessonsTakeTime, StoredWeekIsValid
      PROVE  ListIsTheRecheck
  <2> SUFFICES ASSUME NEW teacher \in Teachers, NEW dur \in Durations, OnGrid(week[teacher])
               PROVE  \A start \in now .. (WindowEnd - dur) :
                        start \in Listed(teacher, dur)
                          <=> IsBookableStart(week[teacher], BookedIntervals(teacher), start, dur, now)
    BY DEF ListIsTheRecheck
  <2> DEFINE spans  == week[teacher]
             booked == BookedIntervals(teacher)
             to     == WindowEnd
  <2>1. /\ spans \in SUBSET Span /\ \A s \in spans : s.start < s.end
        /\ booked \in SUBSET (Int \X Int) /\ \A i \in booked : i[1] < i[2]
        /\ now \in Int /\ dur \in Nat \ {0} /\ to \in Int
    BY <1>1, CalendarRead DEF WindowEnd
  <2>2. OnGrid(spans)
    OBVIOUS
  <2> SUFFICES ASSUME NEW start \in now .. (to - dur)
               PROVE  start \in Listed(teacher, dur) <=> IsBookableStart(spans, booked, start, dur, now)
    OBVIOUS
  <2> DEFINE end == start + dur
  <2>3. start \in Int /\ end \in Int /\ end = start + dur /\ now <= start /\ end <= to
    BY <2>1
  <2> HIDE DEF spans, booked, to, end
  <2>4. GenerateSlots(spans, booked, now, to, dur, now) = FreeStarts(spans, booked, now, to, dur, now)
    BY <2>1, <2>2, SlotsAreFreeStarts
  <2>5. GenerateSlots(spans, booked, start, end, dur, now) = FreeStarts(spans, booked, start, end, dur, now)
    BY <2>1, <2>2, <2>3, SlotsAreFreeStarts
  <2>6. start \in FreeStarts(spans, booked, now, to, dur, now)
          <=> start \in FreeStarts(spans, booked, start, end, dur, now)
    BY <2>1, <2>3, FreeInAnyWindow
  <2>7. start \in GenerateSlots(spans, booked, now, to, dur, now)
          <=> start \in GenerateSlots(spans, booked, start, end, dur, now)
    BY <2>4, <2>5, <2>6
  <2> QED BY <2>7 DEF Listed, IsBookableStart, WindowEnd, spans, booked, to, end
<1> QED BY <1>1, LessonsAlwaysTakeTime, PTL
=============================================================================
