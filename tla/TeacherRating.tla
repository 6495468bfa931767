---------------------------- MODULE TeacherRating ----------------------------
(***************************************************************************)
(* The reviews of one teacher and the rating its row caches                *)
(* (internal/reviews).                                                     *)
(*                                                                         *)
(* A write is a transaction at READ COMMITTED: the review first, then      *)
(* RecomputeTeacherRating.  The sum over the visible reviews is taken from *)
(* the snapshot of that statement; then the statement may wait for the     *)
(* teacher's row, held by the recomputation of another transaction, and    *)
(* goes on with the sum it has.  So the reading and the store are two      *)
(* steps.  The store and the commit are one, as nothing comes in between.  *)
(***************************************************************************)
EXTENDS Integers, Sequences, FiniteSets

CONSTANTS
  Writers,      \* requests that create or moderate a review
  Bookings,     \* completed lessons with this teacher
  None,         \* the booking of a sample review
  Stars,
  BaseCount,    \* review_count_base
  BaseRating,   \* rating_base, in tenths
  MaxReviews    \* bound: rows of reviews

ASSUME RatingAssumption ==
  /\ IsFiniteSet(Bookings) /\ None \notin Bookings /\ Stars \subseteq 1..5
  /\ BaseCount \in Nat /\ BaseRating \in 0..50 /\ MaxReviews \in Nat \ {0}

VARIABLES
  reviews,    \* the committed reviews, in the order of their INSERTs
  teacher,    \* the cached rating (in tenths) and review_count
  write,      \* the transaction of each request
  overtaken   \* the cache comes from a reading that another commit overtook

vars == <<reviews, teacher, write, overtaken>>

\* "new" is a row whose INSERT has not been committed.
Review == [booking : Bookings \cup {None}, stars : Stars,
           state : {"new", "visible", "hidden", "removed"}]

\* of is the row written (0: none, as it was gone), "to" what becomes of it, seen
\* the reading, late: another commit came after the reading.
Transaction ==
  [pc : {"idle", "found", "written", "read"}, of : 0..MaxReviews,
   to : {"visible", "hidden", "removed"},
   seen : SUBSET ((1..MaxReviews) \X Stars), late : BOOLEAN]

TypeOK ==
  /\ reviews \in Seq(Review) /\ Len(reviews) <= MaxReviews
  /\ teacher \in [rating : 0..50, count : Nat]
  /\ write \in [Writers -> Transaction]
  /\ overtaken \in BOOLEAN

At(pc, k, to) == [pc |-> pc, of |-> k, to |-> to, seen |-> {}, late |-> FALSE]
Idle == At("idle", 0, "visible")

\* Mutant of Counted: hidden and removed reviews count too.
CountedAll(rows) ==
  {<<k, rows[k].stars>> : k \in {i \in DOMAIN rows : rows[i].booking # None /\ rows[i].state # "new"}}

\* The visible reviews of a booking.
Counted(rows) ==
  {<<k, rows[k].stars>> : k \in {i \in DOMAIN rows : rows[i].booking # None /\ rows[i].state = "visible"}}

Given(seen, s) == Cardinality({r \in seen : r[2] = s})
SumOf(seen) ==
  Given(seen, 1) + 2 * Given(seen, 2) + 3 * Given(seen, 3) + 4 * Given(seen, 4) + 5 * Given(seen, 5)

\* The rating is rounded to tenths, halves up, and clamped.
Aggregate(seen) ==
  LET n == BaseCount + Cardinality(seen)
      sum == BaseRating * BaseCount + 10 * SumOf(seen)
      rounded == (2 * sum + n) \div (2 * n)
  IN [count  |-> n,
      rating |-> CASE n = 0 -> 0 [] n # 0 /\ rounded > 50 -> 50 [] OTHER -> rounded]

\* A teacher from the seed has sample reviews that count for nothing.
Init ==
  /\ reviews \in {<<>>} \cup {<<[booking |-> None, stars |-> s, state |-> "visible"]>> : s \in Stars}
  /\ teacher = [rating |-> IF BaseCount = 0 THEN 0 ELSE BaseRating, count |-> BaseCount]
  /\ write = [w \in Writers |-> Idle]
  /\ overtaken = FALSE

\* The row w has written as its own transaction, and then everybody, sees it.
With(w) ==
  [k \in DOMAIN reviews |-> IF k = write[w].of THEN [reviews[k] EXCEPT !.state = write[w].to] ELSE reviews[k]]

\* The lock on a review row, from the statement that wrote it to the commit.
Locked(k) == \E w \in Writers : write[w].pc \in {"written", "read"} /\ write[w].of = k
-----------------------------------------------------------------------------
\* Create, up to its INSERT.  Under reviews_booking_uniq it waits for whoever has an
\* open write on a row of the booking, and fails when a row is there.
Insert(w, b, s) ==
  /\ write[w].pc = "idle" /\ Len(reviews) < MaxReviews
  /\ \A k \in DOMAIN reviews :
       reviews[k].booking = b => ~Locked(k) /\ reviews[k].state \in {"new", "removed"}
  /\ reviews' = Append(reviews, [booking |-> b, stars |-> s, state |-> "new"])
  /\ write' = [write EXCEPT ![w] = At("written", Len(reviews) + 1, "visible")]
  /\ UNCHANGED <<teacher, overtaken>>

\* Hide, Unhide or Remove, up to the read of the review.
Find(w, k, to) ==
  /\ write[w].pc = "idle" /\ reviews[k].state \in {"visible", "hidden"}
  /\ write' = [write EXCEPT ![w] = At("found", k, to)]
  /\ UNCHANGED <<reviews, teacher, overtaken>>

\* Mutant of Change: the row is written whatever has become of it.
ChangeAny(w) ==
  /\ write[w].pc = "found" /\ ~Locked(write[w].of)
  /\ write' = [write EXCEPT ![w].pc = "written"]
  /\ UNCHANGED <<reviews, teacher, overtaken>>

\* SetReviewHidden or DeleteReview, by id.  It waits for the row; it finds nothing
\* when the row is gone by then, and goes on all the same.
Change(w) ==
  /\ write[w].pc = "found" /\ ~Locked(write[w].of)
  /\ write' = [write EXCEPT ![w].pc = "written",
                            ![w].of = IF reviews[@].state = "removed" THEN 0 ELSE @]
  /\ UNCHANGED <<reviews, teacher, overtaken>>

\* The snapshot of RecomputeTeacherRating.
Read(w) ==
  /\ write[w].pc = "written"
  /\ write' = [write EXCEPT ![w].pc = "read", ![w].seen = Counted(With(w))]
  /\ UNCHANGED <<reviews, teacher, overtaken>>

\* Mutant of Store: a new review is folded into the cached rating, as it was before
\* the baseline was kept apart.
StoreFolded(w) ==
  /\ write[w].pc = "read"
  /\ reviews' = With(w)
  /\ LET k == write[w].of  n == teacher.count + 1 IN
     teacher' = IF k # 0 /\ reviews[k].state = "new"
                THEN [count |-> n, rating |->
                       (2 * (teacher.rating * teacher.count + 10 * reviews[k].stars) + n) \div (2 * n)]
                ELSE teacher
  /\ overtaken' = write[w].late
  /\ write' = [v \in Writers |->
                 CASE v = w -> Idle
                   [] v # w /\ write[v].pc = "read" -> [write[v] EXCEPT !.late = TRUE]
                   [] OTHER -> write[v]]

\* The rest of RecomputeTeacherRating, and the commit.
Store(w) ==
  /\ write[w].pc = "read"
  /\ reviews' = With(w)
  /\ teacher' = Aggregate(write[w].seen)
  /\ overtaken' = write[w].late
  /\ write' = [v \in Writers |->
                 CASE v = w -> Idle
                   [] v # w /\ write[v].pc = "read" -> [write[v] EXCEPT !.late = TRUE]
                   [] OTHER -> write[v]]

\* A failed statement, a lost connection or a dead process: all is rolled back.
Rollback(w) ==
  /\ write[w].pc # "idle"
  /\ write' = [write EXCEPT ![w] = Idle]
  /\ UNCHANGED <<reviews, teacher, overtaken>>

Next ==
  \E w \in Writers :
    \/ \E b \in Bookings, s \in Stars : Insert(w, b, s)
    \/ \E k \in DOMAIN reviews, to \in {"visible", "hidden", "removed"} : Find(w, k, to)
    \/ Change(w) \/ Read(w) \/ Store(w) \/ Rollback(w)

Spec == Init /\ [][Next]_vars
-----------------------------------------------------------------------------
Standing(k) == reviews[k].state \in {"visible", "hidden"}

\* reviews_booking_uniq: a lesson has one review, also when it is written while
\* another one is being inserted or removed.
OneReviewPerBooking ==
  \A j, k \in DOMAIN reviews :
    Standing(j) /\ Standing(k) /\ reviews[j].booking = reviews[k].booking
      /\ reviews[j].booking # None => j = k

\* RemoveReview against Hide and Unhide of the same review: removed is for good.
RemovedStaysRemoved ==
  [][\A k \in DOMAIN reviews : reviews[k].state = "removed" => reviews'[k].state = "removed"]_vars

\* RecomputeTeacherRating is a rebuild, not a fold: unless its reading was overtaken
\* by another commit, the cache is exact, however wrong it was before.
ExactUnlessOvertaken == ~overtaken => teacher = Aggregate(Counted(reviews))

\* A review being written counts in no reading but its author's, and a lesson counts
\* once in each: the cache never claims more reviews than the teacher taught lessons.
CountsEachLessonOnce == teacher.count <= BaseCount + Cardinality(Bookings)

\* reviews.sql on RecomputeTeacherRating: "Idempotent and order-independent - run it
\* after a review is created, hidden, unhidden, or removed."
RatingMatchesReviews ==
  (\A w \in Writers : write[w].pc = "idle") => teacher = Aggregate(Counted(reviews))
==============================================================================
