------------------------- MODULE TeacherRatingProofs -------------------------
(* What holds of TeacherRating for any number of writers, lessons and rows. *)
EXTENDS TeacherRating, FiniteSetTheorems, TLAPS

LEMMA FunIsSeq ==
  ASSUME NEW S, NEW n \in Nat, NEW f \in [1..n -> S]
  PROVE  f \in Seq(S) /\ Len(f) = n /\ DOMAIN f = 1..n
  OBVIOUS

LEMMA SeqIsFun ==
  ASSUME NEW S, NEW q \in Seq(S)
  PROVE  /\ Len(q) \in Nat /\ DOMAIN q = 1..Len(q)
         /\ \A i \in 1..Len(q) : q[i] \in S
  OBVIOUS

LEMMA AppendIs ==
  ASSUME NEW S, NEW q \in Seq(S), NEW x \in S
  PROVE  /\ Append(q, x) \in Seq(S) /\ Len(Append(q, x)) = Len(q) + 1
         /\ \A i \in 1..Len(q) : Append(q, x)[i] = q[i]
         /\ Append(q, x)[Len(q) + 1] = x
  OBVIOUS

\* What TypeOK says of the rows.
LEMMA Rows ==
  ASSUME TypeOK
  PROVE  /\ MaxReviews \in Nat /\ Len(reviews) \in 0..MaxReviews
         /\ DOMAIN reviews = 1..Len(reviews)
         /\ \A k \in DOMAIN reviews : reviews[k] \in Review
  <1>1. reviews \in Seq(Review) BY DEF TypeOK
  <1> QED BY <1>1, SeqIsFun, RatingAssumption DEF TypeOK
-----------------------------------------------------------------------------
(* The aggregate.                                                           *)

Readings == SUBSET ((1..MaxReviews) \X Stars)

LEMMA ReadingsAreFinite ==
  ASSUME NEW seen \in Readings
  PROVE  /\ IsFiniteSet(seen) /\ Cardinality(seen) \in Nat
         /\ \A s : Given(seen, s) \in Nat
  <1>1. IsFiniteSet(1..MaxReviews)
    BY FS_Interval, RatingAssumption
  <1>2. IsFiniteSet(Stars)
    <2>1. IsFiniteSet(1..5)
      <3>1. 1 \in Int /\ 5 \in Int
        OBVIOUS
      <3> QED BY ONLY <3>1, FS_Interval
    <2>2. Stars \in SUBSET (1..5)
      BY RatingAssumption
    <2> QED BY <2>1, <2>2, FS_Subset
  <1>3. IsFiniteSet((1..MaxReviews) \X Stars)
    BY <1>1, <1>2, FS_Product
  <1>4. IsFiniteSet(seen)
    BY <1>3, FS_Subset DEF Readings
  <1>5. ASSUME NEW s PROVE Given(seen, s) \in Nat
    <2>1. IsFiniteSet({r \in seen : r[2] = s})
      BY <1>4, FS_Subset
    <2> QED BY <2>1, FS_CardinalityType DEF Given
  <1> QED BY <1>4, <1>5, FS_CardinalityType

\* Whatever was read, the rating is one and the count is a number.
LEMMA AggregateType ==
  ASSUME NEW seen \in Readings
  PROVE  Aggregate(seen) \in [rating : 0..50, count : Nat]
  <1> DEFINE n == BaseCount + Cardinality(seen)
             sum == BaseRating * BaseCount + 10 * SumOf(seen)
             rounded == (2 * sum + n) \div (2 * n)
  <1>1. n \in Nat
    BY ReadingsAreFinite, RatingAssumption
  <1>2. SumOf(seen) \in Nat
    BY ReadingsAreFinite DEF SumOf
  <1>3. BaseRating * BaseCount \in Nat
    BY RatingAssumption
  <1>4. sum \in Nat
    BY <1>2, <1>3
  <1>5. n # 0 => rounded \in Nat
    <2> HIDE DEF n, sum
    <2> HAVE n # 0
    <2>1. 2 * sum + n \in Nat /\ 2 * n \in Nat /\ 2 * n > 0
      BY <1>1, <1>4
    <2>2. \A a, b \in Nat : b > 0 => a \div b \in Nat
      OBVIOUS
    <2> QED BY <2>1, <2>2
  <1>6. Aggregate(seen) = [count |-> n, rating |->
          CASE n = 0 -> 0 [] n # 0 /\ rounded > 50 -> 50 [] OTHER -> rounded]
    BY DEF Aggregate
  <1> QED
    <2> HIDE DEF n, rounded
    <2> QED BY <1>1, <1>5, <1>6
-----------------------------------------------------------------------------
(* The invariant.                                                           *)

Holds(w, k) == write[w].pc \in {"written", "read"} /\ write[w].of = k

\* A row that its booking cannot share: it stands, or its writer may make it.
Taken(k) == Standing(k) \/ \E w \in Writers : Holds(w, k)

\* The row a request is about exists, was committed when it was found, and is
\* still there once it is locked.
OwnOK(w) ==
  /\ write[w].of <= Len(reviews)
  /\ write[w].pc = "found" => write[w].of # 0 /\ reviews[write[w].of].state # "new"
  /\ \A k \in DOMAIN reviews : Holds(w, k) => reviews[k].state # "removed"

LocksOK ==
  \A v, w \in Writers : \A k \in DOMAIN reviews : Holds(v, k) /\ Holds(w, k) => v = w

BookingOK ==
  \A j, k \in DOMAIN reviews :
    Taken(j) /\ Taken(k) /\ reviews[j].booking = reviews[k].booking /\ reviews[j].booking # None
      => j = k

\* A reading is of rows that do not share a booking, and unless it was overtaken it
\* is what the commit of its writer will leave.
Apart(seen) ==
  /\ \A p \in seen : p[1] \in DOMAIN reviews /\ reviews[p[1]].booking # None
  /\ \A p, q \in seen : reviews[p[1]].booking = reviews[q[1]].booking => p = q

SeenOK(w) ==
  write[w].pc = "read" => /\ Apart(write[w].seen)
                          /\ write[w].late \/ write[w].seen = Counted(With(w))

RowsInv == TypeOK /\ (\A w \in Writers : OwnOK(w)) /\ LocksOK /\ BookingOK

IInv == RowsInv /\ (\A w \in Writers : SeenOK(w)) /\ ExactUnlessOvertaken /\ CountsEachLessonOnce

Applied(rows, t) ==
  [k \in DOMAIN rows |-> IF k = t.of THEN [rows[k] EXCEPT !.state = t.to] ELSE rows[k]]

LEMMA AppliedIs ==
  ASSUME NEW rows \in Seq(Review), NEW t \in Transaction
  PROVE  /\ Applied(rows, t) \in Seq(Review) /\ Len(Applied(rows, t)) = Len(rows)
         /\ DOMAIN Applied(rows, t) = DOMAIN rows
         /\ \A k \in DOMAIN rows :
              /\ Applied(rows, t)[k] \in Review
              /\ Applied(rows, t)[k].booking = rows[k].booking
              /\ Applied(rows, t)[k].stars = rows[k].stars
              /\ Applied(rows, t)[k].state = IF k = t.of THEN t.to ELSE rows[k].state
  <1>1. t.to \in {"visible", "hidden", "removed"}
    BY DEF Transaction
  <1>2. Len(rows) \in Nat /\ DOMAIN rows = 1..Len(rows) /\ \A k \in 1..Len(rows) : rows[k] \in Review
    BY SeqIsFun
  <1>3. \A k \in DOMAIN rows :
          /\ Applied(rows, t)[k] \in Review
          /\ Applied(rows, t)[k].booking = rows[k].booking
          /\ Applied(rows, t)[k].stars = rows[k].stars
          /\ Applied(rows, t)[k].state = IF k = t.of THEN t.to ELSE rows[k].state
    BY <1>1, <1>2 DEF Applied, Review
  <1>4. Applied(rows, t) \in [1..Len(rows) -> Review]
    BY <1>2, <1>3 DEF Applied
  <1> QED BY <1>2, <1>3, <1>4, FunIsSeq

LEMMA WithIs ==
  ASSUME TypeOK, NEW w \in Writers
  PROVE  /\ With(w) \in Seq(Review) /\ Len(With(w)) = Len(reviews)
         /\ DOMAIN With(w) = DOMAIN reviews
         /\ \A k \in DOMAIN reviews :
              /\ With(w)[k] \in Review
              /\ With(w)[k].booking = reviews[k].booking /\ With(w)[k].stars = reviews[k].stars
              /\ With(w)[k].state = IF k = write[w].of THEN write[w].to ELSE reviews[k].state
  <1>1. reviews \in Seq(Review) /\ write[w] \in Transaction
    BY DEF TypeOK
  <1>2. With(w) = Applied(reviews, write[w])
    BY DEF With, Applied
  <1> QED BY <1>1, <1>2, AppliedIs

LEMMA CountedIs ==
  ASSUME NEW rows \in Seq(Review)
  PROVE  Counted(rows) = {<<k, rows[k].stars>> : k \in {i \in 1..Len(rows) :
                             rows[i].booking # None /\ rows[i].state = "visible"}}
  BY SeqIsFun DEF Counted

LEMMA CountedType ==
  ASSUME NEW rows \in Seq(Review), Len(rows) <= MaxReviews
  PROVE  Counted(rows) \in Readings
  <1>0. Len(rows) \in Nat /\ \A k \in 1..Len(rows) : rows[k] \in Review
    BY SeqIsFun
  <1>1. \A k \in 1..Len(rows) : rows[k].stars \in Stars /\ k \in 1..MaxReviews
    BY <1>0, RatingAssumption DEF Review
  <1> QED BY <1>1, CountedIs DEF Readings
-----------------------------------------------------------------------------
(* The rows under each action.                                              *)

LEMMA InitRows ==
  ASSUME Init
  PROVE  RowsInv
  <1>1. reviews \in Seq(Review) /\ Len(reviews) <= MaxReviews
    <2>1. CASE reviews = <<>>
      <3>1. <<>> \in Seq(Review) /\ Len(<<>>) = 0
        OBVIOUS
      <3> QED BY <2>1, <3>1, RatingAssumption
    <2>2. CASE \E s \in Stars : reviews = <<[booking |-> None, stars |-> s, state |-> "visible"]>>
      <3>1. PICK s \in Stars : reviews = <<[booking |-> None, stars |-> s, state |-> "visible"]>>
        BY <2>2
      <3>2. [booking |-> None, stars |-> s, state |-> "visible"] \in Review
        BY DEF Review
      <3>3. Len(reviews) = 1
        BY <3>1
      <3> QED BY <3>1, <3>2, <3>3, RatingAssumption
    <2> QED BY <2>1, <2>2 DEF Init
  <1>2. TypeOK
    <2>1. [w \in Writers |-> Idle] \in [Writers -> Transaction]
      BY RatingAssumption DEF At, Idle, Transaction
    <2>2. [rating |-> IF BaseCount = 0 THEN 0 ELSE BaseRating, count |-> BaseCount]
            \in [rating : 0..50, count : Nat]
      BY RatingAssumption
    <2> QED BY <1>1, <2>1, <2>2 DEF Init, TypeOK
  <1>3. \A w \in Writers : write[w] = Idle
    BY DEF Init
  <1>4. Len(reviews) \in Nat
    BY <1>1
  <1>5. (\A w \in Writers : OwnOK(w)) /\ LocksOK
    BY <1>3, <1>4 DEF OwnOK, LocksOK, Holds, At, Idle
  <1>6. BookingOK
    BY <1>3 DEF Init, BookingOK
  <1> QED BY <1>2, <1>5, <1>6 DEF RowsInv

LEMMA OfIs ==
  ASSUME RowsInv
  PROVE  \A v \in Writers : write[v] \in Transaction /\ write[v].of \in 0..Len(reviews)
  <1> SUFFICES ASSUME NEW v \in Writers
               PROVE  write[v] \in Transaction /\ write[v].of \in 0..Len(reviews)
    OBVIOUS
  <1>1. write[v] \in Transaction
    BY DEF RowsInv, TypeOK
  <1>2. write[v].of \in 0..MaxReviews
    BY <1>1 DEF Transaction
  <1>3. MaxReviews \in Nat /\ Len(reviews) \in Nat /\ write[v].of <= Len(reviews)
    BY Rows DEF RowsInv, OwnOK
  <1> QED BY <1>1, <1>2, <1>3

LEMMA InsertRows ==
  ASSUME RowsInv, NEW w \in Writers, NEW b \in Bookings, NEW s \in Stars, Insert(w, b, s)
  PROVE  /\ RowsInv'
         /\ Len(reviews') = Len(reviews) + 1 /\ DOMAIN reviews' = 1..(Len(reviews) + 1)
         /\ \A k \in 1..Len(reviews) : reviews'[k] = reviews[k]
         /\ reviews'[Len(reviews) + 1].state = "new"
         /\ \A v \in Writers : v # w => write'[v] = write[v]
         /\ write'[w].pc = "written"
  <1> DEFINE n == Len(reviews) + 1
             row == [booking |-> b, stars |-> s, state |-> "new"]
  <1>1. /\ row \in Review /\ Len(reviews) \in Nat /\ n <= MaxReviews /\ MaxReviews \in Nat
        /\ DOMAIN reviews = 1..Len(reviews) /\ b # None
    BY Rows, RatingAssumption DEF RowsInv, Insert, Review
  <1>2. /\ reviews' \in Seq(Review) /\ Len(reviews') = n /\ DOMAIN reviews' = 1..n
        /\ \A k \in 1..Len(reviews) : reviews'[k] = reviews[k]
        /\ reviews'[n] = row
    <2>1. reviews \in Seq(Review) /\ reviews' = Append(reviews, row)
      BY DEF RowsInv, TypeOK, Insert
    <2>2. reviews' \in Seq(Review)
      BY <1>1, <2>1, AppendIs
    <2> QED BY <1>1, <2>1, <2>2, AppendIs, SeqIsFun
  <1>3. /\ write'[w] = At("written", n, "visible")
        /\ \A v \in Writers : v # w => write'[v] = write[v]
        /\ write' \in [Writers -> Transaction]
    <2>2. n \in 0..MaxReviews
      BY <1>1
    <2>3. At("written", n, "visible") \in Transaction
      BY <2>2 DEF At, Transaction
    <2> QED BY <2>3 DEF RowsInv, TypeOK, Insert
  <1>4. write'[w].pc = "written" /\ write'[w].of = n
    BY <1>3 DEF At
  <1>5. TypeOK'
    BY <1>1, <1>2, <1>3 DEF RowsInv, TypeOK, Insert
  <1>6. \A v \in Writers : write[v].of \in 0..Len(reviews)
    BY OfIs
  <1>7. \A v \in Writers, k \in 1..n :
          Holds(v, k)' <=> IF v = w THEN k = n ELSE Holds(v, k) /\ k # n
    <2> SUFFICES ASSUME NEW v \in Writers, NEW k \in 1..n
                 PROVE  Holds(v, k)' <=> IF v = w THEN k = n ELSE Holds(v, k) /\ k # n
      OBVIOUS
    <2>1. CASE v = w
      BY <1>4, <2>1 DEF Holds
    <2>2. CASE v # w
      <3>1. write'[v] = write[v] /\ write[v].of # n
        BY <1>1, <1>3, <1>6, <2>2
      <3> QED BY <2>2, <3>1 DEF Holds
    <2> QED BY <2>1, <2>2
  <1>8. \A v \in Writers : OwnOK(v)'
    <2> SUFFICES ASSUME NEW v \in Writers PROVE OwnOK(v)'
      OBVIOUS
    <2>1. CASE v = w
      BY <1>1, <1>2, <1>4, <1>7, <2>1 DEF OwnOK
    <2>2. CASE v # w
      <3>1. write'[v] = write[v] /\ write[v].of \in 0..Len(reviews) /\ OwnOK(v)
        BY <1>3, <1>6, <2>2 DEF RowsInv
      <3>2. write[v].of <= n
        BY <1>1, <3>1
      <3>3. write[v].pc = "found" => write[v].of # 0 /\ reviews'[write[v].of].state # "new"
        BY <1>1, <1>2, <3>1 DEF OwnOK
      <3>4. \A k \in 1..n : Holds(v, k)' => reviews'[k].state # "removed"
        BY <1>1, <1>2, <1>7, <2>2, <3>1 DEF OwnOK
      <3> QED BY <1>2, <3>1, <3>2, <3>3, <3>4 DEF OwnOK
    <2> QED BY <2>1, <2>2
  <1>9. LocksOK'
    BY <1>1, <1>2, <1>7 DEF RowsInv, LocksOK
  <1>10. \A k \in 1..n : Taken(k)' <=> k = n \/ Taken(k)
    <2> SUFFICES ASSUME NEW k \in 1..n PROVE Taken(k)' <=> k = n \/ Taken(k)
      OBVIOUS
    <2>1. CASE k = n
      BY <1>7, <2>1 DEF Taken
    <2>2. CASE k # n
      <3>1. k \in 1..Len(reviews) /\ reviews'[k] = reviews[k]
        BY <1>1, <1>2, <2>2
      <3>2. ~Holds(w, k)
        BY DEF Insert, Holds
      <3> QED BY <1>7, <2>2, <3>1, <3>2 DEF Taken, Standing
    <2> QED BY <2>1, <2>2
  <1>11. \A k \in 1..Len(reviews) : reviews[k].booking = b => ~Taken(k)
    BY <1>1 DEF Insert, Taken, Standing, Holds, Locked
  <1>12. BookingOK'
    BY <1>1, <1>2, <1>10, <1>11 DEF RowsInv, BookingOK
  <1> QED BY <1>2, <1>3, <1>4, <1>5, <1>8, <1>9, <1>12 DEF RowsInv

\* A step of w that leaves the rows alone: it locks no row but one that stands free.
LEMMA StepRows ==
  ASSUME RowsInv, NEW w \in Writers, NEW t \in Transaction,
         write' = [write EXCEPT ![w] = t], reviews' = reviews, TypeOK',
         t.of <= Len(reviews),
         t.pc = "found" => t.of # 0 /\ reviews[t.of].state # "new",
         \A k \in DOMAIN reviews : t.pc \in {"written", "read"} /\ t.of = k =>
           Holds(w, k) \/ (Standing(k) /\ \A v \in Writers : ~Holds(v, k))
  PROVE  RowsInv'
  <1>1. write'[w] = t /\ \A v \in Writers : v # w => write'[v] = write[v]
    BY DEF RowsInv, TypeOK
  <1>2. \A v \in Writers, k \in DOMAIN reviews : Holds(v, k)' =>
          Holds(v, k) \/ (v = w /\ Standing(k) /\ \A u \in Writers : ~Holds(u, k))
    BY <1>1 DEF Holds
  <1>3. \A v \in Writers : OwnOK(v)'
    <2> SUFFICES ASSUME NEW v \in Writers PROVE OwnOK(v)'
      OBVIOUS
    <2>1. OwnOK(v)
      BY DEF RowsInv
    <2>2. \A k \in DOMAIN reviews : Holds(v, k)' => reviews[k].state # "removed"
      BY <1>2, <2>1 DEF OwnOK, Standing
    <2>3. CASE v = w
      BY <1>1, <2>2, <2>3 DEF OwnOK
    <2>4. CASE v # w
      BY <1>1, <2>1, <2>2, <2>4 DEF OwnOK
    <2> QED BY <2>3, <2>4
  <1>4. LocksOK'
    BY <1>2 DEF RowsInv, LocksOK
  <1>5. \A k \in DOMAIN reviews : Taken(k)' => Taken(k)
    BY <1>2 DEF Taken, Standing
  <1>6. BookingOK'
    BY <1>5 DEF RowsInv, BookingOK
  <1> QED BY <1>3, <1>4, <1>6 DEF RowsInv

LEMMA FindRows ==
  ASSUME RowsInv, NEW w \in Writers, NEW k \in DOMAIN reviews,
         NEW to \in {"visible", "hidden", "removed"}, Find(w, k, to)
  PROVE  RowsInv'
  <1>1. k \in 0..MaxReviews /\ k <= Len(reviews) /\ k # 0
    BY Rows DEF RowsInv
  <1>2. At("found", k, to) \in Transaction
    BY <1>1 DEF At, Transaction
  <1>3. TypeOK'
    BY <1>2 DEF RowsInv, TypeOK, Find
  <1>4. write' = [write EXCEPT ![w] = At("found", k, to)] /\ reviews' = reviews
        /\ reviews[k].state # "new"
    BY DEF Find
  <1>5. At("found", k, to).pc = "found" /\ At("found", k, to).of = k
    BY DEF At
  <1> QED BY <1>1, <1>2, <1>3, <1>4, <1>5, StepRows

LEMMA RollbackRows ==
  ASSUME RowsInv, NEW w \in Writers, Rollback(w)
  PROVE  RowsInv'
  <1>1. Idle \in Transaction /\ Idle.pc = "idle" /\ Idle.of = 0
    BY RatingAssumption DEF At, Idle, Transaction
  <1>2. TypeOK'
    BY <1>1 DEF RowsInv, TypeOK, Rollback
  <1>3. write' = [write EXCEPT ![w] = Idle] /\ reviews' = reviews /\ 0 <= Len(reviews)
    BY Rows DEF Rollback, RowsInv
  <1> QED BY <1>1, <1>2, <1>3, StepRows

LEMMA ChangeRows ==
  ASSUME RowsInv, NEW w \in Writers, Change(w)
  PROVE  RowsInv'
  <1> DEFINE k == write[w].of
             o == IF reviews[k].state = "removed" THEN 0 ELSE k
             t == [write[w] EXCEPT !.pc = "written", !.of = o]
  <1>1. write[w] \in Transaction /\ k \in 0..Len(reviews) /\ 0 <= Len(reviews) /\ MaxReviews \in Nat
        /\ Len(reviews) <= MaxReviews /\ DOMAIN reviews = 1..Len(reviews)
    BY OfIs, Rows DEF RowsInv
  <1>2. k # 0 /\ reviews[k].state # "new"
    BY DEF RowsInv, OwnOK, Change
  <1>3. t \in Transaction /\ t.pc = "written" /\ t.of = o
    <2>1. o \in 0..MaxReviews
      BY <1>1
    <2> HIDE DEF o
    <2> QED BY <1>1, <2>1 DEF Transaction
  <1>4. write' = [write EXCEPT ![w] = t] /\ reviews' = reviews
    BY <1>1 DEF Change, Transaction
  <1>5. TypeOK'
    BY <1>3, <1>4 DEF RowsInv, TypeOK, Change
  <1>6. k \in DOMAIN reviews /\ reviews[k] \in Review
    BY <1>1, <1>2, Rows DEF RowsInv
  <1>7. t.of = k => Standing(k) /\ \A v \in Writers : ~Holds(v, k)
    BY <1>2, <1>3, <1>6 DEF Change, Locked, Holds, Standing, Review
  <1>8. t.of <= Len(reviews)
    BY <1>1, <1>3
  <1>9. \A j \in DOMAIN reviews : t.pc \in {"written", "read"} /\ t.of = j =>
          Holds(w, j) \/ (Standing(j) /\ \A v \in Writers : ~Holds(v, j))
    BY <1>1, <1>3, <1>7
  <1> HIDE DEF t
  <1> QED BY <1>3, <1>4, <1>5, <1>8, <1>9, StepRows

LEMMA ReadRows ==
  ASSUME RowsInv, NEW w \in Writers, Read(w)
  PROVE  RowsInv' /\ Counted(With(w)) \in Readings
         /\ write'[w] = [write[w] EXCEPT !.pc = "read", !.seen = Counted(With(w))]
         /\ write[w] \in Transaction
  <1> DEFINE t == [write[w] EXCEPT !.pc = "read", !.seen = Counted(With(w))]
  <1>1. write[w] \in Transaction /\ write[w].of <= Len(reviews)
    BY OfIs DEF RowsInv, OwnOK
  <1>2. Counted(With(w)) \in Readings
    <2>1. With(w) \in Seq(Review) /\ Len(With(w)) <= MaxReviews
      BY WithIs DEF RowsInv, TypeOK
    <2> QED BY <2>1, CountedType
  <1>3. t \in Transaction /\ t.pc = "read" /\ t.of = write[w].of
    BY <1>1, <1>2 DEF Transaction, Readings
  <1>4. write' = [write EXCEPT ![w] = t] /\ reviews' = reviews
    BY <1>1 DEF Read, Transaction
  <1>5. TypeOK'
    BY <1>3, <1>4 DEF RowsInv, TypeOK, Read
  <1>6. \A k \in DOMAIN reviews : t.of = k => Holds(w, k)
    BY <1>3 DEF Read, Holds
  <1>7. write'[w] = t
    BY <1>4 DEF RowsInv, TypeOK
  <1> HIDE DEF t
  <1>8. RowsInv'
    BY <1>1, <1>3, <1>4, <1>5, <1>6, StepRows
  <1> QED BY <1>1, <1>2, <1>7, <1>8 DEF t

LEMMA StoreRows ==
  ASSUME RowsInv, NEW w \in Writers, Store(w), write[w].seen \in Readings
  PROVE  /\ RowsInv' /\ DOMAIN reviews' = DOMAIN reviews
         /\ \A k \in DOMAIN reviews : reviews'[k].booking = reviews[k].booking
         /\ \A v \in Writers : /\ write'[v].pc = "read" => write'[v].late /\ write[v].pc = "read"
                               /\ v # w => write'[v].seen = write[v].seen
  <1>1. /\ reviews' \in Seq(Review) /\ Len(reviews') = Len(reviews)
        /\ DOMAIN reviews' = DOMAIN reviews
        /\ \A k \in DOMAIN reviews :
             /\ reviews'[k] \in Review
             /\ reviews'[k].booking = reviews[k].booking
             /\ reviews'[k].state = IF k = write[w].of THEN write[w].to ELSE reviews[k].state
    BY WithIs DEF RowsInv, Store
  <1>2. teacher' \in [rating : 0..50, count : Nat]
    BY AggregateType DEF Store
  <1>3. \A v \in Writers : write[v] \in Transaction /\ write[v].of \in 0..Len(reviews)
    BY OfIs
  <1>4. write' \in [Writers -> Transaction]
        /\ \A v \in Writers :
             /\ v = w => write'[v] = Idle
             /\ v # w => /\ write'[v].pc = write[v].pc /\ write'[v].of = write[v].of
                         /\ write'[v].seen = write[v].seen
                         /\ write[v].pc = "read" => write'[v].late
    <2>1. Idle \in Transaction
      BY RatingAssumption DEF At, Idle, Transaction
    <2>2. \A v \in Writers : v # w /\ write[v].pc = "read" =>
            /\ [write[v] EXCEPT !.late = TRUE] \in Transaction
            /\ [write[v] EXCEPT !.late = TRUE].pc = write[v].pc
            /\ [write[v] EXCEPT !.late = TRUE].of = write[v].of
            /\ [write[v] EXCEPT !.late = TRUE].seen = write[v].seen
            /\ [write[v] EXCEPT !.late = TRUE].late
      BY <1>3 DEF Transaction
    <2>3. \A v \in Writers :
            /\ v = w => write'[v] = Idle
            /\ v # w /\ write[v].pc = "read" => write'[v] = [write[v] EXCEPT !.late = TRUE]
            /\ v # w /\ write[v].pc # "read" => write'[v] = write[v]
      BY DEF Store
    <2>4. write' = [v \in Writers |-> write'[v]]
      BY DEF Store
    <2>5. \A v \in Writers : write'[v] \in Transaction
      BY <1>3, <2>1, <2>2, <2>3
    <2> QED BY <2>2, <2>3, <2>4, <2>5
  <1>5. TypeOK'
    <2>1. write[w].late \in BOOLEAN
      BY <1>3 DEF Transaction
    <2> QED BY <1>1, <1>2, <1>4, <2>1 DEF RowsInv, TypeOK, Store
  <1>6. write'[w].pc = "idle" /\ write'[w].of = 0
    BY <1>4 DEF Idle, At
  <1>7. \A v \in Writers, k \in DOMAIN reviews : Holds(v, k)' <=> v # w /\ Holds(v, k)
    BY <1>4, <1>6 DEF Holds
  <1>8. \A k \in DOMAIN reviews : k = write[w].of => Holds(w, k)
    BY DEF Store, Holds
  <1>9. \A v \in Writers : v # w => \A k \in DOMAIN reviews : Holds(v, k) => k # write[w].of
    BY <1>8 DEF RowsInv, LocksOK
  <1>10. write[w].to # "new" /\ Len(reviews) \in Nat /\ DOMAIN reviews = 1..Len(reviews)
    BY <1>3, Rows DEF RowsInv, Transaction
  <1>11. \A v \in Writers : OwnOK(v)'
    <2> SUFFICES ASSUME NEW v \in Writers PROVE OwnOK(v)'
      OBVIOUS
    <2>1. CASE v = w
      BY <1>1, <1>6, <1>7, <1>10, <2>1 DEF OwnOK
    <2>2. CASE v # w
      <3>1. OwnOK(v)
        BY DEF RowsInv
      <3>2. write'[v].of <= Len(reviews)'
        BY <1>1, <1>4, <2>2, <3>1 DEF OwnOK
      <3>3. write'[v].pc = "found" => write'[v].of # 0 /\ reviews'[write'[v].of].state # "new"
        BY <1>1, <1>3, <1>4, <1>10, <2>2, <3>1 DEF OwnOK
      <3>4. \A k \in DOMAIN reviews : Holds(v, k)' => reviews'[k].state # "removed"
        BY <1>1, <1>7, <1>9, <2>2, <3>1 DEF OwnOK
      <3> QED BY <1>1, <3>2, <3>3, <3>4 DEF OwnOK
    <2> QED BY <2>1, <2>2
  <1>12. LocksOK'
    BY <1>1, <1>7 DEF RowsInv, LocksOK
  <1>13. \A k \in DOMAIN reviews : Taken(k)' => Taken(k)
    BY <1>1, <1>7, <1>8 DEF Taken, Standing
  <1>14. BookingOK'
    BY <1>1, <1>13 DEF RowsInv, BookingOK
  <1>15. \A v \in Writers : /\ write'[v].pc = "read" => write'[v].late /\ write[v].pc = "read"
                            /\ v # w => write'[v].seen = write[v].seen
    BY <1>4, <1>6
  <1> QED BY <1>1, <1>5, <1>11, <1>12, <1>14, <1>15 DEF RowsInv
-----------------------------------------------------------------------------
(* The readings.                                                            *)

LEMMA Half ==
  ASSUME NEW c \in Nat \ {0}, NEW r \in Nat
  PROVE  (2 * (r * c + 10 * 0) + c) \div (2 * c) = r
  <1>1. 2 * (r * c + 10 * 0) + c = (2 * c) * r + c
    OBVIOUS
  <1> DEFINE d == 2 * c
  <1>2. d \in Nat /\ d > 0 /\ c \in Nat /\ c < d
    OBVIOUS
  <1>3. \A a, b, q \in Nat : b > 0 /\ a < b => (b * q + a) \div b = q
    OBVIOUS
  <1> QED BY <1>1, <1>2, <1>3

LEMMA EmptyAggregate ==
  Aggregate({}) = [rating |-> IF BaseCount = 0 THEN 0 ELSE BaseRating, count |-> BaseCount]
  <1>1. \A s : Given({}, s) = 0
    BY FS_EmptySet DEF Given
  <1>2. SumOf({}) = 0 /\ Cardinality({}) = 0
    BY <1>1, FS_EmptySet DEF SumOf
  <1>3. BaseCount + Cardinality({}) = BaseCount
    BY <1>2, RatingAssumption
  <1>4. BaseCount # 0 =>
          (2 * (BaseRating * BaseCount + 10 * SumOf({})) + BaseCount) \div (2 * BaseCount) = BaseRating
    BY <1>2, Half, RatingAssumption
  <1> QED BY <1>3, <1>4, RatingAssumption DEF Aggregate

LEMMA InitInv ==
  ASSUME Init
  PROVE  IInv
  <1>1. RowsInv
    BY InitRows
  <1>2. \A w \in Writers : SeenOK(w)
    BY DEF Init, SeenOK, Idle, At
  <1>3. Counted(reviews) = {}
    <2>1. \A k \in DOMAIN reviews : reviews[k].booking = None
      BY DEF Init
    <2> QED BY <2>1 DEF Counted
  <1>4. ExactUnlessOvertaken
    BY <1>3, EmptyAggregate DEF ExactUnlessOvertaken, Init
  <1>5. CountsEachLessonOnce
    BY FS_CardinalityType, RatingAssumption DEF CountsEachLessonOnce, Init
  <1> QED BY <1>1, <1>2, <1>4, <1>5 DEF IInv

\* A row that nobody sees yet changes no reading.
LEMMA CountedSame ==
  ASSUME NEW rows \in Seq(Review), NEW more \in Seq(Review), Len(more) = Len(rows) + 1,
         \A k \in 1..Len(rows) : more[k].booking = rows[k].booking /\ more[k].stars = rows[k].stars
                                  /\ more[k].state = rows[k].state,
         more[Len(rows) + 1].state # "visible"
  PROVE  Counted(more) = Counted(rows)
  <1>1. Len(rows) \in Nat
    OBVIOUS
  <1>2. {i \in 1..Len(more) : more[i].booking # None /\ more[i].state = "visible"}
          = {i \in 1..Len(rows) : rows[i].booking # None /\ rows[i].state = "visible"}
    BY <1>1
  <1> DEFINE K == {i \in 1..Len(rows) : rows[i].booking # None /\ rows[i].state = "visible"}
  <1>3. Counted(more) = {<<k, more[k].stars>> : k \in K}
    BY <1>2, CountedIs
  <1>4. Counted(rows) = {<<k, rows[k].stars>> : k \in K}
    BY CountedIs
  <1>5. \A k \in K : more[k].stars = rows[k].stars
    OBVIOUS
  <1> HIDE DEF K
  <1> QED BY <1>3, <1>4, <1>5

\* Readings that do not change.
LEMMA Untouched ==
  ASSUME IInv, RowsInv', NEW v \in Writers, write'[v] = write[v], reviews' = reviews
  PROVE  SeenOK(v)'
  <1>1. With(v)' = With(v)
    BY DEF With
  <1>2. SeenOK(v)
    BY DEF IInv
  <1> QED BY <1>1, <1>2 DEF SeenOK, Apart

LEMMA InsertSeen ==
  ASSUME IInv, NEW w \in Writers, NEW b \in Bookings, NEW s \in Stars, Insert(w, b, s)
  PROVE  IInv'
  <1>1. /\ RowsInv' /\ Len(reviews') = Len(reviews) + 1 /\ DOMAIN reviews' = 1..(Len(reviews) + 1)
        /\ \A k \in 1..Len(reviews) : reviews'[k] = reviews[k]
        /\ reviews'[Len(reviews) + 1].state = "new"
        /\ \A v \in Writers : v # w => write'[v] = write[v]
        /\ write'[w].pc = "written"
    BY InsertRows DEF IInv
  <1>2. RowsInv /\ TypeOK /\ TypeOK' /\ Len(reviews) \in Nat /\ DOMAIN reviews = 1..Len(reviews)
    BY <1>1, Rows DEF IInv, RowsInv
  <1>3. Counted(reviews)' = Counted(reviews)
    <2>1. reviews \in Seq(Review) /\ reviews' \in Seq(Review)
      BY <1>2 DEF TypeOK
    <2> QED BY <1>1, <2>1, CountedSame
  <1>4. \A v \in Writers : SeenOK(v)'
    <2> SUFFICES ASSUME NEW v \in Writers PROVE SeenOK(v)'
      OBVIOUS
    <2>1. CASE v = w
      BY <1>1, <2>1 DEF SeenOK
    <2>2. CASE v # w
      <3>1. SeenOK(v) /\ write'[v] = write[v]
        BY <1>1, <2>2 DEF IInv
      <3>2. write[v].pc = "read" => Apart(write[v].seen)'
        BY <1>1, <1>2, <3>1 DEF SeenOK, Apart
      <3>3. Counted(With(v)') = Counted(With(v))
        <4>1. /\ With(v) \in Seq(Review) /\ Len(With(v)) = Len(reviews)
              /\ \A k \in 1..Len(reviews) :
                   /\ With(v)[k].booking = reviews[k].booking /\ With(v)[k].stars = reviews[k].stars
                   /\ With(v)[k].state = IF k = write[v].of THEN write[v].to ELSE reviews[k].state
          BY <1>2, WithIs
        <4>2. /\ With(v)' \in Seq(Review) /\ Len(With(v)') = Len(reviews) + 1
              /\ \A k \in 1..(Len(reviews) + 1) :
                   /\ With(v)'[k].booking = reviews'[k].booking /\ With(v)'[k].stars = reviews'[k].stars
                   /\ With(v)'[k].state = IF k = write'[v].of THEN write'[v].to ELSE reviews'[k].state
          <5>1. reviews' \in Seq(Review) /\ write'[v] \in Transaction
            BY <1>2 DEF TypeOK
          <5>2. With(v)' = Applied(reviews', write'[v])
            BY DEF With, Applied
          <5> QED BY <1>1, <5>1, <5>2, AppliedIs
        <4>3. write[v].of \in 0..Len(reviews)
          BY <1>2, OfIs
        <4>4. With(v)'[Len(reviews) + 1].state = "new"
          BY <1>1, <1>2, <3>1, <4>2, <4>3
        <4>5. \A k \in 1..Len(reviews) :
                /\ With(v)'[k].booking = With(v)[k].booking /\ With(v)'[k].stars = With(v)[k].stars
                /\ With(v)'[k].state = With(v)[k].state
          BY <1>1, <1>2, <3>1, <4>1, <4>2
        <4> QED BY <4>1, <4>2, <4>4, <4>5, CountedSame
      <3> QED BY <3>1, <3>2, <3>3 DEF SeenOK, Counted
    <2> QED BY <2>1, <2>2
  <1>5. ExactUnlessOvertaken' /\ CountsEachLessonOnce'
    BY <1>3 DEF IInv, Insert, ExactUnlessOvertaken, CountsEachLessonOnce, Aggregate
  <1> QED BY <1>1, <1>4, <1>5 DEF IInv

\* The reading of a writer holds one review of a lesson.
LEMMA ReadingApart ==
  ASSUME RowsInv, NEW w \in Writers, Read(w)
  PROVE  Apart(Counted(With(w)))
  <1>1. /\ DOMAIN With(w) = DOMAIN reviews
        /\ \A k \in DOMAIN reviews :
             /\ With(w)[k].booking = reviews[k].booking
             /\ With(w)[k].state = IF k = write[w].of THEN write[w].to ELSE reviews[k].state
    BY WithIs DEF RowsInv
  <1> DEFINE K == {i \in DOMAIN reviews : reviews[i].booking # None /\ With(w)[i].state = "visible"}
  <1>2. Counted(With(w)) = {<<k, With(w)[k].stars>> : k \in K}
    BY <1>1 DEF Counted
  <1>3. \A k \in K : Taken(k)
    BY <1>1 DEF Taken, Holds, Standing, Read
  <1>4. \A j, k \in K : reviews[j].booking = reviews[k].booking => j = k
    BY <1>3 DEF RowsInv, BookingOK
  <1>5. \A p \in Counted(With(w)) : p[1] \in K /\ p = <<p[1], With(w)[p[1]].stars>>
    BY <1>2
  <1> QED BY <1>4, <1>5 DEF Apart

LEMMA ReadSeen ==
  ASSUME IInv, NEW w \in Writers, Read(w)
  PROVE  IInv'
  <1>1. /\ RowsInv' /\ write[w] \in Transaction
        /\ write'[w] = [write[w] EXCEPT !.pc = "read", !.seen = Counted(With(w))]
    BY ReadRows DEF IInv
  <1>2. reviews' = reviews /\ teacher' = teacher /\ overtaken' = overtaken
        /\ \A v \in Writers : v # w => write'[v] = write[v]
    BY DEF Read, IInv, RowsInv, TypeOK
  <1>3. With(w)' = With(w) /\ write'[w].seen = Counted(With(w))
    BY <1>1, <1>2 DEF With, Transaction
  <1>4. Apart(Counted(With(w)))
    BY ReadingApart DEF IInv
  <1>5. SeenOK(w)'
    BY <1>2, <1>3, <1>4 DEF SeenOK, Apart
  <1>6. \A v \in Writers : v # w => SeenOK(v)'
    BY <1>1, <1>2, Untouched
  <1>7. ExactUnlessOvertaken' /\ CountsEachLessonOnce'
    BY <1>2 DEF IInv, ExactUnlessOvertaken, CountsEachLessonOnce
  <1> QED BY <1>1, <1>5, <1>6, <1>7 DEF IInv

\* A step of w that reads nothing and leaves rows and cache alone.
LEMMA OtherSeen ==
  ASSUME IInv, RowsInv', NEW w \in Writers, write'[w].pc # "read",
         \A v \in Writers : v # w => write'[v] = write[v],
         UNCHANGED <<reviews, teacher, overtaken>>
  PROVE  IInv'
  <1>1. SeenOK(w)'
    BY DEF SeenOK
  <1>2. \A v \in Writers : v # w => SeenOK(v)'
    BY Untouched
  <1>3. ExactUnlessOvertaken' /\ CountsEachLessonOnce'
    BY DEF IInv, ExactUnlessOvertaken, CountsEachLessonOnce
  <1> QED BY <1>1, <1>2, <1>3 DEF IInv

\* Rows that share no booking are at most as many as the bookings.
LEMMA ApartIsSmall ==
  ASSUME RowsInv, NEW seen \in Readings, Apart(seen)
  PROVE  Cardinality(seen) <= Cardinality(Bookings)
  <1> DEFINE f == [p \in seen |-> reviews[p[1]].booking]
  <1>1. \A p \in seen : reviews[p[1]].booking \in Bookings
    BY Rows DEF RowsInv, Apart, Review
  <1>2. f \in Injection(seen, Bookings)
    BY <1>1 DEF Apart, Injection, IsInjective
  <1> HIDE DEF f
  <1> QED BY <1>2, FS_Injection, RatingAssumption

LEMMA StoreSeen ==
  ASSUME IInv, NEW w \in Writers, Store(w)
  PROVE  IInv'
  <1>1. write[w] \in Transaction /\ write[w].seen \in Readings /\ write[w].pc = "read"
    <2>1. write[w] \in Transaction
      BY OfIs DEF IInv
    <2> QED BY <2>1 DEF Transaction, Readings, Store
  <1>2. /\ RowsInv' /\ DOMAIN reviews' = DOMAIN reviews
        /\ \A k \in DOMAIN reviews : reviews'[k].booking = reviews[k].booking
        /\ \A v \in Writers : /\ write'[v].pc = "read" => write'[v].late /\ write[v].pc = "read"
                              /\ v # w => write'[v].seen = write[v].seen
    BY <1>1, StoreRows DEF IInv
  <1>3. SeenOK(w) /\ reviews' = With(w) /\ teacher' = Aggregate(write[w].seen)
        /\ overtaken' = write[w].late /\ write'[w] = Idle
    BY DEF IInv, Store
  <1>4. \A v \in Writers : SeenOK(v)'
    <2> SUFFICES ASSUME NEW v \in Writers, write'[v].pc = "read" PROVE Apart(write[v].seen)' /\ write'[v].late
                                                                    /\ v # w
      BY <1>2 DEF SeenOK, Apart
    <2>1. v # w
      BY <1>3 DEF Idle, At
    <2>2. SeenOK(v)
      BY DEF IInv
    <2>3. write[v].pc = "read" /\ write'[v].late /\ write'[v].seen = write[v].seen
      BY <1>2, <2>1
    <2>4. Apart(write[v].seen)
      BY <2>2, <2>3 DEF SeenOK
    <2> QED BY <1>2, <2>1, <2>3, <2>4 DEF Apart
  <1>5. ExactUnlessOvertaken'
    <2> SUFFICES ASSUME ~write[w].late PROVE teacher' = Aggregate(Counted(reviews'))
      BY <1>3 DEF ExactUnlessOvertaken, Aggregate, SumOf, Given
    <2> QED BY <1>1, <1>3 DEF SeenOK
  <1>6. CountsEachLessonOnce'
    <2>1. teacher'.count = BaseCount + Cardinality(write[w].seen)
      BY <1>3 DEF Aggregate
    <2>2. Cardinality(write[w].seen) <= Cardinality(Bookings)
      BY <1>1, <1>3, ApartIsSmall DEF IInv, SeenOK
    <2>3. Cardinality(write[w].seen) \in Nat /\ Cardinality(Bookings) \in Nat
      BY <1>1, ReadingsAreFinite, FS_CardinalityType, RatingAssumption
    <2> QED BY <2>1, <2>2, <2>3, RatingAssumption DEF CountsEachLessonOnce
  <1> QED BY <1>2, <1>4, <1>5, <1>6 DEF IInv

LEMMA StepInv ==
  ASSUME IInv, [Next]_vars
  PROVE  IInv'
  <1>1. CASE UNCHANGED vars
    <2>1. RowsInv'
      BY <1>1 DEF IInv, RowsInv, TypeOK, OwnOK, LocksOK, BookingOK, Taken, Standing, Holds, vars
    <2>2. \A v \in Writers : SeenOK(v)'
      BY <1>1, <2>1, Untouched DEF vars
    <2> QED BY <1>1, <2>1, <2>2 DEF IInv, ExactUnlessOvertaken, CountsEachLessonOnce, vars
  <1>2. CASE Next
    <2>1. PICK w \in Writers :
            \/ \E b \in Bookings, s \in Stars : Insert(w, b, s)
            \/ \E k \in DOMAIN reviews, to \in {"visible", "hidden", "removed"} : Find(w, k, to)
            \/ Change(w) \/ Read(w) \/ Store(w) \/ Rollback(w)
      BY <1>2 DEF Next
    <2>2. RowsInv /\ write \in [Writers -> Transaction]
      BY DEF IInv, RowsInv, TypeOK
    <2>3. ASSUME NEW b \in Bookings, NEW s \in Stars, Insert(w, b, s) PROVE IInv'
      BY <2>3, InsertSeen
    <2>4. ASSUME NEW k \in DOMAIN reviews, NEW to \in {"visible", "hidden", "removed"}, Find(w, k, to)
          PROVE  IInv'
      <3>1. RowsInv'
        BY <2>2, <2>4, FindRows
      <3>2. write'[w].pc # "read" /\ \A v \in Writers : v # w => write'[v] = write[v]
        BY <2>2, <2>4 DEF Find, At
      <3> QED BY <2>4, <3>1, <3>2, OtherSeen DEF Find
    <2>5. CASE Change(w)
      <3>1. RowsInv'
        BY <2>2, <2>5, ChangeRows
      <3>2. write'[w].pc # "read" /\ \A v \in Writers : v # w => write'[v] = write[v]
        BY <2>2, <2>5 DEF Change, Transaction
      <3> QED BY <2>5, <3>1, <3>2, OtherSeen DEF Change
    <2>6. CASE Rollback(w)
      <3>1. RowsInv'
        BY <2>2, <2>6, RollbackRows
      <3>2. write'[w].pc # "read" /\ \A v \in Writers : v # w => write'[v] = write[v]
        BY <2>2, <2>6 DEF Rollback, Idle, At
      <3> QED BY <2>6, <3>1, <3>2, OtherSeen DEF Rollback
    <2> QED BY <2>1, <2>3, <2>4, <2>5, <2>6, ReadSeen, StoreSeen
  <1> QED BY <1>1, <1>2

LEMMA Invariance == Spec => []IInv
  <1> QED BY InitInv, StepInv, PTL DEF Spec
-----------------------------------------------------------------------------
\* Types: the rating is one, whatever readings it comes from.
THEOREM TypeCorrect == Spec => []TypeOK
  <1>1. IInv => TypeOK
    BY DEF IInv, RowsInv
  <1> QED BY <1>1, Invariance, PTL

\* Create under reviews_booking_uniq: a lesson has one review.
THEOREM OneReviewHolds == Spec => []OneReviewPerBooking
  <1>1. IInv => OneReviewPerBooking
    BY DEF IInv, RowsInv, BookingOK, Taken, OneReviewPerBooking
  <1> QED BY <1>1, Invariance, PTL

\* RecomputeTeacherRating: the cache is exact unless its reading was overtaken.
THEOREM ExactHolds == Spec => []ExactUnlessOvertaken
  <1>1. IInv => ExactUnlessOvertaken
    BY DEF IInv
  <1> QED BY <1>1, Invariance, PTL

\* RecomputeTeacherRating: even an overtaken reading counts no lesson twice.
THEOREM CountsOnceHolds == Spec => []CountsEachLessonOnce
  <1>1. IInv => CountsEachLessonOnce
    BY DEF IInv
  <1> QED BY <1>1, Invariance, PTL

\* RemoveReview against Hide and Unhide: a removed review does not return.
THEOREM RemovedHolds == Spec => RemovedStaysRemoved
  <1>1. ASSUME IInv, [Next]_vars
        PROVE  [\A k \in DOMAIN reviews : reviews[k].state = "removed" => reviews'[k].state = "removed"]_vars
    <2> SUFFICES ASSUME NEW k \in DOMAIN reviews, reviews[k].state = "removed", Next
                 PROVE  reviews'[k].state = "removed"
      BY <1>1
    <2>1. DOMAIN reviews = 1..Len(reviews) /\ reviews \in Seq(Review)
      BY <1>1, Rows DEF IInv, RowsInv, TypeOK
    <2>2. PICK w \in Writers :
            \/ \E b \in Bookings, s \in Stars : Insert(w, b, s)
            \/ Store(w)
            \/ UNCHANGED reviews
      BY DEF Next, Find, Change, Read, Rollback
    <2>3. ASSUME NEW b \in Bookings, NEW s \in Stars, Insert(w, b, s) PROVE reviews'[k] = reviews[k]
      BY <1>1, <2>1, <2>3, InsertRows DEF IInv
    <2>4. CASE Store(w)
      <3>1. ~Holds(w, k) /\ write[w].pc = "read"
        BY <1>1, <2>4 DEF IInv, RowsInv, OwnOK, Store
      <3> QED BY <2>4, <3>1 DEF Store, With, Holds
    <2> QED BY <2>2, <2>3, <2>4
  <1> QED BY <1>1, Invariance, PTL DEF Spec, RemovedStaysRemoved
==============================================================================
