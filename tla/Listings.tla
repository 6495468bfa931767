------------------------------- MODULE Listings -------------------------------
(***************************************************************************)
(* The paged lists of the API and a client that walks one of them.  Every  *)
(* list answers a page in two statements: a SELECT with LIMIT and OFFSET,  *)
(* and a count for which the filter is written out a second time.  Other   *)
(* requests write between the statements and between the pages.            *)
(*                                                                         *)
(* A row has the columns its list filters and sorts by.  mark stands for   *)
(* created_at, or for start_at in the list of bookings: a transaction has  *)
(* the time it began, so rows do not arrive in the order of their marks    *)
(* and may have equal ones.  q says whether the row matches the search     *)
(* text of the walk, wherever the query looks for it.                      *)
(***************************************************************************)
EXTENDS Integers, Sequences, FiniteSets, Functions

CONSTANTS
  Ids,           \* bound: the primary keys of a table, numbers for their order
  Cases,         \* the walks: a list, the filter sent, the rows its table may hold
  Asked,         \* values of page_size, 0 when it is not sent
  DefaultSize, MaxSize,
  MaxWrites,     \* bound: writes by other requests during the walk
  MaxPage        \* bound: the last page a client asks for

VARIABLES
  table,         \* the rows, NoRow where an id is not in use
  walk,          \* the client: where it is, the page last read, all it has shown
  writes,        \* how many other requests have written during the walk
  stayed,        \* ids that were in the list all along
  gone, came     \* how often a row left the list, came to it (a move is both)

listVars == <<table, walk, writes, stayed, gone, came>>

NoRow == [none |-> TRUE]
Rows == {i \in Ids : table[i] # NoRow}

\* normalizePage: the limit and the offset of a page.
NormalizePage(page, size) ==
  LET limit == IF size <= 0 THEN DefaultSize ELSE IF size > MaxSize THEN MaxSize ELSE size
  IN [limit |-> limit, offset |-> ((IF page < 1 THEN 1 ELSE page) - 1) * limit]
-----------------------------------------------------------------------------
(* The order of a list.  Each one ends in the id.                            *)

NewestFirst(i, j) ==
  \/ table[i].mark > table[j].mark
  \/ table[i].mark = table[j].mark /\ i < j

NewestReviewFirst(i, j) ==
  \/ table[i].mark > table[j].mark
  \/ table[i].mark = table[j].mark /\ i > j

\* The CASE expressions of ORDER BY: a sort not asked for is NULL in every row.
SortKeys(r, sort) ==
  <<IF sort = "recommended" THEN r.accepting ELSE 0,
    IF sort \in {"recommended", "rating_desc"} THEN r.rating ELSE 0,
    CASE sort = "price_asc" -> -r.price [] sort = "price_desc" -> r.price [] OTHER -> 0,
    r.reviews>>

\* Mutant: the search without the id at the end of its ORDER BY.
SearchBeforeUntied(i, j) ==
  LET a == SortKeys(table[i], walk.filter.sort)
      b == SortKeys(table[j], walk.filter.sort)
  IN \E n \in DOMAIN a : a[n] > b[n] /\ \A m \in 1..(n - 1) : a[m] = b[m]

SearchBefore(i, j) ==
  LET a == SortKeys(table[i], walk.filter.sort)
      b == SortKeys(table[j], walk.filter.sort)
  IN \/ \E n \in DOMAIN a : a[n] > b[n] /\ \A m \in 1..(n - 1) : a[m] = b[m]
     \/ a = b /\ i < j
-----------------------------------------------------------------------------
(* The filters: what the handler and the service make of what was sent, and  *)
(* the WHERE of the SELECT and of the count.  "" is a filter not sent.       *)

Statuses == {"pending", "approved", "rejected", "suspended"}
BookingStatuses == {"pending_payment", "confirmed", "completed", "cancelled"}

Is(value, filter) == filter = "" \/ value = filter
Finds(r, f) == f.q => r.q

UsersFilters == [q : BOOLEAN]
UsersMatch(r, f) == Finds(r, f)
UsersCounted(r, f) == Finds(r, f)

TeachersFilters == [status : {""} \cup Statuses, q : BOOLEAN]
TeachersMatch(r, f) == Is(r.status, f.status) /\ Finds(r, f)
TeachersCounted(r, f) == Is(r.status, f.status) /\ Finds(r, f)

BookingsFilters == [status : {""} \cup BookingStatuses, q : BOOLEAN]
BookingsMatch(r, f) == Is(r.status, f.status) /\ Finds(r, f)
BookingsCounted(r, f) == Is(r.status, f.status) /\ Finds(r, f)

\* ListQueue: the queue is that of the open disputes unless it is asked for "all".
DisputesFilters == [status : {"", "open", "resolved", "rejected", "all"}]
QueueStatus(f) == CASE f.status = "" -> "open" [] f.status = "all" -> "" [] OTHER -> f.status
DisputesMatch(r, f) == Is(r.status, QueueStatus(f))
DisputesCounted(r, f) == Is(r.status, QueueStatus(f))

ReviewsFilters == {[public |-> TRUE]}
ReviewsMatch(r, f) == ~r.hidden
ReviewsCounted(r, f) == ~r.hidden

ModerationFilters == [visibility : {"", "visible", "hidden"}, maxRating : 0..5, q : BOOLEAN]
ModerationMatch(r, f) ==
  /\ Is(IF r.hidden THEN "hidden" ELSE "visible", f.visibility)
  /\ f.maxRating # 0 => r.rating <= f.maxRating
  /\ Finds(r, f)
ModerationCounted(r, f) ==
  /\ f.visibility = "visible" => ~r.hidden
  /\ f.visibility = "hidden" => r.hidden
  /\ f.maxRating = 0 \/ r.rating <= f.maxRating
  /\ Finds(r, f)

BatchesFilters == {[all |-> TRUE]}
BatchesMatch(r, f) == TRUE
BatchesCounted(r, f) == TRUE

ResourcesFilters ==
  [type : {"", "quiz", "reading"}, status : {"", "draft", "published"}, archived : BOOLEAN]
ResourcesMatch(r, f) ==
  Is(r.type, f.type) /\ Is(r.status, f.status) /\ (f.archived \/ ~r.archived)
ResourcesCounted(r, f) ==
  Is(r.type, f.type) /\ Is(r.status, f.status) /\ (r.archived => f.archived)

\* normalized: a sort not known is "recommended", a negative ceiling is none.  q stands
\* for the kind, the language and the text together: nothing changes one but an edit.
SearchFilters ==
  [sort : {"recommended", "rating_desc", "price_asc", "price_desc"}, maxPrice : Int, q : BOOLEAN]
UnderCeiling(r, f) == f.maxPrice >= 0 => r.price <= f.maxPrice
SearchMatch(r, f) == r.status = "approved" /\ UnderCeiling(r, f) /\ Finds(r, f)
SearchCounted(r, f) == r.status = "approved" /\ UnderCeiling(r, f) /\ Finds(r, f)
-----------------------------------------------------------------------------
(* What other requests do to a row, by the list that shows it.               *)

UsersAfter(r) == {[r EXCEPT !.q = ~@]}

\* Decisions of moderators, by id whatever was read; owners' edits change what q finds.
TeachersAfter(r) ==
  {[r EXCEPT !.status = s] : s \in Statuses \ {"pending"}} \cup {[r EXCEPT !.q = ~@]}

BookingsAfter(r) ==
  {[r EXCEPT !.status = s] :
     s \in CASE r.status = "pending_payment" -> {"confirmed", "cancelled"}
             [] r.status = "confirmed" -> {"completed", "cancelled"}
             [] OTHER -> {}}

DisputesAfter(r) ==
  IF r.status = "open" THEN {[r EXCEPT !.status = s] : s \in {"resolved", "rejected"}} ELSE {}

ReviewsAfter(r) == {[r EXCEPT !.hidden = ~@]}

ResourcesAfter(r) ==
  {[r EXCEPT !.status = s] : s \in {"draft", "published"}} \cup {[r EXCEPT !.archived = ~@]}

\* A decision, an edit of the price, a rating computed anew.
SearchAfter(r) ==
  {[r EXCEPT !.status = s] : s \in {"approved", "suspended"}}
  \cup {[r EXCEPT !.price = p] : p \in 1..2}
  \cup {[r EXCEPT !.rating = p[1], !.reviews = p[2]] : p \in (1..2) \X (0..1)}

\* A row may be written as it is stored: with the state it begins in.
Begins(r) ==
  /\ "status" \in DOMAIN r => r.status \in {"pending", "pending_payment", "open", "draft", "published"}
  /\ "hidden" \in DOMAIN r => ~r.hidden
  /\ "archived" \in DOMAIN r => ~r.archived

Deletes(list) == list \in {"reviews", "moderation", "resources"}
-----------------------------------------------------------------------------
Filters(list) ==
  CASE list = "users" -> UsersFilters [] list = "teachers" -> TeachersFilters
    [] list = "bookings" -> BookingsFilters [] list = "disputes" -> DisputesFilters
    [] list = "reviews" -> ReviewsFilters [] list = "moderation" -> ModerationFilters
    [] list = "batches" -> BatchesFilters [] list = "resources" -> ResourcesFilters
    [] list = "search" -> SearchFilters

Match(r, f) ==
  CASE walk.list = "users" -> UsersMatch(r, f) [] walk.list = "teachers" -> TeachersMatch(r, f)
    [] walk.list = "bookings" -> BookingsMatch(r, f) [] walk.list = "disputes" -> DisputesMatch(r, f)
    [] walk.list = "reviews" -> ReviewsMatch(r, f) [] walk.list = "moderation" -> ModerationMatch(r, f)
    [] walk.list = "batches" -> BatchesMatch(r, f) [] walk.list = "resources" -> ResourcesMatch(r, f)
    [] walk.list = "search" -> SearchMatch(r, f)

Counted(r, f) ==
  CASE walk.list = "users" -> UsersCounted(r, f) [] walk.list = "teachers" -> TeachersCounted(r, f)
    [] walk.list = "bookings" -> BookingsCounted(r, f)
    [] walk.list = "disputes" -> DisputesCounted(r, f)
    [] walk.list = "reviews" -> ReviewsCounted(r, f)
    [] walk.list = "moderation" -> ModerationCounted(r, f)
    [] walk.list = "batches" -> BatchesCounted(r, f)
    [] walk.list = "resources" -> ResourcesCounted(r, f) [] walk.list = "search" -> SearchCounted(r, f)

After(r) ==
  CASE walk.list = "users" -> UsersAfter(r) [] walk.list = "teachers" -> TeachersAfter(r)
    [] walk.list = "bookings" -> BookingsAfter(r) [] walk.list = "disputes" -> DisputesAfter(r)
    [] walk.list \in {"reviews", "moderation"} -> ReviewsAfter(r) [] walk.list = "batches" -> {}
    [] walk.list = "resources" -> ResourcesAfter(r) [] walk.list = "search" -> SearchAfter(r)

Before(i, j) ==
  CASE walk.list = "search" -> SearchBefore(i, j)
    [] walk.list \in {"reviews", "moderation"} -> NewestReviewFirst(i, j)
    [] OTHER -> NewestFirst(i, j)

Listed == {i \in Rows : Match(table[i], walk.filter)}

Lists == {"users", "teachers", "bookings", "disputes", "reviews", "moderation", "batches",
          "resources", "search"}

\* The columns a list filters and sorts by.
RowsOf(list) ==
  CASE list = "users" -> [mark : Int, q : BOOLEAN]
    [] list = "teachers" -> [mark : Int, status : Statuses, q : BOOLEAN]
    [] list = "bookings" -> [mark : Int, status : BookingStatuses, q : BOOLEAN]
    [] list = "disputes" -> [mark : Int, status : {"open", "resolved", "rejected"}]
    [] list = "reviews" -> [mark : Int, hidden : BOOLEAN]
    [] list = "moderation" -> [mark : Int, hidden : BOOLEAN, rating : 1..5, q : BOOLEAN]
    [] list = "batches" -> [mark : Int]
    [] list = "resources" -> [mark : Int, type : {"quiz", "reading"}, status : {"draft", "published"},
                              archived : BOOLEAN]
    [] list = "search" -> [status : Statuses, accepting : 0..1, rating : Int, price : Int,
                           reviews : Int, q : BOOLEAN]

ASSUME CasesAssumption ==
  /\ Ids \subseteq Nat /\ IsFiniteSet(Ids) /\ MaxWrites \in Nat /\ MaxPage \in Nat
  /\ Asked \subseteq Int /\ MaxSize \in Nat /\ DefaultSize \in 1..MaxSize
  /\ \A c \in Cases : c.list \in Lists /\ c.filter \in Filters(c.list) /\ c.rows \subseteq RowsOf(c.list)

\* The profile page shows more reviews below those it has; all other pages are turned.
ClientsOf(list) == IF list = "reviews" THEN {"more", "pager"} ELSE {"pager"}

ListsInit ==
  /\ \E c \in Cases, ask \in Asked : \E client \in ClientsOf(c.list) :
       /\ table \in [Ids -> c.rows \cup {NoRow}]
       /\ walk = [list |-> c.list, filter |-> c.filter, client |-> client, ask |-> ask,
                  page |-> 1, pc |-> "rows", rows |-> <<>>, shown |-> <<>>]
  /\ writes = 0 /\ stayed = Listed /\ gone = 0 /\ came = 0
-----------------------------------------------------------------------------
(* The two statements of a page.                                             *)

\* What ORDER BY may make of a set of rows.
Sorted(S) ==
  {s \in [1..Cardinality(S) -> S] :
     \A n, m \in DOMAIN s : n < m => s[n] # s[m] /\ ~Before(s[m], s[n])}

\* LIMIT and OFFSET.
PageOf(s, p) ==
  LET last == p.offset + p.limit
  IN SubSeq(s, p.offset + 1, IF last < Len(s) THEN last ELSE Len(s))

ReadRows(list) ==
  /\ walk.pc = "rows" /\ walk.list = list /\ walk.page <= MaxPage
  /\ \E s \in Sorted(Listed) :
       walk' = [walk EXCEPT !.pc = "count", !.rows = PageOf(s, NormalizePage(walk.page, walk.ask))]
  /\ UNCHANGED <<table, writes, stayed, gone, came>>

\* The answer: the client goes on while the total says that there is more.
GoesOn(shown, total) ==
  IF walk.client = "more" THEN Len(shown) < total
  ELSE walk.page * NormalizePage(1, walk.ask).limit < total

CountRows(list) ==
  /\ walk.pc = "count" /\ walk.list = list
  /\ LET total == Cardinality({i \in Rows : Counted(table[i], walk.filter)})
         shown == walk.shown \o walk.rows
         on == GoesOn(shown, total)
     IN walk' = [walk EXCEPT !.pc = IF on THEN "rows" ELSE "end", !.page = IF on THEN @ + 1 ELSE @,
                             !.rows = <<>>, !.shown = shown]
  /\ UNCHANGED <<table, writes, stayed, gone, came>>

\* A statement fails, the teacher is no longer public, or the client goes away.
WalkFails ==
  /\ walk.pc \in {"rows", "count"}
  /\ walk' = [walk EXCEPT !.pc = "failed"]
  /\ UNCHANGED <<table, writes, stayed, gone, came>>

ListUsers == ReadRows("users")
ListTeachers == ReadRows("teachers")
ListBookings == ReadRows("bookings")
ListQueue == ReadRows("disputes")
ListByTeacher == ReadRows("reviews")
ListForModeration == ReadRows("moderation")
ListBatches == ReadRows("batches")
ListResources == ReadRows("resources")
SearchTeachers == ReadRows("search")

CountUsers == CountRows("users")
CountTeachers == CountRows("teachers")
CountBookings == CountRows("bookings")
CountDisputes == CountRows("disputes")
CountTeacherReviews == CountRows("reviews")
CountReviews == CountRows("moderation")
CountBatches == CountRows("batches")
CountResources == CountRows("resources")
CountSearch == CountRows("search")
-----------------------------------------------------------------------------
(* Other requests, between any two statements.                               *)

Write(i, r) ==
  /\ walk.pc \in {"rows", "count"} /\ writes < MaxWrites
  /\ table' = [table EXCEPT ![i] = r] /\ writes' = writes + 1 /\ UNCHANGED walk
  /\ LET was == i \in Listed
         is == i \in Listed'
         moved == was /\ is /\ \E j \in Listed \ {i} : Before(i, j) # Before(i, j)'
     IN /\ gone' = IF was /\ (~is \/ moved) THEN gone + 1 ELSE gone
        /\ came' = IF is /\ (~was \/ moved) THEN came + 1 ELSE came
        /\ stayed' = stayed \cap Listed'

InsertRow == \E i \in Ids \ Rows, c \in Cases :
  c.list = walk.list /\ \E r \in c.rows : Begins(r) /\ Write(i, r)

ChangeRow == \E i \in Rows : \E r \in After(table[i]) \ {table[i]} : Write(i, r)

DeleteRow == Deletes(walk.list) /\ \E i \in Rows : Write(i, NoRow)

ListsNext ==
  \/ ListUsers \/ ListTeachers \/ ListBookings \/ ListQueue \/ ListByTeacher
  \/ ListForModeration \/ ListBatches \/ ListResources \/ SearchTeachers
  \/ CountUsers \/ CountTeachers \/ CountBookings \/ CountDisputes \/ CountTeacherReviews
  \/ CountReviews \/ CountBatches \/ CountResources \/ CountSearch
  \/ WalkFails \/ InsertRow \/ ChangeRow \/ DeleteRow

ListsSpec == ListsInit /\ [][ListsNext]_listVars
-----------------------------------------------------------------------------
\* List and count of every list: a walk from the first page to the last shows each row
\* that was in the list all along, once - but for one row missed for each that left the
\* list (or its place in it) meanwhile, and one shown again for each that came.  In a list
\* nobody writes to, the two filters agree and ties have an order, so nothing slips.
WalkShowsTheList ==
  walk.pc = "end" =>
    /\ Cardinality(stayed \ Range(walk.shown)) <= gone
    /\ Len(walk.shown) - Cardinality(Range(walk.shown)) <= came
=============================================================================
