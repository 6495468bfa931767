------------------------------- MODULE MCPages -------------------------------
(***************************************************************************)
(* Three machines that share no state, for one run of TLC: the library of  *)
(* a teacher, a walk through a paged list, the page of a lesson.  One of   *)
(* them runs, the others rest where they are.                              *)
(***************************************************************************)
EXTENDS MCLibrary, Listings, PageOffers

VARIABLE part

RestLists == walk = [pc |-> "rest"] /\ table = <<>> /\ writes = 0 /\ stayed = {} /\ gone = 0 /\ came = 0

RestOffers ==
  /\ lesson = <<>> /\ page = [pc |-> "rest"] /\ click = [pc |-> "rest"]
  /\ others = 0 /\ changed = FALSE /\ blind = FALSE

PagesInit ==
  /\ LibraryInit
  /\ \/ part = "library" /\ RestLists /\ RestOffers
     \/ part = "list" /\ ListsInit /\ RestOffers
     \/ part = "lesson" /\ RestLists /\ OffersInit

PagesNext ==
  \/ part = "library" /\ LibraryNext /\ UNCHANGED <<part, listVars, offerVars>>
  \/ part = "list" /\ ListsNext /\ UNCHANGED <<part, libraryVars, offerVars>>
  \/ part = "lesson" /\ OffersNext /\ UNCHANGED <<part, libraryVars, listVars>>

PagesSpec == PagesInit /\ [][PagesNext]_<<part, libraryVars, listVars, offerVars>>
-----------------------------------------------------------------------------
(* The walks: every list, with and without its filters, over rows that tie,  *)
(* rows that match and rows that do not.                                     *)

Walks(list, filters, rows) == {[list |-> list, filter |-> f, rows |-> rows] : f \in filters}

StatusRows(matching, other) ==
  {[mark |-> 1, status |-> matching, q |-> TRUE], [mark |-> 2, status |-> matching, q |-> TRUE],
   [mark |-> 1, status |-> other, q |-> FALSE]}

ResourceRow(mark, type, status, archived) ==
  [mark |-> mark, type |-> type, status |-> status, archived |-> archived]

TeacherRow(status, accepting, rating, price, reviews) ==
  [status |-> status, accepting |-> accepting, rating |-> rating, price |-> price,
   reviews |-> reviews, q |-> TRUE]

WalksChecked == UNION {
  Walks("users", [q : BOOLEAN], {[mark |-> 1, q |-> TRUE], [mark |-> 2, q |-> TRUE], [mark |-> 1, q |-> FALSE]}),
  Walks("teachers", {[status |-> "approved", q |-> FALSE], [status |-> "", q |-> TRUE]},
        StatusRows("approved", "pending")),
  Walks("bookings", {[status |-> "confirmed", q |-> FALSE], [status |-> "", q |-> TRUE]},
        StatusRows("confirmed", "pending_payment")),
  Walks("disputes", [status : {"", "all"}],
        {[mark |-> 1, status |-> "open"], [mark |-> 2, status |-> "open"], [mark |-> 2, status |-> "rejected"]}),
  Walks("reviews", {[public |-> TRUE]},
        {[mark |-> 1, hidden |-> FALSE], [mark |-> 2, hidden |-> FALSE], [mark |-> 1, hidden |-> TRUE]}),
  Walks("moderation", {[visibility |-> "", maxRating |-> 2, q |-> FALSE],
                       [visibility |-> "visible", maxRating |-> 0, q |-> TRUE],
                       [visibility |-> "hidden", maxRating |-> 0, q |-> FALSE]},
        {[mark |-> 1, hidden |-> FALSE, rating |-> 1, q |-> TRUE],
         [mark |-> 2, hidden |-> FALSE, rating |-> 5, q |-> TRUE],
         [mark |-> 1, hidden |-> TRUE, rating |-> 1, q |-> TRUE]}),
  Walks("batches", {[all |-> TRUE]}, [mark : {1, 2}]),
  Walks("resources", {[type |-> "quiz", status |-> "", archived |-> FALSE],
                      [type |-> "", status |-> "published", archived |-> TRUE]},
        {ResourceRow(1, "quiz", "draft", FALSE), ResourceRow(1, "quiz", "published", FALSE),
         ResourceRow(2, "reading", "published", TRUE)}),
  Walks("search", {[sort |-> "recommended", maxPrice |-> -1, q |-> FALSE],
                   [sort |-> "rating_desc", maxPrice |-> 1, q |-> TRUE],
                   [sort |-> "price_asc", maxPrice |-> -1, q |-> TRUE],
                   [sort |-> "price_desc", maxPrice |-> -1, q |-> FALSE]},
        {TeacherRow("approved", 1, 1, 1, 0), TeacherRow("approved", 0, 2, 2, 1),
         TeacherRow("suspended", 1, 2, 1, 1)})}
=============================================================================
