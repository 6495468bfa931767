------------------------------ MODULE PageOffers ------------------------------
(***************************************************************************)
(* The page of one lesson and its buttons.  The API reads a lesson in      *)
(* several statements, answers what the viewer may do with it, and decides *)
(* again, with other code, when the button is pressed.  In between others  *)
(* write, time passes, and a lookup that fails counts as nothing found.    *)
(*                                                                         *)
(* Pay, complete, no-show and cancel go through the payment: the service   *)
(* refuses some states of it, and the provider some requests.  LessonMoney *)
(* has the order of those steps; here the refund of a cancel is one step   *)
(* with its status, and the provider is not restarted.  The browser's      *)
(* clock is the server's.                                                  *)
(***************************************************************************)
EXTENDS Naturals

CONSTANT MaxOthers   \* bound: writes by other requests

VARIABLES
  lesson,        \* the rows of the lesson: booking, payment, review, dispute; its time
  page,          \* what the page has read, and how far it is
  click,         \* the button pressed last; why, money: what its answer can be put down to
  others,        \* how many other requests have written
  changed,       \* the lesson has changed since the page began to read it
  blind          \* a lookup of the page failed

offerVars == <<lesson, page, click, others, changed, blind>>

Viewers == {"student", "teacher", "operator"}
Acts == {"pay", "complete", "noshow_student", "noshow_teacher", "cancel", "link", "review",
         "dispute", "force_cancel"}
Links == {"", "own"}
LessonStatuses == {"pending_payment", "confirmed", "completed", "cancelled"}
Monies == {"none", "requires_payment", "failed", "authorized", "captured", "refunded"}

Cancellable(status) == status \in {"pending_payment", "confirmed"}
Held(status) == status \in {"confirmed", "completed"}

\* What a lesson of some status may have in payments: no row when InitiatePayment failed, a
\* declined retry over a hold, a refund by a dispute.  Only a hold confirms.
MoneyOf(status) ==
  CASE status = "pending_payment" -> {"none", "requires_payment", "failed"}
    [] status = "cancelled" -> Monies
    [] OTHER -> {"failed", "authorized", "captured", "refunded"}

\* EffectiveMeetingURL and meetingURLFor: the link of the lesson, or the room of the
\* teacher, for the participants of a lesson that is paid for.
EffectiveLink == IF lesson.link = "" THEN "room" ELSE lesson.link
MeetingURLFor == IF Held(lesson.status) THEN EffectiveLink ELSE ""

\* time: 0 before the start of the lesson, 1 after it, 2 after its end.
OffersInit ==
  /\ lesson \in [status : LessonStatuses, money : Monies, review : {"none", "visible", "hidden"},
                 open : BOOLEAN, link : Links, time : 0..2]
  /\ lesson.money \in MoneyOf(lesson.status)
  /\ lesson.review # "none" => lesson.status = "completed"
  /\ lesson.status = "completed" => lesson.time > 0
  /\ lesson.status = "pending_payment" => ~lesson.open
  /\ page = [pc |-> "closed"] /\ click = [pc |-> "idle"]
  /\ others = 0 /\ changed = FALSE /\ blind = FALSE
-----------------------------------------------------------------------------
(* The page is read.                                                         *)

Waiting == click.pc \in {"idle", "done", "refused", "declined", "failed"}

ReadRow(viewer, link, pc) ==
  /\ page.pc \in {"closed", "shown"} /\ Waiting
  /\ page' = [viewer |-> viewer, pc |-> pc, status |-> lesson.status, time |-> lesson.time,
              link |-> link, reviewed |-> FALSE, open |-> FALSE]
  /\ click' = [pc |-> "idle"] /\ changed' = FALSE /\ blind' = FALSE
  /\ UNCHANGED <<lesson, others>>

\* Get, and List for each lesson: only a state that allows the extra has it looked up.
GetBooking(viewer) ==
  ReadRow(viewer, MeetingURLFor,
          CASE lesson.status = "completed" -> "review"
            [] lesson.status = "pending_payment" -> "shown"
            [] OTHER -> "dispute")

GetBookingDetail == ReadRow("operator", EffectiveLink, "thread")

\* Mutant: the lookup leaves out the reviews a moderator has hidden.
ReviewVisibleFor ==
  /\ page.pc = "review"
  /\ \/ /\ page' = [page EXCEPT !.pc = "dispute", !.reviewed = lesson.review = "visible"]
        /\ UNCHANGED blind
     \/ page' = [page EXCEPT !.pc = "dispute"] /\ blind' = TRUE
  /\ UNCHANGED <<lesson, click, others, changed>>

ReviewFor ==
  /\ page.pc = "review"
  /\ \/ /\ page' = [page EXCEPT !.pc = "dispute", !.reviewed = lesson.review # "none"]
        /\ UNCHANGED blind
     \/ page' = [page EXCEPT !.pc = "dispute"] /\ blind' = TRUE
  /\ UNCHANGED <<lesson, click, others, changed>>

OpenDisputeFor ==
  /\ page.pc = "dispute"
  /\ \/ page' = [page EXCEPT !.pc = "shown", !.open = lesson.open] /\ UNCHANGED blind
     \/ page' = [page EXCEPT !.pc = "shown"] /\ blind' = TRUE
  /\ UNCHANGED <<lesson, click, others, changed>>

\* The operator's page reads the thread of disputes; without it there is no page.
ListBookingDisputes ==
  /\ page.pc = "thread"
  /\ page' \in {[page EXCEPT !.pc = "shown", !.open = lesson.open], [pc |-> "closed"]}
  /\ UNCHANGED <<lesson, click, others, changed, blind>>

\* withReview and withDispute, and the conditions of the pages' buttons.
CanReview == page.viewer = "student" /\ page.status = "completed" /\ ~page.reviewed
CanRaiseDispute == page.viewer # "operator" /\ Held(page.status) /\ ~page.open

OfferedToParticipant(a) ==
  \/ a = "pay" /\ page.viewer = "student" /\ page.status = "pending_payment"
  \/ a = "complete" /\ page.viewer = "teacher" /\ page.status = "confirmed" /\ page.time > 1
  \/ /\ a \in {"noshow_student", "noshow_teacher"}
     /\ page.viewer = "teacher" /\ page.status = "confirmed" /\ page.time > 0
  \/ a = "cancel" /\ page.viewer # "operator" /\ Cancellable(page.status)
  \/ a = "link" /\ page.viewer = "teacher" /\ Cancellable(page.status)
  \/ a = "review" /\ CanReview
  \/ a = "dispute" /\ CanRaiseDispute

\* The operator's page sends to the queue of disputes for what is open.
OfferedToOperator(a) ==
  a = "force_cancel" /\ page.viewer = "operator" /\ Cancellable(page.status)

Offered(a) == OfferedToParticipant(a) \/ OfferedToOperator(a)
-----------------------------------------------------------------------------
(* A button is pressed, or the request of one that is not there is sent.     *)

Click(a) ==
  /\ page.pc = "shown" /\ Waiting
  /\ click' = [pc |-> "check", act |-> a, offered |-> Offered(a), why |-> FALSE, money |-> lesson.money]
  /\ UNCHANGED <<lesson, page, others, changed, blind>>

Goes(pc) == click' = [click EXCEPT !.pc = pc]

\* What came between the page and the answer, before this request itself writes.
Answers(pc) ==
  click' = [click EXCEPT !.pc = pc, !.why = changed \/ blind, !.money = lesson.money]

Writes(row) == lesson' = row /\ changed' = TRUE /\ Answers("done")

\* What the handler and the service check of the row they read.
Passes(a) ==
  \/ a = "pay" /\ page.viewer = "student" /\ lesson.status = "pending_payment"
  \/ a = "complete" /\ page.viewer = "teacher" /\ lesson.status = "confirmed" /\ lesson.time > 1
  \/ /\ a \in {"noshow_student", "noshow_teacher"}
     /\ page.viewer = "teacher" /\ lesson.status = "confirmed" /\ lesson.time > 0
  \/ a = "cancel" /\ page.viewer # "operator" /\ Cancellable(lesson.status)
  \/ a = "link" /\ page.viewer = "teacher"
  \/ a = "review" /\ page.viewer = "student" /\ lesson.status = "completed"
  \/ a = "dispute" /\ page.viewer # "operator" /\ Held(lesson.status)
  \/ a = "force_cancel" /\ page.viewer = "operator" /\ Cancellable(lesson.status)

Captures(a) == a \in {"complete", "noshow_student"}

\* A force-cancel is checked by the admin service and again by the bookings service.
CheckRequest ==
  /\ click.pc \in {"check", "again"}
  /\ IF ~Passes(click.act) THEN Answers("refused")
     ELSE Goes(CASE click.act = "force_cancel" /\ click.pc = "check" -> "again"
                 [] click.act = "pay" \/ Captures(click.act) -> "payment"
                 [] OTHER -> "act")
  /\ UNCHANGED <<lesson, page, others, changed, blind>>

\* Authorize and Capture read the payment: ErrPaymentNotFound, ErrAlreadyPaid and
\* ErrNotPayable refuse the request.
ReadPayment ==
  /\ click.pc = "payment"
  /\ CASE click.act = "pay" /\ lesson.money \in {"requires_payment", "failed"} -> Goes("provider")
       [] Captures(click.act) /\ lesson.money = "authorized" -> Goes("provider")
       [] Captures(click.act) /\ lesson.money = "captured" -> Goes("act")
       [] OTHER -> Answers("refused")
  /\ UNCHANGED <<lesson, page, others, changed, blind>>

\* The hold is placed: the webhook confirms only a lesson that waits for its payment.
Confirm ==
  /\ click.act = "pay"
  /\ Writes([lesson EXCEPT !.money = "authorized",
                           !.status = IF @ = "pending_payment" THEN "confirmed" ELSE @])

\* A decline is recorded; the answer is 402.
Declines ==
  /\ click.act = "pay" /\ Answers("declined")
  /\ lesson' = [lesson EXCEPT !.money = "failed"] /\ UNCHANGED changed

\* The provider settles the hold, or the answer is ErrCaptureFailed.  The page shows no less
\* for it: its buttons hang on the status.
CaptureHold ==
  /\ Captures(click.act)
  /\ \/ Goes("act") /\ lesson' = [lesson EXCEPT !.money = "captured"]
     \/ Answers("declined") /\ UNCHANGED lesson
  /\ UNCHANGED changed

AskProvider ==
  /\ click.pc = "provider"
  /\ Confirm \/ Declines \/ CaptureHold
  /\ UNCHANGED <<page, others, blind>>

\* Refund voids what was never held and releases the rest.
Released(money) ==
  CASE money \in {"requires_payment", "failed"} -> "failed"
    [] money \in {"authorized", "captured"} -> "refunded"
    [] OTHER -> money

\* SetBookingStatus and CancelBooking do not look at the status they replace.  A refund that
\* fails is logged only, and a force-cancel need not ask for one.
SetStatus ==
  \/ Captures(click.act) /\ Writes([lesson EXCEPT !.status = "completed"])
  \/ /\ click.act \in {"cancel", "noshow_teacher", "force_cancel"}
     /\ \E money \in {lesson.money, Released(lesson.money)} :
          Writes([lesson EXCEPT !.status = "cancelled", !.money = money])

SetMeetingLink == click.act = "link" /\ \E link \in Links : Writes([lesson EXCEPT !.link = link])

\* reviews_booking_uniq: also a hidden review is the one of its lesson.
CreateReview ==
  /\ click.act = "review"
  /\ IF lesson.review = "none" THEN Writes([lesson EXCEPT !.review = "visible"])
     ELSE Answers("refused") /\ UNCHANGED <<lesson, changed>>

\* disputes_one_open_per_booking.
CreateDispute ==
  /\ click.act = "dispute"
  /\ IF ~lesson.open THEN Writes([lesson EXCEPT !.open = TRUE])
     ELSE Answers("refused") /\ UNCHANGED <<lesson, changed>>

Act ==
  /\ click.pc = "act"
  /\ SetStatus \/ SetMeetingLink \/ CreateReview \/ CreateDispute
  /\ UNCHANGED <<page, others, blind>>

\* The database or the connection fails: the request ends where it is, with a 500 or no answer.
Breaks ==
  /\ click.pc \in {"check", "again", "payment", "provider", "act"} /\ Goes("failed")
  /\ UNCHANGED <<lesson, page, others, changed, blind>>
-----------------------------------------------------------------------------
(* Other requests: they too checked rows that have changed since.            *)

\* A complete that overlaps a cancel brings back a lesson that had been paid for.
LaterStatuses ==
  {lesson.status} \cup
    (CASE lesson.status = "pending_payment" -> {"confirmed", "cancelled"}
       [] lesson.status = "cancelled" -> {}
       [] OTHER -> {"cancelled"})
    \cup (IF lesson.time > 0 /\ lesson.money \in MoneyOf("confirmed") THEN {"completed"} ELSE {})

\* An intent is opened once; everything else is an event of the provider or a void.
LaterMonies ==
  {lesson.money} \cup MoneyOf("confirmed")
    \cup (IF lesson.money = "none" THEN {"requires_payment"} ELSE {})

MovesOn ==
  \E s \in LaterStatuses, m \in LaterMonies :
    m \in MoneyOf(s) /\ lesson' = [lesson EXCEPT !.status = s, !.money = m]

Reviewed ==
  \E v \in {"none", "visible", "hidden"} :
    /\ lesson.review = "none" => v = "visible" /\ lesson.status = "completed"
    /\ lesson' = [lesson EXCEPT !.review = v]

Disputed ==
  /\ lesson.open \/ lesson.status # "pending_payment"
  /\ lesson' = [lesson EXCEPT !.open = ~@]

Linked == lesson' = [lesson EXCEPT !.link = "own"]

OtherRequest ==
  /\ others < MaxOthers /\ others' = others + 1 /\ changed' = TRUE
  /\ MovesOn \/ Reviewed \/ Disputed \/ Linked
  /\ lesson' # lesson
  /\ UNCHANGED <<page, click, blind>>

TimePasses ==
  /\ lesson.time < 2 /\ lesson' = [lesson EXCEPT !.time = @ + 1] /\ changed' = TRUE
  /\ UNCHANGED <<page, click, others, blind>>

OffersNext ==
  \/ \E viewer \in {"student", "teacher"} : GetBooking(viewer)
  \/ GetBookingDetail \/ ReviewFor \/ OpenDisputeFor \/ ListBookingDisputes
  \/ \E a \in Acts : Click(a)
  \/ CheckRequest \/ ReadPayment \/ AskProvider \/ Act \/ Breaks
  \/ OtherRequest \/ TimePasses

OffersSpec == OffersInit /\ [][OffersNext]_offerVars
-----------------------------------------------------------------------------
\* The payment that the page does not ask about: a lesson that waits to be paid without an
\* intent, and a confirmed one whose hold is gone by a decline or a dispute's refund.
NotPayable(a, money) ==
  \/ a = "pay" /\ money = "none"
  \/ Captures(a) /\ money \in {"failed", "refunded"}

\* Get, List and GetBookingDetail against the handlers of the buttons: a request the page
\* offers is refused, or one it does not offer is granted, only when the lesson has changed
\* since the page began to read it, or a lookup of the page has failed; else only by the two
\* payments above.  A meeting link is saved for a lesson in any state; the page offers that
\* until the lesson is over.
OffersAreKept ==
  /\ click.pc = "refused" /\ click.offered => click.why \/ NotPayable(click.act, click.money)
  /\ click.pc = "done" /\ ~click.offered /\ click.act # "link" => click.why

\* The same without the exception of the payments: the code does not keep it.
OffersAlwaysKept == click.pc = "refused" /\ click.offered => click.why
=============================================================================
