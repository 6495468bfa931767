----------------------------- MODULE LessonMoney -----------------------------
(***************************************************************************)
(* The booking lifecycle and the money behind it: bookings.Service,        *)
(* payments.Service, the in-process FakeProvider, the payout ledger and    *)
(* the dispute refund, as concurrent request handlers over one database.   *)
(*                                                                         *)
(* Every database statement of the code commits on its own (the pool runs  *)
(* in autocommit), except ApplyEvent and the payout run, which are         *)
(* transactions.  So one step of this module is one statement or one       *)
(* transaction, and a handler is a program counter "at" that other         *)
(* handlers interleave with.  A read that decides something is a step;     *)
(* a read that only shapes the response is left out.                       *)
(***************************************************************************)
EXTENDS Naturals, FiniteSets

CONSTANTS
  Bookings,     \* booking ids
  NoBooking,    \* not a booking: the empty entry of a request or of a ref
  Requests,     \* handler goroutines that may run at the same time
  Ops,          \* the operations callers use
  Faults,       \* what may go wrong inside a handler
  MaxRef,       \* bound: provider references one process hands out
  MaxRestarts   \* bound: restarts of the API process

OpNames == {"create", "pay", "complete", "noshow_student", "noshow_teacher",
            "cancel", "force_keep", "dispute"}

FaultNames == {"abort", "intent", "refund"}

ASSUME ConstantsAssumption ==
  /\ NoBooking \notin Bookings
  /\ Ops \subseteq OpNames
  /\ Faults \subseteq FaultNames
  /\ MaxRef \in Nat
  /\ MaxRestarts \in Nat

VARIABLES
  \* ---- the database
  status,       \* bookings.status, "none" before the row exists
  noShow,       \* bookings.no_show_party
  payment,      \* payments row of a booking: status and provider_ref
  events,       \* payment_events, with the payment each one was applied to
  ledger,       \* payout_ledger.state of a booking, "none" without a row
  cleared,      \* the row's available_at has passed
  dispute,      \* an open dispute exists for the booking
  \* ---- Redis
  reminder,     \* the booking's reminder tasks are enqueued
  \* ---- the API process
  req,          \* the handlers in flight
  seq,          \* FakeProvider.seq
  holder,       \* FakeProvider.paymentByRef
  flaky,        \* refs created with the token pm_capture_fail
  tried,        \* FakeProvider.captureTried
  restarts,     \* restarts so far
  \* ---- the clock
  phase         \* 0 before start_at, 1 before end_at, 2 after it

rows     == <<status, noShow, payment, events, ledger, cleared, dispute>>
provider == <<seq, holder, flaky, tried>>
vars     == <<rows, reminder, req, provider, restarts, phase>>

BookingStatus == {"none", "pending_payment", "confirmed", "completed", "cancelled"}
PaymentStatus == {"none", "requires_payment", "authorized", "captured", "refunded", "failed"}
LedgerState   == {"none", "held", "paid", "reversed"}
Refs          == 1..MaxRef          \* ref 0 stands for a NULL provider_ref

\* The five kinds of event the code emits.  "declined" and "voided" are both
\* of type payment.failed but have ids of their own.
ProviderEvents == {"authorized", "captured", "refunded"}
LocalEvents    == {"declined", "voided"}
Event == [type : ProviderEvents \cup LocalEvents, ref : 0..MaxRef, pay : Bookings]

Points == {"idle", "intent", "authorize", "hold", "authorized", "confirmed", "remind",
           "capture_read", "capture", "flag", "complete", "cancel",
           "refund_read", "void", "refund", "unremind"}

Request == [op : OpNames \cup {"none"}, at : Points, b : Bookings \cup {NoBooking}, ref : 0..MaxRef]

Idle == [op |-> "none", at |-> "idle", b |-> NoBooking, ref |-> 0]

Init ==
  /\ status   = [b \in Bookings |-> "none"]
  /\ noShow   = [b \in Bookings |-> "nobody"]
  /\ payment  = [b \in Bookings |-> [status |-> "none", ref |-> 0]]
  /\ events   = {}
  /\ ledger   = [b \in Bookings |-> "none"]
  /\ cleared  = [b \in Bookings |-> FALSE]
  /\ dispute  = [b \in Bookings |-> FALSE]
  /\ reminder = [b \in Bookings |-> FALSE]
  /\ req      = [r \in Requests |-> Idle]
  /\ seq      = 0
  /\ holder   = [f \in Refs |-> NoBooking]
  /\ flaky    = {}
  /\ tried    = {}
  /\ restarts = 0
  /\ phase    = [b \in Bookings |-> 0]

-----------------------------------------------------------------------------
(* Control of a handler.                                                    *)

Begin(r, op, b, point) ==
  /\ op \in Ops
  /\ req[r] = Idle
  /\ req' = [req EXCEPT ![r] = [op |-> op, at |-> point, b |-> b, ref |-> 0]]

Goto(r, point) == req' = [req EXCEPT ![r].at = point]

GotoWith(r, point, ref) == req' = [req EXCEPT ![r].at = point, ![r].ref = ref]

Finish(r) == req' = [req EXCEPT ![r] = Idle]

\* A captured no-show records who was missing before it completes the booking.
AfterCapture(r) == Goto(r, IF req[r].op = "complete" THEN "complete" ELSE "flag")

\* AdminRefund ends with the refund, a cancellation still drops the reminders.
AfterRefund(r) == IF req[r].op = "dispute" THEN Finish(r) ELSE Goto(r, "unremind")

-----------------------------------------------------------------------------
(* ApplyEvent: the webhook transaction.                                     *)

\* The primary key of payment_events is the event id alone: a provider event
\* is named after its ref, a decline or a void after its payment.
SameId(e, f) ==
  /\ e.type = f.type
  /\ IF e.type \in ProviderEvents THEN e.ref = f.ref ELSE e.pay = f.pay

\* Mutant of Seen: the event id is not unique in payment_events.
NeverSeen(e) == FALSE

Seen(e) == \E f \in events : SameId(e, f)

MarkPayment(e) ==
  payment' = CASE e.type = "authorized" ->
                    [payment EXCEPT ![e.pay] = [status |-> "authorized", ref |-> e.ref]]
               [] e.type \in LocalEvents ->
                    [payment EXCEPT ![e.pay].status = "failed"]
               [] OTHER ->
                    [payment EXCEPT ![e.pay].status = e.type]

\* Mutant of ConfirmBookingForPayment: every event of the payment confirms.
ConfirmOnAnyEvent(e) ==
  status' = IF status[e.pay] = "pending_payment" THEN [status EXCEPT ![e.pay] = "confirmed"]
              ELSE status

\* Mutant of ConfirmBookingForPayment: the status guard is dropped.
ConfirmUnguarded(e) ==
  status' = IF e.type = "authorized" THEN [status EXCEPT ![e.pay] = "confirmed"] ELSE status

\* The confirm is guarded: only a booking still pending is confirmed.
ConfirmBookingForPayment(e) ==
  status' = IF e.type = "authorized" /\ status[e.pay] = "pending_payment"
              THEN [status EXCEPT ![e.pay] = "confirmed"]
              ELSE status

\* Mutant of PostToLedger: a refund leaves the earning alone.
PostCreditsOnly(e) ==
  ledger' = IF e.type = "captured" /\ ledger[e.pay] = "none"
              THEN [ledger EXCEPT ![e.pay] = "held"]
              ELSE ledger

\* Capture inserts the held row (ON CONFLICT DO NOTHING), a refund reverses it
\* unless a payout run has paid it.
PostToLedger(e) ==
  ledger' = CASE e.type = "captured" /\ ledger[e.pay] = "none" ->
                   [ledger EXCEPT ![e.pay] = "held"]
              [] e.type = "refunded" /\ ledger[e.pay] = "held" ->
                   [ledger EXCEPT ![e.pay] = "reversed"]
              [] OTHER -> ledger

ApplyEvent(e) ==
  \/ /\ Seen(e)
     /\ UNCHANGED <<events, payment, status, ledger>>
  \/ /\ ~Seen(e)
     /\ events' = events \cup {e}
     /\ MarkPayment(e)
     /\ ConfirmBookingForPayment(e)
     /\ PostToLedger(e)

Money(type, ref, b) == [type |-> type, ref |-> ref, pay |-> b]

-----------------------------------------------------------------------------
(* Create: insert the booking, then open its payment intent.                *)

CreateBooking(r, b) ==
  /\ status[b] = "none"
  /\ Begin(r, "create", b, "intent")
  /\ status' = [status EXCEPT ![b] = "pending_payment"]
  /\ UNCHANGED <<noShow, payment, events, ledger, cleared, dispute, reminder,
                 provider, restarts, phase>>

InitiatePayment(r) ==
  LET b == req[r].b IN
  /\ req[r].at = "intent"
  /\ payment' = IF payment[b].status = "none"
                  THEN [payment EXCEPT ![b] = [status |-> "requires_payment", ref |-> 0]]
                  ELSE payment
  /\ Finish(r)
  /\ UNCHANGED <<status, noShow, events, ledger, cleared, dispute, reminder,
                 provider, restarts, phase>>

\* A failed intent is logged and Create still answers 201.
InitiatePaymentFails(r) ==
  /\ "intent" \in Faults
  /\ req[r].at = "intent"
  /\ Finish(r)
  /\ UNCHANGED <<rows, reminder, provider, restarts, phase>>

-----------------------------------------------------------------------------
(* Pay: check the booking, check the intent, place the hold, deliver the    *)
(* event, and schedule the reminders if the booking came out confirmed.     *)

StartPay(r, b) ==
  /\ status[b] = "pending_payment"
  /\ Begin(r, "pay", b, "authorize")
  /\ UNCHANGED <<rows, reminder, provider, restarts, phase>>

ReadForAuthorize(r) ==
  /\ req[r].at = "authorize"
  /\ \/ /\ payment[req[r].b].status \in {"requires_payment", "failed"}
        /\ Goto(r, "hold")
     \/ /\ payment[req[r].b].status \notin {"requires_payment", "failed"}
        /\ Finish(r)
  /\ UNCHANGED <<rows, reminder, provider, restarts, phase>>

\* Token pm_decline: the provider reports the failure, the caller gets a 402.
Decline(r) ==
  /\ req[r].at = "hold"
  /\ ApplyEvent(Money("declined", 0, req[r].b))
  /\ Finish(r)
  /\ UNCHANGED <<noShow, cleared, dispute, reminder, provider, restarts, phase>>

\* Mutant of NextRef: the sequence is not kept between two holds.
UnsavedRef == 1

NextRef == seq + 1

\* Any other token: nextRef under the provider's mutex, then the event.
PlaceHold(r) ==
  /\ req[r].at = "hold"
  /\ seq < MaxRef
  /\ seq' = NextRef
  /\ holder' = [holder EXCEPT ![NextRef] = req[r].b]
  /\ flaky' \in {flaky, flaky \cup {NextRef}}
  /\ GotoWith(r, "authorized", NextRef)
  /\ UNCHANGED <<rows, reminder, tried, restarts, phase>>

Authorized(r) ==
  /\ req[r].at = "authorized"
  /\ ApplyEvent(Money("authorized", req[r].ref, req[r].b))
  /\ Goto(r, "confirmed")
  /\ UNCHANGED <<noShow, cleared, dispute, reminder, provider, restarts, phase>>

ReadAfterPay(r) ==
  /\ req[r].at = "confirmed"
  /\ \/ status[req[r].b] = "confirmed" /\ Goto(r, "remind")
     \/ status[req[r].b] # "confirmed" /\ Finish(r)
  /\ UNCHANGED <<rows, reminder, provider, restarts, phase>>

ScheduleReminders(r) ==
  /\ req[r].at = "remind"
  /\ reminder' = [reminder EXCEPT ![req[r].b] = TRUE]
  /\ Finish(r)
  /\ UNCHANGED <<rows, provider, restarts, phase>>

-----------------------------------------------------------------------------
(* Complete and NoShow: capture first, then flip the status.                *)

StartComplete(r, b) ==
  /\ status[b] = "confirmed"
  /\ phase[b] = 2
  /\ Begin(r, "complete", b, "capture_read")
  /\ UNCHANGED <<rows, reminder, provider, restarts, phase>>

StartNoShow(r, b, op) ==
  /\ status[b] = "confirmed"
  /\ phase[b] >= 1
  /\ Begin(r, op, b, IF op = "noshow_student" THEN "capture_read" ELSE "flag")
  /\ UNCHANGED <<rows, reminder, provider, restarts, phase>>

ReadForCapture(r) ==
  LET p == payment[req[r].b] IN
  /\ req[r].at = "capture_read"
  /\ \/ p.status = "captured" /\ AfterCapture(r)
     \/ p.status = "authorized" /\ GotoWith(r, "capture", p.ref)
     \/ p.status \notin {"captured", "authorized"} /\ Finish(r)
  /\ UNCHANGED <<rows, reminder, provider, restarts, phase>>

\* Refs the provider's maps hold; a NULL provider_ref is not one of them.
Known(ref) == ref \in Refs /\ holder[ref] # NoBooking

\* The provider refuses a ref it does not know, and the first try of a flaky one.
CaptureRefused(ref) == ~Known(ref) \/ (ref \in flaky /\ ref \notin tried)

\* Mutant of CaptureFails: the provider's error is dropped and the handler goes on.
CaptureErrorDropped(r) ==
  /\ req[r].at = "capture"
  /\ CaptureRefused(req[r].ref)
  /\ tried' = tried \cup {req[r].ref}
  /\ AfterCapture(r)
  /\ UNCHANGED <<rows, reminder, seq, holder, flaky, restarts, phase>>

CaptureFails(r) ==
  /\ req[r].at = "capture"
  /\ CaptureRefused(req[r].ref)
  /\ tried' = tried \cup {req[r].ref}
  /\ Finish(r)
  /\ UNCHANGED <<rows, reminder, seq, holder, flaky, restarts, phase>>

Capture(r) ==
  /\ req[r].at = "capture"
  /\ ~CaptureRefused(req[r].ref)
  /\ tried' = tried \cup {req[r].ref}
  /\ ApplyEvent(Money("captured", req[r].ref, holder[req[r].ref]))
  /\ AfterCapture(r)
  /\ UNCHANGED <<noShow, cleared, dispute, reminder, seq, holder, flaky, restarts, phase>>

SetNoShowParty(r) ==
  LET student == req[r].op = "noshow_student" IN
  /\ req[r].at = "flag"
  /\ noShow' = [noShow EXCEPT ![req[r].b] = IF student THEN "student" ELSE "teacher"]
  /\ Goto(r, IF student THEN "complete" ELSE "cancel")
  /\ UNCHANGED <<status, payment, events, ledger, cleared, dispute, reminder,
                 provider, restarts, phase>>

\* SetStatus(completed) is unguarded: it does not look at the status again.
SetCompleted(r) ==
  /\ req[r].at = "complete"
  /\ status' = [status EXCEPT ![req[r].b] = "completed"]
  /\ IF req[r].op = "complete" THEN Finish(r) ELSE Goto(r, "unremind")
  /\ UNCHANGED <<noShow, payment, events, ledger, cleared, dispute, reminder,
                 provider, restarts, phase>>

-----------------------------------------------------------------------------
(* Cancel, force-cancel and the cancellation path doCancel they share.      *)

StartCancel(r, b, op) ==
  /\ status[b] \in {"pending_payment", "confirmed"}
  /\ Begin(r, op, b, "cancel")
  /\ UNCHANGED <<rows, reminder, provider, restarts, phase>>

\* Mutant of CancelRow: a confirmed booking is cancelled without its refund.
CancelRowOnly(r) ==
  /\ req[r].at = "cancel"
  /\ status' = [status EXCEPT ![req[r].b] = "cancelled"]
  /\ Goto(r, "unremind")
  /\ UNCHANGED <<noShow, payment, events, ledger, cleared, dispute, reminder,
                 provider, restarts, phase>>

\* The cancelling UPDATE is unguarded too.
CancelRow(r) ==
  /\ req[r].at = "cancel"
  /\ status' = [status EXCEPT ![req[r].b] = "cancelled"]
  /\ Goto(r, IF req[r].op = "force_keep" THEN "unremind" ELSE "refund_read")
  /\ UNCHANGED <<noShow, payment, events, ledger, cleared, dispute, reminder,
                 provider, restarts, phase>>

ReadForRefund(r) ==
  LET p == payment[req[r].b] IN
  /\ req[r].at = "refund_read"
  /\ \/ p.status \in {"none", "refunded"} /\ AfterRefund(r)
     \/ p.status \in {"requires_payment", "failed"} /\ Goto(r, "void")
     \/ p.status \in {"authorized", "captured"} /\ GotoWith(r, "refund", p.ref)
  /\ UNCHANGED <<rows, reminder, provider, restarts, phase>>

VoidIntent(r) ==
  /\ req[r].at = "void"
  /\ ApplyEvent(Money("voided", 0, req[r].b))
  /\ AfterRefund(r)
  /\ UNCHANGED <<noShow, cleared, dispute, reminder, provider, restarts, phase>>

RefundHold(r) ==
  /\ req[r].at = "refund"
  /\ Known(req[r].ref)
  /\ ApplyEvent(Money("refunded", req[r].ref, holder[req[r].ref]))
  /\ AfterRefund(r)
  /\ UNCHANGED <<noShow, cleared, dispute, reminder, provider, restarts, phase>>

\* An unknown ref, or a statement that fails: doCancel and the dispute
\* resolution log the error and go on as if the money had moved.
RefundFails(r) ==
  /\ \/ req[r].at = "refund" /\ ~Known(req[r].ref)
     \/ req[r].at \in {"refund_read", "void", "refund"} /\ "refund" \in Faults
  /\ AfterRefund(r)
  /\ UNCHANGED <<rows, reminder, provider, restarts, phase>>

\* Mutant of CancelReminders: the tasks are left in the queue.
KeepReminders(r) ==
  /\ req[r].at = "unremind"
  /\ Finish(r)
  /\ UNCHANGED <<rows, reminder, provider, restarts, phase>>

CancelReminders(r) ==
  /\ req[r].at = "unremind"
  /\ reminder' = [reminder EXCEPT ![req[r].b] = FALSE]
  /\ Finish(r)
  /\ UNCHANGED <<rows, provider, restarts, phase>>

-----------------------------------------------------------------------------
(* Disputes, as far as the money sees them.  Raise inserts the row after    *)
(* reading the booking; nothing reads the row before it is resolved, so the *)
(* insert is placed at the read.                                            *)

RaiseDispute(b) ==
  /\ "dispute" \in Ops
  /\ status[b] \in {"confirmed", "completed"}
  /\ ~dispute[b]
  /\ dispute' = [dispute EXCEPT ![b] = TRUE]
  /\ UNCHANGED <<status, noShow, payment, events, ledger, cleared, reminder, req,
                 provider, restarts, phase>>

\* Rejected, or resolved without a refund.
CloseDispute(b) ==
  /\ dispute[b]
  /\ dispute' = [dispute EXCEPT ![b] = FALSE]
  /\ UNCHANGED <<status, noShow, payment, events, ledger, cleared, reminder, req,
                 provider, restarts, phase>>

\* Resolved with a refund: the guarded UPDATE, then AdminRefund.
ResolveWithRefund(r, b) ==
  /\ dispute[b]
  /\ dispute' = [dispute EXCEPT ![b] = FALSE]
  /\ Begin(r, "dispute", b, "refund_read")
  /\ UNCHANGED <<status, noShow, payment, events, ledger, cleared, reminder,
                 provider, restarts, phase>>

-----------------------------------------------------------------------------
(* Payout run, clock, webhook redelivery, and what can go wrong.            *)

\* Mutant of Payable: the clearing deadline is not looked at.
PayableUncleared == {b \in Bookings : ledger[b] = "held"}

Payable == {b \in Bookings : ledger[b] = "held" /\ cleared[b]}

\* One transaction over the rows it could lock: a row that another run or a
\* reversal has locked is skipped (PayoutRuns takes it apart).  A run that locks
\* nothing is a 409.
PayoutRun ==
  /\ \E S \in (SUBSET Payable) \ {{}} :
       ledger' = [b \in Bookings |-> IF b \in S THEN "paid" ELSE ledger[b]]
  /\ UNCHANGED <<status, noShow, payment, events, cleared, dispute, reminder, req,
                 provider, restarts, phase>>

ClearingPasses(b) ==
  /\ ledger[b] = "held"
  /\ ~cleared[b]
  /\ cleared' = [cleared EXCEPT ![b] = TRUE]
  /\ UNCHANGED <<status, noShow, payment, events, ledger, dispute, reminder, req,
                 provider, restarts, phase>>

TimePasses(b) ==
  /\ status[b] # "none"
  /\ phase[b] < 2
  /\ phase' = [phase EXCEPT ![b] = @ + 1]
  /\ UNCHANGED <<rows, reminder, req, provider, restarts>>

\* POST /v1/payments/webhook: an event that was already applied comes again.
Redeliver(e) ==
  /\ ApplyEvent(e)
  /\ UNCHANGED <<noShow, cleared, dispute, reminder, req, provider, restarts, phase>>

\* The client goes away or a statement fails: the handler stops where it is.
Abort(r) ==
  /\ "abort" \in Faults
  /\ req[r] # Idle
  /\ Finish(r)
  /\ UNCHANGED <<rows, reminder, provider, restarts, phase>>

\* The API process restarts: handlers and the provider's maps are gone and its
\* sequence starts over.
Restart ==
  /\ restarts < MaxRestarts
  /\ restarts' = restarts + 1
  /\ req' = [r \in Requests |-> Idle]
  /\ seq' = 0
  /\ holder' = [f \in Refs |-> NoBooking]
  /\ flaky' = {}
  /\ tried' = {}
  /\ UNCHANGED <<rows, reminder, phase>>

-----------------------------------------------------------------------------
Start(r, b) ==
  \/ CreateBooking(r, b)
  \/ StartPay(r, b)
  \/ StartComplete(r, b)
  \/ \E op \in {"noshow_student", "noshow_teacher"} : StartNoShow(r, b, op)
  \/ \E op \in {"cancel", "force_keep"} : StartCancel(r, b, op)
  \/ ResolveWithRefund(r, b)

\* What a started handler does next.
Step(r) ==
  \/ InitiatePayment(r) \/ InitiatePaymentFails(r)
  \/ ReadForAuthorize(r) \/ Decline(r) \/ PlaceHold(r) \/ Authorized(r)
  \/ ReadAfterPay(r) \/ ScheduleReminders(r)
  \/ ReadForCapture(r) \/ CaptureFails(r) \/ Capture(r)
  \/ SetNoShowParty(r) \/ SetCompleted(r)
  \/ CancelRow(r) \/ ReadForRefund(r) \/ VoidIntent(r) \/ RefundHold(r)
  \/ RefundFails(r) \/ CancelReminders(r)

Environment ==
  \/ \E b \in Bookings : RaiseDispute(b) \/ CloseDispute(b) \/ ClearingPasses(b) \/ TimePasses(b)
  \/ PayoutRun
  \/ \E e \in events : Redeliver(e)
  \/ \E r \in Requests : Abort(r)
  \/ Restart

Next ==
  \/ \E r \in Requests, b \in Bookings : Start(r, b)
  \/ \E r \in Requests : Step(r)
  \/ Environment

Spec == Init /\ [][Next]_vars

\* The Go scheduler runs every handler it has started.
FairSpec == Spec /\ \A r \in Requests : WF_vars(Step(r))
-----------------------------------------------------------------------------
(* Properties.                                                              *)

TypeOK ==
  /\ status   \in [Bookings -> BookingStatus]
  /\ noShow   \in [Bookings -> {"nobody", "student", "teacher"}]
  /\ payment  \in [Bookings -> [status : PaymentStatus, ref : 0..MaxRef]]
  /\ events   \subseteq Event
  /\ ledger   \in [Bookings -> LedgerState]
  /\ cleared  \in [Bookings -> BOOLEAN]
  /\ dispute  \in [Bookings -> BOOLEAN]
  /\ reminder \in [Bookings -> BOOLEAN]
  /\ req      \in [Requests -> Request]
  /\ seq      \in 0..MaxRef
  /\ holder   \in [Refs -> Bookings \cup {NoBooking}]
  /\ flaky    \subseteq Refs
  /\ tried    \subseteq 0..MaxRef
  /\ restarts \in 0..MaxRestarts
  /\ phase    \in [Bookings -> 0..2]

Applied(type, b) == \E e \in events : e.type = type /\ e.pay = b

\* The payment row and the teacher's earning tell one story, because one
\* transaction writes both: money that went back to the student is not owed to
\* the teacher, captured money is, and nothing is owed that was not captured.
MoneyRowsAgree ==
  \A b \in Bookings :
    /\ payment[b].status = "refunded" => ledger[b] # "held"
    /\ payment[b].status = "captured" => ledger[b] # "none"
    /\ ledger[b] # "none" => Applied("captured", b)

\* A lesson is confirmed or completed only if a hold was authorized for this
\* very booking, whatever pays, declines, cancels and restarts raced.
PaidBeforeTaught ==
  \A b \in Bookings :
    status[b] \in {"confirmed", "completed"} => Applied("authorized", b)

\* No late or replayed webhook confirms a booking that has left pending_payment,
\* and no request puts a booking back to pending_payment.
NeverReopened ==
  [][\A b \in Bookings :
       status'[b] # status[b] =>
         /\ status'[b] = "confirmed" => status[b] = "pending_payment"
         /\ status'[b] = "pending_payment" => status[b] = "none"]_vars

\* An existing payment row moves only together with a newly logged event of
\* that payment, so an event that comes twice moves nothing.
EventsBackMoney ==
  [][\A b \in Bookings :
       payment[b].status # "none" /\ payment'[b] # payment[b] =>
         \E e \in events' \ events : e.pay = b]_vars

\* The ledger and its payout runs implement the promise made to a teacher: an
\* earning is credited once and is paid or reversed once, only after clearing
\* when it is paid.
Earning == [b \in Bookings |-> IF ledger[b] = "held" /\ cleared[b] THEN "available" ELSE ledger[b]]

EP == INSTANCE EarningsPromise WITH earning <- Earning

KeepsEarningsPromise == EP!Promise

\* A completed lesson was captured: "a capture failure leaves the booking
\* confirmed and retryable rather than completed-but-unpaid" (Complete).
CompletedIsCaptured ==
  \A b \in Bookings : status[b] = "completed" => Applied("captured", b)

\* As long as the process lives, the reference a payment stores leads the
\* provider back to this payment: a capture or a refund by reference reaches the
\* payment it was asked for.
RefReachesItsPayment ==
  \A b \in Bookings : payment[b].ref # 0 => holder[payment[b].ref] = b

AtRest == \A r \in Requests : req[r] = Idle

\* Between requests that ran one after the other, the booking, its payment, the
\* no-show flag and the reminders agree.
SettledAgree ==
  AtRest =>
    \A b \in Bookings :
      /\ status[b] = "pending_payment" => payment[b].status \in {"requires_payment", "failed"}
      /\ status[b] = "confirmed" => payment[b].status \in {"authorized", "refunded"}
      /\ status[b] = "completed" => payment[b].status \in {"captured", "refunded"}
      /\ status[b] = "cancelled" => payment[b].status \in {"failed", "refunded"}
      /\ noShow[b] = "student" => status[b] = "completed"
      /\ noShow[b] = "teacher" => status[b] = "cancelled"
      /\ reminder[b] => status[b] \in {"confirmed", "completed"}

\* A cancellation that refunds ends with the hold released (Cancel: "a full
\* refund releases the hold").
CancelReleasesHold ==
  \A b \in Bookings :
    status[b] = "cancelled" ~> payment[b].status \notin {"authorized", "captured"}
==============================================================================
