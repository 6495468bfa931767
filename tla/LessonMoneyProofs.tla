-------------------------- MODULE LessonMoneyProofs --------------------------
(***************************************************************************)
(* Proofs about LessonMoney, for every set of bookings, every number of    *)
(* concurrent handlers and every bound on references and restarts.         *)
(***************************************************************************)
EXTENDS LessonMoney, TLAPS

-----------------------------------------------------------------------------
(* Lemmas about the operators the actions are built from.                   *)

\* What a handler may leave in its slot is a well-formed request.
LEMMA ControlTyped ==
  ASSUME req \in [Requests -> Request], NEW r \in Requests
  PROVE  /\ \A op \in OpNames, b \in Bookings, point \in Points :
              Begin(r, op, b, point) => req' \in [Requests -> Request]
         /\ \A point \in Points : Goto(r, point) => req' \in [Requests -> Request]
         /\ \A point \in Points, ref \in 0..MaxRef :
              GotoWith(r, point, ref) => req' \in [Requests -> Request]
         /\ Finish(r) => req' \in [Requests -> Request]
         /\ AfterCapture(r) => req' \in [Requests -> Request]
         /\ AfterRefund(r) => req' \in [Requests -> Request]
<1> USE ConstantsAssumption
<1>1. \A op \in OpNames, b \in Bookings, point \in Points :
        Begin(r, op, b, point) => req' \in [Requests -> Request]
  BY DEF Begin, Request
<1>2. \A point \in Points : Goto(r, point) => req' \in [Requests -> Request]
  BY DEF Goto, Request
<1>3. ASSUME NEW point \in Points, NEW ref \in 0..MaxRef, GotoWith(r, point, ref)
      PROVE  req' \in [Requests -> Request]
  <2>1. req' = [req EXCEPT ![r] = [req[r] EXCEPT !.at = point, !.ref = ref]]
    BY <1>3 DEF GotoWith, Request
  <2>2. [req[r] EXCEPT !.at = point, !.ref = ref] \in Request
    BY DEF Request
  <2> QED BY <2>1, <2>2
<1>4. Finish(r) => req' \in [Requests -> Request]
  BY DEF Finish, Idle, Request, Points
<1>5. AfterCapture(r) => req' \in [Requests -> Request]
  BY <1>2 DEF AfterCapture, Points
<1>6. AfterRefund(r) => req' \in [Requests -> Request]
  BY <1>2, <1>4 DEF AfterRefund, Points
<1> QED BY <1>1, <1>2, <1>3, <1>4, <1>5, <1>6

\* The webhook transaction keeps the four tables it writes well-formed.
LEMMA ApplyEventTyped ==
  ASSUME TypeOK, NEW e \in Event, ApplyEvent(e)
  PROVE  /\ status'  \in [Bookings -> BookingStatus]
         /\ payment' \in [Bookings -> [status : PaymentStatus, ref : 0..MaxRef]]
         /\ events'  \subseteq Event
         /\ ledger'  \in [Bookings -> LedgerState]
<1>1. CASE Seen(e)
  BY <1>1 DEF ApplyEvent, TypeOK
<1>2. CASE ~Seen(e)
  <2>1. status' \in [Bookings -> BookingStatus]
    BY <1>2 DEF ApplyEvent, ConfirmBookingForPayment, TypeOK, BookingStatus, Event
  <2>2. payment' \in [Bookings -> [status : PaymentStatus, ref : 0..MaxRef]]
    <3>1. CASE e.type = "authorized"
      BY <1>2, <3>1 DEF ApplyEvent, MarkPayment, TypeOK, PaymentStatus, Event
    <3>2. CASE e.type \in LocalEvents
      BY <1>2, <3>2 DEF ApplyEvent, MarkPayment, TypeOK, PaymentStatus, Event, LocalEvents
    <3>3. CASE e.type \in {"captured", "refunded"}
      BY <1>2, <3>3 DEF ApplyEvent, MarkPayment, TypeOK, PaymentStatus, Event, LocalEvents
    <3> QED BY <3>1, <3>2, <3>3 DEF Event, ProviderEvents
  <2>3. events' \subseteq Event
    BY <1>2 DEF ApplyEvent, TypeOK
  <2>4. ledger' \in [Bookings -> LedgerState]
    <3>1. CASE e.type = "captured"
      BY <1>2, <3>1 DEF ApplyEvent, PostToLedger, TypeOK, LedgerState, Event
    <3>2. CASE e.type = "refunded"
      BY <1>2, <3>2 DEF ApplyEvent, PostToLedger, TypeOK, LedgerState, Event
    <3>3. CASE e.type \notin {"captured", "refunded"}
      BY <1>2, <3>3 DEF ApplyEvent, PostToLedger, TypeOK, LedgerState, Event
    <3> QED BY <3>1, <3>2, <3>3
  <2> QED BY <2>1, <2>2, <2>3, <2>4
<1> QED BY <1>1, <1>2

-----------------------------------------------------------------------------
(* Type correctness.                                                        *)

\* TypeOK alone is not inductive: the event a handler emits names the handler's
\* booking, so a handler in flight must have one.
Serving == \A r \in Requests : req[r].at # "idle" => req[r].b \in Bookings

TypeInv == TypeOK /\ Serving

LEMMA InitTyped == Init => TypeInv
  BY ConstantsAssumption
  DEF Init, TypeInv, TypeOK, Serving, Idle, Request, Points, Refs,
      BookingStatus, PaymentStatus, LedgerState

\* No control operator leaves a handler in flight without its booking.
LEMMA ControlServes ==
  ASSUME TypeInv, NEW r \in Requests
  PROVE  /\ \A op \in OpNames, b \in Bookings, point \in Points :
              Begin(r, op, b, point) => Serving'
         /\ req[r].at # "idle" =>
              /\ \A point \in Points : Goto(r, point) => Serving'
              /\ \A point \in Points, ref \in 0..MaxRef : GotoWith(r, point, ref) => Serving'
              /\ AfterCapture(r) => Serving'
              /\ AfterRefund(r) => Serving'
         /\ Finish(r) => Serving'
<1> USE DEF TypeInv, TypeOK
<1>1. ASSUME NEW op \in OpNames, NEW b \in Bookings, NEW point \in Points, Begin(r, op, b, point)
      PROVE  Serving'
  BY <1>1 DEF Begin, Serving, Request
<1>2. ASSUME req[r].at # "idle", NEW point \in Points, Goto(r, point)
      PROVE  Serving'
  BY <1>2 DEF Goto, Serving, Request
<1>3. ASSUME req[r].at # "idle", NEW point \in Points, NEW ref \in 0..MaxRef,
             GotoWith(r, point, ref)
      PROVE  Serving'
  <2>1. req' = [req EXCEPT ![r] = [req[r] EXCEPT !.at = point, !.ref = ref]]
    BY <1>3 DEF GotoWith, Request
  <2> QED BY <1>3, <2>1 DEF Serving, Request
<1>4. ASSUME Finish(r)
      PROVE  Serving'
  BY <1>4 DEF Finish, Idle, Serving, Request
<1>5. ASSUME req[r].at # "idle", AfterCapture(r)
      PROVE  Serving'
  BY <1>5, <1>2 DEF AfterCapture, Points
<1>6. ASSUME req[r].at # "idle", AfterRefund(r)
      PROVE  Serving'
  BY <1>6, <1>2, <1>4 DEF AfterRefund, Points
<1> QED BY <1>1, <1>2, <1>3, <1>4, <1>5, <1>6

\* The first step of a handler keeps the types.
LEMMA StartTyped ==
  ASSUME TypeInv, NEW r \in Requests, NEW b \in Bookings, Start(r, b)
  PROVE  TypeInv'
<1> USE ControlTyped, ControlServes DEF TypeInv, TypeOK, rows, provider
<1>1. CASE CreateBooking(r, b)
  BY <1>1 DEF CreateBooking, BookingStatus, OpNames, Points
<1>2. CASE StartPay(r, b)
  BY <1>2 DEF StartPay, OpNames, Points
<1>3. CASE StartComplete(r, b)
  BY <1>3 DEF StartComplete, OpNames, Points
<1>4. ASSUME NEW op \in {"noshow_student", "noshow_teacher"}, StartNoShow(r, b, op)
      PROVE  TypeInv'
  BY <1>4 DEF StartNoShow, OpNames, Points
<1>5. ASSUME NEW op \in {"cancel", "force_keep"}, StartCancel(r, b, op)
      PROVE  TypeInv'
  BY <1>5 DEF StartCancel, OpNames, Points
<1>6. CASE ResolveWithRefund(r, b)
  BY <1>6 DEF ResolveWithRefund, OpNames, Points
<1> QED BY <1>1, <1>2, <1>3, <1>4, <1>5, <1>6 DEF Start

\* The event a handler applies for its own booking is well-formed.
LEMMA OwnEventTyped ==
  ASSUME TypeInv, NEW r \in Requests, req[r].at # "idle",
         NEW type \in ProviderEvents \cup LocalEvents, NEW ref \in 0..MaxRef
  PROVE  Money(type, ref, req[r].b) \in Event
  BY DEF TypeInv, Serving, Money, Event

\* So is the event the provider sends about a reference it knows.
LEMMA KnownEventTyped ==
  ASSUME TypeInv, NEW ref \in 0..MaxRef, Known(ref),
         NEW type \in ProviderEvents
  PROVE  Money(type, ref, holder[ref]) \in Event
  BY DEF TypeInv, TypeOK, Known, Money, Event

\* Every further step of a handler keeps the types.
LEMMA StepTyped ==
  ASSUME TypeInv, NEW r \in Requests, Step(r)
  PROVE  TypeInv'
<1> USE ConstantsAssumption, ControlTyped, ControlServes
    DEF TypeInv, TypeOK, rows, provider
<1>0. /\ req[r].ref \in 0..MaxRef
      /\ 0 \in 0..MaxRef
  BY DEF Request
<1>1. CASE InitiatePayment(r)
  BY <1>1, <1>0 DEF InitiatePayment, PaymentStatus
<1>2. CASE InitiatePaymentFails(r)
  BY <1>2 DEF InitiatePaymentFails
<1>3. CASE ReadForAuthorize(r)
  BY <1>3 DEF ReadForAuthorize, Points
<1>4. CASE Decline(r)
  <2>1. Money("declined", 0, req[r].b) \in Event
    BY <1>4, <1>0, OwnEventTyped DEF Decline, ProviderEvents, LocalEvents
  <2> QED BY <1>4, <2>1, ApplyEventTyped DEF Decline
<1>5. CASE PlaceHold(r)
  <2>1. /\ NextRef \in Refs
        /\ NextRef \in 0..MaxRef
    BY <1>5 DEF PlaceHold, NextRef, Refs
  <2>2. seq' \in 0..MaxRef
    BY <1>5, <2>1 DEF PlaceHold
  <2>3. holder' \in [Refs -> Bookings \cup {NoBooking}]
    BY <1>5, <2>1 DEF PlaceHold, Serving
  <2>4. flaky' \subseteq Refs
    BY <1>5, <2>1 DEF PlaceHold
  <2>5. req' \in [Requests -> Request] /\ Serving'
    BY <1>5, <2>1 DEF PlaceHold, Points
  <2> QED BY <1>5, <2>2, <2>3, <2>4, <2>5 DEF PlaceHold
<1>6. CASE Authorized(r)
  <2>1. Money("authorized", req[r].ref, req[r].b) \in Event
    BY <1>6, <1>0, OwnEventTyped DEF Authorized, ProviderEvents
  <2> QED BY <1>6, <2>1, ApplyEventTyped DEF Authorized, Points
<1>7. CASE ReadAfterPay(r)
  BY <1>7 DEF ReadAfterPay, Points
<1>8. CASE ScheduleReminders(r)
  BY <1>8 DEF ScheduleReminders
<1>9. CASE ReadForCapture(r)
  BY <1>9 DEF ReadForCapture, Points, Serving
<1>10. CASE CaptureFails(r)
  BY <1>10, <1>0 DEF CaptureFails
<1>11. CASE Capture(r)
  <2>1. Money("captured", req[r].ref, holder[req[r].ref]) \in Event
    BY <1>11, <1>0, KnownEventTyped DEF Capture, CaptureRefused, ProviderEvents
  <2> QED BY <1>11, <1>0, <2>1, ApplyEventTyped DEF Capture
<1>12. CASE SetNoShowParty(r)
  BY <1>12 DEF SetNoShowParty, Points
<1>13. CASE SetCompleted(r)
  BY <1>13 DEF SetCompleted, BookingStatus, Points
<1>14. CASE CancelRow(r)
  BY <1>14 DEF CancelRow, BookingStatus, Points
<1>15. CASE ReadForRefund(r)
  BY <1>15 DEF ReadForRefund, Points, Serving
<1>16. CASE VoidIntent(r)
  <2>1. Money("voided", 0, req[r].b) \in Event
    BY <1>16, <1>0, OwnEventTyped DEF VoidIntent, ProviderEvents, LocalEvents
  <2> QED BY <1>16, <2>1, ApplyEventTyped DEF VoidIntent
<1>17. CASE RefundHold(r)
  <2>1. Money("refunded", req[r].ref, holder[req[r].ref]) \in Event
    BY <1>17, <1>0, KnownEventTyped DEF RefundHold, ProviderEvents
  <2> QED BY <1>17, <2>1, ApplyEventTyped DEF RefundHold
<1>18. CASE RefundFails(r)
  BY <1>18 DEF RefundFails
<1>19. CASE CancelReminders(r)
  BY <1>19 DEF CancelReminders
<1> QED BY <1>1, <1>2, <1>3, <1>4, <1>5, <1>6, <1>7, <1>8, <1>9, <1>10, <1>11, <1>12,
           <1>13, <1>14, <1>15, <1>16, <1>17, <1>18, <1>19 DEF Step

\* The clock, the operator, redelivered webhooks, aborts and restarts keep them.
LEMMA EnvironmentTyped ==
  ASSUME TypeInv, Environment
  PROVE  TypeInv'
<1> USE ConstantsAssumption DEF TypeInv, TypeOK, rows, provider
<1>1. ASSUME NEW b \in Bookings, RaiseDispute(b)
      PROVE  TypeInv'
  BY <1>1 DEF RaiseDispute, Serving
<1>2. ASSUME NEW b \in Bookings, CloseDispute(b)
      PROVE  TypeInv'
  BY <1>2 DEF CloseDispute, Serving
<1>3. ASSUME NEW b \in Bookings, ClearingPasses(b)
      PROVE  TypeInv'
  BY <1>3 DEF ClearingPasses, Serving
<1>4. ASSUME NEW b \in Bookings, TimePasses(b)
      PROVE  TypeInv'
  BY <1>4 DEF TimePasses, Serving
<1>5. CASE PayoutRun
  BY <1>5 DEF PayoutRun, LedgerState, Serving
<1>6. ASSUME NEW e \in events, Redeliver(e)
      PROVE  TypeInv'
  BY <1>6, ApplyEventTyped DEF Redeliver, Serving
<1>7. ASSUME NEW r \in Requests, Abort(r)
      PROVE  TypeInv'
  BY <1>7, ControlTyped, ControlServes DEF Abort
<1>8. CASE Restart
  BY <1>8 DEF Restart, Idle, Request, Points, Refs, Serving
<1> QED BY <1>1, <1>2, <1>3, <1>4, <1>5, <1>6, <1>7, <1>8 DEF Environment

LEMMA NextTyped ==
  ASSUME TypeInv, [Next]_vars
  PROVE  TypeInv'
<1>1. CASE UNCHANGED vars
  BY <1>1 DEF vars, rows, provider, TypeInv, TypeOK, Serving
<1> QED BY <1>1, StartTyped, StepTyped, EnvironmentTyped DEF Next

\* Every reachable state is well-formed.
THEOREM TypeCorrect == Spec => []TypeOK
<1>1. TypeInv => TypeOK
  BY DEF TypeInv
<1> QED BY <1>1, InitTyped, NextTyped, PTL DEF Spec

LEMMA AlwaysTyped == Spec => []TypeInv
  BY InitTyped, NextTyped, PTL DEF Spec

-----------------------------------------------------------------------------
(* Who writes what.  The money tables move only through the webhook, the    *)
(* intent of a new booking, a payout run and the clearing clock; the status *)
(* column only through Create, the webhook and the two unguarded updates.   *)

OpensIntent ==
  /\ \E b \in Bookings :
       /\ payment[b].status = "none"
       /\ payment' = [payment EXCEPT ![b] = [status |-> "requires_payment", ref |-> 0]]
  /\ UNCHANGED <<events, ledger, cleared>>

MoneyMove ==
  \/ \E e \in Event : ApplyEvent(e) /\ UNCHANGED cleared
  \/ OpensIntent
  \/ PayoutRun
  \/ \E b \in Bookings : ClearingPasses(b)
  \/ UNCHANGED <<payment, events, ledger, cleared>>

LEMMA MoneyMoves ==
  ASSUME TypeInv, [Next]_vars
  PROVE  MoneyMove
<1> USE DEF MoneyMove, rows, provider
<1>1. CASE UNCHANGED vars
  BY <1>1 DEF vars
<1>2. ASSUME NEW r \in Requests, NEW b \in Bookings, Start(r, b)
      PROVE  MoneyMove
  BY <1>2 DEF Start, CreateBooking, StartPay, StartComplete, StartNoShow, StartCancel, ResolveWithRefund
<1>3. ASSUME NEW r \in Requests, Step(r)
      PROVE  MoneyMove
  <2>0. /\ req[r].ref \in 0..MaxRef
        /\ 0 \in 0..MaxRef
    BY ConstantsAssumption DEF TypeInv, TypeOK, Request
  <2>1. CASE InitiatePayment(r)
    BY <2>1 DEF InitiatePayment, OpensIntent, TypeInv, Serving
  <2>2. CASE Decline(r) \/ Authorized(r) \/ VoidIntent(r)
    BY <2>2, <2>0, OwnEventTyped
    DEF Decline, Authorized, VoidIntent, ProviderEvents, LocalEvents
  <2>3. CASE Capture(r) \/ RefundHold(r)
    BY <2>3, <2>0, KnownEventTyped DEF Capture, RefundHold, CaptureRefused, ProviderEvents
  <2> QED BY <1>3, <2>1, <2>2, <2>3
          DEF Step, InitiatePaymentFails, ReadForAuthorize, PlaceHold, ReadAfterPay,
              ScheduleReminders, ReadForCapture, CaptureFails, SetNoShowParty, SetCompleted,
              CancelRow, ReadForRefund, RefundFails, CancelReminders
<1>4. CASE Environment
  BY <1>4 DEF Environment, RaiseDispute, CloseDispute, TimePasses, Redeliver, Abort, Restart,
              TypeInv, TypeOK
<1> QED BY <1>1, <1>2, <1>3, <1>4 DEF Next

-----------------------------------------------------------------------------
(* The payment row and the ledger row agree.                                *)

LEMMA MoneyRowsAgreeStep ==
  ASSUME TypeInv, MoneyRowsAgree, MoneyMove
  PROVE  MoneyRowsAgree'
<1> USE DEF TypeInv, TypeOK
<1>1. ASSUME NEW e \in Event, ApplyEvent(e)
      PROVE  MoneyRowsAgree'
  <2>1. CASE Seen(e)
    BY <1>1, <2>1 DEF ApplyEvent, MoneyRowsAgree, Applied
  <2>2. CASE ~Seen(e)
    <3> SUFFICES ASSUME NEW b \in Bookings
                 PROVE  /\ payment'[b].status = "refunded" => ledger'[b] # "held"
                        /\ payment'[b].status = "captured" => ledger'[b] # "none"
                        /\ ledger'[b] # "none" => Applied("captured", b)'
      BY DEF MoneyRowsAgree
    <3>0. /\ events' = events \cup {e}
          /\ MarkPayment(e)
          /\ PostToLedger(e)
      BY <1>1, <2>2 DEF ApplyEvent
    <3>1. CASE b # e.pay
      <4>1. payment'[b] = payment[b] /\ ledger'[b] = ledger[b]
        BY <3>0, <3>1 DEF MarkPayment, PostToLedger, Event, LocalEvents
      <4> QED BY <4>1, <3>0 DEF MoneyRowsAgree, Applied
    <3>2. CASE b = e.pay /\ e.type = "captured"
      <4>1. payment'[b].status = "captured"
        BY <3>0, <3>2 DEF MarkPayment, LocalEvents
      <4>2. ledger'[b] # "none"
        BY <3>0, <3>2 DEF PostToLedger
      <4>3. Applied("captured", b)'
        BY <3>0, <3>2 DEF Applied
      <4> QED BY <4>1, <4>2, <4>3
    <3>3. CASE b = e.pay /\ e.type = "refunded"
      <4>1. payment'[b].status = "refunded"
        BY <3>0, <3>3 DEF MarkPayment, LocalEvents
      <4>2. ledger'[b] # "held" /\ (ledger'[b] # "none" => ledger[b] # "none")
        BY <3>0, <3>3 DEF PostToLedger, LedgerState
      <4> QED BY <4>1, <4>2, <3>0 DEF MoneyRowsAgree, Applied
    <3>4. CASE b = e.pay /\ e.type \in {"authorized", "declined", "voided"}
      <4>1. payment'[b].status \in {"authorized", "failed"}
        BY <3>0, <3>4 DEF MarkPayment, LocalEvents
      <4>2. ledger'[b] = ledger[b]
        BY <3>0, <3>4 DEF PostToLedger
      <4> QED BY <4>1, <4>2, <3>0 DEF MoneyRowsAgree, Applied
    <3> QED BY <3>1, <3>2, <3>3, <3>4 DEF Event, ProviderEvents, LocalEvents
  <2> QED BY <2>1, <2>2
<1>2. CASE OpensIntent
  BY <1>2 DEF OpensIntent, MoneyRowsAgree, Applied
<1>3. CASE PayoutRun
  BY <1>3 DEF PayoutRun, Payable, MoneyRowsAgree, Applied
<1>4. ASSUME NEW b \in Bookings, ClearingPasses(b)
      PROVE  MoneyRowsAgree'
  BY <1>4 DEF ClearingPasses, MoneyRowsAgree, Applied
<1>5. CASE UNCHANGED <<payment, events, ledger, cleared>>
  BY <1>5 DEF MoneyRowsAgree, Applied
<1> QED BY <1>1, <1>2, <1>3, <1>4, <1>5 DEF MoneyMove

\* Refunded money is not owed to the teacher, captured money is, and nothing is
\* owed without a capture: for any number of racing handlers and restarts.
THEOREM MoneyRowsAlwaysAgree == Spec => []MoneyRowsAgree
<1>1. Init => MoneyRowsAgree
  BY DEF Init, MoneyRowsAgree
<1>2. TypeInv /\ MoneyRowsAgree /\ [Next]_vars => MoneyRowsAgree'
  BY MoneyMoves, MoneyRowsAgreeStep
<1> QED BY <1>1, <1>2, AlwaysTyped, PTL DEF Spec

\* A payment row that exists moves only in the transaction that logs a new event
\* of that payment.
THEOREM EventsAlwaysBackMoney == Spec => EventsBackMoney
<1>1. ASSUME TypeInv, [Next]_vars
      PROVE  \A b \in Bookings :
               payment[b].status # "none" /\ payment'[b] # payment[b] =>
                 \E e \in events' \ events : e.pay = b
  <2> SUFFICES ASSUME NEW b \in Bookings, payment[b].status # "none", payment'[b] # payment[b]
               PROVE  \E e \in events' \ events : e.pay = b
    OBVIOUS
  <2> USE DEF TypeInv, TypeOK
  <2>1. ASSUME NEW e \in Event, ApplyEvent(e)
        PROVE  \E f \in events' \ events : f.pay = b
    <3>1. ~Seen(e)
      BY <1>1, <2>1 DEF ApplyEvent
    <3>2. e \notin events
      BY <3>1 DEF Seen, SameId
    <3>3. e.pay = b
      BY <1>1, <2>1, <3>1 DEF ApplyEvent, MarkPayment, Event
    <3>4. e \in events'
      BY <2>1, <3>1 DEF ApplyEvent
    <3> QED BY <3>2, <3>3, <3>4
  <2>2. ~OpensIntent
    BY <1>1 DEF OpensIntent
  <2>3. ~PayoutRun /\ ~UNCHANGED <<payment, events, ledger, cleared>>
    BY DEF PayoutRun
  <2>4. \A c \in Bookings : ~ClearingPasses(c)
    BY DEF ClearingPasses
  <2> QED BY <1>1, MoneyMoves, <2>1, <2>2, <2>3, <2>4 DEF MoneyMove
<1> QED BY <1>1, AlwaysTyped, PTL DEF Spec, EventsBackMoney

-----------------------------------------------------------------------------
(* The ledger implements the promise made to teachers.                      *)

\* An invariant of the ledger alone, needed because Earning would otherwise
\* jump from "none" to "available": the clearing clock of a lesson starts with
\* its ledger row.
ClearedIsCredited == \A b \in Bookings : cleared[b] => ledger[b] # "none"

LEMMA ClearedIsCreditedStep ==
  ASSUME TypeInv, ClearedIsCredited, MoneyMove
  PROVE  ClearedIsCredited'
<1> USE DEF TypeInv, TypeOK, ClearedIsCredited
<1>1. ASSUME NEW e \in Event, ApplyEvent(e), UNCHANGED cleared
      PROVE  ClearedIsCredited'
  <2>1. \A b \in Bookings : ledger[b] # "none" => ledger'[b] # "none"
    <3>1. CASE Seen(e)
      BY <1>1, <3>1 DEF ApplyEvent
    <3>2. CASE e.type = "captured" /\ ~Seen(e)
      BY <1>1, <3>2 DEF ApplyEvent, PostToLedger
    <3>3. CASE e.type = "refunded" /\ ~Seen(e)
      BY <1>1, <3>3 DEF ApplyEvent, PostToLedger
    <3>4. CASE e.type \notin {"captured", "refunded"} /\ ~Seen(e)
      BY <1>1, <3>4 DEF ApplyEvent, PostToLedger
    <3> QED BY <3>1, <3>2, <3>3, <3>4
  <2> QED BY <1>1, <2>1
<1>2. CASE PayoutRun
  BY <1>2 DEF PayoutRun, Payable
<1>3. ASSUME NEW b \in Bookings, ClearingPasses(b)
      PROVE  ClearedIsCredited'
  BY <1>3 DEF ClearingPasses
<1> QED BY <1>1, <1>2, <1>3 DEF MoneyMove, OpensIntent

LEMMA EarningStep ==
  ASSUME TypeInv, ClearedIsCredited, MoneyMove
  PROVE  [EP!PromiseNext]_Earning
<1> USE DEF TypeInv, TypeOK
<1>1. ASSUME NEW e \in Event, ApplyEvent(e), UNCHANGED cleared
      PROVE  [EP!PromiseNext]_Earning
  <2>0. e.pay \in Bookings
    BY DEF Event
  <2>1. CASE ~Seen(e) /\ e.type = "captured" /\ ledger[e.pay] = "none"
    <3>1. ledger' = [ledger EXCEPT ![e.pay] = "held"]
      BY <1>1, <2>1 DEF ApplyEvent, PostToLedger
    <3>2. ~cleared[e.pay]
      BY <2>0, <2>1 DEF ClearedIsCredited
    <3>3. EP!Credit(e.pay)
      BY <1>1, <2>0, <2>1, <3>1, <3>2 DEF EP!Credit, Earning
    <3> QED BY <2>0, <3>3 DEF EP!PromiseNext
  <2>2. CASE ~Seen(e) /\ e.type = "refunded" /\ ledger[e.pay] = "held"
    <3>1. ledger' = [ledger EXCEPT ![e.pay] = "reversed"]
      BY <1>1, <2>2 DEF ApplyEvent, PostToLedger
    <3>2. EP!Reverse(e.pay)
      BY <1>1, <2>0, <2>2, <3>1 DEF EP!Reverse, Earning
    <3> QED BY <2>0, <3>2 DEF EP!PromiseNext
  <2>3. CASE \/ Seen(e)
             \/ ~(e.type = "captured" /\ ledger[e.pay] = "none")
                /\ ~(e.type = "refunded" /\ ledger[e.pay] = "held")
    <3>1. ledger' = ledger
      BY <1>1, <2>3 DEF ApplyEvent, PostToLedger
    <3> QED BY <1>1, <3>1 DEF Earning
  <2> QED BY <2>1, <2>2, <2>3
<1>2. CASE PayoutRun
  <2>1. PICK S \in (SUBSET Payable) \ {{}} :
          ledger' = [b \in Bookings |-> IF b \in S THEN "paid" ELSE ledger[b]]
    BY <1>2 DEF PayoutRun
  <2>2. S \in (SUBSET Bookings) \ {{}}
    BY DEF Payable
  <2>3. \A b \in S : Earning[b] = "available"
    BY DEF Payable, Earning
  <2>4. Earning' = [b \in Bookings |-> IF b \in S THEN "paid" ELSE Earning[b]]
    BY <1>2, <2>1 DEF PayoutRun, Payable, Earning
  <2>5. EP!Settle(S)
    BY <2>3, <2>4 DEF EP!Settle
  <2> QED BY <2>2, <2>5 DEF EP!PromiseNext
<1>3. ASSUME NEW b \in Bookings, ClearingPasses(b)
      PROVE  [EP!PromiseNext]_Earning
  <2>1. EP!Mature(b)
    BY <1>3 DEF EP!Mature, ClearingPasses, Earning
  <2> QED BY <2>1 DEF EP!PromiseNext
<1>4. CASE OpensIntent \/ UNCHANGED <<payment, events, ledger, cleared>>
  BY <1>4 DEF OpensIntent, Earning
<1> QED BY <1>1, <1>2, <1>3, <1>4 DEF MoneyMove

\* Whatever the handlers, the provider and the operators do, every earning is
\* credited once and is paid or reversed once, and is paid only after clearing.
THEOREM LedgerKeepsPromise == Spec => KeepsEarningsPromise
<1>1. Init => ClearedIsCredited
  BY DEF Init, ClearedIsCredited
<1>2. TypeInv /\ ClearedIsCredited /\ [Next]_vars => ClearedIsCredited'
  BY MoneyMoves, ClearedIsCreditedStep
<1>3. Spec => []ClearedIsCredited
  BY <1>1, <1>2, AlwaysTyped, PTL DEF Spec
<1>4. Init => EP!PromiseInit
  BY DEF Init, EP!PromiseInit, Earning
<1>5. TypeInv /\ ClearedIsCredited /\ [Next]_vars => [EP!PromiseNext]_Earning
  BY MoneyMoves, EarningStep
<1> QED BY <1>3, <1>4, <1>5, AlwaysTyped, PTL DEF Spec, KeepsEarningsPromise, EP!Promise

-----------------------------------------------------------------------------
(* The status column.                                                       *)

StatusMove ==
  \/ \E r \in Requests, b \in Bookings : CreateBooking(r, b)
  \/ \E e \in Event : ApplyEvent(e)
  \/ \E r \in Requests : SetCompleted(r) \/ CancelRow(r)
  \/ UNCHANGED <<status, events>>

LEMMA StatusMoves ==
  ASSUME TypeInv, [Next]_vars
  PROVE  StatusMove
<1>2. CASE UNCHANGED vars
  BY <1>2 DEF vars, rows, StatusMove
<1>3. ASSUME NEW r \in Requests, NEW b \in Bookings, Start(r, b)
      PROVE  StatusMove
  BY <1>3 DEF Start, StartPay, StartComplete, StartNoShow, StartCancel, ResolveWithRefund,
              StatusMove, rows
<1>4. ASSUME NEW r \in Requests, Step(r)
      PROVE  StatusMove
  <2>1. CASE SetCompleted(r) \/ CancelRow(r)
    BY <2>1 DEF StatusMove
  <2>2. CASE \E e \in Event : ApplyEvent(e)
    BY <2>2 DEF StatusMove
  <2>3. CASE UNCHANGED <<status, events>>
    BY <2>3 DEF StatusMove
  <2>4. /\ req[r].ref \in 0..MaxRef
        /\ 0 \in 0..MaxRef
    BY ConstantsAssumption DEF TypeInv, TypeOK, Request
  <2>5. CASE Decline(r) \/ Authorized(r) \/ VoidIntent(r)
    BY <2>2, <2>4, <2>5, OwnEventTyped
    DEF Decline, Authorized, VoidIntent, ProviderEvents, LocalEvents
  <2>6. CASE Capture(r) \/ RefundHold(r)
    BY <2>2, <2>4, <2>6, KnownEventTyped DEF Capture, RefundHold, CaptureRefused, ProviderEvents
  <2> QED BY <1>4, <2>1, <2>3, <2>5, <2>6
          DEF Step, InitiatePayment, InitiatePaymentFails, ReadForAuthorize, PlaceHold,
              ReadAfterPay, ScheduleReminders, ReadForCapture, CaptureFails, SetNoShowParty,
              ReadForRefund, RefundFails, CancelReminders, rows
<1>5. CASE Environment
  BY <1>5 DEF Environment, RaiseDispute, CloseDispute, ClearingPasses, TimePasses, PayoutRun,
              Redeliver, Abort, Restart, rows, StatusMove, TypeInv, TypeOK
<1> QED BY <1>2, <1>3, <1>4, <1>5 DEF Next

\* What one step may do to one booking's status.
LEMMA StatusStep ==
  ASSUME TypeInv, StatusMove, NEW b \in Bookings, status'[b] # status[b]
  PROVE  \/ status[b] = "none" /\ status'[b] = "pending_payment"
         \/ /\ status[b] = "pending_payment" /\ status'[b] = "confirmed"
            /\ Applied("authorized", b)'
         \/ /\ status'[b] = "completed"
            /\ \E r \in Requests : req[r].at = "complete" /\ req[r].b = b
         \/ status'[b] = "cancelled"
<1> USE DEF TypeInv, TypeOK
<1>1. ASSUME NEW r \in Requests, NEW c \in Bookings, CreateBooking(r, c)
      PROVE  status[b] = "none" /\ status'[b] = "pending_payment"
  BY <1>1 DEF CreateBooking
<1>2. ASSUME NEW e \in Event, ApplyEvent(e)
      PROVE  /\ status[b] = "pending_payment" /\ status'[b] = "confirmed"
             /\ Applied("authorized", b)'
  <2>1. ~Seen(e) /\ events' = events \cup {e}
    BY <1>2 DEF ApplyEvent
  <2>2. e.pay = b /\ e.type = "authorized" /\ status[b] = "pending_payment"
    BY <1>2, <2>1 DEF ApplyEvent, ConfirmBookingForPayment
  <2> QED BY <1>2, <2>1, <2>2 DEF ApplyEvent, ConfirmBookingForPayment, Applied
<1>3. ASSUME NEW r \in Requests, SetCompleted(r)
      PROVE  status'[b] = "completed" /\ req[r].at = "complete" /\ req[r].b = b
  BY <1>3 DEF SetCompleted
<1>4. ASSUME NEW r \in Requests, CancelRow(r)
      PROVE  status'[b] = "cancelled"
  BY <1>4 DEF CancelRow
<1> QED BY <1>1, <1>2, <1>3, <1>4 DEF StatusMove

\* No webhook confirms a booking that has left pending_payment, and nothing puts
\* a booking back to pending_payment.
THEOREM NeverReopenedHolds == Spec => NeverReopened
<1>1. ASSUME TypeInv, [Next]_vars
      PROVE  \A b \in Bookings :
               status'[b] # status[b] =>
                 /\ status'[b] = "confirmed" => status[b] = "pending_payment"
                 /\ status'[b] = "pending_payment" => status[b] = "none"
  BY <1>1, StatusMoves, StatusStep
<1> QED BY <1>1, AlwaysTyped, PTL DEF Spec, NeverReopened

-----------------------------------------------------------------------------
(* Paid before taught.                                                      *)

\* PaidBeforeTaught is not inductive: a handler that has read "confirmed" may
\* write "completed" much later, so the handlers between that read and that
\* write carry the evidence with them.
Completing(q) ==
  \/ q.at \in {"capture_read", "capture", "complete"}
  \/ q.at = "flag" /\ q.op # "noshow_teacher"

CompletingIsPaid ==
  \A r \in Requests : Completing(req[r]) => Applied("authorized", req[r].b)

PaidInv == PaidBeforeTaught /\ CompletingIsPaid

LEMMA EventsGrow ==
  ASSUME TypeInv, [Next]_vars
  PROVE  events \subseteq events'
  BY MoneyMoves DEF MoneyMove, ApplyEvent, OpensIntent, PayoutRun, ClearingPasses

\* A handler is at a completing point because it was at one for the same booking,
\* or because it has just read that its booking is confirmed.
LEMMA CompletingStep ==
  ASSUME TypeInv, [Next]_vars, NEW r \in Requests, Completing(req'[r])
  PROVE  \/ Completing(req[r]) /\ req'[r].b = req[r].b
         \/ req'[r].b \in Bookings /\ status[req'[r].b] = "confirmed"
<1> DEFINE Goal(q, q2) == \/ Completing(q) /\ q2.b = q.b
                          \/ q2.b \in Bookings /\ status[q2.b] = "confirmed"
<1> USE DEF TypeInv, TypeOK
<1>0. \A s \in Requests : req[s] \in Request
  OBVIOUS
<1>2. ASSUME NEW s \in Requests, NEW b \in Bookings, Start(s, b)
      PROVE  Goal(req[r], req'[r])
  <2>1. CASE s # r
    <3>1. req'[r] = req[r]
      BY <1>2, <2>1 DEF Start, CreateBooking, StartPay, StartComplete, StartNoShow, StartCancel,
                        ResolveWithRefund, Begin
    <3> QED BY <3>1
  <2>2. CASE s = r /\ (StartComplete(s, b) \/ \E op \in OpNames : StartNoShow(s, b, op))
    BY <2>2 DEF StartComplete, StartNoShow, Begin, Request
  <2>3. CASE s = r /\ ( \/ CreateBooking(s, b) \/ StartPay(s, b) \/ ResolveWithRefund(s, b)
                        \/ \E op \in OpNames : StartCancel(s, b, op))
    <3>1. req'[r].at \in {"intent", "authorize", "refund_read", "cancel"}
      BY <2>3 DEF CreateBooking, StartPay, ResolveWithRefund, StartCancel, Begin, Request
    <3> QED BY <3>1 DEF Completing
  <2> QED BY <1>2, <2>1, <2>2, <2>3 DEF Start, OpNames
<1>3. ASSUME NEW s \in Requests, Step(s)
      PROVE  Goal(req[r], req'[r])
  <2>1. CASE s # r
    <3>1. req'[r] = req[r]
      BY <1>3, <2>1 DEF Step, InitiatePayment, InitiatePaymentFails, ReadForAuthorize, Decline,
              PlaceHold, Authorized, ReadAfterPay, ScheduleReminders, ReadForCapture,
              CaptureFails, Capture, SetNoShowParty, SetCompleted, CancelRow, ReadForRefund,
              VoidIntent, RefundHold, RefundFails, CancelReminders, Goto, GotoWith, Finish,
              AfterCapture, AfterRefund
    <3> QED BY <3>1
  <2>2. CASE s = r /\ Completing(req[r])
    <3>1. req'[r].b = req[r].b \/ req'[r] = Idle
      BY <1>3, <2>2, <1>0 DEF Step, InitiatePayment, InitiatePaymentFails, ReadForAuthorize,
              Decline, PlaceHold, Authorized, ReadAfterPay, ScheduleReminders, ReadForCapture,
              CaptureFails, Capture, SetNoShowParty, SetCompleted, CancelRow, ReadForRefund,
              VoidIntent, RefundHold, RefundFails, CancelReminders, Goto, GotoWith, Finish,
              AfterCapture, AfterRefund, Request
    <3> QED BY <2>2, <3>1 DEF Completing, Idle
  <2>3. CASE s = r /\ ~Completing(req[r])
    <3>1. ~Completing(req'[r])
      BY <1>3, <2>3, <1>0 DEF Step, InitiatePayment, InitiatePaymentFails, ReadForAuthorize,
              Decline, PlaceHold, Authorized, ReadAfterPay, ScheduleReminders, ReadForCapture,
              CaptureFails, Capture, SetNoShowParty, SetCompleted, CancelRow, ReadForRefund,
              VoidIntent, RefundHold, RefundFails, CancelReminders, Goto, GotoWith, Finish,
              AfterCapture, AfterRefund, Request, Completing, Idle
    <3> QED BY <3>1
  <2> QED BY <2>1, <2>2, <2>3
<1>4. CASE Environment
  <2>1. req'[r] = req[r] \/ req'[r] = Idle
    BY <1>4 DEF Environment, RaiseDispute, CloseDispute, ClearingPasses, TimePasses, PayoutRun,
                Redeliver, Abort, Restart, Finish
  <2> QED BY <2>1 DEF Completing, Idle
<1>5. CASE UNCHANGED vars
  BY <1>5 DEF vars
<1> QED BY <1>2, <1>3, <1>4, <1>5 DEF Next

LEMMA PaidStep ==
  ASSUME TypeInv, PaidInv, [Next]_vars
  PROVE  PaidInv'
<1>0. \A b \in Bookings : Applied("authorized", b) => Applied("authorized", b)'
  BY EventsGrow DEF Applied
<1>1. PaidBeforeTaught'
  <2> SUFFICES ASSUME NEW b \in Bookings, status'[b] \in {"confirmed", "completed"}
               PROVE  Applied("authorized", b)'
    BY DEF PaidBeforeTaught
  <2>1. CASE status'[b] = status[b]
    BY <2>1, <1>0 DEF PaidInv, PaidBeforeTaught
  <2>2. CASE status'[b] # status[b] /\ status'[b] = "confirmed"
    BY <2>2, StatusMoves, StatusStep
  <2>3. CASE status'[b] # status[b] /\ status'[b] = "completed"
    <3>1. PICK r \in Requests : req[r].at = "complete" /\ req[r].b = b
      BY <2>3, StatusMoves, StatusStep
    <3>2. Applied("authorized", b)
      BY <3>1 DEF PaidInv, CompletingIsPaid, Completing
    <3> QED BY <3>2, <1>0
  <2> QED BY <2>1, <2>2, <2>3
<1>2. CompletingIsPaid'
  <2> SUFFICES ASSUME NEW r \in Requests, Completing(req'[r])
               PROVE  Applied("authorized", req[r].b)'
    BY DEF CompletingIsPaid, Completing
  <2>1. CASE Completing(req[r]) /\ req'[r].b = req[r].b
    <3>1. req[r].b \in Bookings
      BY <2>1 DEF Completing, TypeInv, Serving
    <3> QED BY <2>1, <3>1, EventsGrow DEF PaidInv, CompletingIsPaid, Applied
  <2>2. CASE req'[r].b \in Bookings /\ status[req'[r].b] = "confirmed"
    BY <2>2, EventsGrow DEF PaidInv, PaidBeforeTaught, Applied
  <2> QED BY <2>1, <2>2, CompletingStep
<1> QED BY <1>1, <1>2 DEF PaidInv

\* Whatever pays, declines, cancels, aborts and restarts raced, a lesson is
\* confirmed or completed only after a hold was authorized for that booking.
THEOREM PaidBeforeTaughtHolds == Spec => []PaidBeforeTaught
<1>1. Init => PaidInv
  BY DEF Init, PaidInv, PaidBeforeTaught, CompletingIsPaid, Completing, Idle
<1>2. TypeInv /\ PaidInv /\ [Next]_vars => PaidInv'
  BY PaidStep
<1>3. PaidInv => PaidBeforeTaught
  BY DEF PaidInv
<1> QED BY <1>1, <1>2, <1>3, AlwaysTyped, PTL DEF Spec

-----------------------------------------------------------------------------
(* References and captures, until the process is restarted.                 *)

\* RefReachesItsPayment is not inductive: a reference is stored in a payment by an
\* event, and comes to the event from a handler.  So wherever a reference is, it has
\* been handed out, and the provider's map has the booking it came with.
RefsInv ==
  /\ \A b \in Bookings :
       payment[b].ref \in 0..seq /\ (payment[b].ref # 0 => holder[payment[b].ref] = b)
  /\ \A r \in Requests :
       /\ req[r].ref \in 0..seq /\ (req[r].ref # 0 => holder[req[r].ref] = req[r].b)
       /\ req[r].at = "authorized" => req[r].ref # 0
  /\ \A e \in events : e.type \in ProviderEvents => e.ref \in 1..seq /\ holder[e.ref] = e.pay

\* An event of the provider is about a reference of its own payment.
Rightful(e) == e.type \in ProviderEvents => e.ref \in 1..seq /\ holder[e.ref] = e.pay

\* Without a restart the sequence grows, and what was handed out stays.
LEMMA HoldersStay ==
  ASSUME TypeInv, [Next]_vars, restarts' = 0
  PROVE  /\ restarts = 0
         /\ seq \in Nat /\ seq' \in Nat /\ seq <= seq'
         /\ \A f \in 1..seq : holder'[f] = holder[f]
<1> USE ConstantsAssumption DEF TypeInv, TypeOK, rows, provider
<1>0. seq \in Nat
  OBVIOUS
<1>1. CASE UNCHANGED <<seq, holder, restarts>>
  BY <1>0, <1>1
<1>2. ASSUME NEW r \in Requests, PlaceHold(r)
      PROVE  restarts = 0 /\ seq' \in Nat /\ seq <= seq' /\ \A f \in 1..seq : holder'[f] = holder[f]
  BY <1>0, <1>2 DEF PlaceHold, NextRef, Refs
<1>3. ~Restart
  BY DEF Restart
<1>4. CASE UNCHANGED vars
  BY <1>1, <1>4 DEF vars
<1>5. ASSUME NEW r \in Requests, NEW b \in Bookings, Start(r, b)
      PROVE  UNCHANGED <<seq, holder, restarts>>
  BY <1>5 DEF Start, CreateBooking, StartPay, StartComplete, StartNoShow, StartCancel, ResolveWithRefund
<1>6. ASSUME NEW r \in Requests, Step(r), ~PlaceHold(r)
      PROVE  UNCHANGED <<seq, holder, restarts>>
  BY <1>6 DEF Step, InitiatePayment, InitiatePaymentFails, ReadForAuthorize, Decline, Authorized,
              ReadAfterPay, ScheduleReminders, ReadForCapture, CaptureFails, Capture,
              SetNoShowParty, SetCompleted, CancelRow, ReadForRefund, VoidIntent, RefundHold,
              RefundFails, CancelReminders
<1>7. ASSUME Environment
      PROVE  UNCHANGED <<seq, holder, restarts>>
  BY <1>3, <1>7 DEF Environment, RaiseDispute, CloseDispute, ClearingPasses, TimePasses, PayoutRun,
                    Redeliver, Abort
<1> QED BY <1>0, <1>1, <1>2, <1>4, <1>5, <1>6, <1>7 DEF Next

\* Every event that is applied is rightful, a redelivered one because it was.
LEMMA RightfulMoves ==
  ASSUME TypeInv, RefsInv, [Next]_vars
  PROVE  \/ \E e \in Event : Rightful(e) /\ ApplyEvent(e)
         \/ OpensIntent
         \/ UNCHANGED <<payment, events>>
<1> USE DEF rows, provider
<1> DEFINE Goal == \/ \E e \in Event : Rightful(e) /\ ApplyEvent(e)
                   \/ OpensIntent
                   \/ UNCHANGED <<payment, events>>
<1>1. CASE UNCHANGED vars
  BY <1>1 DEF vars
<1>2. ASSUME NEW r \in Requests, NEW b \in Bookings, Start(r, b)
      PROVE  Goal
  BY <1>2 DEF Start, CreateBooking, StartPay, StartComplete, StartNoShow, StartCancel, ResolveWithRefund
<1>3. ASSUME NEW r \in Requests, Step(r)
      PROVE  Goal
  <2>0. /\ req[r].ref \in 0..MaxRef /\ 0 \in 0..MaxRef /\ seq \in Nat
        /\ req[r].ref \in 0..seq /\ (req[r].ref # 0 => holder[req[r].ref] = req[r].b)
        /\ req[r].at = "authorized" => req[r].ref # 0
    BY ConstantsAssumption DEF TypeInv, TypeOK, Request, RefsInv
  <2>1. CASE InitiatePayment(r)
    BY <2>1 DEF InitiatePayment, OpensIntent, TypeInv, Serving
  <2>2. CASE Decline(r) \/ VoidIntent(r)
    <3>1. \A type \in LocalEvents : Rightful(Money(type, 0, req[r].b))
      BY DEF Rightful, Money, LocalEvents, ProviderEvents
    <3> QED BY <2>2, <2>0, <3>1, OwnEventTyped DEF Decline, VoidIntent, LocalEvents
  <2>3. CASE Authorized(r)
    <3>1. req[r].ref \in 1..seq
      BY <2>0, <2>3 DEF Authorized
    <3>2. Rightful(Money("authorized", req[r].ref, req[r].b))
      BY <2>0, <3>1 DEF Rightful, Money
    <3> QED BY <2>3, <2>0, <3>2, OwnEventTyped DEF Authorized, ProviderEvents
  <2>4. CASE Capture(r) \/ RefundHold(r)
    <3>1. Known(req[r].ref)
      BY <2>4 DEF Capture, RefundHold, CaptureRefused
    <3>2. req[r].ref \in 1..seq
      BY <2>0, <3>1 DEF Known, Refs
    <3>3. \A type \in ProviderEvents : Rightful(Money(type, req[r].ref, holder[req[r].ref]))
      BY <3>2 DEF Rightful, Money
    <3> QED BY <2>4, <2>0, <3>1, <3>3, KnownEventTyped DEF Capture, RefundHold, ProviderEvents
  <2> QED BY <1>3, <2>1, <2>2, <2>3, <2>4
          DEF Step, InitiatePaymentFails, ReadForAuthorize, PlaceHold, ReadAfterPay,
              ScheduleReminders, ReadForCapture, CaptureFails, SetNoShowParty, SetCompleted,
              CancelRow, ReadForRefund, RefundFails, CancelReminders
<1>4. CASE Environment
  <2>1. ASSUME NEW e \in events, Redeliver(e)
        PROVE  Goal
    BY <2>1 DEF Redeliver, RefsInv, Rightful, TypeInv, TypeOK
  <2> QED BY <1>4, <2>1 DEF Environment, RaiseDispute, CloseDispute, ClearingPasses, TimePasses,
                            PayoutRun, Abort, Restart
<1> QED BY <1>1, <1>2, <1>3, <1>4 DEF Next

\* Where the reference of a handler comes from.
LEMMA RefOrigin ==
  ASSUME TypeInv, [Next]_vars, NEW r \in Requests
  PROVE  \/ req'[r].ref = 0 /\ req'[r].at # "authorized"
         \/ /\ req'[r].ref = req[r].ref /\ req'[r].b = req[r].b
            /\ req'[r].at = "authorized" => req[r].at = "authorized"
         \/ /\ req'[r].b \in Bookings /\ req'[r].ref = payment[req'[r].b].ref
            /\ req'[r].at # "authorized"
         \/ /\ req'[r].ref = seq + 1 /\ seq' = seq + 1 /\ seq < MaxRef
            /\ holder'[seq + 1] = req'[r].b
<1> USE DEF TypeInv, TypeOK
<1> DEFINE Goal == \/ req'[r].ref = 0 /\ req'[r].at # "authorized"
                   \/ /\ req'[r].ref = req[r].ref /\ req'[r].b = req[r].b
                      /\ req'[r].at = "authorized" => req[r].at = "authorized"
                   \/ /\ req'[r].b \in Bookings /\ req'[r].ref = payment[req'[r].b].ref
                      /\ req'[r].at # "authorized"
                   \/ /\ req'[r].ref = seq + 1 /\ seq' = seq + 1 /\ seq < MaxRef
                      /\ holder'[seq + 1] = req'[r].b
<1>0. \A s \in Requests : req[s] \in Request
  OBVIOUS
<1>1. CASE req'[r] = req[r]
  BY <1>1
<1>2. CASE req'[r] = Idle
  BY <1>2 DEF Idle
<1>3. ASSUME NEW s \in Requests, NEW b \in Bookings, Start(s, b)
      PROVE  Goal
  <2>1. CASE s # r
    <3>1. req'[r] = req[r]
      BY <1>3, <2>1 DEF Start, CreateBooking, StartPay, StartComplete, StartNoShow, StartCancel,
                        ResolveWithRefund, Begin
    <3> QED BY <1>1, <3>1
  <2>2. CASE s = r
    <3>1. req'[r].ref = 0 /\ req'[r].at # "authorized"
      BY <1>3, <2>2 DEF Start, CreateBooking, StartPay, StartComplete, StartNoShow, StartCancel,
                        ResolveWithRefund, Begin
    <3> QED BY <3>1
  <2> QED BY <2>1, <2>2
<1>4. ASSUME NEW s \in Requests, Step(s)
      PROVE  Goal
  <2>1. CASE s # r
    <3>1. req'[r] = req[r]
      BY <1>4, <2>1 DEF Step, InitiatePayment, InitiatePaymentFails, ReadForAuthorize, Decline,
              PlaceHold, Authorized, ReadAfterPay, ScheduleReminders, ReadForCapture,
              CaptureFails, Capture, SetNoShowParty, SetCompleted, CancelRow, ReadForRefund,
              VoidIntent, RefundHold, RefundFails, CancelReminders, Goto, GotoWith, Finish,
              AfterCapture, AfterRefund
    <3> QED BY <1>1, <3>1
  <2>2. CASE s = r /\ PlaceHold(r)
    <3>1. seq + 1 \in Refs /\ seq' = seq + 1 /\ seq < MaxRef
      BY <2>2, ConstantsAssumption DEF PlaceHold, NextRef, Refs
    <3>2. req'[r].ref = seq + 1 /\ req'[r].b = req[r].b
      BY <2>2, <1>0 DEF PlaceHold, NextRef, GotoWith, Request
    <3>3. holder'[seq + 1] = req[r].b
      BY <2>2, <3>1 DEF PlaceHold, NextRef
    <3> QED BY <3>1, <3>2, <3>3
  <2>3. CASE s = r /\ (ReadForCapture(r) \/ ReadForRefund(r))
    <3>1. req[r].b \in Bookings
      BY <2>3 DEF ReadForCapture, ReadForRefund, Serving
    <3> QED BY <2>3, <3>1, <1>0 DEF ReadForCapture, ReadForRefund, AfterCapture, AfterRefund, Goto,
                                    GotoWith, Finish, Idle, Request
  <2>4. CASE s = r /\ ~PlaceHold(r) /\ ~ReadForCapture(r) /\ ~ReadForRefund(r)
    <3>1. \/ req'[r] = Idle
          \/ req'[r].ref = req[r].ref /\ req'[r].b = req[r].b /\ req'[r].at # "authorized"
      BY <1>4, <2>4, <1>0 DEF Step, InitiatePayment, InitiatePaymentFails, ReadForAuthorize,
              Decline, Authorized, ReadAfterPay, ScheduleReminders,
              CaptureFails, Capture, SetNoShowParty, SetCompleted, CancelRow,
              VoidIntent, RefundHold, RefundFails, CancelReminders, Goto, Finish,
              AfterCapture, AfterRefund, Request
    <3> QED BY <1>2, <3>1
  <2> QED BY <2>1, <2>2, <2>3, <2>4
<1>5. CASE Environment
  <2>1. req'[r] = req[r] \/ req'[r] = Idle
    BY <1>5 DEF Environment, RaiseDispute, CloseDispute, ClearingPasses, TimePasses, PayoutRun,
                Redeliver, Abort, Restart, Finish
  <2> QED BY <1>1, <1>2, <2>1
<1>6. CASE UNCHANGED vars
  BY <1>1, <1>6 DEF vars
<1> QED BY <1>3, <1>4, <1>5, <1>6 DEF Next

LEMMA RefsStep ==
  ASSUME TypeInv, restarts = 0 => RefsInv, [Next]_vars
  PROVE  (restarts = 0 => RefsInv)'
<1> SUFFICES ASSUME restarts' = 0
             PROVE  RefsInv'
  OBVIOUS
<1>0. /\ RefsInv
      /\ seq \in Nat /\ seq' \in Nat /\ seq <= seq'
      /\ \A f \in 1..seq : holder'[f] = holder[f]
  BY HoldersStay
<1>a. payment \in [Bookings -> [status : PaymentStatus, ref : 0..MaxRef]]
  BY DEF TypeInv, TypeOK
<1>1. \A b \in Bookings :
        payment'[b].ref \in 0..seq /\ (payment'[b].ref # 0 => holder[payment'[b].ref] = b)
  <2> SUFFICES ASSUME NEW b \in Bookings
               PROVE  payment'[b].ref \in 0..seq /\ (payment'[b].ref # 0 => holder[payment'[b].ref] = b)
    OBVIOUS
  <2>0. payment[b].ref \in 0..seq /\ (payment[b].ref # 0 => holder[payment[b].ref] = b)
    BY <1>0 DEF RefsInv
  <2>1. ASSUME NEW e \in Event, Rightful(e), ApplyEvent(e)
        PROVE  payment'[b].ref \in 0..seq /\ (payment'[b].ref # 0 => holder[payment'[b].ref] = b)
    <3>1. CASE e.type = "authorized" /\ e.pay = b /\ ~Seen(e)
      <4>1. payment'[b].ref = e.ref
        BY <1>a, <2>1, <3>1 DEF ApplyEvent, MarkPayment, LocalEvents
      <4>2. e.ref \in 1..seq /\ holder[e.ref] = b
        BY <2>1, <3>1 DEF Rightful, ProviderEvents
      <4> QED BY <1>0, <4>1, <4>2
    <3>2. CASE ~(e.type = "authorized" /\ e.pay = b /\ ~Seen(e))
      <4>1. payment'[b].ref = payment[b].ref
        BY <1>a, <2>1, <3>2 DEF ApplyEvent, MarkPayment
      <4> QED BY <2>0, <4>1
    <3> QED BY <3>1, <3>2
  <2>2. CASE OpensIntent
    BY <1>0, <1>a, <2>0, <2>2 DEF OpensIntent
  <2>3. CASE UNCHANGED payment
    BY <2>0, <2>3
  <2> QED BY <1>0, <2>1, <2>2, <2>3, RightfulMoves
<1>2. \A e \in events' : e.type \in ProviderEvents => e.ref \in 1..seq /\ holder[e.ref] = e.pay
  <2>1. ASSUME NEW e \in Event, Rightful(e), ApplyEvent(e)
        PROVE  events' \subseteq events \cup {e}
    BY <2>1 DEF ApplyEvent
  <2> QED BY <1>0, <2>1, RightfulMoves DEF RefsInv, Rightful, OpensIntent
<1>3. ASSUME NEW r \in Requests
      PROVE  /\ req'[r].ref \in 0..seq' /\ (req'[r].ref # 0 => holder'[req'[r].ref] = req'[r].b)
             /\ req'[r].at = "authorized" => req'[r].ref # 0
  <2>0. /\ req[r].ref \in 0..seq /\ (req[r].ref # 0 => holder[req[r].ref] = req[r].b)
        /\ req[r].at = "authorized" => req[r].ref # 0
    BY <1>0 DEF RefsInv
  <2>1. CASE req'[r].ref = 0 /\ req'[r].at # "authorized"
    BY <1>0, <2>1
  <2>2. CASE /\ req'[r].ref = req[r].ref /\ req'[r].b = req[r].b
             /\ req'[r].at = "authorized" => req[r].at = "authorized"
    BY <1>0, <2>0, <2>2
  <2>3. CASE /\ req'[r].b \in Bookings /\ req'[r].ref = payment[req'[r].b].ref
             /\ req'[r].at # "authorized"
    <3>1. /\ req'[r].ref \in 0..seq
          /\ req'[r].ref # 0 => holder[req'[r].ref] = req'[r].b
      BY <1>0, <2>3 DEF RefsInv
    <3> QED BY <1>0, <2>3, <3>1
  <2>4. CASE /\ req'[r].ref = seq + 1 /\ seq' = seq + 1 /\ seq < MaxRef
             /\ holder'[seq + 1] = req'[r].b
    BY <1>0, <2>4
  <2> QED BY <2>1, <2>2, <2>3, <2>4, RefOrigin
<1>4. \A b \in Bookings :
        payment'[b].ref \in 0..seq' /\ (payment'[b].ref # 0 => holder'[payment'[b].ref] = b)
  BY <1>0, <1>1
<1>5. \A e \in events' : e.type \in ProviderEvents => e.ref \in 1..seq' /\ holder'[e.ref] = e.pay
  BY <1>0, <1>2
<1> QED BY <1>3, <1>4, <1>5 DEF RefsInv

LEMMA RefsInit == Init => RefsInv
  BY DEF Init, RefsInv, Idle

LEMMA RefsKept == Spec => [](restarts = 0 => RefsInv)
<1>1. TypeInv /\ (restarts = 0 => RefsInv) /\ [Next]_vars => (restarts = 0 => RefsInv)'
  BY RefsStep
<1> QED BY <1>1, RefsInit, AlwaysTyped, PTL DEF Spec

\* Until the process is restarted, the reference a payment stores leads the provider
\* back to this payment: a capture or a refund by reference reaches what it was asked for.
THEOREM RefReachesItsPaymentHolds == Spec => [](restarts = 0 => RefReachesItsPayment)
<1>1. RefsInv => RefReachesItsPayment
  BY DEF RefsInv, RefReachesItsPayment
<1> QED BY <1>1, RefsKept, PTL

\* A handler that will complete its lesson has captured the lesson's payment, or
\* found it captured.
Collected(q) == q.at = "complete" \/ (q.at = "flag" /\ q.op = "noshow_student")

CompletingIsCaptured ==
  \A r \in Requests : Collected(req[r]) => Applied("captured", req[r].b)

CapturedInv == CompletedIsCaptured /\ CompletingIsCaptured

\* The provider's answer is about the booking that asked: the event that is logged,
\* now or in an earlier capture by the same reference, is that of its payment.
LEMMA CaptureReaches ==
  ASSUME TypeInv, RefsInv, NEW r \in Requests, Capture(r)
  PROVE  \E f \in events' : f.type = "captured" /\ f.pay = req[r].b
<1> DEFINE e == Money("captured", req[r].ref, holder[req[r].ref])
<1>1. ApplyEvent(e) /\ Known(req[r].ref)
  BY DEF Capture, CaptureRefused
<1>2. req[r].ref # 0 /\ holder[req[r].ref] = req[r].b
  BY <1>1 DEF Known, Refs, RefsInv
<1>3. CASE Seen(e)
  <2>1. PICK f \in events : f.type = "captured" /\ f.ref = req[r].ref
    BY <1>3 DEF Seen, SameId, Money, ProviderEvents
  <2>2. f.pay = req[r].b
    BY <1>2, <2>1 DEF RefsInv, ProviderEvents
  <2>3. f \in events'
    BY <1>1, <1>3 DEF ApplyEvent
  <2> QED BY <2>1, <2>2, <2>3
<1>4. CASE ~Seen(e)
  BY <1>1, <1>2, <1>4 DEF ApplyEvent, Money
<1> QED BY <1>3, <1>4

\* A handler gets there by a capture, or by reading that there was one.
LEMMA CollectedStep ==
  ASSUME TypeInv, [Next]_vars, NEW r \in Requests, Collected(req'[r])
  PROVE  \/ Collected(req[r]) /\ req'[r].b = req[r].b
         \/ req'[r].b \in Bookings /\ payment[req'[r].b].status = "captured"
         \/ Capture(r) /\ req'[r].b = req[r].b
<1> DEFINE Goal == \/ Collected(req[r]) /\ req'[r].b = req[r].b
                   \/ req'[r].b \in Bookings /\ payment[req'[r].b].status = "captured"
                   \/ Capture(r) /\ req'[r].b = req[r].b
<1> USE DEF TypeInv, TypeOK
<1>0. \A s \in Requests : req[s] \in Request
  OBVIOUS
<1>1. CASE req'[r] = req[r]
  BY <1>1
<1>2. req'[r] # Idle
  BY DEF Collected, Idle
<1>3. ASSUME NEW s \in Requests, NEW b \in Bookings, Start(s, b)
      PROVE  req'[r] = req[r]
  <2>1. CASE s = r
    <3>1. ~Collected(req'[r])
      BY <1>3, <2>1 DEF Start, CreateBooking, StartPay, StartComplete, StartNoShow, StartCancel,
                        ResolveWithRefund, Begin, Collected
    <3> QED BY <3>1
  <2> QED BY <1>3, <2>1 DEF Start, CreateBooking, StartPay, StartComplete, StartNoShow, StartCancel,
                            ResolveWithRefund, Begin
<1>4. ASSUME NEW s \in Requests, Step(s)
      PROVE  Goal
  <2>1. CASE s # r
    <3>1. req'[r] = req[r]
      BY <1>4, <2>1 DEF Step, InitiatePayment, InitiatePaymentFails, ReadForAuthorize, Decline,
              PlaceHold, Authorized, ReadAfterPay, ScheduleReminders, ReadForCapture,
              CaptureFails, Capture, SetNoShowParty, SetCompleted, CancelRow, ReadForRefund,
              VoidIntent, RefundHold, RefundFails, CancelReminders, Goto, GotoWith, Finish,
              AfterCapture, AfterRefund
    <3> QED BY <1>1, <3>1
  <2>2. CASE s = r /\ ReadForCapture(r)
    <3>1. req[r].b \in Bookings
      BY <2>2 DEF ReadForCapture, Serving
    <3>2. payment[req[r].b].status = "captured" /\ req'[r].b = req[r].b
      BY <2>2, <1>0, <1>2 DEF ReadForCapture, AfterCapture, Goto, GotoWith, Finish, Request, Collected
    <3> QED BY <3>1, <3>2
  <2>3. CASE s = r /\ Capture(r)
    BY <2>3, <1>0 DEF Capture, AfterCapture, Goto, Request
  <2>4. CASE s = r /\ SetNoShowParty(r)
    BY <2>4, <1>0 DEF SetNoShowParty, Goto, Request, Collected
  <2>5. CASE s = r /\ ~ReadForCapture(r) /\ ~Capture(r) /\ ~SetNoShowParty(r)
    <3>1. ~Collected(req'[r])
      BY <1>4, <2>5, <1>0 DEF Step, InitiatePayment, InitiatePaymentFails, ReadForAuthorize,
              Decline, PlaceHold, Authorized, ReadAfterPay, ScheduleReminders,
              CaptureFails, SetCompleted, CancelRow, ReadForRefund,
              VoidIntent, RefundHold, RefundFails, CancelReminders, Goto, GotoWith, Finish,
              AfterRefund, Request, Collected, Idle
    <3> QED BY <3>1
  <2> QED BY <2>1, <2>2, <2>3, <2>4, <2>5
<1>5. CASE Environment
  <2>1. req'[r] = req[r] \/ req'[r] = Idle
    BY <1>5 DEF Environment, RaiseDispute, CloseDispute, ClearingPasses, TimePasses, PayoutRun,
                Redeliver, Abort, Restart, Finish
  <2> QED BY <1>1, <1>2, <2>1
<1>6. CASE UNCHANGED vars
  BY <1>1, <1>6 DEF vars
<1> QED BY <1>1, <1>3, <1>4, <1>5, <1>6 DEF Next

LEMMA CapturedStep ==
  ASSUME TypeInv, restarts = 0 => RefsInv, restarts = 0 => CapturedInv, MoneyRowsAgree,
         [Next]_vars
  PROVE  (restarts = 0 => CapturedInv)'
<1> SUFFICES ASSUME restarts' = 0
             PROVE  CapturedInv'
  OBVIOUS
<1>0. RefsInv /\ CapturedInv
  BY HoldersStay
<1>1. CompletedIsCaptured'
  <2> SUFFICES ASSUME NEW b \in Bookings, status'[b] = "completed"
               PROVE  Applied("captured", b)'
    BY DEF CompletedIsCaptured
  <2>1. Applied("captured", b)
    <3>1. CASE status'[b] = status[b]
      BY <1>0, <3>1 DEF CapturedInv, CompletedIsCaptured
    <3>2. CASE status'[b] # status[b]
      <4>1. PICK r \in Requests : req[r].at = "complete" /\ req[r].b = b
        BY <3>2, StatusMoves, StatusStep
      <4> QED BY <1>0, <4>1 DEF CapturedInv, CompletingIsCaptured, Collected
    <3> QED BY <3>1, <3>2
  <2> QED BY <2>1, EventsGrow DEF Applied
<1>2. CompletingIsCaptured'
  <2> SUFFICES ASSUME NEW r \in Requests, Collected(req'[r])
               PROVE  \E f \in events' : f.type = "captured" /\ f.pay = req'[r].b
    BY DEF CompletingIsCaptured, Collected, Applied
  <2>1. CASE Collected(req[r]) /\ req'[r].b = req[r].b
    BY <1>0, <2>1, EventsGrow DEF CapturedInv, CompletingIsCaptured, Applied
  <2>2. CASE req'[r].b \in Bookings /\ payment[req'[r].b].status = "captured"
    BY <2>2, EventsGrow DEF MoneyRowsAgree, Applied
  <2>3. CASE Capture(r) /\ req'[r].b = req[r].b
    BY <1>0, <2>3, CaptureReaches
  <2> QED BY <2>1, <2>2, <2>3, CollectedStep
<1> QED BY <1>1, <1>2 DEF CapturedInv

\* Until the process is restarted, a lesson is completed only after its own payment
\* was captured, whatever handlers race for it or for other lessons.
THEOREM CompletedIsCapturedHolds == Spec => [](restarts = 0 => CompletedIsCaptured)
<1>1. Init => CapturedInv
  BY DEF Init, CapturedInv, CompletedIsCaptured, CompletingIsCaptured, Collected, Idle
<1>2. TypeInv /\ (restarts = 0 => RefsInv) /\ (restarts = 0 => CapturedInv) /\ MoneyRowsAgree
        /\ [Next]_vars => (restarts = 0 => CapturedInv)'
  BY CapturedStep
<1>3. CapturedInv => CompletedIsCaptured
  BY DEF CapturedInv
<1> QED BY <1>1, <1>2, <1>3, RefsKept, AlwaysTyped, MoneyRowsAlwaysAgree, PTL DEF Spec

-----------------------------------------------------------------------------
(* One request after the other: the rows agree whenever none is running.    *)

\* Requests that run one after the other, none of them aborted, and no force-cancel
\* that leaves the money where it is.
OneAtATime ==
  /\ \A q, r \in Requests : q = r
  /\ Faults = {}
  /\ "force_keep" \notin Ops

\* The status and the payment of a booking that no request is about.
Fits(s, p) ==
  /\ s = "none" => p = "none"
  /\ s = "pending_payment" => p \in {"requires_payment", "failed"}
  /\ s = "confirmed" => p \in {"authorized", "refunded"}
  /\ s = "completed" => p \in {"captured", "refunded"}
  /\ s = "cancelled" => p \in {"failed", "refunded"}

Rests(b) ==
  /\ Fits(status[b], payment[b].status)
  /\ noShow[b] = "student" => status[b] = "completed"
  /\ noShow[b] = "teacher" => status[b] = "cancelled"
  /\ reminder[b] => status[b] \in {"confirmed", "completed"}

\* A cancellation that has written its status and not yet moved the money.
Refunding(q) ==
  q.op \in {"cancel", "noshow_teacher"} /\ status[q.b] = "cancelled" /\ noShow[q.b] # "student"

\* How far a request has come with the rows of its booking, by where it is.
Serves(r) ==
  LET q == req[r]
      s == status[q.b]
      p == payment[q.b].status
      n == noShow[q.b] IN
  /\ q.at = "intent" => s = "pending_payment" /\ p = "none" /\ n = "nobody" /\ ~reminder[q.b]
  /\ q.at \in {"authorize", "hold", "authorized"} => Rests(q.b) /\ s = "pending_payment"
  /\ q.at = "authorized" => \A e \in events : e.type \in ProviderEvents => e.ref # q.ref
  /\ q.at \in {"confirmed", "remind"} => Rests(q.b) /\ s = "confirmed"
  /\ q.at \in {"capture_read", "capture"} =>
       Rests(q.b) /\ s = "confirmed" /\ q.op \in {"complete", "noshow_student"}
  /\ q.at = "capture" => p = "authorized" /\ q.ref = payment[q.b].ref
  /\ q.at = "flag" =>
       /\ s = "confirmed" /\ n = "nobody"
       /\ \/ q.op = "noshow_student" /\ p = "captured"
          \/ q.op = "noshow_teacher" /\ Fits(s, p)
  /\ q.at = "complete" =>
       /\ s = "confirmed" /\ p = "captured"
       /\ \/ q.op = "complete" /\ n = "nobody"
          \/ q.op = "noshow_student" /\ n = "student"
  /\ q.at = "cancel" =>
       /\ s \in {"pending_payment", "confirmed"} /\ Fits(s, p) /\ n # "student"
       /\ q.op \in {"cancel", "noshow_teacher"}
  /\ q.at = "refund_read" =>
       \/ q.op = "dispute" /\ Rests(q.b) /\ s \in {"confirmed", "completed", "cancelled"}
       \/ Refunding(q) /\ p \in {"requires_payment", "failed", "authorized", "refunded"}
  /\ q.at = "void" =>
       /\ p \in {"requires_payment", "failed"}
       /\ Refunding(q) \/ (q.op = "dispute" /\ Rests(q.b) /\ s = "cancelled")
  /\ q.at = "refund" =>
       /\ p \in {"authorized", "captured"} /\ q.ref = payment[q.b].ref
       /\ Refunding(q) \/ (q.op = "dispute" /\ Rests(q.b) /\ s \in {"confirmed", "completed"})
  /\ q.at = "unremind" =>
       \/ Refunding(q) /\ p \in {"failed", "refunded"}
       \/ q.op = "noshow_student" /\ s = "completed" /\ p = "captured" /\ n = "student"

\* The event a request is about to send is a new one, so that it moves the money.
Fresh ==
  /\ \A b \in Bookings : payment[b].status \in {"authorized", "captured"} => payment[b].ref # 0
  /\ \A b \in Bookings : dispute[b] => status[b] \in {"confirmed", "completed", "cancelled"}
  /\ \A e \in events : e.type = "voided" => payment[e.pay].status \notin {"none", "requires_payment"}
  /\ \A e \in events : e.type \in {"captured", "refunded"} /\ e.ref = payment[e.pay].ref =>
                         payment[e.pay].status # "authorized"
  /\ \A e \in events : e.type = "refunded" /\ e.ref = payment[e.pay].ref =>
                         payment[e.pay].status # "captured"

Served(b) == \E r \in Requests : req[r].at # "idle" /\ req[r].b = b

SettledInv ==
  /\ \A b \in Bookings : ~Served(b) => Rests(b)
  /\ \A r \in Requests : Serves(r)
  /\ Fresh

LEMMA SettledInit == Init => SettledInv
  BY DEF Init, SettledInv, Served, Rests, Fits, Serves, Refunding, Fresh, Idle

\* What decides whether a booking rests.
Untouched(c) ==
  /\ status'[c] = status[c] /\ payment'[c] = payment[c]
  /\ noShow'[c] = noShow[c] /\ reminder'[c] = reminder[c]

LEMMA UntouchedRests ==
  ASSUME NEW c, Untouched(c), Rests(c)
  PROVE  Rests(c)'
  BY DEF Untouched, Rests, Fits

\* A step of the only request there is: what it leaves to show.
LEMMA SettledByStep ==
  ASSUME OneAtATime, SettledInv, NEW r \in Requests, NEW b \in Bookings,
         req[r].at = "idle" \/ req[r].b = b,
         req'[r].at = "idle" \/ req'[r].b = b,
         \A c \in Bookings \ {b} : Untouched(c),
         req'[r].at = "idle" => Rests(b)',
         Serves(r)', Fresh'
  PROVE  SettledInv'
<1>1. \A q \in Requests : q = r
  BY DEF OneAtATime
<1>2. ASSUME NEW c \in Bookings, ~Served(c)'
      PROVE  Rests(c)'
  <2>1. CASE c = b
    <3>1. req'[r].at = "idle"
      BY <1>2, <2>1 DEF Served
    <3> QED BY <2>1, <3>1
  <2>2. CASE c # b
    <3>1. ~Served(c)
      BY <1>1, <2>2 DEF Served
    <3> QED BY <2>2, <3>1, UntouchedRests DEF SettledInv
  <2> QED BY <2>1, <2>2
<1> QED BY <1>1, <1>2 DEF SettledInv

LEMMA SettledStart ==
  ASSUME OneAtATime, TypeInv, SettledInv,
         NEW r \in Requests, NEW b \in Bookings, Start(r, b)
  PROVE  SettledInv'
<1> USE DEF TypeInv, TypeOK, rows
<1>0. /\ req[r] = Idle /\ req[r].at = "idle" /\ Rests(b)
      /\ req'[r].b = b /\ req'[r].at # "idle"
      /\ Fresh
  <2>1. req[r] = Idle /\ req'[r].b = b /\ req'[r].at # "idle"
    BY DEF Start, CreateBooking, StartPay, StartComplete, StartNoShow, StartCancel,
           ResolveWithRefund, Begin
  <2>2. ~Served(b)
    BY <2>1 DEF OneAtATime, Served, Idle
  <2> QED BY <2>1, <2>2 DEF SettledInv, Idle
<1>1. CASE CreateBooking(r, b)
  <2>1. Serves(r)'
    BY <1>0, <1>1 DEF CreateBooking, Begin, Serves, Rests, Fits
  <2>2. Fresh'
    BY <1>0, <1>1 DEF CreateBooking, Fresh
  <2>3. \A c \in Bookings \ {b} : Untouched(c)
    BY <1>1 DEF CreateBooking, Untouched
  <2> QED BY <1>0, <2>1, <2>2, <2>3, SettledByStep
<1>2. CASE ~CreateBooking(r, b)
  <2>1. UNCHANGED <<status, noShow, payment, events, reminder>>
    BY <1>2 DEF Start, StartPay, StartComplete, StartNoShow, StartCancel, ResolveWithRefund
  <2>2. \A c \in Bookings : dispute'[c] => dispute[c]
    BY <1>2 DEF Start, StartPay, StartComplete, StartNoShow, StartCancel, ResolveWithRefund
  <2>3. Fresh'
    BY <1>0, <2>1, <2>2 DEF Fresh
  <2>4. Rests(b)' /\ \A c \in Bookings : Untouched(c)
    BY <1>0, <2>1 DEF Rests, Untouched
  <2>5. Serves(r)'
    <3>1. CASE StartPay(r, b) \/ StartComplete(r, b)
      BY <1>0, <2>1, <2>4, <3>1 DEF StartPay, StartComplete, Begin, Serves
    <3>2. ASSUME NEW op \in {"noshow_student", "noshow_teacher"}, StartNoShow(r, b, op)
          PROVE  Serves(r)'
      BY <1>0, <2>1, <2>4, <3>2 DEF StartNoShow, Begin, Serves, Rests
    <3>3. ASSUME NEW op \in {"cancel", "force_keep"}, StartCancel(r, b, op)
          PROVE  Serves(r)'
      <4>1. op = "cancel"
        BY <3>3 DEF StartCancel, Begin, OneAtATime
      <4> QED BY <1>0, <2>1, <3>3, <4>1 DEF StartCancel, Begin, Serves, Rests
    <3>4. CASE ResolveWithRefund(r, b)
      <4>1. status[b] \in {"confirmed", "completed", "cancelled"}
        BY <1>0, <3>4 DEF ResolveWithRefund, Fresh
      <4> QED BY <1>0, <2>1, <2>4, <3>4, <4>1 DEF ResolveWithRefund, Begin, Serves
    <3> QED BY <1>2, <3>1, <3>2, <3>3, <3>4 DEF Start
  <2> QED BY <1>0, <2>3, <2>4, <2>5, SettledByStep
<1> QED BY <1>1, <1>2

\* A request that only reads, or only writes at the provider, goes on as it should.
LEMMA SettledReads ==
  ASSUME OneAtATime, TypeInv, RefsInv, SettledInv,
         NEW r \in Requests, NEW b \in Bookings, req[r].b = b,
         \/ InitiatePaymentFails(r) \/ ReadForAuthorize(r) \/ PlaceHold(r) \/ ReadAfterPay(r)
         \/ ReadForCapture(r) \/ CaptureFails(r) \/ ReadForRefund(r) \/ RefundFails(r)
  PROVE  SettledInv'
<1> USE DEF TypeInv, TypeOK, rows
<1>0. /\ req[r] \in Request
      /\ Serves(r) /\ Fresh
      /\ payment[b] \in [status : PaymentStatus, ref : 0..MaxRef]
  <2>1. req[r].at # "idle"
    BY DEF InitiatePaymentFails, ReadForAuthorize, PlaceHold, ReadAfterPay, ReadForCapture,
           CaptureFails, ReadForRefund, RefundFails
  <2> QED BY <2>1 DEF SettledInv
<1>1. UNCHANGED <<status, noShow, payment, events, reminder, dispute>>
  BY DEF InitiatePaymentFails, ReadForAuthorize, PlaceHold, ReadAfterPay, ReadForCapture,
         CaptureFails, ReadForRefund, RefundFails
<1>2. Fresh'
  BY <1>0, <1>1 DEF Fresh
<1>3. \A c \in Bookings : Untouched(c)
  BY <1>1 DEF Untouched
<1>4. Rests(b) => Rests(b)'
  BY <1>0, <1>3, UntouchedRests
<1>5. /\ req'[r].at = "idle" \/ req'[r].b = b
      /\ req'[r].at = "idle" => Rests(b)'
      /\ Serves(r)'
  <2>1. CASE InitiatePaymentFails(r)
    BY <2>1 DEF InitiatePaymentFails, OneAtATime
  <2>2. CASE ReadForAuthorize(r)
    BY <1>0, <1>1, <1>4, <2>2 DEF ReadForAuthorize, Goto, Finish, Idle, Serves, Rests, Request
  <2>3. CASE PlaceHold(r)
    <3>1. \A e \in events : e.type \in ProviderEvents => e.ref # seq + 1
      BY DEF RefsInv
    <3> QED BY <1>0, <1>1, <1>4, <2>3, <3>1 DEF PlaceHold, NextRef, GotoWith, Serves, Request
  <2>4. CASE ReadAfterPay(r)
    BY <1>0, <1>1, <1>4, <2>4 DEF ReadAfterPay, Goto, Finish, Idle, Serves, Request
  <2>5. CASE ReadForCapture(r)
    <3>1. payment[b].status # "captured"
      BY <1>0, <2>5 DEF ReadForCapture, Serves, Rests, Fits
    <3> QED BY <1>0, <1>1, <1>4, <2>5, <3>1 DEF ReadForCapture, GotoWith, Finish, Idle, Serves, Request
  <2>6. CASE CaptureFails(r)
    BY <1>0, <1>1, <1>4, <2>6 DEF CaptureFails, Finish, Idle, Serves
  <2>7. CASE ReadForRefund(r)
    <3>1. CASE payment[b].status \in {"none", "refunded"}
      <4>1. AfterRefund(r)
        BY <2>7, <3>1 DEF ReadForRefund
      <4>2. CASE req[r].op = "dispute"
        BY <1>0, <1>1, <1>4, <2>7, <4>1, <4>2 DEF ReadForRefund, AfterRefund, Finish, Idle, Serves, Refunding
      <4>3. CASE req[r].op # "dispute"
        BY <1>0, <1>1, <2>7, <3>1, <4>1, <4>3
        DEF ReadForRefund, AfterRefund, Goto, Serves, Refunding, Request
      <4> QED BY <4>2, <4>3
    <3>2. CASE payment[b].status \in {"requires_payment", "failed"}
      BY <1>0, <1>1, <1>4, <2>7, <3>2
      DEF ReadForRefund, Goto, Serves, Refunding, Rests, Fits, Request
    <3>3. CASE payment[b].status \in {"authorized", "captured"}
      <4>1. req' = [req EXCEPT ![r] = [req[r] EXCEPT !.at = "refund", !.ref = payment[b].ref]]
        BY <1>0, <2>7, <3>3 DEF ReadForRefund, GotoWith, Request
      <4>2. /\ req'[r].at = "refund" /\ req'[r].b = b /\ req'[r].op = req[r].op
            /\ req'[r].ref = payment[b].ref
        BY <1>0, <4>1 DEF Request
      <4> QED BY <1>0, <1>1, <1>4, <2>7, <3>3, <4>2
              DEF ReadForRefund, Serves, Refunding, Rests, Fits
    <3> QED BY <2>7, <3>1, <3>2, <3>3 DEF ReadForRefund
  <2>8. CASE RefundFails(r)
    <3>1. req[r].at = "refund" /\ ~Known(req[r].ref)
      BY <2>8 DEF RefundFails, OneAtATime
    <3>2. req[r].ref = payment[b].ref /\ payment[b].ref # 0
      BY <1>0, <3>1 DEF Serves, Fresh
    <3>3. holder[payment[b].ref] = b
      BY <1>0, <3>2 DEF RefsInv
    <3>4. payment[b].ref \in Refs
      BY <1>0, <3>2, ConstantsAssumption DEF Refs
    <3> QED BY <1>0, <3>1, <3>2, <3>3, <3>4, ConstantsAssumption DEF Known
  <2> QED BY <2>1, <2>2, <2>3, <2>4, <2>5, <2>6, <2>7, <2>8
<1> QED BY <1>0, <1>2, <1>3, <1>5, SettledByStep

\* A request that writes the booking, its intent or its reminders.
LEMMA SettledWrites ==
  ASSUME OneAtATime, TypeInv, SettledInv,
         NEW r \in Requests, NEW b \in Bookings, req[r].b = b,
         \/ InitiatePayment(r) \/ ScheduleReminders(r) \/ SetNoShowParty(r) \/ SetCompleted(r)
         \/ CancelRow(r) \/ CancelReminders(r)
  PROVE  SettledInv'
<1> USE DEF TypeInv, TypeOK, rows
<1>0. /\ req[r] \in Request
      /\ Serves(r) /\ Fresh
  BY DEF SettledInv
<1>1. \A c \in Bookings \ {b} : Untouched(c)
  BY DEF InitiatePayment, ScheduleReminders, SetNoShowParty, SetCompleted, CancelRow,
         CancelReminders, Untouched
<1>2. CASE InitiatePayment(r)
  <2>1. payment[b].status = "none"
    BY <1>0, <1>2 DEF InitiatePayment, Serves
  <2>2. Fresh'
    BY <1>0, <1>2, <2>1 DEF InitiatePayment, Fresh, Event
  <2>3. req'[r].at = "idle" /\ Rests(b)' /\ Serves(r)'
    BY <1>0, <1>2, <2>1 DEF InitiatePayment, Finish, Idle, Serves, Rests, Fits
  <2> QED BY <1>1, <2>2, <2>3, SettledByStep
<1>3. CASE ScheduleReminders(r)
  <2>1. Fresh'
    BY <1>0, <1>3 DEF ScheduleReminders, Fresh
  <2>2. req'[r].at = "idle" /\ Rests(b)' /\ Serves(r)'
    BY <1>0, <1>3 DEF ScheduleReminders, Finish, Idle, Serves, Rests, Fits
  <2> QED BY <1>1, <2>1, <2>2, SettledByStep
<1>4. CASE SetNoShowParty(r)
  <2>1. Fresh'
    BY <1>0, <1>4 DEF SetNoShowParty, Fresh
  <2>2. req'[r].at # "idle" /\ req'[r].b = b /\ Serves(r)'
    BY <1>0, <1>4 DEF SetNoShowParty, Goto, Serves, Fits, Request
  <2> QED BY <1>1, <2>1, <2>2, SettledByStep
<1>5. CASE SetCompleted(r)
  <2>1. Fresh'
    BY <1>0, <1>5 DEF SetCompleted, Fresh
  <2>2. \/ req'[r].at = "idle" /\ Rests(b)'
        \/ req'[r].at # "idle" /\ req'[r].b = b
    BY <1>0, <1>5 DEF SetCompleted, Goto, Finish, Idle, Serves, Rests, Fits, Request
  <2>3. Serves(r)'
    BY <1>0, <1>5 DEF SetCompleted, Goto, Finish, Idle, Serves, Request
  <2> QED BY <1>1, <2>1, <2>2, <2>3, SettledByStep
<1>6. CASE CancelRow(r)
  <2>1. Fresh'
    BY <1>0, <1>6 DEF CancelRow, Fresh
  <2>2. req'[r].at # "idle" /\ req'[r].b = b /\ Serves(r)'
    BY <1>0, <1>6 DEF CancelRow, Goto, Serves, Refunding, Fits, Request
  <2> QED BY <1>1, <2>1, <2>2, SettledByStep
<1>7. CASE CancelReminders(r)
  <2>1. Fresh'
    BY <1>0, <1>7 DEF CancelReminders, Fresh
  <2>2. req'[r].at = "idle" /\ Rests(b)' /\ Serves(r)'
    BY <1>0, <1>7 DEF CancelReminders, Finish, Idle, Serves, Refunding, Rests, Fits
  <2> QED BY <1>1, <2>1, <2>2, SettledByStep
<1> QED BY <1>2, <1>3, <1>4, <1>5, <1>6, <1>7

\* The webhook transaction writes the rows of its own payment only.
LEMMA ApplyEventTouches ==
  ASSUME TypeInv, NEW e \in Event, ApplyEvent(e), UNCHANGED <<noShow, reminder>>
  PROVE  \A c \in Bookings \ {e.pay} : Untouched(c)
<1> USE DEF TypeInv, TypeOK, Untouched
<1>1. CASE Seen(e)
  BY <1>1 DEF ApplyEvent
<1>2. CASE ~Seen(e)
  BY <1>2 DEF ApplyEvent, MarkPayment, ConfirmBookingForPayment
<1> QED BY <1>1, <1>2

\* A request that sends an event moves the money of its booking with it.
LEMMA SettledEvents ==
  ASSUME OneAtATime, TypeInv, RefsInv, SettledInv,
         NEW r \in Requests, NEW b \in Bookings, req[r].b = b,
         Decline(r) \/ Authorized(r) \/ Capture(r) \/ VoidIntent(r) \/ RefundHold(r)
  PROVE  SettledInv'
<1> USE DEF TypeInv, TypeOK
<1>0. /\ req[r] \in Request
      /\ Serves(r) /\ Fresh
      /\ payment[b] \in [status : PaymentStatus, ref : 0..MaxRef]
      /\ req[r].ref \in 0..MaxRef /\ 0 \in 0..MaxRef
  BY ConstantsAssumption DEF SettledInv, Request
<1>1. ASSUME NEW e \in Event, e.pay = b, ApplyEvent(e), UNCHANGED <<noShow, reminder>>
      PROVE  \A c \in Bookings \ {b} : Untouched(c)
  BY <1>1, ApplyEventTouches
<1>2. ASSUME NEW e \in Event, e.type \in LocalEvents, e.pay = b, ApplyEvent(e),
             UNCHANGED <<noShow, reminder, dispute>>,
             payment[b].status \in {"requires_payment", "failed"}
      PROVE  /\ UNCHANGED status
             /\ payment' = [payment EXCEPT ![b].status = payment'[b].status]
             /\ payment'[b].status \in {payment[b].status, "failed"}
             /\ e.type = "voided" => payment'[b].status = "failed"
             /\ Fresh'
  <2>1. CASE Seen(e)
    <3>1. UNCHANGED <<status, payment, events>>
      BY <1>2, <2>1 DEF ApplyEvent
    <3>2. Fresh'
      BY <1>0, <1>2, <3>1 DEF Fresh
    <3>3. e.type = "voided" => payment[b].status = "failed"
      <4> SUFFICES ASSUME e.type = "voided"
                   PROVE  payment[b].status = "failed"
        OBVIOUS
      <4>1. PICK f \in events : f.type = "voided" /\ f.pay = b
        BY <1>2, <2>1 DEF Seen, SameId, ProviderEvents
      <4> QED BY <1>0, <1>2, <4>1 DEF Fresh
    <3> QED BY <3>1, <3>2, <3>3
  <2>2. CASE ~Seen(e)
    <3>1. /\ UNCHANGED status
          /\ payment' = [payment EXCEPT ![b].status = "failed"]
          /\ events' = events \cup {e}
      BY <1>2, <2>2 DEF ApplyEvent, MarkPayment, ConfirmBookingForPayment, LocalEvents
    <3>2. Fresh'
      BY <1>0, <1>2, <3>1 DEF Fresh, Event, LocalEvents
    <3> QED BY <3>1, <3>2
  <2> QED BY <2>1, <2>2
<1>3. CASE Decline(r)
  <2> DEFINE e == Money("declined", 0, b)
  <2>1. /\ e \in Event /\ e.type \in LocalEvents /\ e.pay = b
        /\ ApplyEvent(e) /\ UNCHANGED <<noShow, reminder, dispute>>
    BY <1>0, <1>3 DEF Decline, Money, Event, LocalEvents
  <2>2. payment[b].status \in {"requires_payment", "failed"} /\ status[b] = "pending_payment"
    BY <1>0, <1>3 DEF Decline, Serves, Rests, Fits
  <2>3. /\ UNCHANGED status /\ payment'[b].status \in {payment[b].status, "failed"}
        /\ Fresh' /\ \A c \in Bookings \ {b} : Untouched(c)
    BY <1>1, <1>2, <2>1, <2>2
  <2>4. req'[r].at = "idle" /\ Rests(b)' /\ Serves(r)'
    BY <1>0, <1>3, <2>1, <2>2, <2>3 DEF Decline, Finish, Idle, Serves, Rests, Fits
  <2> QED BY <2>3, <2>4, SettledByStep
<1>4. CASE VoidIntent(r)
  <2> DEFINE e == Money("voided", 0, b)
  <2>1. /\ e \in Event /\ e.type \in LocalEvents /\ e.type = "voided" /\ e.pay = b
        /\ ApplyEvent(e) /\ UNCHANGED <<noShow, reminder, dispute>>
    BY <1>0, <1>4 DEF VoidIntent, Money, Event, LocalEvents
  <2>2. payment[b].status \in {"requires_payment", "failed"}
    BY <1>0, <1>4 DEF VoidIntent, Serves
  <2>3. /\ UNCHANGED status /\ payment'[b].status = "failed"
        /\ Fresh' /\ \A c \in Bookings \ {b} : Untouched(c)
    BY <1>1, <1>2, <2>1, <2>2
  <2>4. CASE req[r].op = "dispute"
    <3>1. req'[r].at = "idle" /\ Rests(b)' /\ Serves(r)'
      BY <1>0, <1>4, <2>1, <2>3, <2>4
      DEF VoidIntent, AfterRefund, Finish, Idle, Serves, Refunding, Rests, Fits
    <3> QED BY <2>3, <3>1, SettledByStep
  <2>5. CASE req[r].op # "dispute"
    <3>1. req'[r].at # "idle" /\ req'[r].b = b /\ Serves(r)'
      BY <1>0, <1>4, <2>1, <2>3, <2>5
      DEF VoidIntent, AfterRefund, Goto, Serves, Refunding, Request
    <3> QED BY <2>3, <3>1, SettledByStep
  <2> QED BY <2>4, <2>5
<1>5. CASE Authorized(r)
  <2> DEFINE e == Money("authorized", req[r].ref, b)
  <2>1. /\ e \in Event /\ e.type = "authorized" /\ e.pay = b /\ e.ref = req[r].ref
        /\ ApplyEvent(e) /\ UNCHANGED <<noShow, reminder, dispute>>
    BY <1>0, <1>5 DEF Authorized, Money, Event, ProviderEvents
  <2>2. \A f \in events : f.type \in ProviderEvents => f.ref # e.ref
    BY <1>0, <1>5, <2>1 DEF Authorized, Serves
  <2>3. ~Seen(e)
    BY <2>1, <2>2 DEF Seen, SameId, ProviderEvents
  <2>4. req[r].ref # 0 /\ status[b] = "pending_payment" /\ Rests(b)
    BY <1>0, <1>5 DEF Authorized, Serves, RefsInv
  <2>5. /\ payment' = [payment EXCEPT ![b] = [status |-> "authorized", ref |-> req[r].ref]]
        /\ status' = [status EXCEPT ![b] = "confirmed"]
        /\ events' = events \cup {e}
    <3> HIDE DEF e
    <3>1. MarkPayment(e) /\ ConfirmBookingForPayment(e) /\ events' = events \cup {e}
      BY <2>1, <2>3 DEF ApplyEvent
    <3>2. payment' = [payment EXCEPT ![b] = [status |-> "authorized", ref |-> req[r].ref]]
      BY <2>1, <3>1, Zenon DEF MarkPayment, LocalEvents
    <3>3. status' = [status EXCEPT ![b] = "confirmed"]
      BY <2>1, <2>4, <3>1 DEF ConfirmBookingForPayment
    <3> QED BY <3>1, <3>2, <3>3
  <2>6. Fresh'
    BY <1>0, <2>1, <2>2, <2>4, <2>5 DEF Fresh, Event, ProviderEvents
  <2>7. req'[r].at # "idle" /\ req'[r].b = b /\ Serves(r)'
    BY <1>0, <1>5, <2>1, <2>4, <2>5 DEF Authorized, Goto, Serves, Rests, Fits, Request
  <2> QED BY <1>1, <2>1, <2>6, <2>7, SettledByStep
<1>6. ASSUME NEW type \in {"captured", "refunded"}, req[r].ref = payment[b].ref,
             ApplyEvent(Money(type, req[r].ref, holder[req[r].ref])), UNCHANGED <<noShow, reminder, dispute>>,
             \/ type = "captured" /\ payment[b].status = "authorized"
             \/ type = "refunded" /\ payment[b].status \in {"authorized", "captured"}
      PROVE  /\ UNCHANGED status /\ payment'[b].status = type /\ Fresh'
             /\ \A c \in Bookings \ {b} : Untouched(c)
  <2> DEFINE e == Money(type, req[r].ref, b)
  <2>1. req[r].ref # 0 /\ holder[req[r].ref] = b
    BY <1>0, <1>6 DEF Fresh, RefsInv
  <2>2. /\ e \in Event /\ e.type = type /\ e.pay = b /\ e.ref = payment[b].ref
        /\ ApplyEvent(e)
    BY <1>0, <1>6, <2>1 DEF Money, Event, ProviderEvents
  <2>3. ~Seen(e)
    <3> SUFFICES ASSUME NEW f \in events, f.type = type, f.ref = payment[b].ref
                 PROVE  FALSE
      BY <2>2 DEF Seen, SameId, ProviderEvents
    <3>1. f.pay = b
      BY <1>6, <2>1 DEF RefsInv, ProviderEvents
    <3> QED BY <1>0, <1>6, <3>1 DEF Fresh
  <2>4. /\ UNCHANGED status /\ events' = events \cup {e}
        /\ payment' = [payment EXCEPT ![b].status = type]
    BY <2>2, <2>3 DEF ApplyEvent, MarkPayment, ConfirmBookingForPayment, LocalEvents
  <2>5. Fresh'
    BY <1>0, <1>6, <2>2, <2>4 DEF Fresh, Event
  <2> QED BY <1>1, <1>6, <2>2, <2>4, <2>5
<1>7. CASE Capture(r)
  <2>1. /\ req[r].ref = payment[b].ref /\ payment[b].status = "authorized"
        /\ req[r].op \in {"complete", "noshow_student"}
        /\ status[b] = "confirmed" /\ noShow[b] = "nobody"
    BY <1>0, <1>7 DEF Capture, Serves, Rests
  <2>2. /\ UNCHANGED <<status, noShow>> /\ payment'[b].status = "captured" /\ Fresh'
        /\ \A c \in Bookings \ {b} : Untouched(c)
    BY <1>6, <1>7, <2>1 DEF Capture
  <2>3. req'[r].at # "idle" /\ req'[r].b = b /\ Serves(r)'
    BY <1>0, <1>7, <2>1, <2>2 DEF Capture, AfterCapture, Goto, Serves, Request
  <2> QED BY <2>2, <2>3, SettledByStep
<1>8. CASE RefundHold(r)
  <2>1. req[r].ref = payment[b].ref /\ payment[b].status \in {"authorized", "captured"}
    BY <1>0, <1>8 DEF RefundHold, Serves
  <2>2. /\ UNCHANGED <<status, noShow, reminder>> /\ payment'[b].status = "refunded" /\ Fresh'
        /\ \A c \in Bookings \ {b} : Untouched(c)
    BY <1>6, <1>8, <2>1 DEF RefundHold
  <2>3. CASE req[r].op = "dispute"
    <3>1. req'[r].at = "idle" /\ Rests(b)' /\ Serves(r)'
      BY <1>0, <1>8, <2>2, <2>3
      DEF RefundHold, AfterRefund, Finish, Idle, Serves, Refunding, Rests, Fits
    <3> QED BY <2>2, <3>1, SettledByStep
  <2>4. CASE req[r].op # "dispute"
    <3>1. req'[r].at # "idle" /\ req'[r].b = b /\ Serves(r)'
      BY <1>0, <1>8, <2>2, <2>4
      DEF RefundHold, AfterRefund, Goto, Serves, Refunding, Request
    <3> QED BY <2>2, <3>1, SettledByStep
  <2> QED BY <2>3, <2>4
<1> QED BY <1>3, <1>4, <1>5, <1>7, <1>8

\* Nothing else disturbs what has settled: a redelivered event has been seen.
LEMMA SettledEnvironment ==
  ASSUME OneAtATime, TypeInv, SettledInv, Environment, ~Restart
  PROVE  SettledInv'
<1> USE DEF TypeInv, TypeOK, rows
<1>1. UNCHANGED <<status, noShow, payment, events, reminder, req>>
  <2>1. ASSUME NEW e \in events, Redeliver(e)
        PROVE  UNCHANGED <<status, noShow, payment, events, reminder, req>>
    <3>1. Seen(e)
      BY DEF Seen, SameId
    <3> QED BY <2>1, <3>1 DEF Redeliver, ApplyEvent
  <2>2. \A r \in Requests : ~Abort(r)
    BY DEF Abort, OneAtATime
  <2> QED BY <2>1, <2>2 DEF Environment, RaiseDispute, CloseDispute, ClearingPasses, TimePasses, PayoutRun
<1>2. Fresh'
  <2>1. \A c \in Bookings : dispute'[c] => dispute[c] \/ status[c] \in {"confirmed", "completed"}
    BY <1>1 DEF Environment, RaiseDispute, CloseDispute, ClearingPasses, TimePasses, PayoutRun,
                Redeliver, Abort
  <2> QED BY <1>1, <2>1 DEF SettledInv, Fresh
<1>3. \A b \in Bookings : Rests(b) => Rests(b)'
  BY <1>1 DEF Rests
<1>4. \A r \in Requests : Serves(r)'
  <2>1. ASSUME NEW r \in Requests
        PROVE  Serves(r)'
    <3>1. Serves(r)
      BY DEF SettledInv
    <3> QED BY <1>1, <3>1 DEF Serves, Refunding, Rests
  <2> QED BY <2>1
<1> QED BY <1>1, <1>2, <1>3, <1>4 DEF SettledInv, Served

LEMMA SettledStep ==
  ASSUME OneAtATime, TypeInv, restarts = 0 => RefsInv, restarts = 0 => SettledInv, [Next]_vars
  PROVE  (restarts = 0 => SettledInv)'
<1> SUFFICES ASSUME restarts' = 0
             PROVE  SettledInv'
  OBVIOUS
<1>0. RefsInv /\ SettledInv /\ ~Restart
  BY HoldersStay DEF Restart, TypeInv, TypeOK
<1>1. ASSUME NEW r \in Requests, NEW b \in Bookings, Start(r, b)
      PROVE  SettledInv'
  BY <1>0, <1>1, SettledStart
<1>2. ASSUME NEW r \in Requests, Step(r)
      PROVE  SettledInv'
  <2>1. req[r].at # "idle"
    BY <1>2 DEF Step, InitiatePayment, InitiatePaymentFails, ReadForAuthorize, Decline,
              PlaceHold, Authorized, ReadAfterPay, ScheduleReminders, ReadForCapture,
              CaptureFails, Capture, SetNoShowParty, SetCompleted, CancelRow, ReadForRefund,
              VoidIntent, RefundHold, RefundFails, CancelReminders
  <2>2. PICK b \in Bookings : req[r].b = b
    BY <2>1 DEF TypeInv, Serving
  <2> QED BY <1>0, <1>2, <2>2, SettledReads, SettledWrites, SettledEvents DEF Step
<1>3. CASE Environment
  BY <1>0, <1>3, SettledEnvironment
<1>4. CASE UNCHANGED vars
  BY <1>0, <1>4 DEF vars, rows, SettledInv, Served, Rests, Serves, Refunding, Fresh
<1> QED BY <1>1, <1>2, <1>3, <1>4 DEF Next

\* Between requests that ran one after the other, a booking, its payment, its no-show flag
\* and its reminders agree, however many bookings there are, until the process is restarted.
THEOREM SettledAgreeHolds ==
  ASSUME OneAtATime
  PROVE  Spec => [](restarts = 0 => SettledAgree)
<1>1. TypeInv /\ (restarts = 0 => RefsInv) /\ (restarts = 0 => SettledInv) /\ [Next]_vars
        => (restarts = 0 => SettledInv)'
  BY SettledStep
<1>2. SettledInv => SettledAgree
  <2>1. AtRest => \A b \in Bookings : ~Served(b)
    BY DEF AtRest, Served, Idle
  <2> QED BY <2>1 DEF SettledInv, SettledAgree, Rests, Fits
<1> QED BY <1>1, <1>2, SettledInit, RefsKept, AlwaysTyped, PTL DEF Spec
=============================================================================
