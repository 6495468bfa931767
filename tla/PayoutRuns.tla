------------------------------ MODULE PayoutRuns ------------------------------
(***************************************************************************)
(* The payout ledger under its two kinds of writer, lock by lock: payout   *)
(* runs (payouts.repositoryPostgres.Run) and webhook transactions          *)
(* (payments.repositoryPostgres.ApplyEvent).  LessonMoney takes both as    *)
(* one step; here they are transactions of READ COMMITTED PostgreSQL whose *)
(* statements interleave.                                                  *)
(*                                                                         *)
(* What a transaction writes is invisible to the others until it commits,  *)
(* so its writes are placed at the commit, and the steps before it are the *)
(* reads it decides on and the row locks it takes.  A lock is not a        *)
(* variable: a row is locked when some open transaction has touched it.    *)
(***************************************************************************)
EXTENDS Naturals, FiniteSets

CONSTANTS
  Bookings,     \* the lessons that may earn something
  Operators,    \* payout runs that may be open at the same time
  Hooks,        \* webhook transactions that may be open at the same time
  NoBooking,    \* not a lesson: the booking of a webhook nobody delivered
  MaxBatches    \* bound: payout batches, one for every lesson is enough

ASSUME ConstantsAssumption == MaxBatches \in Nat /\ NoBooking \notin Bookings

VARIABLES
  payment,      \* payments.status of a booking whose hold was authorized
  seen,         \* payment_events: the event ids, as <<type, booking>>
  ledger,       \* payout_ledger.state, "none" without a row
  cleared,      \* the row's available_at has passed
  batchOf,      \* payout_ledger.payout_batch_id, 0 for NULL
  batch,        \* payout_batches: the rows the total was summed over
  run,          \* the payout run of each operator
  hook          \* the webhook transactions

committed == <<payment, seen, ledger, cleared, batchOf, batch>>
vars      == <<committed, run, hook>>

BatchIds   == 1..MaxBatches
EventTypes == {"captured", "refunded"}
Event      == EventTypes \X Bookings

\* A run scans the payable rows of its snapshot ("todo"), locks what it can
\* ("ids"), and then settles.
Run  == [at : {"idle", "scan", "settle"}, todo : SUBSET Bookings, ids : SUBSET Bookings]
Hook == [at : {"event", "payment", "ledger", "commit"}, type : EventTypes, b : Bookings]

NoRun  == [at |-> "idle", todo |-> {}, ids |-> {}]
NoHook == [at |-> "idle", type |-> "none", b |-> NoBooking]

Init ==
  /\ payment = [b \in Bookings |-> "authorized"]
  /\ seen    = {}
  /\ ledger  = [b \in Bookings |-> "none"]
  /\ cleared = [b \in Bookings |-> FALSE]
  /\ batchOf = [b \in Bookings |-> 0]
  /\ batch   = [n \in BatchIds |-> {}]
  /\ run     = [o \in Operators |-> NoRun]
  /\ hook    = [h \in Hooks |-> NoHook]

-----------------------------------------------------------------------------
(* Locks.                                                                   *)

EventOf(h) == <<hook[h].type, hook[h].b>>

\* MarkLedgerReversed finds its row only while it is open.
Reverses(h) == hook[h].type = "refunded" /\ ledger[hook[h].b] = "held"

\* An open transaction has locked the ledger row of b.
LockedByRun(b)  == \E o \in Operators : b \in run[o].ids
LockedByHook(b) == \E h \in Hooks : hook[h].at = "commit" /\ hook[h].b = b /\ Reverses(h)

\* The payments row is locked from MarkPayment... to the end.
HoldsPayment(h, b) == hook[h].at \in {"ledger", "commit"} /\ hook[h].b = b

\* The unique index makes a second insert of an event id wait for the first.
HoldsEvent(h, e) == hook[h].at \in {"payment", "ledger", "commit"} /\ EventOf(h) = e

-----------------------------------------------------------------------------
(* Run.                                                                     *)

SetRun(o, r) == run' = [run EXCEPT ![o] = r]

Payable == {b \in Bookings : ledger[b] = "held" /\ cleared[b]}

\* LockPayablePayoutLedger takes its snapshot.
StartRun(o) ==
  /\ run[o].at = "idle"
  /\ SetRun(o, [at |-> "scan", todo |-> Payable, ids |-> {}])
  /\ UNCHANGED <<committed, hook>>

\* Mutant of TakeRow: without FOR UPDATE the row is taken whoever holds it.
TakeRowUnlocked(o, b) ==
  /\ run[o].at = "scan" /\ b \in run[o].todo
  /\ SetRun(o, [at |-> "scan", todo |-> run[o].todo \ {b}, ids |-> run[o].ids \cup {b}])
  /\ UNCHANGED <<committed, hook>>

\* FOR UPDATE SKIP LOCKED, one row of the snapshot at a time: a locked row is
\* skipped, and so is one that was settled or reversed since the snapshot.
\* Row ids are random, so any order may be the order of the ids.
TakeRow(o, b) ==
  /\ run[o].at = "scan" /\ b \in run[o].todo
  /\ LET free == ~LockedByRun(b) /\ ~LockedByHook(b) /\ b \in Payable IN
       SetRun(o, [at   |-> "scan",
                  todo |-> run[o].todo \ {b},
                  ids  |-> IF free THEN run[o].ids \cup {b} ELSE run[o].ids])
  /\ UNCHANGED <<committed, hook>>

\* Nothing was locked: ErrNothingToPay, and no batch row.
NothingToPay(o) ==
  /\ run[o].at = "scan" /\ run[o].todo = {} /\ run[o].ids = {}
  /\ SetRun(o, NoRun)
  /\ UNCHANGED <<committed, hook>>

\* The batch total is summed over the rows the lock returned.
SumBatch(o) ==
  /\ run[o].at = "scan" /\ run[o].todo = {} /\ run[o].ids # {}
  /\ SetRun(o, [run[o] EXCEPT !.at = "settle"])
  /\ UNCHANGED <<committed, hook>>

\* InsertPayoutBatch and MarkLedgerRowsPaid, committed together.
CommitRun(o) ==
  LET marked == {b \in run[o].ids : ledger[b] # "paid"} IN
  /\ run[o].at = "settle"
  /\ \E n \in BatchIds :
       /\ batch[n] = {} /\ \A m \in 1..(n - 1) : batch[m] # {}
       /\ batch'   = [batch EXCEPT ![n] = run[o].ids]
       /\ batchOf' = [b \in Bookings |-> IF b \in marked THEN n ELSE batchOf[b]]
  /\ ledger' = [b \in Bookings |-> IF b \in marked THEN "paid" ELSE ledger[b]]
  /\ SetRun(o, NoRun)
  /\ UNCHANGED <<payment, seen, cleared, hook>>

\* Mutant of RunFails: the transaction is not rolled back, its locks stay.
RunFailsLocked(o) ==
  /\ run[o].at # "idle"
  /\ SetRun(o, [run[o] EXCEPT !.at = "idle"])
  /\ UNCHANGED <<committed, hook>>

\* A statement fails or the operator goes away: the deferred Rollback.
RunFails(o) ==
  /\ run[o].at # "idle"
  /\ SetRun(o, NoRun)
  /\ UNCHANGED <<committed, hook>>

-----------------------------------------------------------------------------
(* ApplyEvent.                                                              *)

Goto(h, point) == hook' = [hook EXCEPT ![h].at = point]

Finish(h) == hook' = [hook EXCEPT ![h] = NoHook]

\* A capture or a refund arrives, from its own request or once more later.
Deliver(h, type, b) ==
  /\ hook[h] = NoHook
  /\ hook' = [hook EXCEPT ![h] = [at |-> "event", type |-> type, b |-> b]]
  /\ UNCHANGED <<committed, run>>

InsertPaymentEvent(h) ==
  /\ hook[h].at = "event"
  /\ \A g \in Hooks \ {h} : ~HoldsEvent(g, EventOf(h))
  /\ \/ EventOf(h) \in seen /\ Finish(h)
     \/ EventOf(h) \notin seen /\ Goto(h, "payment")
  /\ UNCHANGED <<committed, run>>

MarkPayment(h) ==
  /\ hook[h].at = "payment"
  /\ \A g \in Hooks \ {h} : ~HoldsPayment(g, hook[h].b)
  /\ Goto(h, "ledger")
  /\ UNCHANGED <<committed, run>>

\* Mutant of PostToLedger: the reversal passes over a row it finds locked.
PostSkippingLocked(h) ==
  /\ hook[h].at = "ledger"
  /\ \/ /\ Reverses(h) /\ LockedByRun(hook[h].b)
        /\ payment' = [payment EXCEPT ![hook[h].b] = "refunded"]
        /\ seen' = seen \cup {EventOf(h)}
        /\ Finish(h)
     \/ /\ ~(Reverses(h) /\ LockedByRun(hook[h].b))
        /\ Goto(h, "commit")
        /\ UNCHANGED <<payment, seen>>
  /\ UNCHANGED <<ledger, cleared, batchOf, batch, run>>

\* InsertLedgerHeld waits for nobody, for the payments lock is held already.
\* MarkLedgerReversed waits for a run that has locked the row, and then looks
\* at the row again.
PostToLedger(h) ==
  /\ hook[h].at = "ledger"
  /\ Reverses(h) => ~LockedByRun(hook[h].b)
  /\ Goto(h, "commit")
  /\ UNCHANGED <<committed, run>>

\* Mutant of LedgerAfter: the reversal is not limited to open rows.
LedgerAfterAnyState(h) ==
  CASE hook[h].type = "captured" /\ ledger[hook[h].b] = "none" -> "held"
    [] hook[h].type = "refunded" /\ ledger[hook[h].b] # "none" -> "reversed"
    [] OTHER -> ledger[hook[h].b]

\* The row of the booking once h commits.
LedgerAfter(h) ==
  CASE hook[h].type = "captured" /\ ledger[hook[h].b] = "none" -> "held"
    [] Reverses(h) -> "reversed"
    [] OTHER -> ledger[hook[h].b]

CommitHook(h) ==
  /\ hook[h].at = "commit"
  /\ seen' = seen \cup {EventOf(h)}
  /\ payment' = [payment EXCEPT ![hook[h].b] = hook[h].type]
  /\ ledger' = [ledger EXCEPT ![hook[h].b] = LedgerAfter(h)]
  /\ Finish(h)
  /\ UNCHANGED <<cleared, batchOf, batch, run>>

HookFails(h) ==
  /\ hook[h] # NoHook
  /\ Finish(h)
  /\ UNCHANGED <<committed, run>>

-----------------------------------------------------------------------------
ClearingPasses(b) ==
  /\ ledger[b] = "held" /\ ~cleared[b]
  /\ cleared' = [cleared EXCEPT ![b] = TRUE]
  /\ UNCHANGED <<payment, seen, ledger, batchOf, batch, run, hook>>

RunStep(o) ==
  \/ \E b \in Bookings : TakeRow(o, b)
  \/ NothingToPay(o) \/ SumBatch(o) \/ CommitRun(o)

HookStep(h) ==
  InsertPaymentEvent(h) \/ MarkPayment(h) \/ PostToLedger(h) \/ CommitHook(h)

Next ==
  \/ \E o \in Operators : StartRun(o) \/ RunStep(o) \/ RunFails(o)
  \/ \E h \in Hooks : HookStep(h) \/ HookFails(h)
  \/ \E h \in Hooks, type \in EventTypes, b \in Bookings : Deliver(h, type, b)
  \/ \E b \in Bookings : ClearingPasses(b)

\* Every open transaction is run to its end by the handler that opened it.
Fairness ==
  /\ \A o \in Operators : WF_vars(RunStep(o))
  /\ \A h \in Hooks : SF_vars(HookStep(h))

Spec == Init /\ [][Next]_vars

FairSpec == Spec /\ Fairness
-----------------------------------------------------------------------------
TypeOK ==
  /\ payment \in [Bookings -> {"authorized", "captured", "refunded"}]
  /\ seen    \subseteq Event
  /\ ledger  \in [Bookings -> {"none", "held", "paid", "reversed"}]
  /\ cleared \in [Bookings -> BOOLEAN]
  /\ batchOf \in [Bookings -> 0..MaxBatches]
  /\ batch   \in [BatchIds -> SUBSET Bookings]
  /\ run     \in [Operators -> Run]
  /\ hook    \in [Hooks -> Hook \cup {NoHook}]

\* "Totals of the ledger rows the batch settled" (migration 000011): the rows a
\* batch's total was summed over are the rows that point at it, so no lesson is
\* counted by two batches, and exactly the paid rows point at one.
BatchTotalsAddUp ==
  /\ \A n \in BatchIds : batch[n] = {b \in Bookings : batchOf[b] = n}
  /\ \A b \in Bookings : ledger[b] = "paid" <=> batchOf[b] # 0

\* No transaction leaves a refunded lesson owed.
NoneOwed == \A b \in Bookings : payment[b] = "refunded" => ledger[b] # "held"

\* Money returned to the student is not still owed to the teacher, however the
\* refund's transaction and the payout runs meet at the row.  The refund of a
\* processed capture is final: a payment stops being refunded only by a capture
\* that no transaction has processed before, never by a redelivered one.
RefundedIsNotOwed ==
  [][/\ NoneOwed'
     /\ \A b \in Bookings : payment[b] = "refunded" /\ payment'[b] # "refunded"
                              => <<"captured", b>> \notin seen]_vars

\* The earning as a teacher sees it.
Earning == [b \in Bookings |-> IF ledger[b] = "held" /\ cleared[b] THEN "available" ELSE ledger[b]]

EP == INSTANCE EarningsPromise WITH earning <- Earning

\* The interleaved transactions of runs and webhooks implement the promise made
\* to a teacher: credited once, and paid after clearing or reversed, once.
KeepsEarningsPromise == EP!Promise

\* Nobody waits for a lock for ever.
EveryTransactionEnds ==
  /\ \A o \in Operators : run[o].at # "idle" ~> run[o].at = "idle"
  /\ \A h \in Hooks : hook[h].at # "idle" ~> hook[h].at = "idle"
==============================================================================
