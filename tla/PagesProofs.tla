------------------------------ MODULE PagesProofs ------------------------------
(***************************************************************************)
(* What four machines that share no state guarantee: the payout run and    *)
(* its webhooks, a teacher's library, the page of a lesson, the walk       *)
(* through a paged list.                                                   *)
(*                                                                         *)
(* Payout runs: for every number of lessons, operators and webhook         *)
(* transactions.  The argument is about locks.  A payments row has one     *)
(* holder (PayLock), a ledger row is held by one run or by one reversal    *)
(* and never by both (RowLock), and a row a run holds stays payable until  *)
(* that run commits (LockedIsPayable).  Hence the commit of a run settles  *)
(* exactly the rows it summed, and the commit of a webhook moves a row no  *)
(* run holds.                                                              *)
(*                                                                         *)
(* The library: for every content a client can put together.  A question   *)
(* or a content that has been normalized is a fixed point of the           *)
(* validation, and a file that an upload was answered with keeps its row   *)
(* and its bytes.                                                          *)
(*                                                                         *)
(* The page of a lesson: for every number of writers and disputes.  While  *)
(* the lesson has not changed and no lookup has failed, what the page has  *)
(* read decides every check of the server.                                 *)
(*                                                                         *)
(* The walk: for every filter, table, page size and number of writes.  A   *)
(* list is a finite set with a linear order, a place in it is a rank, and  *)
(* a page is a run of ranks.  One write moves at most one row across the   *)
(* place a client has reached (CutAround), so the rows it has passed       *)
(* without seeing are no more than have left, and the rows it will be      *)
(* shown again no more than have come (WalkIsBehind).                      *)
(***************************************************************************)
EXTENDS PayoutRuns, Library, Listings, PageOffers, FiniteSetTheorems, TLAPS

-----------------------------------------------------------------------------
(* Payout runs.                                                             *)

PayLock ==
  \A g, h \in Hooks :
    hook[g].at \in {"ledger", "commit"} /\ hook[h].at \in {"ledger", "commit"} /\ hook[g].b = hook[h].b
      => g = h

RowLock ==
  /\ \A o, p \in Operators : o # p => run[o].ids \cap run[p].ids = {}
  /\ \A o \in Operators, h \in Hooks :
       hook[h].at = "commit" /\ hook[h].type = "refunded" => hook[h].b \notin run[o].ids

LockedIsPayable == \A o \in Operators : run[o].ids \subseteq Payable

ClearedIsCredited == \A b \in Bookings : ledger[b] = "none" => ~cleared[b]

IInv ==
  /\ TypeOK
  /\ PayLock
  /\ RowLock
  /\ LockedIsPayable
  /\ ClearedIsCredited
  /\ BatchTotalsAddUp
  /\ NoneOwed

-----------------------------------------------------------------------------
LEMMA InitInv == Init => IInv
  BY ConstantsAssumption
  DEF Init, IInv, TypeOK, PayLock, RowLock, LockedIsPayable, ClearedIsCredited,
      BatchTotalsAddUp, NoneOwed, BatchIds, Run, NoRun, NoHook

LEMMA TypeStep ==
  ASSUME TypeOK, [Next]_vars
  PROVE  TypeOK'
<1> USE ConstantsAssumption DEF TypeOK, committed
<1>1. ASSUME NEW o \in Operators, StartRun(o) \/ NothingToPay(o) \/ SumBatch(o) \/ RunFails(o)
      PROVE  TypeOK'
  <2>1. run' \in [Operators -> Run]
    BY <1>1 DEF StartRun, NothingToPay, SumBatch, RunFails, SetRun, Run, NoRun, Payable
  <2> QED BY <1>1, <2>1 DEF StartRun, NothingToPay, SumBatch, RunFails
<1>2. ASSUME NEW o \in Operators, NEW b \in Bookings, TakeRow(o, b)
      PROVE  TypeOK'
  <2>1. run' \in [Operators -> Run]
    BY <1>2 DEF TakeRow, SetRun, Run
  <2> QED BY <1>2, <2>1 DEF TakeRow
<1>3. ASSUME NEW o \in Operators, CommitRun(o)
      PROVE  TypeOK'
  <2>1. run' \in [Operators -> Run]
    BY <1>3 DEF CommitRun, SetRun, Run, NoRun
  <2>2. ledger' \in [Bookings -> {"none", "held", "paid", "reversed"}]
    BY <1>3 DEF CommitRun
  <2>3. batchOf' \in [Bookings -> 0..MaxBatches] /\ batch' \in [BatchIds -> SUBSET Bookings]
    BY <1>3 DEF CommitRun, BatchIds, Run
  <2> QED BY <1>3, <2>1, <2>2, <2>3 DEF CommitRun
<1>4. ASSUME NEW h \in Hooks, InsertPaymentEvent(h) \/ MarkPayment(h) \/ PostToLedger(h) \/ HookFails(h)
      PROVE  TypeOK'
  <2>1. hook' \in [Hooks -> Hook \cup {NoHook}]
    BY <1>4 DEF InsertPaymentEvent, MarkPayment, PostToLedger, HookFails, Goto, Finish, Hook, NoHook
  <2> QED BY <1>4, <2>1 DEF InsertPaymentEvent, MarkPayment, PostToLedger, HookFails
<1>5. ASSUME NEW h \in Hooks, NEW type \in EventTypes, NEW b \in Bookings, Deliver(h, type, b)
      PROVE  TypeOK'
  <2>1. hook' \in [Hooks -> Hook \cup {NoHook}]
    BY <1>5 DEF Deliver, Hook
  <2> QED BY <1>5, <2>1 DEF Deliver
<1>6. ASSUME NEW h \in Hooks, CommitHook(h)
      PROVE  TypeOK'
  <2>1. hook[h].type \in EventTypes /\ hook[h].b \in Bookings
    BY <1>6 DEF CommitHook, Hook, NoHook
  <2>2. hook' \in [Hooks -> Hook \cup {NoHook}]
    BY <1>6 DEF CommitHook, Finish
  <2>3. ledger' \in [Bookings -> {"none", "held", "paid", "reversed"}]
    BY <1>6, <2>1 DEF CommitHook, LedgerAfter
  <2>4. payment' \in [Bookings -> {"authorized", "captured", "refunded"}] /\ seen' \subseteq Event
    BY <1>6, <2>1 DEF CommitHook, EventOf, Event, EventTypes
  <2> QED BY <1>6, <2>2, <2>3, <2>4 DEF CommitHook
<1>7. ASSUME NEW b \in Bookings, ClearingPasses(b)
      PROVE  TypeOK'
  BY <1>7 DEF ClearingPasses
<1>8. CASE UNCHANGED vars
  BY <1>8 DEF vars
<1> QED BY <1>1, <1>2, <1>3, <1>4, <1>5, <1>6, <1>7, <1>8 DEF Next, RunStep, HookStep

\* A webhook takes the payments lock of a booking only when no other has it.
LEMMA PayLockStep ==
  ASSUME TypeOK, PayLock, [Next]_vars
  PROVE  PayLock'
<1> USE DEF TypeOK, PayLock
<1>1. ASSUME NEW h \in Hooks, InsertPaymentEvent(h) \/ HookFails(h) \/ CommitHook(h)
      PROVE  PayLock'
  BY <1>1 DEF InsertPaymentEvent, HookFails, CommitHook, Goto, Finish, NoHook, Hook
<1>2. ASSUME NEW h \in Hooks, MarkPayment(h)
      PROVE  PayLock'
  BY <1>2 DEF MarkPayment, HoldsPayment, Goto, NoHook, Hook
<1>3. ASSUME NEW h \in Hooks, PostToLedger(h)
      PROVE  PayLock'
  BY <1>3 DEF PostToLedger, Goto, NoHook, Hook
<1>4. ASSUME NEW h \in Hooks, NEW type \in EventTypes, NEW b \in Bookings, Deliver(h, type, b)
      PROVE  PayLock'
  BY <1>4 DEF Deliver
<1>5. CASE UNCHANGED hook
  BY <1>5
<1> QED BY <1>1, <1>2, <1>3, <1>4, <1>5
        DEF Next, RunStep, HookStep, StartRun, TakeRow, NothingToPay, SumBatch, CommitRun,
            RunFails, ClearingPasses, vars

\* A run takes a row only from nobody, a reversal waits for the run that has it.
LEMMA RowLockStep ==
  ASSUME TypeOK, RowLock, LockedIsPayable, [Next]_vars
  PROVE  RowLock'
<1> USE DEF TypeOK, RowLock
<1>1. ASSUME NEW o \in Operators,
             StartRun(o) \/ NothingToPay(o) \/ SumBatch(o) \/ RunFails(o) \/ CommitRun(o)
      PROVE  RowLock'
  <2>1. /\ \A p \in Operators : run'[p].ids \subseteq run[p].ids
        /\ hook' = hook
    BY <1>1 DEF StartRun, NothingToPay, SumBatch, RunFails, CommitRun, SetRun, NoRun, Run
  <2> QED BY <2>1
<1>2. ASSUME NEW o \in Operators, NEW b \in Bookings, TakeRow(o, b)
      PROVE  RowLock'
  <2>1. /\ \A p \in Operators \ {o} : run'[p].ids = run[p].ids
        /\ \/ run'[o].ids = run[o].ids
           \/ /\ run'[o].ids = run[o].ids \cup {b}
              /\ ~LockedByRun(b) /\ ~LockedByHook(b) /\ b \in Payable
        /\ hook' = hook
    BY <1>2 DEF TakeRow, SetRun, Run
  <2>2. ASSUME b \in Payable, ~LockedByHook(b), NEW h \in Hooks,
               hook[h].at = "commit", hook[h].type = "refunded"
        PROVE  hook[h].b # b
    BY <2>2 DEF LockedByHook, Reverses, Payable
  <2> QED BY <2>1, <2>2 DEF LockedByRun
<1>3. ASSUME NEW h \in Hooks, PostToLedger(h)
      PROVE  RowLock'
  <2>1. /\ \A g \in Hooks \ {h} : hook'[g] = hook[g]
        /\ hook'[h].type = hook[h].type /\ hook'[h].b = hook[h].b
        /\ run' = run
    BY <1>3 DEF PostToLedger, Goto, Hook, NoHook
  <2>2. hook[h].type = "refunded" => \A o \in Operators : hook[h].b \notin run[o].ids
    BY <1>3 DEF PostToLedger, Reverses, LockedByRun, LockedIsPayable, Payable
  <2> QED BY <2>1, <2>2
<1>4. ASSUME NEW h \in Hooks, InsertPaymentEvent(h) \/ MarkPayment(h) \/ CommitHook(h) \/ HookFails(h)
      PROVE  RowLock'
  <2>1. /\ \A g \in Hooks : hook'[g] = hook[g] \/ hook'[g].at # "commit"
        /\ run' = run
    BY <1>4 DEF InsertPaymentEvent, MarkPayment, CommitHook, HookFails, Goto, Finish, Hook, NoHook
  <2> QED BY <2>1
<1>5. ASSUME NEW h \in Hooks, NEW type \in EventTypes, NEW b \in Bookings, Deliver(h, type, b)
      PROVE  RowLock'
  BY <1>5 DEF Deliver
<1>6. CASE UNCHANGED <<run, hook>>
  BY <1>6
<1> QED BY <1>1, <1>2, <1>3, <1>4, <1>5, <1>6 DEF Next, RunStep, HookStep, ClearingPasses, vars

\* What a webhook's commit does to the ledger.
LEMMA CommitHookLedger ==
  ASSUME TypeOK, NEW h \in Hooks, CommitHook(h)
  PROVE  /\ hook[h].b \in Bookings
         /\ \A b \in Bookings \ {hook[h].b} : ledger'[b] = ledger[b] /\ payment'[b] = payment[b]
         /\ payment'[hook[h].b] = hook[h].type
         /\ \/ hook[h].type = "captured" /\ ledger[hook[h].b] = "none" /\ ledger'[hook[h].b] = "held"
            \/ hook[h].type = "refunded" /\ ledger[hook[h].b] = "held" /\ ledger'[hook[h].b] = "reversed"
            \/ /\ hook[h].type = "captured" \/ ledger[hook[h].b] # "held"
               /\ ledger'[hook[h].b] = ledger[hook[h].b]
<1>1. hook[h].type \in {"captured", "refunded"} /\ hook[h].b \in Bookings
  BY DEF CommitHook, TypeOK, Hook, NoHook, EventTypes
<1> QED BY <1>1 DEF CommitHook, LedgerAfter, Reverses, TypeOK

\* What a run's commit does to the ledger: it settles exactly the rows it holds.
LEMMA CommitRunLedger ==
  ASSUME TypeOK, LockedIsPayable, NEW o \in Operators, CommitRun(o)
  PROVE  /\ run[o].ids \subseteq Payable
         /\ \A b \in Bookings : ledger'[b] = IF b \in run[o].ids THEN "paid" ELSE ledger[b]
         /\ \E n \in BatchIds :
              /\ batch[n] = {}
              /\ batch' = [batch EXCEPT ![n] = run[o].ids]
              /\ \A b \in Bookings : batchOf'[b] = IF b \in run[o].ids THEN n ELSE batchOf[b]
<1> DEFINE marked == {b \in run[o].ids : ledger[b] # "paid"}
<1>1. run[o].ids \subseteq Payable
  BY DEF LockedIsPayable
<1>2. marked = run[o].ids
  BY <1>1 DEF Payable
<1>3. ledger' = [b \in Bookings |-> IF b \in marked THEN "paid" ELSE ledger[b]]
  BY DEF CommitRun
<1>4. PICK n \in BatchIds :
        /\ batch[n] = {}
        /\ batch' = [batch EXCEPT ![n] = run[o].ids]
        /\ batchOf' = [b \in Bookings |-> IF b \in marked THEN n ELSE batchOf[b]]
  BY DEF CommitRun
<1> HIDE DEF marked
<1> QED BY <1>1, <1>2, <1>3, <1>4

\* While a run holds a row nobody else moves it, so it stays payable.
LEMMA LockedIsPayableStep ==
  ASSUME TypeOK, RowLock, LockedIsPayable, [Next]_vars
  PROVE  LockedIsPayable'
<1> USE DEF LockedIsPayable
<1>1. ASSUME NEW o \in Operators, StartRun(o) \/ NothingToPay(o) \/ SumBatch(o) \/ RunFails(o)
      PROVE  LockedIsPayable'
  <2>1. /\ \A p \in Operators : run'[p].ids \subseteq run[p].ids
        /\ ledger' = ledger /\ cleared' = cleared
    BY <1>1 DEF StartRun, NothingToPay, SumBatch, RunFails, SetRun, NoRun, Run, TypeOK, committed
  <2> QED BY <2>1 DEF Payable
<1>2. ASSUME NEW o \in Operators, NEW b \in Bookings, TakeRow(o, b)
      PROVE  LockedIsPayable'
  <2>1. /\ \A p \in Operators \ {o} : run'[p].ids = run[p].ids
        /\ \/ run'[o].ids = run[o].ids
           \/ run'[o].ids = run[o].ids \cup {b} /\ b \in Payable
        /\ ledger' = ledger /\ cleared' = cleared
    BY <1>2 DEF TakeRow, SetRun, Run, TypeOK, committed
  <2>2. Payable' = Payable
    BY <2>1 DEF Payable
  <2> QED BY <2>1, <2>2
<1>3. ASSUME NEW o \in Operators, CommitRun(o)
      PROVE  LockedIsPayable'
  <2>1. /\ \A p \in Operators \ {o} : run'[p].ids = run[p].ids
        /\ run'[o].ids = {} /\ cleared' = cleared
    BY <1>3 DEF CommitRun, SetRun, NoRun, TypeOK
  <2>2. \A p \in Operators \ {o} : \A b \in run[p].ids : b \in Bookings /\ ledger'[b] = ledger[b]
    BY <1>3, CommitRunLedger DEF RowLock, Payable
  <2> QED BY <2>1, <2>2 DEF Payable
<1>4. ASSUME NEW h \in Hooks, CommitHook(h)
      PROVE  LockedIsPayable'
  <2>1. run' = run /\ cleared' = cleared
    BY <1>4 DEF CommitHook
  <2>2. ASSUME NEW p \in Operators, NEW b \in run[p].ids
        PROVE  b \in Bookings /\ ledger[b] = "held" /\ ledger'[b] = "held"
    <3>1. b \in Bookings /\ ledger[b] = "held"
      BY DEF Payable
    <3>2. hook[h].type = "refunded" => hook[h].b # b
      BY <1>4 DEF CommitHook, RowLock
    <3> QED BY <1>4, <3>1, <3>2, CommitHookLedger
  <2> QED BY <2>1, <2>2 DEF Payable
<1>5. ASSUME NEW b \in Bookings, ClearingPasses(b)
      PROVE  LockedIsPayable'
  BY <1>5 DEF ClearingPasses, Payable, TypeOK
<1>6. CASE UNCHANGED <<committed, run>>
  BY <1>6 DEF committed, Payable
<1> QED BY <1>1, <1>2, <1>3, <1>4, <1>5, <1>6
        DEF Next, RunStep, HookStep, InsertPaymentEvent, MarkPayment, PostToLedger, HookFails,
            Deliver, vars

\* The rest of the invariant, about what is committed.
LEMMA CommittedStep ==
  ASSUME IInv, [Next]_vars
  PROVE  ClearedIsCredited' /\ BatchTotalsAddUp' /\ NoneOwed'
<1> USE DEF IInv
<1>1. ASSUME NEW o \in Operators, CommitRun(o)
      PROVE  ClearedIsCredited' /\ BatchTotalsAddUp' /\ NoneOwed'
  <2>1. cleared' = cleared /\ payment' = payment
    BY <1>1 DEF CommitRun
  <2>2. \A b \in run[o].ids : b \in Bookings /\ ledger[b] = "held" /\ batchOf[b] = 0
    BY <1>1, CommitRunLedger DEF Payable, BatchTotalsAddUp
  <2>3. ClearedIsCredited' /\ NoneOwed'
    BY <1>1, <2>1, CommitRunLedger DEF ClearedIsCredited, NoneOwed
  <2>4. PICK n \in BatchIds :
          /\ batch[n] = {}
          /\ batch' = [batch EXCEPT ![n] = run[o].ids]
          /\ \A b \in Bookings : batchOf'[b] = IF b \in run[o].ids THEN n ELSE batchOf[b]
    BY <1>1, CommitRunLedger
  <2>5. n # 0 /\ 0 \notin BatchIds
    BY ConstantsAssumption DEF BatchIds
  <2>6. ASSUME NEW m \in BatchIds
        PROVE  batch'[m] = {b \in Bookings : batchOf'[b] = m}
    <3>1. CASE m = n
      BY <2>2, <2>4, <2>5, <3>1 DEF BatchTotalsAddUp, TypeOK
    <3>2. CASE m # n
      BY <2>2, <2>4, <2>5, <3>2 DEF BatchTotalsAddUp, TypeOK
    <3> QED BY <3>1, <3>2
  <2>7. \A b \in Bookings : ledger'[b] = "paid" <=> batchOf'[b] # 0
    BY <1>1, <2>4, <2>5, CommitRunLedger DEF BatchTotalsAddUp
  <2> QED BY <2>3, <2>6, <2>7 DEF BatchTotalsAddUp
<1>2. ASSUME NEW h \in Hooks, CommitHook(h)
      PROVE  ClearedIsCredited' /\ BatchTotalsAddUp' /\ NoneOwed'
  <2>1. cleared' = cleared /\ batch' = batch /\ batchOf' = batchOf
    BY <1>2 DEF CommitHook
  <2>2. ClearedIsCredited' /\ BatchTotalsAddUp'
    BY <1>2, <2>1, CommitHookLedger DEF ClearedIsCredited, BatchTotalsAddUp
  <2>3. NoneOwed'
    BY <1>2, CommitHookLedger DEF NoneOwed
  <2> QED BY <2>2, <2>3
<1>3. ASSUME NEW b \in Bookings, ClearingPasses(b)
      PROVE  ClearedIsCredited' /\ BatchTotalsAddUp' /\ NoneOwed'
  BY <1>3 DEF ClearingPasses, TypeOK, ClearedIsCredited, BatchTotalsAddUp, NoneOwed
<1>4. CASE UNCHANGED committed
  BY <1>4 DEF committed, ClearedIsCredited, BatchTotalsAddUp, NoneOwed
<1> QED BY <1>1, <1>2, <1>3, <1>4
        DEF Next, RunStep, HookStep, StartRun, TakeRow, NothingToPay, SumBatch, RunFails,
            InsertPaymentEvent, MarkPayment, PostToLedger, HookFails, Deliver, vars

LEMMA InvStep == IInv /\ [Next]_vars => IInv'
  BY TypeStep, PayLockStep, RowLockStep, LockedIsPayableStep, CommittedStep DEF IInv

LEMMA AlwaysInv == Spec => []IInv
  BY InitInv, InvStep, PTL DEF Spec

-----------------------------------------------------------------------------
\* Every variable keeps its type, for every instance.
THEOREM TypeCorrect == Spec => []TypeOK
<1>1. IInv => TypeOK
  BY DEF IInv
<1> QED BY <1>1, AlwaysInv, PTL

\* A payout batch's total covers exactly the rows that point at it, whatever
\* runs, refunds, redeliveries and rollbacks interleave.
THEOREM BatchTotalsHold == Spec => []BatchTotalsAddUp
<1>1. IInv => BatchTotalsAddUp
  BY DEF IInv
<1> QED BY <1>1, AlwaysInv, PTL

\* The events of open transactions: none is processed yet, and no two
\* transactions process the same one.
EventLock ==
  /\ \A h \in Hooks : hook[h].at \in {"payment", "ledger", "commit"} => EventOf(h) \notin seen
  /\ \A g, h \in Hooks :
       /\ hook[g].at \in {"payment", "ledger", "commit"} /\ hook[h].at \in {"payment", "ledger", "commit"}
       /\ EventOf(g) = EventOf(h)
       => g = h

LEMMA EventLockStep ==
  ASSUME TypeOK, EventLock, [Next]_vars
  PROVE  EventLock'
<1> USE DEF EventLock
<1>0. hook \in [Hooks -> Hook \cup {NoHook}]
  BY DEF TypeOK
<1>1. ASSUME NEW h \in Hooks, InsertPaymentEvent(h) \/ HookFails(h)
      PROVE  EventLock'
  <2>1. \A g \in Hooks \ {h} : hook'[g] = hook[g]
    BY <1>0, <1>1 DEF InsertPaymentEvent, HookFails, Goto, Finish
  <2>2. \/ hook'[h] = NoHook
        \/ /\ hook'[h] = [hook[h] EXCEPT !.at = "payment"] /\ EventOf(h) \notin seen
           /\ hook[h].at = "event" /\ \A g \in Hooks \ {h} : ~HoldsEvent(g, EventOf(h))
    BY <1>0, <1>1 DEF InsertPaymentEvent, HookFails, Goto, Finish
  <2>3. CASE hook'[h] = NoHook
    <3>1. hook'[h].at = "idle"
      BY <2>3 DEF NoHook
    <3> QED BY <1>1, <2>1, <3>1 DEF InsertPaymentEvent, HookFails, committed, EventOf
  <2>4. CASE /\ hook'[h] = [hook[h] EXCEPT !.at = "payment"] /\ EventOf(h) \notin seen
             /\ hook[h].at = "event" /\ \A g \in Hooks \ {h} : ~HoldsEvent(g, EventOf(h))
    <3>1. hook'[h].type = hook[h].type /\ hook'[h].b = hook[h].b
      BY <1>0, <2>4 DEF Hook, NoHook
    <3>2. seen' = seen /\ \A g \in Hooks : EventOf(g)' = EventOf(g)
      BY <1>1, <2>1, <3>1 DEF InsertPaymentEvent, HookFails, committed, EventOf
    <3>3. \A g \in Hooks \ {h} : hook[g].at \in {"payment", "ledger", "commit"} => EventOf(g) # EventOf(h)
      BY <2>4 DEF HoldsEvent
    <3> QED BY <2>1, <2>4, <3>2, <3>3
  <2> QED BY <2>2, <2>3, <2>4
<1>2. ASSUME NEW h \in Hooks, MarkPayment(h) \/ PostToLedger(h)
      PROVE  EventLock'
  <2>1. \A g \in Hooks \ {h} : hook'[g] = hook[g]
    BY <1>0, <1>2 DEF MarkPayment, PostToLedger, Goto
  <2>2. /\ hook'[h].type = hook[h].type /\ hook'[h].b = hook[h].b
        /\ hook[h].at \in {"payment", "ledger"}
    BY <1>0, <1>2 DEF MarkPayment, PostToLedger, Goto, Hook, NoHook
  <2>3. seen' = seen /\ \A g \in Hooks : EventOf(g)' = EventOf(g)
    BY <1>2, <2>1, <2>2 DEF MarkPayment, PostToLedger, committed, EventOf
  <2>4. \A g \in Hooks : hook'[g].at \in {"payment", "ledger", "commit"}
                          => hook[g].at \in {"payment", "ledger", "commit"}
    BY <2>1, <2>2
  <2> QED BY <2>3, <2>4
<1>3. ASSUME NEW h \in Hooks, NEW type \in EventTypes, NEW b \in Bookings, Deliver(h, type, b)
      PROVE  EventLock'
  <2>1. /\ \A g \in Hooks \ {h} : hook'[g] = hook[g]
        /\ hook'[h].at = "event"
    BY <1>0, <1>3 DEF Deliver
  <2> QED BY <1>3, <2>1 DEF Deliver, committed, EventOf
<1>4. ASSUME NEW h \in Hooks, CommitHook(h)
      PROVE  EventLock'
  <2>1. /\ \A g \in Hooks \ {h} : hook'[g] = hook[g]
        /\ hook'[h].at = "idle" /\ hook[h].at = "commit"
        /\ seen' = seen \cup {EventOf(h)}
    BY <1>0, <1>4 DEF CommitHook, Finish, NoHook
  <2> QED BY <2>1 DEF EventOf
<1>5. CASE UNCHANGED <<hook, seen>>
  BY <1>5 DEF EventOf
<1> QED BY <1>1, <1>2, <1>3, <1>4, <1>5
        DEF Next, RunStep, HookStep, StartRun, TakeRow, NothingToPay, SumBatch, CommitRun,
            RunFails, ClearingPasses, committed, vars

LEMMA AlwaysEventLock == Spec => []EventLock
<1>1. Init => EventLock
  BY DEF Init, EventLock, NoHook
<1>2. IInv => TypeOK
  BY DEF IInv
<1> QED BY <1>1, <1>2, EventLockStep, AlwaysInv, PTL DEF Spec

\* While a payment is refunded nothing is owed for its lesson, and a refund after
\* the lesson's capture is final.
THEOREM RefundedIsNotOwedHolds == Spec => RefundedIsNotOwed
<1>1. IInv => NoneOwed
  BY DEF IInv
<1>2. ASSUME IInv, NoneOwed', EventLock, [Next]_vars
      PROVE  [/\ NoneOwed'
              /\ \A b \in Bookings : payment[b] = "refunded" /\ payment'[b] # "refunded"
                                      => <<"captured", b>> \notin seen]_vars
  <2>1. ASSUME NEW b \in Bookings, payment[b] = "refunded", payment'[b] # "refunded"
        PROVE  <<"captured", b>> \notin seen
    <3>1. PICK h \in Hooks : CommitHook(h)
      BY <1>2, <2>1 DEF Next, RunStep, HookStep, StartRun, TakeRow, NothingToPay, SumBatch, CommitRun,
             RunFails, InsertPaymentEvent, MarkPayment, PostToLedger, HookFails, Deliver,
             ClearingPasses, committed, vars
    <3>2. hook[h].type \in {"captured", "refunded"} /\ hook[h].b \in Bookings
      BY <1>2, <3>1 DEF CommitHook, IInv, TypeOK, Hook, NoHook, EventTypes
    <3>3. hook[h].b = b /\ hook[h].type = "captured"
      BY <1>2, <2>1, <3>1, <3>2 DEF CommitHook, IInv, TypeOK
    <3>4. EventOf(h) = <<"captured", b>> /\ hook[h].at = "commit"
      BY <3>1, <3>3 DEF EventOf, CommitHook
    <3> QED BY <1>2, <3>4 DEF EventLock
  <2> QED BY <1>2, <2>1
<1> QED BY <1>1, <1>2, AlwaysInv, AlwaysEventLock, PTL DEF Spec, RefundedIsNotOwed

\* The transactions of runs and webhooks implement EarningsPromise: only the
\* commits and the clock move an earning, and each moves it as promised.
THEOREM RunsKeepPromise == Spec => KeepsEarningsPromise
<1>1. Init => EP!PromiseInit
  BY DEF Init, EP!PromiseInit, Earning
<1>2. ASSUME IInv, [Next]_vars
      PROVE  [EP!PromiseNext]_Earning
  <2> USE <1>2 DEF IInv, TypeOK
  <2>1. ASSUME NEW o \in Operators, CommitRun(o)
        PROVE  [EP!PromiseNext]_Earning
    <3>1. EP!Settle(run[o].ids)
      BY <2>1, CommitRunLedger DEF EP!Settle, Payable, CommitRun, Earning
    <3>2. CASE run[o].ids = {}
      BY <2>1, <3>2, CommitRunLedger DEF CommitRun, Earning
    <3>3. CASE run[o].ids # {}
      <4>1. run[o].ids \in (SUBSET Bookings) \ {{}}
        BY <3>3 DEF Run
      <4> QED BY <3>1, <4>1 DEF EP!PromiseNext
    <3> QED BY <3>2, <3>3
  <2>2. ASSUME NEW h \in Hooks, CommitHook(h)
        PROVE  [EP!PromiseNext]_Earning
    <3> DEFINE b == hook[h].b
    <3>0. \A c \in Bookings \ {b} : Earning'[c] = Earning[c]
      BY <2>2, CommitHookLedger DEF CommitHook, Earning
    <3>1. b \in Bookings /\ cleared' = cleared /\ ledger' \in [Bookings -> {"none", "held", "paid", "reversed"}]
      BY <2>2, CommitHookLedger, TypeStep DEF CommitHook
    <3>2. CASE ledger[b] = "none" /\ ledger'[b] = "held"
      <4>1. EP!Credit(b)
        <5>1. Earning[b] = "none" /\ Earning'[b] = "held"
          BY <3>1, <3>2 DEF ClearedIsCredited, Earning
        <5> QED BY <3>0, <3>1, <5>1 DEF EP!Credit, Earning
      <4> QED BY <3>1, <4>1 DEF EP!PromiseNext
    <3>3. CASE ledger[b] = "held" /\ ledger'[b] = "reversed"
      <4>1. EP!Reverse(b)
        <5>1. Earning[b] \in {"held", "available"} /\ Earning'[b] = "reversed"
          BY <3>1, <3>3 DEF Earning
        <5> QED BY <3>0, <3>1, <5>1 DEF EP!Reverse, Earning
      <4> QED BY <3>1, <4>1 DEF EP!PromiseNext
    <3>4. CASE ledger'[b] = ledger[b]
      <4>1. ledger' = ledger
        BY <2>2, <3>1, <3>4, CommitHookLedger
      <4> QED BY <3>1, <4>1 DEF Earning
    <3> QED BY <2>2, <3>2, <3>3, <3>4, CommitHookLedger
  <2>3. ASSUME NEW b \in Bookings, ClearingPasses(b)
        PROVE  [EP!PromiseNext]_Earning
    <3>1. EP!Mature(b)
      BY <2>3 DEF ClearingPasses, EP!Mature, Earning
    <3> QED BY <3>1 DEF EP!PromiseNext
  <2>4. CASE UNCHANGED committed
    BY <2>4 DEF committed, Earning
  <2> QED BY <2>1, <2>2, <2>3, <2>4
          DEF Next, RunStep, HookStep, StartRun, TakeRow, NothingToPay, SumBatch, RunFails,
              InsertPaymentEvent, MarkPayment, PostToLedger, HookFails, Deliver, vars
<1> QED BY <1>1, <1>2, AlwaysInv, PTL DEF Spec, KeepsEarningsPromise, EP!Promise
-----------------------------------------------------------------------------
(* Uploads: a row has its bytes, a file whose id was answered has both.      *)

UploadsTypeOK ==
  /\ blob \in [Assets -> {"none", "part", "whole"}]
  /\ asset \in [Assets -> BOOLEAN]
  /\ upload \in [Assets -> {"new", "put", "answered", "refused", "undone", "dead"}]

\* The order Upload keeps: the bytes, then the row, then the answer or the deletion.
BytesFirst ==
  \A u \in Assets :
    /\ upload[u] \in {"new", "put"} => ~asset[u]
    /\ upload[u] \in {"put", "answered", "refused"} => blob[u] = "whole"
    /\ upload[u] = "answered" => asset[u]
    /\ upload[u] = "dead" /\ asset[u] => blob[u] = "whole"

UploadsInv == UploadsTypeOK /\ BytesFirst

LEMMA UploadsInitInv == UploadsInit => UploadsInv
  BY DEF UploadsInit, UploadsInv, UploadsTypeOK, BytesFirst

LEMMA UploadsStep ==
  ASSUME UploadsInv, UploadsNext
  PROVE  UploadsInv'
<1> USE DEF UploadsInv, UploadsTypeOK, BytesFirst, Reach
<1>1. PICK u \in Assets : Put(u) \/ PutFails(u) \/ Record(u) \/ RecordFails(u) \/ Undo(u) \/ UploadDies(u)
  BY DEF UploadsNext
<1>2. CASE Put(u) \/ PutFails(u)
  BY <1>2 DEF Put, PutFails
<1>3. CASE Record(u)
  BY <1>3 DEF Record
<1>4. CASE RecordFails(u)
  BY <1>4 DEF RecordFails
<1>5. CASE Undo(u) \/ UploadDies(u)
  BY <1>5 DEF Undo, UploadDies
<1> QED BY <1>1, <1>2, <1>3, <1>4, <1>5

-----------------------------------------------------------------------------
(* Selecting from a sequence: At.                                           *)

\* At takes the elements at the positions K, each of them once.
LEMMA AtPositions ==
  ASSUME NEW s, NEW K \in SUBSET Int, IsFiniteSet(K)
  PROVE  /\ Cardinality(K) \in Nat
         /\ \E p \in Bijection(1..Cardinality(K), K) :
              At(s, K) = [n \in 1..Cardinality(K) |-> s[p[n]]]
<1> DEFINE below(i) == {j \in K : j <= i}
           rank == [i \in K |-> Cardinality(below(i))]
           c == Cardinality(K)
           p == [n \in 1..c |-> CHOOSE i \in K : Cardinality(below(i)) = n]
<1>1. c \in Nat /\ IsFiniteSet(1..c) /\ Cardinality(1..c) = c
  <2>1. c \in Nat
    BY FS_CardinalityType
  <2> QED BY <2>1, FS_Interval
<1>2. ASSUME NEW i \in K
      PROVE  /\ IsFiniteSet(below(i)) /\ Cardinality(below(i)) \in 1..c /\ i \in below(i)
  <2>1. IsFiniteSet(below(i)) /\ Cardinality(below(i)) <= c /\ i \in below(i)
    <3>1. below(i) \in SUBSET K /\ i \in below(i)
      OBVIOUS
    <3> HIDE DEF below
    <3> QED BY <3>1, FS_Subset
  <2>2. Cardinality(below(i)) \in Nat /\ Cardinality(below(i)) # 0
    BY <2>1, FS_CardinalityType, FS_EmptySet
  <2> HIDE DEF below
  <2> QED BY <1>1, <2>1, <2>2
<1>3. ASSUME NEW i \in K, NEW k \in K, Cardinality(below(i)) = Cardinality(below(k)), i <= k
      PROVE  i = k
  <2>1. below(i) \subseteq below(k)
    <3>1. \A j \in Int : j <= i => j <= k
      BY <1>3
    <3> QED BY <3>1
  <2>2. below(k) = below(i)
    BY <1>2, <1>3, <2>1, FS_Subset
  <2> QED BY <1>2, <1>3, <2>2
<1>4. \A i, k \in K : Cardinality(below(i)) = Cardinality(below(k)) => i = k
  <2> SUFFICES ASSUME NEW i \in K, NEW k \in K, Cardinality(below(i)) = Cardinality(below(k))
               PROVE  i = k
    OBVIOUS
  <2> HIDE DEF below
  <2>1. i <= k \/ k <= i
    OBVIOUS
  <2> QED BY <1>3, <2>1
<1>5. rank \in Injection(K, 1..c)
  <2> HIDE DEF below
  <2> QED BY <1>2, <1>4 DEF Injection, IsInjective
<1>6. rank \in Surjection(K, 1..c)
  <2> HIDE DEF rank
  <2> QED BY <1>1, <1>5, FS_Injection
<1>7. \A n \in 1..c : p[n] \in K /\ Cardinality(below(p[n])) = n
  <2> SUFFICES ASSUME NEW n \in 1..c
               PROVE  p[n] \in K /\ Cardinality(below(p[n])) = n
    OBVIOUS
  <2>1. \E i \in K : Cardinality(below(i)) = n
    <3> HIDE DEF below
    <3> QED BY <1>6 DEF Surjection
  <2> HIDE DEF below
  <2> QED BY <2>1
<1>8. p \in Bijection(1..c, K)
  <2> HIDE DEF below
  <2>1. p \in [1..c -> K]
    BY <1>7
  <2>2. \A n, m \in 1..c : p[n] = p[m] => n = m
    <3> HIDE DEF p
    <3> QED BY <1>7
  <2>3. \A i \in K : \E n \in 1..c : p[n] = i
    <3> HIDE DEF p
    <3> QED BY <1>2, <1>4, <1>7
  <2> HIDE DEF p
  <2> QED BY <2>1, <2>2, <2>3 DEF Bijection, Injection, Surjection, IsInjective
<1>9. At(s, K) = [n \in 1..c |-> s[p[n]]]
  BY DEF At
<1> HIDE DEF p
<1> QED BY <1>1, <1>8, <1>9

LEMMA SeqFacts ==
  ASSUME NEW S, NEW s \in Seq(S)
  PROVE  /\ Len(s) \in Nat /\ DOMAIN s = 1..Len(s) /\ s = [i \in DOMAIN s |-> s[i]]
         /\ \A i \in DOMAIN s : s[i] \in S
         /\ IsFiniteSet(DOMAIN s) /\ Cardinality(DOMAIN s) = Len(s)
         /\ s = <<>> <=> Len(s) = 0
<1>1. Len(s) \in Nat /\ DOMAIN s = 1..Len(s) /\ s \in [1..Len(s) -> S]
  OBVIOUS
<1>2. s = [i \in DOMAIN s |-> s[i]] /\ \A i \in DOMAIN s : s[i] \in S
  BY <1>1
<1>3. IsFiniteSet(DOMAIN s) /\ Cardinality(DOMAIN s) = Len(s)
  BY <1>1, FS_Interval
<1>4. s = <<>> <=> Len(s) = 0
  OBVIOUS
<1> QED BY <1>1, <1>2, <1>3, <1>4

LEMMA AtSelects ==
  ASSUME NEW S, NEW s \in Seq(S), NEW K \in SUBSET DOMAIN s
  PROVE  /\ At(s, K) \in Seq(S)
         /\ Elements(At(s, K)) = {s[i] : i \in K}
         /\ At(s, K) = <<>> <=> K = {}
         /\ (\A i, j \in K : s[i] = s[j] => i = j)
              => \A n, m \in DOMAIN At(s, K) : At(s, K)[n] = At(s, K)[m] => n = m
<1> DEFINE c == Cardinality(K)
<1>1. IsFiniteSet(K) /\ K \in SUBSET Int
  <2>1. DOMAIN s = 1..Len(s) /\ Len(s) \in Nat
    OBVIOUS
  <2>2. IsFiniteSet(DOMAIN s)
    BY <2>1, FS_Interval
  <2> QED BY <2>1, <2>2, FS_Subset
<1>2. c \in Nat
  BY <1>1, FS_CardinalityType
<1>3. PICK p \in Bijection(1..c, K) : At(s, K) = [n \in 1..c |-> s[p[n]]]
  BY <1>1, AtPositions
<1>4. /\ p \in [1..c -> K] /\ \A n, m \in 1..c : p[n] = p[m] => n = m
      /\ \A i \in K : \E n \in 1..c : p[n] = i
  BY DEF Bijection, Injection, Surjection, IsInjective
<1>5. At(s, K) \in Seq(S) /\ DOMAIN At(s, K) = 1..c /\ \A n \in 1..c : At(s, K)[n] = s[p[n]]
  <2>1. \A n \in 1..c : s[p[n]] \in S
    BY <1>4
  <2> QED BY <1>2, <1>3, <2>1
<1>6. Elements(At(s, K)) = {s[i] : i \in K}
  BY <1>4, <1>5 DEF Elements
<1>7. At(s, K) = <<>> <=> K = {}
  <2>1. At(s, K) = <<>> <=> c = 0
    BY <1>2, <1>5
  <2> QED BY <1>1, <2>1, FS_EmptySet
<1> HIDE DEF c
<1> QED BY <1>4, <1>5, <1>6, <1>7

LEMMA AtWhole ==
  ASSUME NEW S, NEW s \in Seq(S)
  PROVE  At(s, DOMAIN s) = s
<1> DEFINE D == DOMAIN s
           pos(n) == CHOOSE i \in D : Cardinality({j \in D : j <= i}) = n
<1>1. D = 1..Len(s) /\ Len(s) \in Nat
  OBVIOUS
<1>2. Cardinality(D) = Len(s)
  BY <1>1, FS_Interval
<1>3. \A i \in D : Cardinality({j \in D : j <= i}) = i
  <2> SUFFICES ASSUME NEW i \in D
               PROVE  Cardinality({j \in D : j <= i}) = i
    OBVIOUS
  <2>1. i \in Nat /\ 1 <= i /\ i <= Len(s)
    BY <1>1
  <2>2. {j \in D : j <= i} = 1..i
    BY <1>1, <2>1
  <2>3. Cardinality(1..i) = i
    BY <2>1, FS_Interval
  <2> QED BY <2>2, <2>3
<1>4. ASSUME NEW n \in D
      PROVE  pos(n) = n
  <2> HIDE DEF D
  <2> QED BY <1>3
<1>5. At(s, D) = [n \in 1..Cardinality(D) |-> s[pos(n)]]
  BY DEF At
<1>6. At(s, D) = [n \in D |-> s[n]]
  <2> HIDE DEF pos
  <2> QED BY <1>1, <1>2, <1>4, <1>5
<1> QED BY <1>1, <1>6

-----------------------------------------------------------------------------
(* normalizeQuestion: what it makes can be graded, and it leaves it as it is. *)

LEMMA TrimTwice ==
  ASSUME NEW t \in Texts
  PROVE  Trim(t) \in Texts /\ Trim(Trim(t)) = Trim(t)
  BY TextsAssumption DEF Trim

Distinct(s) == \A i, j \in DOMAIN s : s[i] = s[j] => i = j

LEMMA Deduped ==
  ASSUME NEW s \in Seq(Texts)
  PROVE  /\ Dedupe(s) \in Seq(Texts) /\ "" \notin Elements(Dedupe(s)) /\ Distinct(Dedupe(s))
         /\ "" \notin Elements(s) /\ Distinct(s) => Dedupe(s) = s
<1> DEFINE K == {i \in DOMAIN s : s[i] # "" /\ \A j \in 1..(i - 1) : s[j] # s[i]}
<1>1. Dedupe(s) = At(s, K) /\ K \in SUBSET DOMAIN s
  BY DEF Dedupe
<1>2. \A i, j \in K : s[i] = s[j] => i = j
  <2>1. \A i \in DOMAIN s : i \in Nat /\ 1 <= i
    OBVIOUS
  <2>2. \A i, j \in DOMAIN s : i # j => i \in 1..(j - 1) \/ j \in 1..(i - 1)
    BY <2>1
  <2> QED BY <2>2
<1>3. "" \notin {s[i] : i \in K}
  OBVIOUS
<1>0. \A i \in DOMAIN s : \A j \in 1..(i - 1) : j \in DOMAIN s /\ j # i
  <2> HIDE DEF K
  <2>1. DOMAIN s = 1..Len(s) /\ Len(s) \in Nat
    OBVIOUS
  <2> QED BY <2>1
<1>4. "" \notin Elements(s) /\ Distinct(s) => K = DOMAIN s
  <2> SUFFICES ASSUME "" \notin Elements(s), Distinct(s), NEW i \in DOMAIN s, NEW j \in 1..(i - 1)
               PROVE  s[j] # s[i]
    BY DEF Elements
  <2>1. j \in DOMAIN s /\ j # i
    BY <1>0
  <2> QED BY <2>1 DEF Distinct
<1> HIDE DEF K
<1>5. At(s, K) \in Seq(Texts) /\ Elements(At(s, K)) = {s[i] : i \in K} /\ Distinct(At(s, K))
  BY <1>1, <1>2, AtSelects DEF Distinct
<1> QED BY <1>1, <1>3, <1>4, <1>5, AtWhole

LEMMA AcceptedTrimmed ==
  ASSUME NEW s \in Seq(Texts)
  PROVE  /\ Accepted(s) \in Seq(Texts)
         /\ \A a \in Elements(Accepted(s)) : a # "" /\ Trim(a) = a
         /\ (\A a \in Elements(s) : a # "" /\ Trim(a) = a) => Accepted(s) = s
<1> DEFINE z == [i \in DOMAIN s |-> Trim(s[i])]
           K == {i \in DOMAIN z : z[i] # ""}
<1>0. s = [i \in DOMAIN s |-> s[i]]
  <2>1. DOMAIN s = 1..Len(s) /\ Len(s) \in Nat
    OBVIOUS
  <2>2. s = [i \in 1..Len(s) |-> s[i]]
    OBVIOUS
  <2> QED BY <2>1, <2>2
<1>1. Accepted(s) = At(z, K) /\ K \in SUBSET DOMAIN z
  BY DEF Accepted
<1>2. z \in Seq(Texts) /\ \A i \in DOMAIN z : Trim(z[i]) = z[i]
  <2>1. \A i \in DOMAIN s : s[i] \in Texts
    OBVIOUS
  <2>2. \A i \in DOMAIN s : Trim(s[i]) \in Texts /\ Trim(Trim(s[i])) = Trim(s[i])
    BY <2>1, TrimTwice
  <2> QED BY <2>2
<1>3. \A a \in {z[i] : i \in K} : a # "" /\ Trim(a) = a
  BY <1>2
<1>4. (\A a \in Elements(s) : a # "" /\ Trim(a) = a) => z = s /\ K = DOMAIN s
  <2> SUFFICES ASSUME \A a \in Elements(s) : a # "" /\ Trim(a) = a
               PROVE  z = s /\ K = DOMAIN s
    OBVIOUS
  <2>1. \A i \in DOMAIN s : s[i] # "" /\ Trim(s[i]) = s[i]
    BY DEF Elements
  <2>2. z = [i \in DOMAIN s |-> s[i]] /\ DOMAIN z = DOMAIN s
    BY <2>1
  <2>3. z = s
    BY <1>0, <2>2
  <2> QED BY <2>1, <2>3
<1> HIDE DEF K, z
<1>5. At(z, K) \in Seq(Texts) /\ Elements(At(z, K)) = {z[i] : i \in K}
  BY <1>1, <1>2, AtSelects
<1> QED BY <1>1, <1>3, <1>4, <1>5, AtWhole

\* There is a new id for every choice that came without one.
Supplied(choices) == Cardinality(Missing(choices)) <= Cardinality(Unused(choices))

Choices == Seq([id : Texts, text : Texts])

LEMMA UnusedIsFinite == ASSUME NEW cs PROVE Cardinality(Unused(cs)) \in Nat
<1>2. IsFiniteSet(DOMAIN NewIds)
  BY TextsAssumption, SeqFacts
<1>3. Unused(cs) \in SUBSET DOMAIN NewIds
  BY DEF Unused
<1> QED BY <1>2, <1>3, FS_Subset, FS_CardinalityType

LEMMA NamedChoices ==
  ASSUME NEW cs \in Choices, Supplied(cs)
  PROVE  /\ Named(cs) \in Choices /\ DOMAIN Named(cs) = DOMAIN cs /\ Len(Named(cs)) = Len(cs)
         /\ \A i \in DOMAIN cs : Named(cs)[i].id # "" /\ Named(cs)[i].text = Trim(cs[i].text)
         /\ (\A i \in DOMAIN cs : cs[i].id # "" /\ Trim(cs[i].text) = cs[i].text) => Named(cs) = cs
<1> DEFINE free == At(NewIds, Unused(cs))
           nth(i) == Cardinality({j \in Missing(cs) : j <= i})
           given(i) == IF cs[i].id = "" THEN free[nth(i)] ELSE cs[i].id
<1>1. /\ DOMAIN cs = 1..Len(cs) /\ Len(cs) \in Nat
      /\ \A i \in DOMAIN cs : cs[i].id \in Texts /\ cs[i].text \in Texts
                                /\ cs[i] \in [id : Texts, text : Texts]
      /\ cs = [i \in DOMAIN cs |-> cs[i]]
  <2>1. cs \in Seq([id : Texts, text : Texts])
    BY DEF Choices
  <2>2. \A c \in [id : Texts, text : Texts] : c.id \in Texts /\ c.text \in Texts
    OBVIOUS
  <2> QED BY <2>1, <2>2, SeqFacts
<1>2. free \in Seq(Texts \ {""}) /\ DOMAIN free = 1..Cardinality(Unused(cs))
  <2>1. Unused(cs) \in SUBSET DOMAIN NewIds /\ NewIds \in Seq(Texts \ {""})
    BY TextsAssumption DEF Unused
  <2>2. free \in Seq(Texts \ {""})
    BY <2>1, AtSelects
  <2>3. DOMAIN free = 1..Cardinality(Unused(cs))
    BY DEF At
  <2> QED BY <2>2, <2>3
<1>3. IsFiniteSet(Missing(cs)) /\ Missing(cs) \subseteq DOMAIN cs
  <2>1. IsFiniteSet(DOMAIN cs)
    BY SeqFacts DEF Choices
  <2>2. Missing(cs) \in SUBSET DOMAIN cs
    BY DEF Missing
  <2> QED BY <2>1, <2>2, FS_Subset
<1>4. Cardinality(Unused(cs)) \in Nat
  BY UnusedIsFinite
<1>5. ASSUME NEW i \in DOMAIN cs, cs[i].id = ""
      PROVE  nth(i) \in DOMAIN free
  <2> DEFINE B == {j \in Missing(cs) : j <= i}
  <2>1. B \in SUBSET Missing(cs) /\ i \in B
    <3>1. i \in Missing(cs)
      BY <1>5 DEF Missing
    <3>2. i \in Int
      BY <1>1
    <3> QED BY <3>1, <3>2
  <2> HIDE DEF B
  <2>2. IsFiniteSet(B) /\ Cardinality(B) <= Cardinality(Missing(cs)) /\ Cardinality(B) \in Nat
        /\ Cardinality(B) # 0 /\ Cardinality(Missing(cs)) \in Nat
    BY <1>3, <2>1, FS_Subset, FS_CardinalityType, FS_EmptySet
  <2>3. nth(i) = Cardinality(B)
    BY DEF B
  <2> DEFINE n == nth(i)
             u == Cardinality(Unused(cs))
             m == Cardinality(Missing(cs))
  <2>4. n \in Nat /\ n # 0 /\ n <= m /\ m <= u /\ m \in Nat /\ u \in Nat
    BY <1>4, <2>2, <2>3 DEF Supplied
  <2>5. DOMAIN free = 1..u
    BY <1>2
  <2> HIDE DEF n, u, m, free
  <2>6. n \in DOMAIN free
    BY <2>4, <2>5
  <2> QED BY <2>6 DEF n
<1>6. \A i \in DOMAIN cs : given(i) \in Texts /\ given(i) # ""
  <2> SUFFICES ASSUME NEW i \in DOMAIN cs
               PROVE  given(i) \in Texts /\ given(i) # ""
    OBVIOUS
  <2>1. cs[i].id = "" => free[nth(i)] \in Texts \ {""}
    <3> SUFFICES ASSUME cs[i].id = ""
                 PROVE  free[nth(i)] \in Texts \ {""}
      OBVIOUS
    <3>1. nth(i) \in DOMAIN free
      BY <1>5
    <3> HIDE DEF nth, free
    <3> QED BY <1>2, <3>1, SeqFacts
  <2> HIDE DEF nth, free
  <2> QED BY <1>1, <2>1
<1>7. Named(cs) = [i \in DOMAIN cs |-> [id |-> given(i), text |-> Trim(cs[i].text)]]
  BY DEF Named
<1>8. \A i \in DOMAIN cs : cs[i].id # "" => given(i) = cs[i].id
  OBVIOUS
<1> HIDE DEF given, free, nth
<1>9. Named(cs) \in Choices
  <2>1. \A i \in DOMAIN cs : [id |-> given(i), text |-> Trim(cs[i].text)] \in [id : Texts, text : Texts]
    BY <1>1, <1>6, TrimTwice
  <2> DEFINE f == [i \in 1..Len(cs) |-> [id |-> given(i), text |-> Trim(cs[i].text)]]
  <2>2. f \in Seq([id : Texts, text : Texts])
    BY <1>1, <2>1
  <2> QED BY <1>1, <1>7, <2>2 DEF Choices
<1>10. DOMAIN Named(cs) = DOMAIN cs /\ Len(Named(cs)) = Len(cs)
  <2>1. DOMAIN Named(cs) = DOMAIN cs
    BY <1>7
  <2>2. DOMAIN Named(cs) = 1..Len(Named(cs)) /\ Len(Named(cs)) \in Nat
    BY <1>9 DEF Choices
  <2> QED BY <1>1, <2>1, <2>2
<1>11. (\A i \in DOMAIN cs : cs[i].id # "" /\ Trim(cs[i].text) = cs[i].text) => Named(cs) = cs
  <2> SUFFICES ASSUME \A i \in DOMAIN cs : cs[i].id # "" /\ Trim(cs[i].text) = cs[i].text
               PROVE  Named(cs) = cs
    OBVIOUS
  <2>1. \A i \in DOMAIN cs : [id |-> given(i), text |-> Trim(cs[i].text)] = cs[i]
    BY <1>1, <1>8
  <2>2. Named(cs) = [i \in DOMAIN cs |-> cs[i]]
    BY <1>7, <2>1
  <2>3. cs = [i \in DOMAIN cs |-> cs[i]]
    BY SeqFacts DEF Choices
  <2> QED BY <2>2, <2>3
<1>12. ASSUME NEW i \in DOMAIN cs
       PROVE  Named(cs)[i].id # "" /\ Named(cs)[i].text = Trim(cs[i].text)
  <2>1. Named(cs)[i] = [id |-> given(i), text |-> Trim(cs[i].text)]
    BY <1>7
  <2>2. given(i) # ""
    BY <1>6
  <2>3. Named(cs)[i].id = given(i) /\ Named(cs)[i].text = Trim(cs[i].text)
    BY <2>1
  <2> QED BY <2>2, <2>3
<1> QED BY <1>9, <1>10, <1>11, <1>12

\* A stored question can be graded.
Gradable(q) ==
  LET right == {n \in DOMAIN q.choices : q.choices[n].id \in Elements(q.correct)}
  IN /\ q.points >= 1 /\ "" \notin Elements(q.correct)
     /\ q.kind = "text" => q.correct # <<>>
     /\ q.kind = "multi" => right # {}
     /\ q.kind = "single" /\ Cardinality(IdsOf(q.choices)) = Len(q.choices) =>
          Cardinality(right) = 1

LEMMA OneRightAnswer ==
  ASSUME NEW cs \in Choices, Cardinality(IdsOf(cs)) = Len(cs), NEW x \in IdsOf(cs)
  PROVE  Cardinality({n \in DOMAIN cs : cs[n].id \in {x}}) = 1
<1> DEFINE f == [n \in 1..Len(cs) |-> cs[n].id]
<1>1. DOMAIN cs = 1..Len(cs) /\ Len(cs) \in Nat
      /\ IsFiniteSet(DOMAIN cs) /\ Cardinality(DOMAIN cs) = Len(cs)
  BY SeqFacts DEF Choices
<1>2. IsFiniteSet(1..Len(cs)) /\ Cardinality(1..Len(cs)) = Len(cs)
  BY <1>1
<1>3. f \in Surjection(1..Len(cs), IdsOf(cs))
  BY <1>1 DEF Surjection, IdsOf
<1>4. f \in Injection(1..Len(cs), IdsOf(cs))
  <2> HIDE DEF f
  <2> QED BY <1>2, <1>3, FS_SurjSameCardinalityImpliesInj
<1>5. PICK n \in DOMAIN cs : cs[n].id = x
  BY DEF IdsOf
<1>6. \A m \in DOMAIN cs : cs[m].id = x => m = n
  BY <1>1, <1>4, <1>5 DEF Injection, IsInjective
<1>7. {m \in DOMAIN cs : cs[m].id \in {x}} = {n}
  BY <1>5, <1>6
<1> QED BY <1>7, FS_Singleton

\* What QuestionOK lets through is stored as a question that can be graded, that is let
\* through again, and that stays what it is.
LEMMA NormalQuestions ==
  ASSUME NEW q \in AnyQuestion, Supplied(q.choices), QuestionOK(q)
  PROVE  LET n == NormalQuestion(q)
         IN n \in AnyQuestion /\ Gradable(n) /\ QuestionOK(n) /\ NormalQuestion(n) = n
<1> DEFINE n == NormalQuestion(q)
<1>1. /\ q.prompt \in Texts /\ q.kind \in Texts /\ q.choices \in Choices
      /\ q.correct \in Seq(Texts) /\ q.points \in Int
  BY DEF AnyQuestion, Choices
<1>2. /\ n.prompt = Trim(q.prompt) /\ n.kind = q.kind
      /\ n.points = (IF q.points <= 0 THEN 1 ELSE q.points)
      /\ n.choices = (IF q.kind = "text" THEN <<>> ELSE Named(q.choices))
      /\ n.correct = (IF q.kind = "text" THEN Accepted(q.correct) ELSE Dedupe(q.correct))
      /\ n = [prompt |-> n.prompt, kind |-> n.kind, choices |-> n.choices, correct |-> n.correct,
              points |-> n.points]
  BY DEF NormalQuestion
<1> HIDE DEF n
<1>3. /\ n.prompt \in Texts /\ Trim(n.prompt) = n.prompt /\ n.prompt # ""
      /\ n.points \in Int /\ n.points >= 1
  <2>1. Trim(q.prompt) # ""
    BY DEF QuestionOK
  <2>2. n.prompt \in Texts /\ Trim(n.prompt) = n.prompt /\ n.prompt # ""
    BY <1>1, <1>2, <2>1, TrimTwice
  <2>3. n.points \in Int /\ n.points >= 1
    BY <1>1, <1>2
  <2> QED BY <2>2, <2>3
<1>4. CASE q.kind = "text"
  <2>1. /\ n.correct \in Seq(Texts) /\ n.choices = <<>>
        /\ \A a \in Elements(n.correct) : a # "" /\ Trim(a) = a
        /\ Accepted(n.correct) = n.correct
    BY <1>1, <1>2, <1>4, AcceptedTrimmed
  <2>2. n.correct # <<>>
    BY <1>2, <1>4 DEF QuestionOK
  <2>3. n \in AnyQuestion
    <3>1. <<>> \in Choices
      BY DEF Choices
    <3> QED BY <1>1, <1>2, <1>3, <2>1, <3>1 DEF AnyQuestion, Choices
  <2>4. NormalQuestion(n) = n
    BY <1>2, <1>3, <1>4, <2>1 DEF NormalQuestion
  <2>5. Gradable(n)
    BY <1>2, <1>3, <1>4, <2>1, <2>2 DEF Gradable
  <2>6. QuestionOK(n)
    BY <1>2, <1>3, <1>4, <2>1, <2>2 DEF QuestionOK
  <2> QED BY <2>3, <2>4, <2>5, <2>6 DEF n
<1>5. CASE q.kind \in {"single", "multi"}
  <2> DEFINE d == n.correct
             cs == n.choices
  <2>1. d = Dedupe(q.correct) /\ cs = Named(q.choices)
    BY <1>2, <1>5
  <2>2. /\ d \in Seq(Texts) /\ "" \notin Elements(d) /\ Dedupe(d) = d
    BY <1>1, <2>1, Deduped
  <2>3. /\ cs \in Choices /\ Len(cs) = Len(q.choices) /\ DOMAIN cs = DOMAIN q.choices
        /\ \A i \in DOMAIN cs : cs[i].id # "" /\ cs[i].text = Trim(q.choices[i].text)
    BY <1>1, <2>1, NamedChoices
  <2>4. \A i \in DOMAIN cs : cs[i].text # "" /\ Trim(cs[i].text) = cs[i].text
    <3>1. \A i \in DOMAIN q.choices : Trim(q.choices[i].text) # "" /\ q.choices[i].text \in Texts
      <4>1. \A i \in DOMAIN q.choices : q.choices[i] \in [id : Texts, text : Texts]
        BY <1>1, SeqFacts DEF Choices
      <4>2. \A c \in [id : Texts, text : Texts] : c.text \in Texts
        OBVIOUS
      <4>3. \A i \in DOMAIN q.choices : Trim(q.choices[i].text) # ""
        BY <1>5 DEF QuestionOK
      <4> QED BY <4>1, <4>2, <4>3
    <3> QED BY <2>3, <3>1, TrimTwice
  <2>5. Named(cs) = cs
    <3>1. Missing(cs) = {}
      BY <2>3 DEF Missing
    <3>2. Cardinality(Unused(cs)) \in Nat
      BY UnusedIsFinite
    <3>3. Supplied(cs)
      BY <3>1, <3>2, FS_EmptySet DEF Supplied
    <3> QED BY <2>3, <2>4, <3>3, NamedChoices
  <2>6. /\ d # <<>> /\ Len(cs) >= 2 /\ Elements(d) \subseteq IdsOf(cs)
        /\ q.kind = "single" => Len(d) = 1
    BY <1>5, <2>1, <2>3 DEF QuestionOK
  <2>7. n \in AnyQuestion
    BY <1>1, <1>2, <1>3, <2>2, <2>3 DEF AnyQuestion, Choices
  <2>8. NormalQuestion(n) = n
    BY <1>2, <1>3, <1>5, <2>2, <2>5 DEF NormalQuestion
  <2>9. QuestionOK(n)
    BY <1>2, <1>3, <1>5, <2>2, <2>4, <2>5, <2>6 DEF QuestionOK
  <2>10. Gradable(n)
    <3>1. d[1] \in Elements(d) /\ (q.kind = "single" => Elements(d) = {d[1]})
      <4>1. DOMAIN d = 1..Len(d) /\ Len(d) \in Nat /\ Len(d) # 0
        <5> HIDE DEF d
        <5> QED BY <2>2, <2>6, SeqFacts
      <4> HIDE DEF d
      <4>2. 1 \in DOMAIN d /\ (q.kind = "single" => DOMAIN d = {1})
        BY <2>6, <4>1
      <4> QED BY <4>2 DEF Elements
    <3>2. {i \in DOMAIN cs : cs[i].id \in Elements(d)} # {}
      BY <2>6, <3>1 DEF IdsOf
    <3>3. q.kind = "single" /\ Cardinality(IdsOf(cs)) = Len(cs) =>
            Cardinality({i \in DOMAIN cs : cs[i].id \in Elements(d)}) = 1
      BY <2>3, <2>6, <3>1, OneRightAnswer
    <3> QED BY <1>2, <1>3, <1>5, <2>2, <3>2, <3>3 DEF Gradable
  <2> QED BY <2>7, <2>8, <2>9, <2>10 DEF n
<1> QED BY <1>4, <1>5 DEF QuestionOK

-----------------------------------------------------------------------------
(* The library: what is stored is sound.                                     *)

Files == Assets \cup {NoAsset}

\* A content that validation lets through, that stays as it is, and whose questions all
\* can be graded.
Sound(t, c) ==
  /\ ContentOK(t, c) /\ StripTo(t, c) = c
  /\ \A i \in DOMAIN c.questions : Gradable(c.questions[i])

LEMMA QuestionsNormalized ==
  ASSUME NEW qs \in Seq(AnyQuestion),
         \A i \in DOMAIN qs : Supplied(qs[i].choices) /\ QuestionOK(qs[i])
  PROVE  LET ns == [i \in DOMAIN qs |-> NormalQuestion(qs[i])]
         IN /\ ns \in Seq(AnyQuestion) /\ (qs # <<>> => ns # <<>>)
            /\ \A i \in DOMAIN ns : Gradable(ns[i]) /\ QuestionOK(ns[i])
            /\ [i \in DOMAIN ns |-> NormalQuestion(ns[i])] = ns
<1> DEFINE ns == [i \in DOMAIN qs |-> NormalQuestion(qs[i])]
<1>1. /\ DOMAIN qs = 1..Len(qs) /\ Len(qs) \in Nat /\ qs = <<>> <=> Len(qs) = 0
      /\ \A i \in DOMAIN qs : qs[i] \in AnyQuestion
  BY SeqFacts
<1>2. \A i \in DOMAIN qs :
        LET n == NormalQuestion(qs[i])
        IN n \in AnyQuestion /\ Gradable(n) /\ QuestionOK(n) /\ NormalQuestion(n) = n
  BY <1>1, NormalQuestions
<1>3. DOMAIN ns = DOMAIN qs /\ \A i \in DOMAIN ns : ns[i] = NormalQuestion(qs[i])
  OBVIOUS
<1>4. ns \in Seq(AnyQuestion)
  BY <1>1, <1>2
<1>5. qs # <<>> => ns # <<>>
  <2> HIDE DEF ns
  <2>1. DOMAIN ns = 1..Len(ns) /\ Len(ns) \in Nat /\ ns = <<>> <=> Len(ns) = 0
    BY <1>4, SeqFacts
  <2> QED BY <1>1, <1>3, <2>1
<1>6. [i \in DOMAIN ns |-> NormalQuestion(ns[i])] = ns
  BY <1>2
<1> QED BY <1>2, <1>3, <1>4, <1>5, <1>6

\* What Create and Update store is sound, for every content that is let through.
LEMMA StoredIsSound ==
  ASSUME NEW t \in Types, NEW F, NoAsset \in F, NEW c \in AnyContent(F), ContentOK(t, c),
         \A i \in DOMAIN c.questions : Supplied(c.questions[i].choices)
  PROVE  StripTo(t, c) \in AnyContent(F) /\ Sound(t, StripTo(t, c))
<1> DEFINE s == StripTo(t, c)
           ns == [i \in DOMAIN c.questions |-> NormalQuestion(c.questions[i])]
<1>1. /\ c.file \in F /\ c.audio \in F /\ c.url \in Texts /\ c.minWords \in Int
      /\ c.questions \in Seq(AnyQuestion) /\ \A f \in TextFields : c.text[f] \in Texts
  BY DEF AnyContent
<1>2. /\ s.file = (IF t = "material" THEN c.file ELSE NoAsset)
      /\ s.url = (IF t = "material" THEN Trim(c.url) ELSE "")
      /\ s.audio = (IF t = "listening" THEN c.audio ELSE NoAsset)
      /\ s.minWords = (IF t = "writing" THEN c.minWords ELSE 0)
      /\ s.text = [f \in TextFields |-> IF f \in TextsOf(t) THEN Trim(c.text[f]) ELSE ""]
      /\ s.questions = (IF t \in QuizLike THEN ns ELSE <<>>)
      /\ s = [file |-> s.file, url |-> s.url, audio |-> s.audio, minWords |-> s.minWords,
              text |-> s.text, questions |-> s.questions]
  BY DEF StripTo
<1> HIDE DEF s, ns
<1>3. /\ s.questions \in Seq(AnyQuestion)
      /\ \A i \in DOMAIN s.questions : Gradable(s.questions[i]) /\ QuestionOK(s.questions[i])
      /\ t \in QuizLike => s.questions # <<>>
      /\ [i \in DOMAIN s.questions |-> NormalQuestion(s.questions[i])] = s.questions
  <2>1. CASE t \in QuizLike
    <3>1. c.questions # <<>> /\ \A i \in DOMAIN c.questions : QuestionOK(c.questions[i])
      BY <2>1 DEF ContentOK
    <3> QED BY <1>1, <1>2, <2>1, <3>1, QuestionsNormalized DEF ns
  <2>2. CASE t \notin QuizLike
    <3>0. s.questions = <<>>
      BY <1>2, <2>2
    <3>1. s.questions = <<>> /\ <<>> \in Seq(AnyQuestion) /\ DOMAIN s.questions = {}
      <4>1. <<>> \in Seq(AnyQuestion) /\ DOMAIN <<>> = {}
        OBVIOUS
      <4> QED BY <3>0, <4>1
    <3> DEFINE none == [i \in 1..0 |-> NormalQuestion(s.questions[i])]
    <3>2. none \in Seq(AnyQuestion) /\ DOMAIN none = {} /\ 1..0 = {}
      OBVIOUS
    <3>3. none = <<>>
      <4> HIDE DEF none
      <4>1. DOMAIN none = 1..Len(none) /\ Len(none) \in Nat /\ none = <<>> <=> Len(none) = 0
        BY <3>2, SeqFacts
      <4> QED BY <3>2, <4>1
    <3>4. [i \in DOMAIN s.questions |-> NormalQuestion(s.questions[i])] = none
      BY <3>1, <3>2
    <3> QED BY <2>2, <3>1, <3>3, <3>4
  <2> QED BY <2>1, <2>2
<1>4. /\ s.text \in [TextFields -> Texts]
      /\ \A f \in TextFields : f \in TextsOf(t) => s.text[f] = Trim(c.text[f])
      /\ s.text = [f \in TextFields |-> IF f \in TextsOf(t) THEN Trim(s.text[f]) ELSE ""]
  <2>1. \A f \in TextFields : Trim(c.text[f]) \in Texts /\ Trim(Trim(c.text[f])) = Trim(c.text[f])
    BY <1>1, TrimTwice
  <2> QED BY <1>2, <2>1, TextsAssumption
<1>5. /\ s.url \in Texts /\ Trim(s.url) = s.url /\ s.file \in F /\ s.audio \in F /\ s.minWords \in Int
  <2>1. Trim(c.url) \in Texts /\ Trim(Trim(c.url)) = Trim(c.url) /\ Trim("") = ""
    BY <1>1, TrimTwice, TextsAssumption DEF Trim
  <2>2. s.url \in Texts /\ Trim(s.url) = s.url
    BY <1>2, <2>1, TextsAssumption
  <2>3. s.file \in F /\ s.audio \in F
    BY <1>1, <1>2
  <2>4. s.minWords \in Int
    <3>1. c.minWords \in Int
      BY <1>1
    <3>2. s.minWords = c.minWords \/ s.minWords = 0
      BY <1>2
    <3> QED BY <3>1, <3>2
  <2> QED BY <2>2, <2>3, <2>4
<1>6. s \in AnyContent(F)
  BY <1>2, <1>3, <1>4, <1>5 DEF AnyContent
<1>7. StripTo(t, s) = s
  <2>1. t # "material" => s.url = "" /\ s.file = NoAsset
    BY <1>2
  <2>2. t # "listening" => s.audio = NoAsset
    BY <1>2
  <2>3. t # "writing" => s.minWords = 0
    BY <1>2
  <2>4. t \notin QuizLike => s.questions = <<>>
    BY <1>2
  <2> QED BY <1>2, <1>3, <1>4, <1>5, <2>1, <2>2, <2>3, <2>4 DEF StripTo
<1>8. ContentOK(t, s)
  <2>1. t = "material" => (s.file # NoAsset \/ Trim(s.url) # "") /\ (Trim(s.url) # "" => s.url = "http")
    <3> SUFFICES ASSUME t = "material"
                 PROVE  (s.file # NoAsset \/ Trim(s.url) # "") /\ (Trim(s.url) # "" => s.url = "http")
      OBVIOUS
    <3>1. s.file = c.file /\ s.url = Trim(c.url)
      BY <1>2
    <3>2. (c.file # NoAsset \/ Trim(c.url) # "") /\ (Trim(c.url) # "" => c.url = "http")
      BY DEF ContentOK
    <3>3. Trim(c.url) # "" => Trim(c.url) = c.url
      BY DEF Trim
    <3> QED BY <1>5, <3>1, <3>2, <3>3
  <2>2. t = "article" => Trim(s.text["body"]) # ""
    <3> SUFFICES ASSUME t = "article" PROVE Trim(s.text["body"]) # ""
      OBVIOUS
    <3>1. "body" \in TextsOf(t) /\ "body" \in TextFields
      BY DEF TextsOf, TextFields
    <3>2. Trim(c.text["body"]) # ""
      BY DEF ContentOK
    <3> QED BY <1>1, <1>4, <3>1, <3>2, TrimTwice
  <2>3. t = "writing" => Trim(s.text["prompt"]) # "" /\ s.minWords >= 0
    <3> SUFFICES ASSUME t = "writing" PROVE Trim(s.text["prompt"]) # "" /\ s.minWords >= 0
      OBVIOUS
    <3>1. "prompt" \in TextsOf(t) /\ "prompt" \in TextFields
      BY DEF TextsOf, TextFields
    <3>2. Trim(c.text["prompt"]) # "" /\ c.minWords >= 0
      BY DEF ContentOK
    <3>3. s.minWords >= 0
      BY <1>2, <3>2
    <3> QED BY <1>1, <1>4, <3>1, <3>2, <3>3, TrimTwice
  <2>4. t = "listening" => s.audio # NoAsset
    BY <1>2 DEF ContentOK
  <2>5. t = "reading" => Trim(s.text["passage"]) # ""
    <3> SUFFICES ASSUME t = "reading" PROVE Trim(s.text["passage"]) # ""
      OBVIOUS
    <3>1. "passage" \in TextsOf(t) /\ "passage" \in TextFields
      BY DEF TextsOf, TextFields
    <3>2. Trim(c.text["passage"]) # ""
      BY DEF ContentOK
    <3> QED BY <1>1, <1>4, <3>1, <3>2, TrimTwice
  <2> QED BY <1>3, <2>1, <2>2, <2>3, <2>4, <2>5 DEF ContentOK
<1> QED BY <1>3, <1>6, <1>7, <1>8 DEF Sound, s

\* What a client sends names any file, or none.
LEMMA SentContents ==
  ASSUME NEW c \in Sent
  PROVE  c \in AnyContent(Files) /\ \A i \in DOMAIN c.questions : Supplied(c.questions[i].choices)
<1>1. PICK raw \in Raws, f \in Files, a \in Files : c = [raw EXCEPT !.file = f, !.audio = a]
  <2>1. PICK raw \in Raws : c \in Naming(raw)
    BY DEF Sent
  <2>2. Nameable(raw.file) \subseteq Files /\ Nameable(raw.audio) \subseteq Files
    BY DEF Nameable, Files
  <2>3. PICK named \in [file : Nameable(raw.file), audio : Nameable(raw.audio)] :
          c = [raw EXCEPT !.file = named.file, !.audio = named.audio]
    BY <2>1 DEF Naming
  <2>4. named.file \in Files /\ named.audio \in Files
    BY <2>2
  <2> QED BY <2>3, <2>4
<1> DEFINE r == [raw EXCEPT !.file = NoAsset, !.audio = NoAsset]
<1>2. r \in AnyContent({NoAsset})
  BY RawsAssumption
<1>3. DOMAIN raw = DOMAIN r /\ "file" \in DOMAIN r /\ "audio" \in DOMAIN r
  BY <1>2 DEF AnyContent
<1>4. c = [r EXCEPT !.file = f, !.audio = a]
  BY <1>1, <1>3
<1>5. c.questions = raw.questions
  BY <1>1
<1>6. c \in AnyContent(Files)
  <2> HIDE DEF r
  <2> QED BY <1>2, <1>4 DEF AnyContent
<1> QED BY <1>5, <1>6, RawsAssumption DEF Supplied

\* A row of resources.
Resource ==
  [state : {"live"}, type : Types, content : AnyContent(Files), status : {"draft", "published"},
   archived : BOOLEAN]

ResourcesInv ==
  /\ resource \in [Resources -> Resource \cup {[state |-> "none"], [state |-> "gone"]}]
  /\ \A k \in Resources : Live(k) => Sound(resource[k].type, resource[k].content)

LibraryInv == UploadsInv /\ ResourcesInv

LEMMA LibraryInitInv == LibraryInit => LibraryInv
  BY UploadsInitInv DEF LibraryInit, LibraryInv, ResourcesInv, NoResource, Live

LEMMA LibraryStep ==
  ASSUME LibraryInv, [LibraryNext]_libraryVars
  PROVE  LibraryInv'
<1> USE DEF LibraryInv
<1>1. CASE UploadsNext /\ UNCHANGED resource
  BY <1>1, UploadsStep DEF ResourcesInv, Live
<1>2. ASSUME NEW k \in Resources, NEW row, resource' = [resource EXCEPT ![k] = row], UNCHANGED uploadVars,
             \/ row = [state |-> "gone"]
             \/ row \in Resource /\ Sound(row.type, row.content)
      PROVE  LibraryInv'
  <2>1. UploadsInv'
    BY <1>2 DEF uploadVars, UploadsInv, UploadsTypeOK, BytesFirst
  <2>2. resource' \in [Resources -> Resource \cup {[state |-> "none"], [state |-> "gone"]}]
    BY <1>2 DEF ResourcesInv
  <2>3. \A j \in Resources : Live(j)' => Sound(resource'[j].type, resource'[j].content)
    BY <1>2 DEF ResourcesInv, Live
  <2> QED BY <2>1, <2>2, <2>3 DEF ResourcesInv
<1>3. ASSUME NEW c \in Sent, NEW t \in Types, ContentOK(t, c)
      PROVE  StripTo(t, c) \in AnyContent(Files) /\ Sound(t, StripTo(t, c))
  <2>1. NoAsset \in Files
    BY DEF Files
  <2> QED BY <1>3, <2>1, SentContents, StoredIsSound
<1>4. ASSUME NEW k \in Resources, NEW t \in Types, NEW c \in Sent, NEW status \in {"draft", "published"},
             Create(k, t, c, status)
      PROVE  LibraryInv'
  <2> DEFINE row == [state |-> "live", type |-> t, content |-> StripTo(t, c), status |-> status,
                     archived |-> FALSE]
  <2>1. row \in Resource /\ Sound(row.type, row.content)
    BY <1>3, <1>4 DEF Create, Resource
  <2>2. resource' = [resource EXCEPT ![k] = row] /\ UNCHANGED uploadVars
    BY <1>4 DEF Create, Set
  <2> HIDE DEF row
  <2> QED BY <1>2, <2>1, <2>2
<1>5. ASSUME NEW k \in Resources, Live(k)
      PROVE  resource[k] \in Resource /\ Sound(resource[k].type, resource[k].content)
  BY <1>5 DEF ResourcesInv, Live
<1>6. ASSUME NEW k \in Resources, NEW c \in Sent, Update(k, c)
      PROVE  LibraryInv'
  <2> DEFINE t == resource[k].type
             row == [resource[k] EXCEPT !.content = StripTo(t, c)]
  <2>1. t \in Types /\ ContentOK(t, c)
    BY <1>5, <1>6 DEF Update, Resource
  <2>2. row \in Resource /\ row.type = t /\ row.content = StripTo(t, c)
    BY <1>3, <1>5, <1>6, <2>1 DEF Update, Resource
  <2>3. resource' = [resource EXCEPT ![k] = row] /\ UNCHANGED uploadVars
    BY <1>6 DEF Update, Set
  <2> HIDE DEF row
  <2> QED BY <1>2, <1>3, <2>1, <2>2, <2>3
<1>7. ASSUME NEW k \in Resources, NEW status \in {"draft", "published"}, SetPublished(k, status)
      PROVE  LibraryInv'
  <2> DEFINE row == [resource[k] EXCEPT !.status = status]
  <2>1. row \in Resource /\ Sound(row.type, row.content)
    BY <1>5, <1>7 DEF SetPublished, Resource
  <2> HIDE DEF row
  <2> QED BY <1>2, <1>7, <2>1 DEF SetPublished, Set, row
<1>8. ASSUME NEW k \in Resources, NEW archived \in BOOLEAN, SetArchived(k, archived)
      PROVE  LibraryInv'
  <2> DEFINE row == [resource[k] EXCEPT !.archived = archived]
  <2>1. row \in Resource /\ Sound(row.type, row.content)
    BY <1>5, <1>8 DEF SetArchived, Resource
  <2> HIDE DEF row
  <2> QED BY <1>2, <1>8, <2>1 DEF SetArchived, Set, row
<1>9. ASSUME NEW k \in Resources, Delete(k)
      PROVE  LibraryInv'
  BY <1>2, <1>9 DEF Delete, Set
<1>10. CASE UNCHANGED libraryVars
  BY <1>10 DEF libraryVars, UploadsInv, UploadsTypeOK, BytesFirst, ResourcesInv, Live
<1> QED BY <1>1, <1>4, <1>6, <1>7, <1>8, <1>9, <1>10 DEF LibraryNext

LEMMA LibraryAlways == LibrarySpec => []LibraryInv
  BY LibraryInitInv, LibraryStep, PTL DEF LibrarySpec

\* A row of file_assets has all of its bytes, however many uploads fail or die halfway,
\* unless its INSERT came back as an error and the blob was cleaned up after it; a file whose
\* id was answered is there, row and bytes.
THEOREM RowHasItsBytesHolds == LibrarySpec => []RowHasItsBytes
<1>1. LibraryInv => RowHasItsBytes
  BY DEF LibraryInv, UploadsInv, UploadsTypeOK, BytesFirst, RowHasItsBytes
<1> QED BY <1>1, LibraryAlways, PTL

\* Whatever a client sends, a question that is stored can be graded.
THEOREM StoredQuestionsHold == LibrarySpec => []StoredQuestionsCanBeGraded
<1>1. LibraryInv => StoredQuestionsCanBeGraded
  BY DEF LibraryInv, ResourcesInv, Sound, Gradable, StoredQuestionsCanBeGraded, Questions
<1> QED BY <1>1, LibraryAlways, PTL

\* A stored content is accepted again for its type and stored as it was.
THEOREM SavingAgainHolds == LibrarySpec => []SavingAgainChangesNothing
<1>1. LibraryInv => SavingAgainChangesNothing
  BY DEF LibraryInv, ResourcesInv, Sound, SavingAgainChangesNothing
<1> QED BY <1>1, LibraryAlways, PTL
-----------------------------------------------------------------------------
(* The page of a lesson: what it offers is what the server will grant.      *)

Lesson ==
  [status : LessonStatuses, money : Monies, review : {"none", "visible", "hidden"}, open : BOOLEAN,
   link : Links, time : 0..2]

Page ==
  [viewer : Viewers, pc : {"review", "dispute", "thread", "shown"}, status : LessonStatuses,
   time : 0..2, link : Links \cup {"room"}, reviewed : BOOLEAN, open : BOOLEAN]

Clicked ==
  [pc : {"check", "again", "payment", "provider", "act", "done", "refused", "declined", "failed"},
   act : Acts, offered : BOOLEAN, why : BOOLEAN, money : Monies]

OffersTypeOK ==
  /\ lesson \in Lesson /\ lesson.money \in MoneyOf(lesson.status)
  /\ page = [pc |-> "closed"] \/ page \in Page
  /\ click = [pc |-> "idle"] \/ click \in Clicked
  /\ others \in Nat /\ changed \in BOOLEAN /\ blind \in BOOLEAN

\* While the lesson has not changed, the page shows it as it is; and while no lookup has
\* failed, the page knows of the review and of the dispute that there are.
PageIsFresh ==
  page \in Page /\ ~changed =>
    /\ page.status = lesson.status /\ page.time = lesson.time
    /\ page.pc = "review" => page.viewer # "operator" /\ page.status = "completed"
    /\ page.pc = "dispute" => page.viewer # "operator"
    /\ page.pc = "thread" => page.viewer = "operator"
    /\ ~blind /\ page.pc \in {"dispute", "shown"} /\ page.viewer # "operator"
         /\ page.status = "completed" => (page.reviewed <=> lesson.review # "none")
    /\ ~blind /\ page.pc = "shown" /\ Held(page.status) => (page.open <=> lesson.open)

\* A request on its way was judged by the page as it still is; one that has been let through
\* passes still, unless the lesson has changed.  What a capture works on had been held once.
ClickIsJudged ==
  click.pc \in {"check", "again", "payment", "provider", "act"} =>
    /\ page \in Page /\ page.pc = "shown"
    /\ click.offered <=> Offered(click.act)
    /\ click.pc \in {"payment", "provider", "act"} /\ ~changed => Passes(click.act)
    /\ click.pc = "payment" => click.act = "pay" \/ Captures(click.act)
    /\ click.pc \in {"payment", "provider", "act"} /\ Captures(click.act) =>
         lesson.status # "pending_payment" /\ lesson.money \in MoneyOf("confirmed")

OffersInv == OffersTypeOK /\ PageIsFresh /\ ClickIsJudged /\ OffersAreKept

LEMMA OffersInitInv == OffersInit => OffersInv
<1> SUFFICES ASSUME OffersInit
             PROVE  OffersInv
  OBVIOUS
<1>1. lesson \in Lesson
  BY DEF OffersInit, Lesson
<1>2. page \notin Page
  BY DEF OffersInit, Page
<1> QED BY <1>1, <1>2 DEF OffersInit, OffersInv, OffersTypeOK, PageIsFresh, ClickIsJudged, OffersAreKept

\* Nothing but a write and the clock moves the lesson, and both leave a mark.  A hold that was
\* once placed leaves its trace in the payment.
LEMMA OtherRowsAreLessons ==
  ASSUME lesson \in Lesson, lesson.money \in MoneyOf(lesson.status),
         OtherRequest \/ TimePasses
  PROVE  /\ lesson' \in Lesson /\ lesson'.money \in MoneyOf(lesson'.status)
         /\ lesson.status # "pending_payment" /\ lesson.money \in MoneyOf("confirmed") =>
              lesson'.status # "pending_payment" /\ lesson'.money \in MoneyOf("confirmed")
<1>1. CASE OtherRequest /\ MovesOn
  <2>1. PICK s \in LaterStatuses, m \in LaterMonies :
          m \in MoneyOf(s) /\ lesson' = [lesson EXCEPT !.status = s, !.money = m]
    BY <1>1 DEF MovesOn
  <2>2. s \in LessonStatuses /\ m \in Monies /\ (s = "pending_payment" => lesson.status = s)
    BY DEF LaterStatuses, LaterMonies, Lesson, LessonStatuses, Monies, MoneyOf
  <2>3. lesson.money \in MoneyOf("confirmed") => m \in MoneyOf("confirmed")
    BY DEF LaterMonies, MoneyOf
  <2>4. lesson' \in Lesson /\ lesson'.status = s /\ lesson'.money = m
    BY <2>1, <2>2 DEF Lesson
  <2> QED BY <2>1, <2>2, <2>3, <2>4
<1>2. CASE OtherRequest /\ ~MovesOn
  <2>1. lesson' \in Lesson /\ lesson'.status = lesson.status /\ lesson'.money = lesson.money
    BY <1>2 DEF OtherRequest, Reviewed, Disputed, Linked, Lesson, Links
  <2> QED BY <2>1
<1>3. CASE TimePasses
  <2>1. lesson' \in Lesson /\ lesson'.status = lesson.status /\ lesson'.money = lesson.money
    BY <1>3 DEF TimePasses, Lesson
  <2> QED BY <2>1
<1> QED BY <1>1, <1>2, <1>3

\* The page is read, statement by statement.
LEMMA OffersRead ==
  ASSUME OffersInv,
         \/ \E viewer \in {"student", "teacher"} : GetBooking(viewer)
         \/ GetBookingDetail \/ ReviewFor \/ OpenDisputeFor \/ ListBookingDisputes
  PROVE  OffersInv'
<1> USE DEF OffersInv, OffersTypeOK
<1>1. ASSUME NEW viewer \in Viewers, NEW link \in Links \cup {"room"},
             NEW pc \in {"review", "dispute", "thread", "shown"}, ReadRow(viewer, link, pc),
             pc = "review" => viewer # "operator" /\ lesson.status = "completed",
             pc = "dispute" => viewer # "operator" /\ lesson.status # "completed",
             pc = "thread" => viewer = "operator",
             pc = "shown" => lesson.status = "pending_payment" /\ viewer # "operator"
      PROVE  OffersInv'
  <2>1. page' \in Page
    BY <1>1 DEF ReadRow, Page, Lesson
  <2>2. OffersTypeOK'
    BY <1>1, <2>1 DEF ReadRow
  <2>3. PageIsFresh'
    BY <1>1 DEF ReadRow, PageIsFresh, Lesson, Held
  <2> QED BY <1>1, <2>2, <2>3 DEF ReadRow, ClickIsJudged, OffersAreKept
<1>2. MeetingURLFor \in Links \cup {"room"} /\ EffectiveLink \in Links \cup {"room"}
  BY DEF MeetingURLFor, EffectiveLink, Lesson, Links
<1>3. ASSUME NEW viewer \in {"student", "teacher"}, GetBooking(viewer)
      PROVE  OffersInv'
  <2>1. CASE lesson.status = "completed"
    BY <1>1, <1>2, <1>3, <2>1 DEF GetBooking, Viewers
  <2>2. CASE lesson.status = "pending_payment"
    BY <1>1, <1>2, <1>3, <2>2 DEF GetBooking, Viewers
  <2>3. CASE lesson.status \notin {"completed", "pending_payment"}
    BY <1>1, <1>2, <1>3, <2>3 DEF GetBooking, Viewers
  <2> QED BY <2>1, <2>2, <2>3
<1>4. CASE GetBookingDetail
  BY <1>1, <1>2, <1>4 DEF GetBookingDetail, Viewers
<1>5. CASE ReviewFor
  <2> DEFINE known == lesson.review # "none"
  <2>1. page \in Page /\ page.pc = "review"
    BY <1>5 DEF ReviewFor
  <2>2. known \in BOOLEAN
    OBVIOUS
  <2>3. /\ [page EXCEPT !.pc = "dispute", !.reviewed = known] \in Page
        /\ [page EXCEPT !.pc = "dispute"] \in Page
    <3> HIDE DEF known
    <3> QED BY <2>1, <2>2 DEF Page
  <2>4. CASE page' = [page EXCEPT !.pc = "dispute", !.reviewed = known] /\ UNCHANGED blind
    <3>1. page' \in Page
      BY <2>3, <2>4
    <3>2. page'.pc = "dispute" /\ (page'.reviewed <=> known) /\ page'.status = page.status
            /\ page'.time = page.time /\ page'.viewer = page.viewer
      <4> HIDE DEF known
      <4> QED BY <2>1, <2>2, <2>4 DEF Page
    <3>3. PageIsFresh'
      BY <1>5, <2>1, <2>4, <3>2 DEF ReviewFor, PageIsFresh
    <3> QED BY <1>5, <2>1, <2>4, <3>1, <3>3 DEF ReviewFor, ClickIsJudged, OffersAreKept
  <2>5. CASE page' = [page EXCEPT !.pc = "dispute"] /\ blind' = TRUE
    <3>1. page' \in Page
      BY <2>3, <2>5
    <3>2. PageIsFresh'
      BY <1>5, <2>1, <2>5 DEF ReviewFor, PageIsFresh, Page
    <3> QED BY <1>5, <2>1, <2>5, <3>1, <3>2 DEF ReviewFor, ClickIsJudged, OffersAreKept
  <2> QED BY <1>5, <2>4, <2>5 DEF ReviewFor
<1>6. CASE OpenDisputeFor
  <2>1. page \in Page /\ page.pc = "dispute" /\ lesson.open \in BOOLEAN
    BY <1>6 DEF OpenDisputeFor, Lesson
  <2>2. /\ [page EXCEPT !.pc = "shown", !.open = lesson.open] \in Page
        /\ [page EXCEPT !.pc = "shown"] \in Page
    BY <2>1 DEF Page
  <2>3. PageIsFresh'
    BY <1>6, <2>1 DEF OpenDisputeFor, PageIsFresh, Page
  <2> QED BY <1>6, <2>1, <2>2, <2>3 DEF OpenDisputeFor, ClickIsJudged, OffersAreKept
<1>7. CASE ListBookingDisputes
  <2>1. page \in Page /\ page.pc = "thread" /\ lesson.open \in BOOLEAN
    BY <1>7 DEF ListBookingDisputes, Lesson
  <2>2. [page EXCEPT !.pc = "shown", !.open = lesson.open] \in Page /\ [pc |-> "closed"] \notin Page
    BY <2>1 DEF Page
  <2>3. PageIsFresh'
    <3>1. CASE page' = [page EXCEPT !.pc = "shown", !.open = lesson.open]
      BY <1>7, <2>1, <3>1 DEF ListBookingDisputes, PageIsFresh, Page
    <3>2. CASE page' = [pc |-> "closed"]
      BY <2>2, <3>2 DEF PageIsFresh
    <3> QED BY <1>7, <3>1, <3>2 DEF ListBookingDisputes
  <2> QED BY <1>7, <2>1, <2>2, <2>3 DEF ListBookingDisputes, ClickIsJudged, OffersAreKept
<1> QED BY <1>3, <1>4, <1>5, <1>6, <1>7

\* A button is pressed.
LEMMA OffersClick ==
  ASSUME OffersInv, NEW a \in Acts, Click(a)
  PROVE  OffersInv'
<1> USE DEF OffersInv, OffersTypeOK
<1>1. page \in Page
  BY DEF Click
<1>2. Offered(a) \in BOOLEAN /\ lesson.money \in Monies
  BY DEF Offered, Lesson
<1>3. click' \in Clicked
  BY <1>2 DEF Click, Clicked
<1>4. PageIsFresh'
  BY DEF Click, PageIsFresh
<1>5. ClickIsJudged'
  BY <1>1, <1>2 DEF Click, ClickIsJudged, Offered, OfferedToParticipant, OfferedToOperator, CanReview,
                   CanRaiseDispute
<1>6. OffersAreKept'
  BY DEF Click, OffersAreKept
<1> QED BY <1>3, <1>4, <1>5, <1>6 DEF Click

\* While the lesson has not changed and no lookup has failed, what the page offers and what
\* the handlers check are the same, up to the rows that only the write itself looks at.
LEMMA OfferedPasses ==
  ASSUME OffersInv, page.pc = "shown", ~changed, ~blind, NEW a \in Acts
  PROVE  /\ Offered(a) => Passes(a)
         /\ Passes(a) /\ a # "link" =>
              ((a = "review" => lesson.review = "none") /\ (a = "dispute" => ~lesson.open)
                <=> Offered(a))
<1>1. page \in Page
  BY DEF OffersInv, OffersTypeOK
<1> QED BY <1>1
  DEF OffersInv, OffersTypeOK, PageIsFresh, Offered, OfferedToParticipant, OfferedToOperator,
      CanReview, CanRaiseDispute, Passes, Held, Cancellable, Viewers, Page, Lesson, LessonStatuses

\* An answer that can be put down to what came between keeps the promise, whatever the write
\* behind it; so does one that is neither a grant nor a refusal.
LEMMA AnswersKeep ==
  ASSUME OffersInv, page \in Page, page.pc = "shown", click \in Clicked,
         NEW pc \in {"done", "refused", "declined"}, Answers(pc),
         lesson' \in Lesson, lesson'.money \in MoneyOf(lesson'.status), changed' \in BOOLEAN,
         changed' \/ lesson' = lesson \/ (/\ lesson'.status = lesson.status /\ lesson'.time = lesson.time
                                        /\ lesson'.review = lesson.review /\ lesson'.open = lesson.open),
         changed => changed', UNCHANGED <<page, others, blind>>,
         pc = "refused" /\ click.offered => changed \/ blind \/ NotPayable(click.act, lesson.money),
         pc = "done" /\ ~click.offered /\ click.act # "link" => changed \/ blind
  PROVE  OffersInv'
<1>1. lesson.money \in Monies /\ changed \in BOOLEAN /\ blind \in BOOLEAN
  BY DEF OffersInv, OffersTypeOK, Lesson
<1>2. /\ click' \in Clicked /\ click'.pc = pc /\ click'.act = click.act
      /\ click'.offered = click.offered /\ click'.money = lesson.money
      /\ (click'.why <=> changed \/ blind)
  BY <1>1 DEF Answers, Clicked
<1>3. PageIsFresh'
  BY DEF OffersInv, PageIsFresh
<1>4. ClickIsJudged'
  BY <1>2 DEF ClickIsJudged
<1>5. OffersAreKept'
  BY <1>2 DEF OffersAreKept, NotPayable, Captures
<1> QED BY <1>2, <1>3, <1>4, <1>5 DEF OffersInv, OffersTypeOK

\* A request on its way goes on.
LEMMA GoesKeep ==
  ASSUME OffersInv, page \in Page, page.pc = "shown", click \in Clicked,
         NEW pc \in {"again", "payment", "provider", "act", "failed"}, Goes(pc),
         UNCHANGED <<page, others, blind, changed>>,
         lesson' \in Lesson, lesson'.money \in MoneyOf(lesson'.status),
         /\ lesson'.status = lesson.status /\ lesson'.time = lesson.time
         /\ lesson'.review = lesson.review /\ lesson'.open = lesson.open,
         click.pc \in {"check", "again", "payment", "provider", "act"},
         pc # "failed" /\ ~changed => Passes(click.act),
         pc = "payment" => click.act = "pay" \/ Captures(click.act),
         pc \in {"payment", "provider", "act"} /\ Captures(click.act) =>
           lesson.status # "pending_payment" /\ lesson'.money \in MoneyOf("confirmed")
  PROVE  OffersInv'
<1>1. /\ click' \in Clicked /\ click'.pc = pc /\ click'.act = click.act
      /\ click'.offered = click.offered
  BY DEF Goes, Clicked
<1>2. PageIsFresh'
  BY DEF OffersInv, PageIsFresh
<1>3. Passes(click.act)' <=> Passes(click.act)
  BY <1>1 DEF Passes
<1>4. Offered(click.act)' <=> Offered(click.act)
  BY <1>1 DEF Offered, OfferedToParticipant, OfferedToOperator, CanReview, CanRaiseDispute
<1>5. ClickIsJudged'
  BY <1>1, <1>3, <1>4 DEF OffersInv, ClickIsJudged, Captures
<1>6. OffersAreKept'
  BY <1>1 DEF OffersAreKept
<1> QED BY <1>1, <1>2, <1>5, <1>6 DEF OffersInv, OffersTypeOK

\* The service checks the lesson, and then the payment.
LEMMA OffersCheck ==
  ASSUME OffersInv, CheckRequest \/ ReadPayment
  PROVE  OffersInv'
<1>1. page \in Page /\ page.pc = "shown" /\ click \in Clicked /\ click.act \in Acts
  BY DEF CheckRequest, ReadPayment, OffersInv, OffersTypeOK, ClickIsJudged, Clicked
<1>2. lesson \in Lesson /\ lesson.money \in MoneyOf(lesson.status) /\ changed \in BOOLEAN
  BY DEF OffersInv, OffersTypeOK
<1>3. CASE CheckRequest /\ ~Passes(click.act)
  <2>1. click.offered => changed \/ blind
    BY <1>1, <1>3, OfferedPasses DEF OffersInv, CheckRequest, ClickIsJudged, Clicked
  <2> QED BY <1>1, <1>2, <1>3, <2>1, AnswersKeep DEF CheckRequest
<1>4. CASE CheckRequest /\ Passes(click.act)
  <2>1. PICK pc \in {"again", "payment", "act"} :
          /\ Goes(pc)
          /\ pc = "payment" => click.act = "pay" \/ Captures(click.act)
          /\ pc = "act" => ~Captures(click.act)
    BY <1>4 DEF CheckRequest, Captures
  <2>2. Captures(click.act) => lesson.status = "confirmed"
    BY <1>4 DEF Captures, Passes
  <2> QED BY <1>1, <1>2, <1>4, <2>1, <2>2, GoesKeep DEF CheckRequest
<1>5. CASE ReadPayment
  <2>1. /\ ~changed => Passes(click.act)
        /\ click.act = "pay" \/ Captures(click.act)
        /\ click.offered <=> Offered(click.act)
        /\ Captures(click.act) => lesson.status # "pending_payment" /\ lesson.money \in MoneyOf("confirmed")
    BY <1>5 DEF OffersInv, ReadPayment, ClickIsJudged
  <2>2. ASSUME NEW pc \in {"provider", "act"}, Goes(pc)
        PROVE  OffersInv'
    BY <1>1, <1>2, <1>5, <2>1, <2>2, GoesKeep DEF ReadPayment
  <2>3. CASE Answers("refused") /\ (click.act = "pay" => lesson.money \notin {"requires_payment", "failed"})
                                /\ (Captures(click.act) => lesson.money \notin {"authorized", "captured"})
    <3>1. ~changed => NotPayable(click.act, lesson.money)
      BY <1>2, <2>1, <2>3 DEF NotPayable, Passes, MoneyOf, Captures
    <3> QED BY <1>1, <1>2, <1>5, <2>3, <3>1, AnswersKeep DEF ReadPayment
  <2> QED BY <1>5, <2>2, <2>3 DEF ReadPayment, Captures
<1> QED BY <1>3, <1>4, <1>5

\* The provider answers.
LEMMA OffersAsk ==
  ASSUME OffersInv, AskProvider
  PROVE  OffersInv'
<1>1. page \in Page /\ page.pc = "shown" /\ click \in Clicked /\ click.act \in Acts
  BY DEF AskProvider, OffersInv, OffersTypeOK, ClickIsJudged, Clicked
<1>2. lesson \in Lesson /\ lesson.money \in MoneyOf(lesson.status) /\ changed \in BOOLEAN
  BY DEF OffersInv, OffersTypeOK
<1>3. /\ ~changed => Passes(click.act)
      /\ click.offered <=> Offered(click.act)
      /\ Captures(click.act) => lesson.status # "pending_payment" /\ lesson.money \in MoneyOf("confirmed")
  BY DEF OffersInv, AskProvider, ClickIsJudged
<1>4. CASE Confirm
  <2>1. /\ lesson' \in Lesson /\ lesson'.money = "authorized"
        /\ lesson'.status # "pending_payment"
    BY <1>2, <1>4 DEF Confirm, Writes, Lesson, LessonStatuses, Monies
  <2>2. lesson'.money \in MoneyOf(lesson'.status)
    BY <2>1 DEF MoneyOf, Lesson, LessonStatuses, Monies
  <2>3. ~click.offered => changed \/ blind
    BY <1>1, <1>3, <1>4, OfferedPasses DEF Confirm, OffersInv, AskProvider
  <2> QED BY <1>1, <1>2, <1>4, <2>1, <2>2, <2>3, AnswersKeep DEF AskProvider, Confirm, Writes
<1>5. CASE Declines
  <2>1. /\ lesson' \in Lesson /\ lesson'.money = "failed" /\ lesson'.status = lesson.status
        /\ lesson'.time = lesson.time /\ lesson'.review = lesson.review /\ lesson'.open = lesson.open
    BY <1>2, <1>5 DEF Declines, Lesson, Monies
  <2>2. lesson'.money \in MoneyOf(lesson'.status)
    BY <2>1 DEF MoneyOf, Lesson, Monies
  <2> QED BY <1>1, <1>2, <1>5, <2>1, <2>2, AnswersKeep DEF AskProvider, Declines
<1>6. CASE CaptureHold
  <2>1. CASE Answers("declined") /\ UNCHANGED lesson
    BY <1>1, <1>2, <1>6, <2>1, AnswersKeep DEF AskProvider, CaptureHold
  <2>2. CASE Goes("act") /\ lesson' = [lesson EXCEPT !.money = "captured"]
    <3>1. /\ lesson' \in Lesson /\ lesson'.money = "captured" /\ lesson'.status = lesson.status
          /\ lesson'.time = lesson.time /\ lesson'.review = lesson.review /\ lesson'.open = lesson.open
      BY <1>2, <2>2 DEF Lesson, Monies
    <3>2. lesson.status # "pending_payment" /\ lesson'.money \in MoneyOf(lesson'.status)
            /\ lesson'.money \in MoneyOf("confirmed")
      BY <1>3, <1>6, <3>1 DEF MoneyOf, Lesson, Monies, CaptureHold
    <3> QED BY <1>1, <1>2, <1>3, <1>6, <2>2, <3>1, <3>2, GoesKeep DEF AskProvider, CaptureHold
  <2> QED BY <1>6, <2>1, <2>2 DEF CaptureHold
<1> QED BY <1>4, <1>5, <1>6 DEF AskProvider

\* The request writes, or finds that it may not.
LEMMA OffersWrite ==
  ASSUME OffersInv, Act
  PROVE  OffersInv'
<1>1. page \in Page /\ page.pc = "shown" /\ click \in Clicked /\ click.act \in Acts
  BY DEF Act, OffersInv, OffersTypeOK, ClickIsJudged, Clicked
<1>2. lesson \in Lesson /\ lesson.money \in MoneyOf(lesson.status) /\ changed \in BOOLEAN
  BY DEF OffersInv, OffersTypeOK
<1>3. /\ ~changed => Passes(click.act)
      /\ click.offered <=> Offered(click.act)
      /\ Captures(click.act) => lesson.money \in MoneyOf("confirmed")
  BY DEF OffersInv, Act, ClickIsJudged
<1>4. ~changed /\ ~blind /\ click.act # "link" =>
        ((click.act = "review" => lesson.review = "none") /\ (click.act = "dispute" => ~lesson.open)
          <=> click.offered)
  BY <1>1, <1>3, OfferedPasses
<1>5. ASSUME NEW row \in Lesson, Writes(row), row.money \in MoneyOf(row.status),
             click.act # "link" /\ ~changed /\ ~blind => click.offered
      PROVE  OffersInv'
  BY <1>1, <1>2, <1>5, AnswersKeep DEF Act, Writes
<1>6. ASSUME Answers("refused"), UNCHANGED <<lesson, changed>>,
             ~changed /\ ~blind => ~click.offered
      PROVE  OffersInv'
  BY <1>1, <1>2, <1>6, AnswersKeep DEF Act
<1>7. CASE SetStatus
  <2>1. CASE Captures(click.act) /\ Writes([lesson EXCEPT !.status = "completed"])
    <3> DEFINE row == [lesson EXCEPT !.status = "completed"]
    <3>1. row \in Lesson /\ row.money = lesson.money /\ row.status = "completed"
      BY <1>2 DEF Lesson, LessonStatuses
    <3>2. row.money \in MoneyOf(row.status)
      BY <1>3, <2>1, <3>1 DEF MoneyOf
    <3>3. ~changed /\ ~blind => click.offered
      BY <1>4, <2>1 DEF Captures
    <3>4. Writes(row)
      BY <2>1
    <3> HIDE DEF row
    <3> QED BY <1>5, <3>1, <3>2, <3>3, <3>4
  <2>2. CASE /\ click.act \in {"cancel", "noshow_teacher", "force_cancel"}
             /\ \E money \in {lesson.money, Released(lesson.money)} :
                  Writes([lesson EXCEPT !.status = "cancelled", !.money = money])
    <3>1. PICK money \in {lesson.money, Released(lesson.money)} :
            Writes([lesson EXCEPT !.status = "cancelled", !.money = money])
      BY <2>2
    <3>2. money \in Monies
      BY <1>2 DEF Lesson, Released, Monies
    <3> DEFINE row == [lesson EXCEPT !.status = "cancelled", !.money = money]
    <3>3. row \in Lesson /\ row.money = money /\ row.status = "cancelled"
      BY <1>2, <3>2 DEF Lesson, LessonStatuses
    <3>4. row.money \in MoneyOf(row.status)
      BY <3>2, <3>3 DEF MoneyOf
    <3>5. ~changed /\ ~blind => click.offered
      BY <1>4, <2>2
    <3>6. Writes(row)
      BY <3>1
    <3> HIDE DEF row
    <3> QED BY <1>5, <3>3, <3>4, <3>5, <3>6
  <2> QED BY <1>7, <2>1, <2>2 DEF SetStatus
<1>8. CASE SetMeetingLink
  <2>1. \A link \in Links : /\ [lesson EXCEPT !.link = link] \in Lesson
                           /\ [lesson EXCEPT !.link = link].money = lesson.money
                           /\ [lesson EXCEPT !.link = link].status = lesson.status
    BY <1>2 DEF Lesson
  <2> QED BY <1>2, <1>5, <1>8, <2>1 DEF SetMeetingLink
<1>9. CASE CreateReview
  <2>1. /\ [lesson EXCEPT !.review = "visible"] \in Lesson
        /\ [lesson EXCEPT !.review = "visible"].money = lesson.money
        /\ [lesson EXCEPT !.review = "visible"].status = lesson.status
    BY <1>2 DEF Lesson
  <2> QED BY <1>2, <1>4, <1>5, <1>6, <1>9, <2>1 DEF CreateReview
<1>10. CASE CreateDispute
  <2>1. /\ [lesson EXCEPT !.open = TRUE] \in Lesson
        /\ [lesson EXCEPT !.open = TRUE].money = lesson.money
        /\ [lesson EXCEPT !.open = TRUE].status = lesson.status
    BY <1>2 DEF Lesson
  <2> QED BY <1>2, <1>4, <1>5, <1>6, <1>10, <2>1 DEF CreateDispute
<1> QED BY <1>7, <1>8, <1>9, <1>10 DEF Act

LEMMA OffersBreak ==
  ASSUME OffersInv, Breaks
  PROVE  OffersInv'
<1>1. page \in Page /\ page.pc = "shown" /\ click \in Clicked
  BY DEF Breaks, OffersInv, OffersTypeOK, ClickIsJudged
<1> QED BY <1>1, GoesKeep DEF Breaks, OffersInv, OffersTypeOK

\* Others write, and time passes: the lesson has changed.
LEMMA OffersOthers ==
  ASSUME OffersInv, OtherRequest \/ TimePasses
  PROVE  OffersInv'
<1> USE DEF OffersInv, OffersTypeOK
<1>1. changed' = TRUE /\ others' \in Nat /\ UNCHANGED <<page, click, blind>>
  BY DEF OtherRequest, TimePasses
<1>2. lesson' \in Lesson /\ lesson'.money \in MoneyOf(lesson'.status)
  BY OtherRowsAreLessons
<1>3. lesson.status # "pending_payment" /\ lesson.money \in MoneyOf("confirmed") =>
        lesson'.status # "pending_payment" /\ lesson'.money \in MoneyOf("confirmed")
  BY OtherRowsAreLessons
<1>4. ClickIsJudged'
  BY <1>1, <1>3
  DEF ClickIsJudged, Captures, Offered, OfferedToParticipant, OfferedToOperator, CanReview, CanRaiseDispute
<1> QED BY <1>1, <1>2, <1>4 DEF PageIsFresh, OffersAreKept

LEMMA OffersStep == OffersInv /\ [OffersNext]_offerVars => OffersInv'
<1> SUFFICES ASSUME OffersInv, [OffersNext]_offerVars
             PROVE  OffersInv'
  OBVIOUS
<1>1. CASE UNCHANGED offerVars
  BY <1>1 DEF offerVars, OffersInv, OffersTypeOK, PageIsFresh, ClickIsJudged, OffersAreKept,
              Offered, OfferedToParticipant, OfferedToOperator, CanReview, CanRaiseDispute, Passes
<1> QED BY <1>1, OffersRead, OffersClick, OffersCheck, OffersAsk, OffersWrite, OffersBreak, OffersOthers
  DEF OffersNext

\* A button the page shows is refused only when the lesson has changed since, when a lookup of
\* the page has failed, or for one of the two payments the page does not ask about; a request
\* it does not offer is granted only in the first two cases.  However many others write.
THEOREM OffersAreKeptHolds == OffersSpec => []OffersAreKept
<1>1. OffersInv => OffersAreKept
  BY DEF OffersInv
<1> QED BY <1>1, OffersInitInv, OffersStep, PTL DEF OffersSpec
-----------------------------------------------------------------------------
(* The walk through a list.                                                  *)

\* Lists as finite sets with a strict linear order, given as a set of pairs.
Linear(L, R) ==
  /\ IsFiniteSet(L)
  /\ \A i, j \in L : <<i, j>> \in R => <<j, i>> \notin R
  /\ \A i, j \in L : i # j => <<i, j>> \in R \/ <<j, i>> \in R
  /\ \A i, j, k \in L : <<i, j>> \in R /\ <<j, k>> \in R => <<i, k>> \in R

Ahead(L, R, j) == {k \in L : <<k, j>> \in R}
Rank(L, R, j) == Cardinality(Ahead(L, R, j))

\* The first n rows.
First(L, R, n) == {j \in L : Rank(L, R, j) < n}

AtMostOne(S) == \A a, b \in S : a = b

LEMMA RankIsNatural ==
  ASSUME NEW L, IsFiniteSet(L), NEW R, NEW j
  PROVE  Ahead(L, R, j) \in SUBSET L /\ IsFiniteSet(Ahead(L, R, j)) /\ Rank(L, R, j) \in Nat
<1>1. Ahead(L, R, j) \in SUBSET L
  BY DEF Ahead
<1>2. IsFiniteSet(Ahead(L, R, j))
  BY <1>1, FS_Subset
<1> QED BY <1>1, <1>2, FS_CardinalityType DEF Rank

LEMMA RankGrows ==
  ASSUME NEW L, NEW R, Linear(L, R), NEW j \in L, NEW k \in L, <<j, k>> \in R
  PROVE  Rank(L, R, j) + 1 <= Rank(L, R, k)
<1> DEFINE A == Ahead(L, R, j)
           B == Ahead(L, R, k)
<1>1. j \notin A
  BY DEF Ahead, Linear
<1>2. A \cup {j} \in SUBSET B
  BY DEF Ahead, Linear
<1>3. IsFiniteSet(L)
  BY DEF Linear
<1>4. IsFiniteSet(A) /\ IsFiniteSet(B)
  BY <1>3, RankIsNatural
<1> HIDE DEF A, B
<1>5. Cardinality(A \cup {j}) = Cardinality(A) + 1
  BY <1>1, <1>4, FS_AddElement
<1>6. Cardinality(A \cup {j}) <= Cardinality(B)
  BY <1>2, <1>4, FS_Subset
<1> QED BY <1>5, <1>6 DEF Rank, A, B

LEMMA RankIsUnique ==
  ASSUME NEW L, NEW R, Linear(L, R), NEW j \in L, NEW k \in L, Rank(L, R, j) = Rank(L, R, k)
  PROVE  j = k
<1>1. Rank(L, R, j) \in Nat
  BY RankIsNatural DEF Linear
<1>2. ASSUME <<j, k>> \in R PROVE FALSE
  BY <1>1, <1>2, RankGrows
<1>3. ASSUME <<k, j>> \in R PROVE FALSE
  BY <1>1, <1>3, RankGrows
<1> QED BY <1>2, <1>3 DEF Linear

LEMMA SublistIsLinear ==
  ASSUME NEW L, NEW R, Linear(L, R), NEW K \in SUBSET L
  PROVE  Linear(K, R)
<1>1. IsFiniteSet(K)
  BY FS_Subset DEF Linear
<1> QED BY <1>1 DEF Linear

LEMMA OneMore ==
  ASSUME NEW A, NEW B, IsFiniteSet(B), AtMostOne(A \ B)
  PROVE  IsFiniteSet(A) /\ Cardinality(A) \in Nat /\ Cardinality(A) <= Cardinality(B) + 1
<1>1. PICK x : A \subseteq B \cup {x}
  <2>1. CASE A \ B = {}
    BY <2>1
  <2>2. CASE A \ B # {}
    <3>1. PICK x \in A \ B : TRUE
      BY <2>2
    <3>2. \A y \in A \ B : y = x
      BY <3>1 DEF AtMostOne
    <3> QED BY <3>2
  <2> QED BY <2>1, <2>2
<1>2. IsFiniteSet(B \cup {x}) /\ Cardinality(B \cup {x}) <= Cardinality(B) + 1 /\ Cardinality(B) \in Nat
  <2>1. IsFiniteSet(B \cup {x})
        /\ Cardinality(B \cup {x}) = IF x \in B THEN Cardinality(B) ELSE Cardinality(B) + 1
    BY FS_AddElement
  <2>2. Cardinality(B) \in Nat
    BY FS_CardinalityType
  <2> QED BY <2>1, <2>2
<1>3. A \in SUBSET (B \cup {x})
  BY <1>1
<1>4. IsFiniteSet(A) /\ Cardinality(A) <= Cardinality(B \cup {x})
  BY <1>2, <1>3, FS_Subset
<1>5. Cardinality(A) \in Nat /\ Cardinality(B \cup {x}) \in Nat
  BY <1>2, <1>4, FS_CardinalityType
<1> QED BY <1>2, <1>4, <1>5

\* How the first n rows are cut when one row i is put beside the others: those well before
\* the cut stay, those behind it stay, and of i and the row at the cut one is on each side.
LEMMA CutAround ==
  ASSUME NEW L, NEW R, Linear(L, R), NEW i, NEW n \in Nat
  PROVE  LET K == L \ {i}
             core == {j \in K : Rank(K, R, j) + 1 < n}
             edge == {j \in K : Rank(K, R, j) + 1 = n}
             tail == {j \in K : Rank(K, R, j) >= n}
         IN  /\ core \subseteq First(L, R, n)
             /\ \A j \in tail : j \notin First(L, R, n)
             /\ AtMostOne(First(L, R, n) \ core)
             /\ AtMostOne((L \ First(L, R, n)) \ tail)
             /\ i \notin L => edge \subseteq First(L, R, n)
             /\ First(L, R, n) \subseteq core \cup edge \cup {i}
<1> DEFINE K == L \ {i}
           core == {j \in K : Rank(K, R, j) + 1 < n}
           edge == {j \in K : Rank(K, R, j) + 1 = n}
           tail == {j \in K : Rank(K, R, j) >= n}
<1>1. IsFiniteSet(L) /\ IsFiniteSet(K) /\ Linear(K, R)
  BY SublistIsLinear DEF Linear
<1>2. ASSUME NEW j \in K
      PROVE  /\ Rank(K, R, j) \in Nat
             /\ Rank(L, R, j) = IF i \in L /\ <<i, j>> \in R THEN Rank(K, R, j) + 1 ELSE Rank(K, R, j)
  <2>1. IsFiniteSet(Ahead(K, R, j)) /\ Rank(K, R, j) \in Nat
    BY <1>1, RankIsNatural
  <2>2. CASE i \in L /\ <<i, j>> \in R
    <3>1. Ahead(L, R, j) = Ahead(K, R, j) \cup {i} /\ i \notin Ahead(K, R, j)
      BY <2>2 DEF Ahead
    <3>2. Cardinality(Ahead(K, R, j) \cup {i}) = Cardinality(Ahead(K, R, j)) + 1
      BY <2>1, <3>1, FS_AddElement
    <3> QED BY <2>1, <2>2, <3>1, <3>2 DEF Rank
  <2>3. CASE ~(i \in L /\ <<i, j>> \in R)
    <3>1. Ahead(L, R, j) = Ahead(K, R, j)
      BY <2>3 DEF Ahead
    <3> QED BY <2>1, <2>3, <3>1 DEF Rank
  <2> QED BY <2>2, <2>3
<1>3. \A j \in K : /\ Rank(K, R, j) \in Nat
                     /\ \/ Rank(L, R, j) = Rank(K, R, j)
                        \/ Rank(L, R, j) = Rank(K, R, j) + 1 /\ i \in L
  BY <1>2
<1>4. core \subseteq First(L, R, n) /\ \A j \in tail : j \notin First(L, R, n)
  <2> HIDE DEF K
  <2>1. K \subseteq L
    BY DEF K
  <2> QED BY <1>3, <2>1 DEF First
<1>5. ASSUME i \notin L PROVE edge \subseteq First(L, R, n)
  <2> HIDE DEF K
  <2>1. K \subseteq L
    BY DEF K
  <2> QED BY <1>5, <1>3, <2>1 DEF First
<1>6. First(L, R, n) \subseteq core \cup edge \cup {i}
  <2>1. SUFFICES ASSUME NEW j \in First(L, R, n), j # i PROVE j \in core \cup edge
    OBVIOUS
  <2>2. j \in K /\ Rank(L, R, j) < n
    BY <2>1 DEF First
  <2> HIDE DEF K
  <2>3. Rank(K, R, j) \in Nat /\ Rank(K, R, j) < n
    BY <1>3, <2>2
  <2> QED BY <2>2, <2>3
<1>7. L \ First(L, R, n) \subseteq tail \cup edge \cup {i}
  <2>1. SUFFICES ASSUME NEW j \in L, j \notin First(L, R, n), j # i PROVE j \in tail \cup edge
    OBVIOUS
  <2>2. j \in K /\ ~(Rank(L, R, j) < n)
    BY <2>1 DEF First
  <2> HIDE DEF K
  <2>3. Rank(K, R, j) \in Nat /\ Rank(K, R, j) + 1 >= n
    BY <1>3, <2>2
  <2> QED BY <2>2, <2>3
<1>8. \A a, b \in edge : a = b
  <2>1. SUFFICES ASSUME NEW a \in edge, NEW b \in edge PROVE a = b
    OBVIOUS
  <2> HIDE DEF K
  <2>2. Rank(K, R, a) \in Nat /\ Rank(K, R, b) \in Nat /\ a \in K /\ b \in K
    BY <1>3
  <2>3. Rank(K, R, a) = Rank(K, R, b)
    BY <2>2
  <2> QED BY <1>1, <2>2, <2>3, RankIsUnique
<1>9. ASSUME NEW e \in edge, i \in L
      PROVE  i \in First(L, R, n) <=> e \notin First(L, R, n)
  <2>1. e \in L /\ e \in K /\ e # i /\ Rank(K, R, e) + 1 = n /\ Rank(K, R, e) \in Nat
    BY <1>2
  <2>2. IsFiniteSet(Ahead(K, R, e)) /\ Rank(L, R, i) \in Nat
    BY <1>1, RankIsNatural
  <2>3. CASE <<e, i>> \in R
    <3>1. <<i, e>> \notin R
      BY <1>9, <2>1, <2>3 DEF Linear
    <3>2. Rank(L, R, e) = Rank(K, R, e)
      BY <1>2, <2>1, <3>1
    <3>3. Rank(L, R, e) + 1 <= Rank(L, R, i)
      BY <1>9, <2>1, <2>3, RankGrows
    <3> HIDE DEF K, edge
    <3> QED BY <2>1, <2>2, <3>2, <3>3 DEF First
  <2>4. CASE <<i, e>> \in R
    <3>1. Rank(L, R, e) = Rank(K, R, e) + 1
      BY <1>2, <1>9, <2>1, <2>4
    <3>2. Rank(L, R, i) + 1 <= Rank(L, R, e)
      BY <1>9, <2>1, <2>4, RankGrows
    <3> HIDE DEF K, edge
    <3> QED BY <1>9, <2>1, <2>2, <3>1, <3>2 DEF First
  <2>5. <<e, i>> \in R \/ <<i, e>> \in R
    BY <1>9, <2>1 DEF Linear
  <2> QED BY <2>3, <2>4, <2>5
<1>10. AtMostOne(First(L, R, n) \ core)
  <2>1. First(L, R, n) \ core \subseteq edge \cup {i}
    BY <1>6
  <2>2. First(L, R, n) \subseteq L
    BY DEF First
  <2> HIDE DEF core, edge
  <2> QED BY <1>8, <1>9, <2>1, <2>2 DEF AtMostOne
<1>11. AtMostOne((L \ First(L, R, n)) \ tail)
  <2>1. (L \ First(L, R, n)) \ tail \subseteq edge \cup {i}
    BY <1>7
  <2> HIDE DEF tail, edge
  <2> QED BY <1>8, <1>9, <2>1 DEF AtMostOne
<1> QED BY <1>4, <1>5, <1>6, <1>10, <1>11

\* What a client that has seen the rows S is behind with, at the n-th row: rows that were
\* there all along and are not seen, and seen rows that it will be shown again.
Missed(L, R, n, S, kept) == (kept \cap First(L, R, n)) \ S
Again(L, R, n, S) == S \cap (L \ First(L, R, n))

LEMMA BehindIsFinite ==
  ASSUME NEW L, NEW R, Linear(L, R), NEW n, NEW S, NEW kept
  PROVE  /\ IsFiniteSet(Missed(L, R, n, S, kept)) /\ Cardinality(Missed(L, R, n, S, kept)) \in Nat
         /\ IsFiniteSet(Again(L, R, n, S)) /\ Cardinality(Again(L, R, n, S)) \in Nat
<1>1. Missed(L, R, n, S, kept) \in SUBSET L /\ Again(L, R, n, S) \in SUBSET L
  BY DEF Missed, Again, First
<1>2. IsFiniteSet(L)
  BY DEF Linear
<1> QED BY <1>1, <1>2, FS_Subset, FS_CardinalityType

LEMMA FewerOf ==
  ASSUME NEW A, NEW B, IsFiniteSet(B), A \subseteq B
  PROVE  Cardinality(A) <= Cardinality(B)
  BY FS_Subset

\* A write to one row puts the client behind by one row at most, and by none if the row
\* was not in the list, is not in it now, or keeps its place.
LEMMA OneWrite ==
  ASSUME NEW L, NEW R, Linear(L, R), NEW M, NEW Q, Linear(M, Q), NEW i, L \ {i} = M \ {i},
         \A j, k \in L \ {i} : <<j, k>> \in R <=> <<j, k>> \in Q,
         NEW n \in Nat, NEW S, NEW kept \in SUBSET L
  PROVE  LET missed == Cardinality(Missed(L, R, n, S, kept))
             missedNow == Cardinality(Missed(M, Q, n, S, kept \cap M))
             again == Cardinality(Again(L, R, n, S))
             againNow == Cardinality(Again(M, Q, n, S))
         IN  /\ missedNow <= missed + 1 /\ againNow <= again + 1
             /\ i \notin L => missedNow <= missed
             /\ i \notin M => againNow <= again
             /\ i \in L /\ i \in M /\ (\A j \in L \ {i} : <<i, j>> \in R <=> <<i, j>> \in Q)
                  => missedNow <= missed /\ againNow <= again
<1> DEFINE K == L \ {i}
           core == {j \in K : Rank(K, R, j) + 1 < n}
           edge == {j \in K : Rank(K, R, j) + 1 = n}
           tail == {j \in K : Rank(K, R, j) >= n}
           missed == Missed(L, R, n, S, kept)
           missedNow == Missed(M, Q, n, S, kept \cap M)
           again == Again(L, R, n, S)
           againNow == Again(M, Q, n, S)
<1>1. /\ core \subseteq First(L, R, n)
      /\ \A j \in tail : j \notin First(L, R, n)
      /\ i \notin L => edge \subseteq First(L, R, n)
  BY CutAround
<1>2. \A j \in K : Rank(K, R, j) = Rank(M \ {i}, Q, j) /\ K = M \ {i}
  <2>1. \A j \in K : Ahead(K, R, j) = Ahead(M \ {i}, Q, j)
    BY DEF Ahead
  <2> QED BY <2>1 DEF Rank
<1>3. /\ core = {j \in M \ {i} : Rank(M \ {i}, Q, j) + 1 < n}
      /\ edge = {j \in M \ {i} : Rank(M \ {i}, Q, j) + 1 = n}
      /\ tail = {j \in M \ {i} : Rank(M \ {i}, Q, j) >= n}
  <2>1. K = M \ {i}
    OBVIOUS
  <2> HIDE DEF K
  <2> QED BY <1>2, <2>1
<1>4. /\ AtMostOne(First(M, Q, n) \ core)
      /\ AtMostOne((M \ First(M, Q, n)) \ tail)
      /\ i \notin M => M \ First(M, Q, n) \subseteq tail
      /\ First(M, Q, n) \subseteq core \cup edge \cup {i}
  <2> DEFINE N == M \ {i}
             coreN == {j \in N : Rank(N, Q, j) + 1 < n}
             edgeN == {j \in N : Rank(N, Q, j) + 1 = n}
             tailN == {j \in N : Rank(N, Q, j) >= n}
  <2>1. /\ AtMostOne(First(M, Q, n) \ coreN)
        /\ AtMostOne((M \ First(M, Q, n)) \ tailN)
        /\ coreN \subseteq First(M, Q, n)
        /\ i \notin M => edgeN \subseteq First(M, Q, n)
        /\ First(M, Q, n) \subseteq coreN \cup edgeN \cup {i}
    BY CutAround
  <2>2. N \subseteq coreN \cup edgeN \cup tailN
    <3>1. IsFiniteSet(N)
      BY FS_Subset DEF Linear
    <3>2. \A j \in N : Rank(N, Q, j) \in Nat
      BY <3>1, RankIsNatural
    <3> HIDE DEF N
    <3> QED BY <3>2
  <2>3. core = coreN /\ edge = edgeN /\ tail = tailN
    BY <1>3
  <2>4. i \notin M => M = N
    OBVIOUS
  <2> HIDE DEF core, edge, tail, coreN, edgeN, tailN, N
  <2> QED BY <2>1, <2>2, <2>3, <2>4
<1>5. IsFiniteSet(missed) /\ IsFiniteSet(again) /\ First(L, R, n) \subseteq L /\ First(M, Q, n) \subseteq M
  BY BehindIsFinite DEF First
<1>6. core \subseteq L /\ tail \subseteq L
  OBVIOUS
<1>7. Cardinality(missedNow) <= Cardinality(missed) + 1
  <2>1. missedNow \ missed \subseteq First(M, Q, n) \ core
    <3> HIDE DEF core
    <3> QED BY <1>1 DEF Missed
  <2>2. AtMostOne(missedNow \ missed)
    <3> HIDE DEF core, missedNow, missed
    <3> QED BY <1>4, <2>1 DEF AtMostOne
  <2> HIDE DEF missedNow, missed
  <2> QED BY <1>5, <2>2, OneMore
<1>8. Cardinality(againNow) <= Cardinality(again) + 1
  <2>1. againNow \ again \subseteq (M \ First(M, Q, n)) \ tail
    <3> HIDE DEF tail
    <3> QED BY <1>1, <1>6 DEF Again
  <2>2. AtMostOne(againNow \ again)
    <3> HIDE DEF tail, againNow, again
    <3> QED BY <1>4, <2>1 DEF AtMostOne
  <2> HIDE DEF againNow, again
  <2> QED BY <1>5, <2>2, OneMore
<1>9. ASSUME i \notin L PROVE Cardinality(missedNow) <= Cardinality(missed)
  <2>1. missedNow \subseteq missed
    <3> HIDE DEF core, edge
    <3> QED BY <1>1, <1>4, <1>9 DEF Missed
  <2> HIDE DEF missedNow, missed
  <2> QED BY <1>5, <2>1, FewerOf
<1>10. ASSUME i \notin M PROVE Cardinality(againNow) <= Cardinality(again)
  <2>1. againNow \subseteq again
    <3> HIDE DEF tail
    <3> QED BY <1>1, <1>4, <1>6, <1>10 DEF Again
  <2> HIDE DEF againNow, again
  <2> QED BY <1>5, <2>1, FewerOf
<1>11. ASSUME i \in L, i \in M, \A j \in L \ {i} : <<i, j>> \in R <=> <<i, j>> \in Q
       PROVE  missedNow = missed /\ againNow = again
  <2>1. L = M
    BY <1>11
  <2>2. \A j, k \in L : <<j, k>> \in R <=> <<j, k>> \in Q
    <3>1. <<i, i>> \notin R /\ <<i, i>> \notin Q
      BY <1>11 DEF Linear
    <3>2. \A j \in L \ {i} : <<j, i>> \in R <=> <<j, i>> \in Q
      BY <1>11, <2>1 DEF Linear
    <3> QED BY <1>11, <3>1, <3>2
  <2>3. \A j \in L : Ahead(L, R, j) = Ahead(M, Q, j)
    BY <2>1, <2>2 DEF Ahead
  <2>4. First(L, R, n) = First(M, Q, n)
    BY <2>1, <2>3 DEF First, Rank
  <2>5. kept \cap M = kept
    BY <2>1
  <2> QED BY <2>1, <2>4, <2>5 DEF Missed, Again
<1>12. Cardinality(missed) \in Nat /\ Cardinality(again) \in Nat
  BY BehindIsFinite
<1> HIDE DEF missed, missedNow, again, againNow
<1>13. i \in L /\ i \in M /\ (\A j \in L \ {i} : <<i, j>> \in R <=> <<i, j>> \in Q)
         => /\ Cardinality(missedNow) <= Cardinality(missed)
            /\ Cardinality(againNow) <= Cardinality(again)
  BY <1>11, <1>12
<1> QED BY <1>7, <1>8, <1>9, <1>10, <1>13 DEF missed, missedNow, again, againNow

-----------------------------------------------------------------------------
\* Places in a sorted list are ranks.
Places(s, L, R) ==
  /\ s \in [1..Cardinality(L) -> L]
  /\ \A n, m \in DOMAIN s : n < m => s[n] # s[m] /\ <<s[m], s[n]>> \notin R

LEMMA PlaceIsRank ==
  ASSUME NEW L, NEW R, Linear(L, R), NEW s, Places(s, L, R)
  PROVE  /\ Cardinality(L) \in Nat
         /\ \A j \in L : \E n \in 1..Cardinality(L) : s[n] = j
         /\ \A n \in 1..Cardinality(L) : Rank(L, R, s[n]) = n - 1
         /\ \A n, m \in 1..Cardinality(L) : s[n] = s[m] => n = m
<1> DEFINE N == Cardinality(L)
<1>1. IsFiniteSet(L) /\ N \in Nat
  BY FS_CardinalityType DEF Linear
<1>2. DOMAIN s = 1..N /\ s \in [1..N -> L]
  BY DEF Places
<1> HIDE DEF N
<1>3. \A n, m \in 1..N : s[n] = s[m] => n = m
  <2>1. SUFFICES ASSUME NEW n \in 1..N, NEW m \in 1..N, s[n] = s[m], n # m PROVE FALSE
    OBVIOUS
  <2>2. n < m \/ m < n
    BY <1>1, <2>1
  <2> QED BY <1>2, <2>1, <2>2 DEF Places
<1>4. s \in Surjection(1..N, L)
  <2>1. s \in Injection(1..N, L)
    BY <1>2, <1>3 DEF Injection, IsInjective
  <2>2. IsFiniteSet(1..N) /\ Cardinality(1..N) = N
    BY <1>1, FS_Interval
  <2> QED BY <1>1, <2>1, <2>2, FS_Injection DEF N
<1>5. \A j \in L : \E n \in 1..N : s[n] = j
  BY <1>4 DEF Surjection
<1>6. ASSUME NEW n \in 1..N PROVE Rank(L, R, s[n]) = n - 1
  <2> DEFINE A == Ahead(L, R, s[n])
             f == [m \in 1..(n - 1) |-> s[m]]
  <2>1. \A m \in 1..N : <<s[m], s[n]>> \in R <=> m < n
    <3>1. SUFFICES ASSUME NEW m \in 1..N PROVE <<s[m], s[n]>> \in R <=> m < n
      OBVIOUS
    <3>2. s[m] \in L /\ s[n] \in L /\ m \in Int /\ n \in Int
      BY <1>1, <1>2
    <3>3. CASE m < n
      BY <1>2, <3>2, <3>3 DEF Places, Linear
    <3>4. CASE m = n
      BY <3>2, <3>4 DEF Linear
    <3>5. CASE n < m
      BY <1>2, <3>2, <3>5 DEF Places
    <3> QED BY <3>2, <3>3, <3>4, <3>5
  <2>2. \A m \in 1..(n - 1) : m \in 1..N /\ s[m] \in A /\ f[m] = s[m]
    <3>1. SUFFICES ASSUME NEW m \in 1..(n - 1) PROVE m \in 1..N /\ s[m] \in A /\ f[m] = s[m]
      OBVIOUS
    <3>2. m \in 1..N /\ m < n
      BY <1>1
    <3> QED BY <1>2, <2>1, <3>2 DEF Ahead
  <2>3. \A j \in A : \E m \in 1..(n - 1) : f[m] = j
    <3>1. SUFFICES ASSUME NEW j \in A PROVE \E m \in 1..(n - 1) : f[m] = j
      OBVIOUS
    <3>2. j \in L /\ <<j, s[n]>> \in R
      BY DEF Ahead
    <3>3. PICK m \in 1..N : s[m] = j
      BY <1>5, <3>2
    <3>4. m < n
      BY <2>1, <3>2, <3>3
    <3>5. m \in 1..(n - 1)
      BY <1>1, <3>4
    <3> QED BY <3>3, <3>5
  <2>4. \A m, k \in 1..(n - 1) : f[m] = f[k] => m = k
    BY <1>3, <2>2
  <2>5. f \in [1..(n - 1) -> A]
    BY <2>2
  <2>6. f \in Bijection(1..(n - 1), A)
    <3> HIDE DEF f, A
    <3> QED BY <2>3, <2>4, <2>5 DEF Bijection, Injection, IsInjective, Surjection
  <2>7. IsFiniteSet(1..(n - 1)) /\ Cardinality(1..(n - 1)) = n - 1
    BY <1>1, FS_Interval
  <2> HIDE DEF f, A
  <2>8. Cardinality(A) = n - 1
    BY <2>6, <2>7, FS_Bijection DEF ExistsBijection
  <2> QED BY <2>8 DEF A, Rank
<1> QED BY <1>1, <1>3, <1>5, <1>6 DEF N

\* LIMIT and OFFSET return the rows between two places, each of them once.
LEMMA PageIsRun ==
  ASSUME NEW L, NEW R, Linear(L, R), NEW s, Places(s, L, R), NEW limit \in Nat, NEW offset \in Nat
  PROVE  LET part == PageOf(s, [limit |-> limit, offset |-> offset])
         IN  /\ part \in Seq(L) /\ Len(part) <= limit
             /\ Range(part) = First(L, R, offset + limit) \ First(L, R, offset)
             /\ IsFiniteSet(Range(part)) /\ Cardinality(Range(part)) = Len(part)
<1> DEFINE N == Cardinality(L)
           last == IF offset + limit < N THEN offset + limit ELSE N
           part == PageOf(s, [limit |-> limit, offset |-> offset])
           size == IF offset < last THEN last - offset ELSE 0
<1>1. /\ N \in Nat
      /\ \A j \in L : \E n \in 1..N : s[n] = j
      /\ \A n \in 1..N : Rank(L, R, s[n]) = n - 1
      /\ \A n, m \in 1..N : s[n] = s[m] => n = m
  BY PlaceIsRank
<1>2. s \in [1..N -> L] /\ s \in Seq(L) /\ Len(s) = N
  <2>1. s \in [1..N -> L]
    BY DEF Places
  <2> HIDE DEF N
  <2> QED BY <1>1, <2>1
<1>3. part = SubSeq(s, offset + 1, last)
  BY <1>2 DEF PageOf
<1> HIDE DEF N
<1>4. size \in Nat /\ size <= limit /\ last \in Nat /\ last <= N /\ (size # 0 => offset + size = last)
  BY <1>1
<1>5. part \in Seq(L) /\ Len(part) = size /\ \A k \in 1..size : part[k] = s[offset + k] /\ offset + k \in 1..N
  <2>1. \A k \in 1..size : offset + k \in 1..N
    BY <1>1, <1>4
  <2> HIDE DEF part
  <2>2. SubSeq(s, offset + 1, last) \in Seq(L)
    <3>1. \A k \in (offset + 1)..last : s[k] \in L
      BY <1>1, <1>2, <1>4
    <3> QED BY <1>2, <1>3, <1>4
  <2>3. Len(SubSeq(s, offset + 1, last)) = size
    <3>1. CASE offset < last
      BY <1>1, <1>2, <1>4, <3>1
    <3>2. CASE ~(offset < last)
      BY <1>1, <1>2, <1>4, <3>2
    <3> QED BY <3>1, <3>2
  <2>4. \A k \in 1..size : SubSeq(s, offset + 1, last)[k] = s[offset + k]
    BY <1>2, <1>4
  <2> QED BY <1>3, <2>1, <2>2, <2>3, <2>4
<1> HIDE DEF part
<1>6. DOMAIN part = 1..size
  BY <1>5
<1>7. \A n \in 1..N : s[n] \in L /\ n \in Nat
  BY <1>1, <1>2
<1>8. Range(part) \subseteq First(L, R, offset + limit) \ First(L, R, offset)
  <2>1. SUFFICES ASSUME NEW k \in 1..size
                 PROVE  part[k] \in First(L, R, offset + limit) \ First(L, R, offset)
    BY <1>6 DEF Range
  <2>2. part[k] = s[offset + k] /\ offset + k \in 1..N
    BY <1>5
  <2>3. Rank(L, R, part[k]) = offset + k - 1 /\ part[k] \in L
    BY <1>1, <1>7, <2>2
  <2>4. offset + k - 1 >= offset /\ offset + k - 1 < offset + limit /\ k \in Nat
    BY <1>4
  <2> HIDE DEF size
  <2> QED BY <2>3, <2>4 DEF First
<1>9. First(L, R, offset + limit) \ First(L, R, offset) \subseteq Range(part)
  <2>1. SUFFICES ASSUME NEW j \in L, Rank(L, R, j) < offset + limit, ~(Rank(L, R, j) < offset)
                 PROVE  j \in Range(part)
    BY DEF First
  <2>2. PICK n \in 1..N : s[n] = j
    BY <1>1
  <2>3. Rank(L, R, j) = n - 1
    BY <1>1, <2>2
  <2>4. n > offset /\ n <= offset + limit /\ n \in Nat /\ n <= N
    BY <1>1, <2>1, <2>3
  <2> DEFINE k == n - offset
  <2>5. k \in 1..size /\ offset + k = n
    BY <1>1, <2>4
  <2> HIDE DEF k, size
  <2> QED BY <1>5, <1>6, <2>2, <2>5 DEF Range
<1>10. IsFiniteSet(Range(part)) /\ Cardinality(Range(part)) = size
  <2>1. \A k, m \in 1..size : part[k] = part[m] => k = m
    <3>1. SUFFICES ASSUME NEW k \in 1..size, NEW m \in 1..size, part[k] = part[m] PROVE k = m
      OBVIOUS
    <3>2. offset + k = offset + m
      BY <1>1, <1>5, <3>1
    <3> QED BY <1>4, <3>2
  <2>2. part \in [1..size -> Range(part)] /\ \A j \in Range(part) : \E k \in 1..size : part[k] = j
    <3>1. part = [k \in 1..size |-> part[k]]
      BY <1>5, <1>6
    <3> QED BY <1>6, <3>1 DEF Range
  <2>3. part \in Bijection(1..size, Range(part))
    <3> HIDE DEF size
    <3> QED BY <2>1, <2>2 DEF Bijection, Injection, IsInjective, Surjection
  <2>4. IsFiniteSet(1..size) /\ Cardinality(1..size) = size
    <3> HIDE DEF size
    <3>1. size \in Nat
      BY <1>4
    <3> QED BY <3>1, FS_Interval
  <2> HIDE DEF size
  <2> QED BY <2>3, <2>4, FS_Bijection DEF ExistsBijection
<1>11. Len(part) = size /\ Len(part) <= limit
  BY <1>4, <1>5
<1> HIDE DEF size
<1> QED BY <1>5, <1>8, <1>9, <1>10, <1>11 DEF part

-----------------------------------------------------------------------------
\* The walk in these terms.
Order == {p \in Ids \X Ids : Before(p[1], p[2])}
Limit == NormalizePage(1, walk.ask).limit
Seen == Range(walk.shown) \cup Range(walk.rows)

\* How far the client has turned the list, in rows.
Turned == (IF walk.pc = "rows" THEN walk.page - 1 ELSE walk.page) * Limit

Walk == [list : Lists, filter : UNION {Filters(l) : l \in Lists}, client : {"more", "pager"},
         ask : Asked, page : Nat \ {0}, pc : {"rows", "count", "end", "failed"},
         rows : Seq(Ids), shown : Seq(Ids)]

WalkTyped ==
  /\ walk \in Walk /\ walk.filter \in Filters(walk.list)
  /\ table \in [Ids -> RowsOf(walk.list) \cup {NoRow}]
  /\ stayed \subseteq Listed /\ gone \in Nat /\ came \in Nat

\* A client is behind by no more rows than have left the list, or come to it.
WalkIsBehind ==
  /\ walk.pc = "rows" => walk.rows = <<>>
  /\ walk.pc \in {"rows", "count"} =>
       /\ Cardinality(Missed(Listed, Order, Turned, Seen, stayed)) <= gone
       /\ Len(walk.shown) + Len(walk.rows) - Cardinality(Seen)
            + Cardinality(Again(Listed, Order, Turned, Seen)) <= came
       /\ Len(walk.shown) + Len(walk.rows) <= Turned

WalkInv == WalkTyped /\ WalkIsBehind /\ WalkShowsTheList

\* The filter of the count is the filter of the list, in each of the nine.
LEMMA CountsTheList ==
  ASSUME walk.list \in Lists, walk.filter \in Filters(walk.list),
         NEW r \in RowsOf(walk.list)
  PROVE  Match(r, walk.filter) <=> Counted(r, walk.filter)
<1>1. CASE walk.list = "users"
  BY <1>1 DEF Match, Counted, UsersMatch, UsersCounted
<1>2. CASE walk.list = "teachers"
  BY <1>2 DEF Match, Counted, TeachersMatch, TeachersCounted
<1>3. CASE walk.list = "bookings"
  BY <1>3 DEF Match, Counted, BookingsMatch, BookingsCounted
<1>4. CASE walk.list = "disputes"
  BY <1>4 DEF Match, Counted, DisputesMatch, DisputesCounted
<1>5. CASE walk.list = "reviews"
  BY <1>5 DEF Match, Counted, ReviewsMatch, ReviewsCounted
<1>6. CASE walk.list = "moderation"
  <2>1. walk.filter \in ModerationFilters /\ r \in RowsOf("moderation")
    BY <1>6 DEF Filters
  <2>2. ModerationMatch(r, walk.filter) <=> ModerationCounted(r, walk.filter)
    BY <2>1 DEF RowsOf, ModerationFilters, ModerationMatch, ModerationCounted, Is
  <2> QED BY <1>6, <2>2 DEF Match, Counted
<1>7. CASE walk.list = "batches"
  BY <1>7 DEF Match, Counted, BatchesMatch, BatchesCounted
<1>8. CASE walk.list = "resources"
  BY <1>8 DEF Match, Counted, ResourcesMatch, ResourcesCounted
<1>9. CASE walk.list = "search"
  BY <1>9 DEF Match, Counted, SearchMatch, SearchCounted
<1> QED BY <1>1, <1>2, <1>3, <1>4, <1>5, <1>6, <1>7, <1>8, <1>9 DEF Lists

\* The order of every list ends in the id, so it has no ties.
LEMMA MarksOrder ==
  ASSUME NEW S \in SUBSET Ids, \A i \in S : table[i].mark \in Int
  PROVE  /\ \A i, j \in S : NewestFirst(i, j) => ~NewestFirst(j, i)
         /\ \A i, j \in S : i # j => NewestFirst(i, j) \/ NewestFirst(j, i)
         /\ \A i, j, k \in S : NewestFirst(i, j) /\ NewestFirst(j, k) => NewestFirst(i, k)
         /\ \A i, j \in S : NewestReviewFirst(i, j) => ~NewestReviewFirst(j, i)
         /\ \A i, j \in S : i # j => NewestReviewFirst(i, j) \/ NewestReviewFirst(j, i)
         /\ \A i, j, k \in S : NewestReviewFirst(i, j) /\ NewestReviewFirst(j, k) => NewestReviewFirst(i, k)
<1>1. \A i \in S : i \in Int
  BY CasesAssumption
<1> QED BY <1>1 DEF NewestFirst, NewestReviewFirst

LEMMA KeysOrder ==
  ASSUME NEW S \in SUBSET Ids, \A i \in S : table[i] \in RowsOf("search")
  PROVE  /\ \A i, j \in S : SearchBefore(i, j) => ~SearchBefore(j, i)
         /\ \A i, j \in S : i # j => SearchBefore(i, j) \/ SearchBefore(j, i)
         /\ \A i, j, k \in S : SearchBefore(i, j) /\ SearchBefore(j, k) => SearchBefore(i, k)
<1>1. \A i \in S : i \in Int
  BY CasesAssumption
<1> DEFINE key(i) == SortKeys(table[i], walk.filter.sort)
           above(i, j) == \/ key(i)[1] > key(j)[1]
                          \/ key(i)[1] = key(j)[1] /\ key(i)[2] > key(j)[2]
                          \/ key(i)[1] = key(j)[1] /\ key(i)[2] = key(j)[2] /\ key(i)[3] > key(j)[3]
                          \/ key(i)[1] = key(j)[1] /\ key(i)[2] = key(j)[2] /\ key(i)[3] = key(j)[3]
                             /\ key(i)[4] > key(j)[4]
           same(i, j) == key(i)[1] = key(j)[1] /\ key(i)[2] = key(j)[2] /\ key(i)[3] = key(j)[3]
                         /\ key(i)[4] = key(j)[4]
<1>2. ASSUME NEW i \in S
      PROVE  /\ i \in Int /\ DOMAIN key(i) = 1..4
             /\ key(i)[1] \in Int /\ key(i)[2] \in Int /\ key(i)[3] \in Int /\ key(i)[4] \in Int
             /\ key(i) = <<key(i)[1], key(i)[2], key(i)[3], key(i)[4]>>
  <2>1. i \in Int
    BY <1>1
  <2>2. table[i].accepting \in Int /\ table[i].rating \in Int /\ table[i].price \in Int
        /\ table[i].reviews \in Int
    BY DEF RowsOf
  <2> DEFINE r == table[i]
             f == walk.filter.sort
             a == IF f = "recommended" THEN r.accepting ELSE 0
             b == IF f \in {"recommended", "rating_desc"} THEN r.rating ELSE 0
             c == CASE f = "price_asc" -> -r.price [] f = "price_desc" -> r.price [] OTHER -> 0
             d == r.reviews
  <2>3. key(i) = <<a, b, c, d>>
    BY DEF SortKeys
  <2>4. a \in Int /\ b \in Int /\ d \in Int
    BY <2>2
  <2>5. c \in Int
    <3>1. -r.price \in Int
      BY <2>2
    <3>2. CASE f = "price_asc"
      BY <3>1, <3>2
    <3>3. CASE f = "price_desc"
      BY <2>2, <3>3
    <3>4. CASE f # "price_asc" /\ f # "price_desc"
      BY <3>4
    <3> QED BY <3>2, <3>3, <3>4
  <2> HIDE DEF a, b, c, d, key
  <2>6. key(i)[1] = a /\ key(i)[2] = b /\ key(i)[3] = c /\ key(i)[4] = d /\ DOMAIN key(i) = 1..4
    BY <2>3
  <2> QED BY <2>1, <2>3, <2>4, <2>5, <2>6
<1>3. \A i, j \in S : SearchBefore(i, j) <=> above(i, j) \/ (same(i, j) /\ i < j)
  <2> SUFFICES ASSUME NEW i \in S, NEW j \in S
               PROVE  SearchBefore(i, j) <=> above(i, j) \/ (same(i, j) /\ i < j)
    OBVIOUS
  <2> HIDE DEF key
  <2>1. SearchBefore(i, j) <=>
          \/ \E n \in 1..4 : key(i)[n] > key(j)[n] /\ \A m \in 1..(n - 1) : key(i)[m] = key(j)[m]
          \/ key(i) = key(j) /\ i < j
    BY <1>2 DEF SearchBefore, key
  <2>2. key(i) = key(j) <=> same(i, j)
    BY <1>2
  <2>3. above(i, j) <=>
          \E n \in 1..4 : key(i)[n] > key(j)[n] /\ \A m \in 1..(n - 1) : key(i)[m] = key(j)[m]
    <3>1. ASSUME above(i, j)
          PROVE  \E n \in 1..4 : key(i)[n] > key(j)[n] /\ \A m \in 1..(n - 1) : key(i)[m] = key(j)[m]
      BY <3>1
    <3>2. ASSUME NEW n \in 1..4, key(i)[n] > key(j)[n], \A m \in 1..(n - 1) : key(i)[m] = key(j)[m]
          PROVE  above(i, j)
      <4>1. CASE n = 1
        BY <3>2, <4>1
      <4>2. CASE n = 2
        BY <3>2, <4>2
      <4>3. CASE n = 3
        BY <3>2, <4>3
      <4>4. CASE n = 4
        BY <3>2, <4>4
      <4> QED BY <3>2, <4>1, <4>2, <4>3, <4>4
    <3> QED BY <3>1, <3>2
  <2> QED BY <2>1, <2>2, <2>3
<1> HIDE DEF key
<1>4. \A i, j \in S : above(i, j) => ~above(j, i) /\ ~same(j, i)
  BY <1>2
<1>5. \A i, j \in S : above(i, j) \/ above(j, i) \/ same(i, j)
  BY <1>2
<1>6. \A i, j, k \in S :
        /\ above(i, j) /\ above(j, k) => above(i, k)
        /\ above(i, j) /\ same(j, k) => above(i, k)
        /\ same(i, j) /\ above(j, k) => above(i, k)
        /\ same(i, j) /\ same(j, k) => same(i, k)
        /\ same(i, j) => same(j, i)
  BY <1>2
<1> HIDE DEF above, same
<1> QED BY <1>3, <1>4, <1>5, <1>6, <1>1

LEMMA OrderIsLinear == WalkTyped => Linear(Listed, Order)
<1> SUFFICES ASSUME WalkTyped PROVE Linear(Listed, Order)
  OBVIOUS
<1>1. Listed \in SUBSET Ids /\ IsFiniteSet(Listed)
  <2>1. Listed \in SUBSET Ids
    BY DEF Listed, Rows
  <2> QED BY <2>1, CasesAssumption, FS_Subset
<1>2. \A i \in Listed : table[i] \in RowsOf(walk.list)
  BY DEF Listed, Rows, WalkTyped
<1>3. walk.list \in Lists
  BY DEF WalkTyped, Walk
<1>4. \A i, j \in Listed : <<i, j>> \in Order <=> Before(i, j)
  BY <1>1 DEF Order
<1>5. CASE walk.list = "search"
  <2>1. \A i, j \in Listed : <<i, j>> \in Order <=> SearchBefore(i, j)
    BY <1>4, <1>5 DEF Before
  <2>2. \A i \in Listed : table[i] \in RowsOf("search")
    BY <1>2, <1>5
  <2> QED BY <1>1, <2>1, <2>2, KeysOrder DEF Linear
<1>6. CASE walk.list # "search"
  <2>1. \A i \in Listed : table[i].mark \in Int
    <3>1. ASSUME NEW i \in Listed PROVE table[i].mark \in Int
      BY <1>2, <1>3, <1>6 DEF RowsOf, Lists
    <3> QED BY <3>1
  <2>2. CASE walk.list \in {"reviews", "moderation"}
    <3>1. \A i, j \in Listed : <<i, j>> \in Order <=> NewestReviewFirst(i, j)
      BY <1>4, <2>2 DEF Before
    <3> QED BY <1>1, <2>1, <3>1, MarksOrder DEF Linear
  <2>3. CASE walk.list \notin {"reviews", "moderation"}
    <3>1. \A i, j \in Listed : <<i, j>> \in Order <=> NewestFirst(i, j)
      BY <1>4, <1>6, <2>3 DEF Before
    <3> QED BY <1>1, <2>1, <3>1, MarksOrder DEF Linear
  <2> QED BY <2>2, <2>3
<1> QED BY <1>5, <1>6

-----------------------------------------------------------------------------
\* A page further on: what is shown is no longer missed, or it is shown again.
LEMMA FewerMissed ==
  ASSUME NEW L, NEW R, Linear(L, R), NEW S, NEW kept, NEW n \in Nat, NEW m \in Nat,
         NEW P, First(L, R, m) = First(L, R, n) \cup P
  PROVE  Cardinality(Missed(L, R, m, S \cup P, kept)) <= Cardinality(Missed(L, R, n, S, kept))
<1>1. Missed(L, R, m, S \cup P, kept) \subseteq Missed(L, R, n, S, kept)
  BY DEF Missed
<1>2. IsFiniteSet(Missed(L, R, n, S, kept))
  BY BehindIsFinite
<1> QED BY <1>1, <1>2, FewerOf

LEMMA ShownAgain ==
  ASSUME NEW L, NEW R, Linear(L, R), NEW S, IsFiniteSet(S), NEW n \in Nat, NEW m \in Nat, n <= m,
         NEW P, P = First(L, R, m) \ First(L, R, n)
  PROVE  \E k \in Nat :
           /\ Cardinality(Again(L, R, m, S \cup P)) = Cardinality(Again(L, R, n, S)) - k
           /\ Cardinality(S \cup P) = Cardinality(S) + Cardinality(P) - k
<1> DEFINE again == Again(L, R, n, S)
           next == Again(L, R, m, S \cup P)
           both == S \cap P
<1>0. First(L, R, m) = First(L, R, n) \cup P
  <2>1. \A j \in L : Rank(L, R, j) \in Nat
    BY RankIsNatural DEF Linear
  <2> QED BY <2>1 DEF First
<1>1. P \in SUBSET L
  BY DEF First
<1>2. IsFiniteSet(P)
  BY <1>1, FS_Subset DEF Linear
<1>3. IsFiniteSet(again)
  BY BehindIsFinite
<1>4. next = again \ P /\ again \cap P = both
  BY <1>0, <1>1 DEF Again
<1> HIDE DEF again, next
<1>5. Cardinality(next) = Cardinality(again) - Cardinality(both)
  BY <1>3, <1>4, FS_Difference
<1>6. Cardinality(S \cup P) = Cardinality(S) + Cardinality(P) - Cardinality(both)
  BY <1>2, FS_Union
<1>7. Cardinality(both) \in Nat
  <2>1. IsFiniteSet(both)
    BY FS_Subset
  <2> QED BY <2>1, FS_CardinalityType
<1> HIDE DEF both
<1> QED BY <1>5, <1>6, <1>7 DEF again, next

\* Whoever has turned as many rows as there are has turned them all.
LEMMA WholeList ==
  ASSUME NEW L, NEW R, Linear(L, R), NEW n \in Nat, Cardinality(L) <= n
  PROVE  First(L, R, n) = L
<1> SUFFICES ASSUME NEW j \in L PROVE Rank(L, R, j) < n
  BY DEF First
<1> DEFINE A == Ahead(L, R, j)
<1>1. IsFiniteSet(L) /\ A \in SUBSET (L \ {j})
  BY DEF Linear, Ahead
<1> HIDE DEF A
<1>2. IsFiniteSet(L \ {j}) /\ Cardinality(L \ {j}) = Cardinality(L) - 1 /\ Cardinality(L) \in Nat
  BY <1>1, FS_RemoveElement, FS_CardinalityType
<1>3. IsFiniteSet(A) /\ Cardinality(A) <= Cardinality(L \ {j})
  BY <1>1, <1>2, FS_Subset
<1>4. Cardinality(A) \in Nat
  BY <1>3, FS_CardinalityType
<1> QED BY <1>2, <1>3, <1>4 DEF Rank, A

LEMMA RangesJoin ==
  ASSUME NEW S, NEW s \in Seq(S), NEW t \in Seq(S)
  PROVE  /\ s \o t \in Seq(S) /\ Len(s \o t) = Len(s) + Len(t)
         /\ Range(s \o t) = Range(s) \cup Range(t)
<1>1. s \o t \in Seq(S) /\ Len(s \o t) = Len(s) + Len(t) /\ Len(s) \in Nat /\ Len(t) \in Nat
  OBVIOUS
<1>2. DOMAIN s = 1..Len(s) /\ DOMAIN t = 1..Len(t) /\ DOMAIN (s \o t) = 1..(Len(s) + Len(t))
  BY <1>1
<1>3. \A n \in 1..Len(s) : (s \o t)[n] = s[n]
  BY <1>1
<1>4. \A n \in 1..Len(t) : (s \o t)[Len(s) + n] = t[n]
  BY <1>1
<1>5. Range(s \o t) \subseteq Range(s) \cup Range(t)
  <2>1. SUFFICES ASSUME NEW n \in 1..(Len(s) + Len(t)) PROVE (s \o t)[n] \in Range(s) \cup Range(t)
    BY <1>2 DEF Range
  <2>2. CASE n <= Len(s)
    BY <1>1, <1>2, <1>3, <2>2 DEF Range
  <2>3. CASE n > Len(s)
    <3>1. n - Len(s) \in 1..Len(t) /\ Len(s) + (n - Len(s)) = n
      BY <1>1, <2>3
    <3> QED BY <1>2, <1>4, <3>1 DEF Range
  <2> QED BY <1>1, <2>2, <2>3
<1>6. Range(s) \cup Range(t) \subseteq Range(s \o t)
  <2>1. ASSUME NEW n \in 1..Len(s) PROVE s[n] \in Range(s \o t)
    <3>1. n \in 1..(Len(s) + Len(t))
      BY <1>1
    <3> QED BY <1>2, <1>3, <3>1 DEF Range
  <2>2. ASSUME NEW n \in 1..Len(t) PROVE t[n] \in Range(s \o t)
    <3>1. Len(s) + n \in 1..(Len(s) + Len(t))
      BY <1>1
    <3> QED BY <1>2, <1>4, <3>1 DEF Range
  <2> QED BY <1>2, <2>1, <2>2 DEF Range
<1> QED BY <1>1, <1>5, <1>6

-----------------------------------------------------------------------------
LEMMA WalkFacts ==
  ASSUME WalkTyped
  PROVE  /\ walk.page \in Nat \ {0} /\ walk.list \in Lists /\ walk.ask \in Asked
         /\ walk.rows \in Seq(Ids) /\ walk.shown \in Seq(Ids)
         /\ Limit \in Nat \ {0}
         /\ NormalizePage(walk.page, walk.ask) = [limit |-> Limit, offset |-> (walk.page - 1) * Limit]
         /\ Turned \in Nat
         /\ walk.page * Limit = (walk.page - 1) * Limit + Limit
         /\ (walk.page - 1) * Limit \in Nat
         /\ IsFiniteSet(Seen) /\ Seen \subseteq Ids /\ Cardinality(Seen) \in Nat
         /\ Listed \subseteq Ids /\ IsFiniteSet(Listed) /\ Cardinality(Listed) \in Nat
<1>1. /\ walk.page \in Nat \ {0} /\ walk.list \in Lists /\ walk.ask \in Asked
      /\ walk.rows \in Seq(Ids) /\ walk.shown \in Seq(Ids)
  BY DEF WalkTyped, Walk
<1>2. Limit \in Nat \ {0}
  <2>1. walk.ask \in Int /\ DefaultSize \in Nat \ {0} /\ MaxSize \in Nat /\ DefaultSize <= MaxSize
    <3>1. Asked \subseteq Int /\ MaxSize \in Nat /\ DefaultSize \in 1..MaxSize
      BY CasesAssumption
    <3>2. walk.ask \in Int
      <4>1. walk.ask \in Asked
        BY <1>1
      <4> QED BY <3>1, <4>1
    <3>3. DefaultSize \in Nat \ {0} /\ DefaultSize <= MaxSize
      BY <3>1
    <3> QED BY <3>1, <3>2, <3>3
  <2>2. Limit = IF walk.ask <= 0 THEN DefaultSize ELSE IF walk.ask > MaxSize THEN MaxSize ELSE walk.ask
    BY DEF Limit, NormalizePage
  <2> QED BY <2>1, <2>2
<1>3. NormalizePage(walk.page, walk.ask) = [limit |-> Limit, offset |-> (walk.page - 1) * Limit]
  BY <1>1, CasesAssumption DEF Limit, NormalizePage
<1>4. /\ walk.page * Limit = (walk.page - 1) * Limit + Limit
      /\ (walk.page - 1) * Limit \in Nat /\ walk.page * Limit \in Nat
  <2>1. ASSUME NEW p \in Nat \ {0}, NEW k \in Nat
        PROVE  p * k = (p - 1) * k + k /\ (p - 1) * k \in Nat /\ p * k \in Nat
    OBVIOUS
  <2> QED BY <1>1, <1>2, <2>1
<1>5. Turned \in Nat
  BY <1>4 DEF Turned
<1>6. Seen \in SUBSET Ids
  <2>1. \A s \in Seq(Ids) : Range(s) \subseteq Ids
    BY DEF Range
  <2> QED BY <1>1, <2>1 DEF Seen
<1>7. Listed \in SUBSET Ids
  BY DEF Listed, Rows
<1>8. IsFiniteSet(Seen) /\ IsFiniteSet(Listed)
  BY <1>6, <1>7, CasesAssumption, FS_Subset
<1>9. Cardinality(Seen) \in Nat /\ Cardinality(Listed) \in Nat
  BY <1>8, FS_CardinalityType
<1> QED BY <1>1, <1>2, <1>3, <1>4, <1>5, <1>6, <1>7, <1>8, <1>9

LEMMA WalkBegins == ListsInit => WalkInv
<1> SUFFICES ASSUME ListsInit PROVE WalkInv
  OBVIOUS
<1>1. PICK c \in Cases, ask \in Asked : \E client \in ClientsOf(c.list) :
        /\ table \in [Ids -> c.rows \cup {NoRow}]
        /\ walk = [list |-> c.list, filter |-> c.filter, client |-> client, ask |-> ask,
                   page |-> 1, pc |-> "rows", rows |-> <<>>, shown |-> <<>>]
  BY DEF ListsInit
<1>2. c.list \in Lists /\ c.filter \in Filters(c.list) /\ c.rows \subseteq RowsOf(c.list)
  BY CasesAssumption
<1>3. c.filter \in UNION {Filters(l) : l \in Lists} /\ ClientsOf(c.list) \subseteq {"more", "pager"}
  BY <1>2 DEF ClientsOf
<1>4. walk \in Walk
  BY <1>1, <1>2, <1>3 DEF Walk
<1>5. WalkTyped
  BY <1>1, <1>2, <1>4 DEF WalkTyped, ListsInit
<1>6. /\ walk.pc = "rows" /\ walk.rows = <<>> /\ walk.shown = <<>> /\ walk.page = 1
      /\ Len(walk.rows) = 0 /\ Len(walk.shown) = 0
  BY <1>1
<1>7. Turned = 0 /\ Seen = {}
  BY <1>5, <1>6, WalkFacts DEF Turned, Seen, Range
<1>8. Missed(Listed, Order, 0, {}, stayed) = {} /\ Again(Listed, Order, 0, {}) = {}
  <2>1. \A j \in Listed : Rank(Listed, Order, j) \in Nat
    BY <1>5, WalkFacts, RankIsNatural
  <2>2. First(Listed, Order, 0) = {}
    BY <2>1 DEF First
  <2> QED BY <2>2 DEF Missed, Again
<1>9. Cardinality({}) = 0
  BY FS_EmptySet
<1>10. WalkIsBehind
  <2>1. gone = 0 /\ came = 0
    BY DEF ListsInit
  <2>2. /\ Cardinality(Missed(Listed, Order, Turned, Seen, stayed)) = 0
        /\ Cardinality(Again(Listed, Order, Turned, Seen)) = 0 /\ Cardinality(Seen) = 0
    BY <1>7, <1>8, <1>9
  <2> QED BY <1>6, <1>7, <2>1, <2>2 DEF WalkIsBehind
<1> QED BY <1>5, <1>6, <1>10 DEF WalkInv, WalkShowsTheList

\* A page is read.
LEMMA ReadStep ==
  ASSUME WalkInv, NEW list, ReadRows(list)
  PROVE  WalkInv'
<1>1. PICK s \in Sorted(Listed) :
        walk' = [walk EXCEPT !.pc = "count", !.rows = PageOf(s, NormalizePage(walk.page, walk.ask))]
  BY DEF ReadRows
<1> DEFINE n == (walk.page - 1) * Limit
           part == PageOf(s, [limit |-> Limit, offset |-> n])
           P == Range(part)
<1>2. WalkTyped /\ walk.pc = "rows" /\ walk.rows = <<>> /\ UNCHANGED <<table, stayed, gone, came>>
  BY DEF WalkInv, WalkIsBehind, ReadRows
<1>3. Linear(Listed, Order) /\ n \in Nat /\ Limit \in Nat
  BY <1>2, OrderIsLinear, WalkFacts
<1>4. Places(s, Listed, Order)
  <2>1. s \in [1..Cardinality(Listed) -> Listed]
        /\ \A k, m \in DOMAIN s : k < m => s[k] # s[m] /\ ~Before(s[m], s[k])
    BY DEF Sorted
  <2>2. \A k, m \in DOMAIN s : Before(s[m], s[k]) <=> <<s[m], s[k]>> \in Order
    BY <1>2, <2>1, WalkFacts DEF Order
  <2> QED BY <2>1, <2>2 DEF Places
<1>5. /\ part \in Seq(Listed) /\ Len(part) <= Limit
      /\ P = First(Listed, Order, n + Limit) \ First(Listed, Order, n)
      /\ IsFiniteSet(P) /\ Cardinality(P) = Len(part)
  BY <1>3, <1>4, PageIsRun
<1>6. part \in Seq(Ids) /\ Len(part) \in Nat
  BY <1>2, <1>5, WalkFacts
<1>7. walk' = [walk EXCEPT !.pc = "count", !.rows = part]
  BY <1>1, <1>2, WalkFacts
<1> HIDE DEF part
<1>8. walk' \in Walk /\ walk'.pc = "count" /\ walk'.rows = part /\ walk'.shown = walk.shown
      /\ walk'.page = walk.page /\ walk'.ask = walk.ask /\ walk'.list = walk.list
      /\ walk'.filter = walk.filter
  BY <1>2, <1>6, <1>7 DEF WalkTyped, Walk
<1>9. Listed' = Listed /\ Order' = Order
  BY <1>2, <1>8 DEF Listed, Rows, Match, Order, Before, NewestFirst, NewestReviewFirst, SearchBefore
<1>10. WalkTyped'
  BY <1>2, <1>8, <1>9 DEF WalkTyped
<1>11. Limit' = Limit /\ Turned = n /\ Turned' = n + Limit
  <2>1. Limit' = Limit
    BY <1>8 DEF Limit
  <2>2. walk.page * Limit = n + Limit
    BY <1>2, WalkFacts
  <2> QED BY <1>2, <1>8, <2>1, <2>2 DEF Turned
<1>12. Seen = Range(walk.shown) /\ Seen' = Seen \cup P
  <2>1. Range(<<>>) = {}
    BY DEF Range
  <2> QED BY <1>2, <1>8, <2>1 DEF Seen
<1> HIDE DEF n, P
<1>13. IsFiniteSet(Seen) /\ Cardinality(Seen) \in Nat /\ Len(walk.shown) \in Nat
  BY <1>2, WalkFacts
<1>14. /\ Cardinality(Missed(Listed, Order, n + Limit, Seen \cup P, stayed))
            <= Cardinality(Missed(Listed, Order, n, Seen, stayed))
       /\ Cardinality(Again(Listed, Order, n + Limit, Seen \cup P))
            = Cardinality(Again(Listed, Order, n, Seen)) + Cardinality(Seen \cup P)
                - Cardinality(Seen) - Cardinality(P)
  <2> DEFINE m == n + Limit
  <2>1. m \in Nat /\ n <= m /\ P = First(Listed, Order, m) \ First(Listed, Order, n)
    BY <1>3, <1>5
  <2>2. First(Listed, Order, m) = First(Listed, Order, n) \cup P /\ First(Listed, Order, n) \cap P = {}
    <3>1. First(Listed, Order, n) \subseteq First(Listed, Order, m)
      <4>1. \A j \in Listed : Rank(Listed, Order, j) \in Nat
        BY <1>3, RankIsNatural DEF Linear
      <4> QED BY <1>3, <4>1 DEF First
    <3> QED BY <1>5, <3>1
  <2> HIDE DEF m
  <2>3. Cardinality(Missed(Listed, Order, m, Seen \cup P, stayed))
          <= Cardinality(Missed(Listed, Order, n, Seen, stayed))
    BY <1>3, <2>1, <2>2, FewerMissed
  <2>4. PICK k \in Nat :
          /\ Cardinality(Again(Listed, Order, m, Seen \cup P))
               = Cardinality(Again(Listed, Order, n, Seen)) - k
          /\ Cardinality(Seen \cup P) = Cardinality(Seen) + Cardinality(P) - k
    <3> HIDE DEF P
    <3>1. Linear(Listed, Order)
      BY <1>3
    <3>2. IsFiniteSet(Seen)
      BY <1>13
    <3>3. n \in Nat /\ m \in Nat /\ n <= m
      BY <1>3, <2>1
    <3>4. P = First(Listed, Order, m) \ First(Listed, Order, n)
      BY <2>1
    <3> QED BY <3>1, <3>2, <3>3, <3>4, ShownAgain
  <2> DEFINE a  == Cardinality(Again(Listed, Order, n, Seen))
             a2 == Cardinality(Again(Listed, Order, m, Seen \cup P))
             c  == Cardinality(Seen)
             c2 == Cardinality(Seen \cup P)
             y  == Cardinality(P)
  <2>5. a \in Nat /\ c \in Nat /\ y \in Nat
    BY <1>3, <1>5, <1>13, BehindIsFinite, FS_CardinalityType
  <2>6. a2 = a - k /\ c2 = c + y - k
    BY <2>4
  <2> HIDE DEF a, a2, c, c2, y
  <2>7. a2 = a + c2 - c - y
    BY <2>5, <2>6
  <2> QED BY <2>3, <2>7 DEF m, a, a2, c, c2, y
<1>15. /\ Cardinality(Missed(Listed, Order, n, Seen, stayed)) <= gone
       /\ Len(walk.shown) + 0 - Cardinality(Seen) + Cardinality(Again(Listed, Order, n, Seen)) <= came
       /\ Len(walk.shown) + 0 <= n
  <2>1. Len(walk.rows) = 0
    BY <1>2
  <2> QED BY <1>2, <1>11, <2>1 DEF WalkInv, WalkIsBehind
<1>16. /\ Cardinality(Missed(Listed, Order, n, Seen, stayed)) \in Nat
       /\ Cardinality(Missed(Listed, Order, n + Limit, Seen \cup P, stayed)) \in Nat
       /\ Cardinality(Again(Listed, Order, n, Seen)) \in Nat
       /\ Cardinality(Again(Listed, Order, n + Limit, Seen \cup P)) \in Nat
       /\ Cardinality(Seen \cup P) \in Nat
  <2>1. IsFiniteSet(Seen \cup P)
    BY <1>5, <1>13, FS_Union
  <2> QED BY <1>3, <2>1, BehindIsFinite, FS_CardinalityType
<1>17. gone \in Nat /\ came \in Nat
  BY <1>2 DEF WalkTyped
<1>18. /\ Cardinality(Missed(Listed, Order, n + Limit, Seen \cup P, stayed)) <= gone
       /\ Len(walk.shown) + Len(part) - Cardinality(Seen \cup P)
            + Cardinality(Again(Listed, Order, n + Limit, Seen \cup P)) <= came
       /\ Len(walk.shown) + Len(part) <= n + Limit
  <2> DEFINE m  == Cardinality(Missed(Listed, Order, n, Seen, stayed))
             m2 == Cardinality(Missed(Listed, Order, n + Limit, Seen \cup P, stayed))
             a  == Cardinality(Again(Listed, Order, n, Seen))
             a2 == Cardinality(Again(Listed, Order, n + Limit, Seen \cup P))
             c  == Cardinality(Seen)
             c2 == Cardinality(Seen \cup P)
             x  == Len(walk.shown)
             y  == Len(part)
  <2>1. /\ m \in Nat /\ m2 \in Nat /\ a \in Nat /\ a2 \in Nat /\ c \in Nat /\ c2 \in Nat
        /\ x \in Nat /\ y \in Nat /\ n \in Nat /\ Limit \in Nat /\ gone \in Nat /\ came \in Nat
    BY <1>3, <1>6, <1>13, <1>16, <1>17
  <2>2. m2 <= m /\ a2 = a + c2 - c - y /\ m <= gone /\ x + 0 - c + a <= came /\ x + 0 <= n /\ y <= Limit
    BY <1>5, <1>14, <1>15
  <2> HIDE DEF m, m2, a, a2, c, c2, x, y
  <2>3. m2 <= gone /\ x + y - c2 + a2 <= came /\ x + y <= n + Limit
    BY <2>1, <2>2
  <2> QED BY <2>3 DEF m2, a2, c2, x, y
<1>19. WalkIsBehind'
  BY <1>2, <1>8, <1>9, <1>11, <1>12, <1>18 DEF WalkIsBehind
<1> QED BY <1>8, <1>10, <1>19 DEF WalkInv, WalkShowsTheList

\* Another request writes a row: a page turned later may be off by that row.
LEMMA WriteStep ==
  ASSUME WalkInv, NEW i \in Ids, NEW r \in RowsOf(walk.list) \cup {NoRow}, Write(i, r)
  PROVE  WalkInv'
<1> DEFINE was == i \in Listed
           is == i \in Listed'
           moved == was /\ is /\ \E j \in Listed \ {i} : Before(i, j) # Before(i, j)'
<1>1. /\ WalkTyped /\ WalkIsBehind /\ walk.pc \in {"rows", "count"} /\ walk' = walk
      /\ table' = [table EXCEPT ![i] = r] /\ stayed' = stayed \cap Listed'
      /\ gone' = IF was /\ (~is \/ moved) THEN gone + 1 ELSE gone
      /\ came' = IF is /\ (~was \/ moved) THEN came + 1 ELSE came
  BY DEF Write, WalkInv
<1>2. /\ walk \in Walk /\ walk.filter \in Filters(walk.list)
      /\ table \in [Ids -> RowsOf(walk.list) \cup {NoRow}]
      /\ stayed \subseteq Listed /\ gone \in Nat /\ came \in Nat
  BY <1>1 DEF WalkTyped
<1>3. \A j \in Ids : j # i => table'[j] = table[j]
  BY <1>1, <1>2
<1>4. WalkTyped'
  <2>1. table' \in [Ids -> RowsOf(walk.list) \cup {NoRow}]
    BY <1>1, <1>2
  <2>2. stayed' \subseteq Listed'
    BY <1>1
  <2>3. gone' \in Nat /\ came' \in Nat
    <3> HIDE DEF was, is, moved
    <3> QED BY <1>1, <1>2
  <2>4. walk' \in Walk /\ walk'.filter \in Filters(walk'.list)
        /\ table' \in [Ids -> RowsOf(walk'.list) \cup {NoRow}]
    BY <1>1, <1>2, <2>1
  <2> QED BY <2>2, <2>3, <2>4 DEF WalkTyped
<1>5. Linear(Listed, Order) /\ Linear(Listed', Order')
  <2>1. Linear(Listed, Order)
    BY <1>1, OrderIsLinear
  <2>2. WalkTyped' => Linear(Listed, Order)'
    BY OrderIsLinear, PTL
  <2> QED BY <1>4, <2>1, <2>2
<1>6. Listed \ {i} = Listed' \ {i}
  <2>1. Listed \subseteq Ids /\ Listed' \subseteq Ids
    BY DEF Listed, Rows
  <2>2. ASSUME NEW j \in Ids, j # i PROVE j \in Listed <=> j \in Listed'
    <3>1. Match(table[j], walk.filter) <=> Match(table[j], walk.filter)'
      BY <1>1, <1>3, <2>2 DEF Match
    <3> QED BY <1>3, <2>2, <3>1 DEF Listed, Rows
  <2> QED BY <2>1, <2>2
<1>7. \A j, k \in Listed \ {i} : <<j, k>> \in Order <=> <<j, k>> \in Order'
  <2>1. SUFFICES ASSUME NEW j \in Listed \ {i}, NEW k \in Listed \ {i}
                 PROVE  <<j, k>> \in Order <=> <<j, k>> \in Order'
    OBVIOUS
  <2>2. j \in Ids /\ k \in Ids /\ table'[j] = table[j] /\ table'[k] = table[k]
    BY <1>3 DEF Listed, Rows
  <2>3. Before(j, k) <=> Before(j, k)'
    BY <1>1, <2>2 DEF Before, NewestFirst, NewestReviewFirst, SearchBefore
  <2> QED BY <2>2, <2>3 DEF Order
<1>8. ASSUME was, is, ~moved
      PROVE  \A j \in Listed \ {i} : <<i, j>> \in Order <=> <<i, j>> \in Order'
  <2>1. SUFFICES ASSUME NEW j \in Listed \ {i} PROVE <<i, j>> \in Order <=> <<i, j>> \in Order'
    OBVIOUS
  <2>2. Before(i, j) = Before(i, j)'
    BY <1>8
  <2>3. j \in Ids
    BY DEF Listed, Rows
  <2> QED BY <2>2, <2>3 DEF Order
<1>9. Turned' = Turned /\ Seen' = Seen /\ Turned \in Nat /\ stayed \in SUBSET Listed
  BY <1>1, <1>2, WalkFacts DEF Turned, Seen, Limit
<1> DEFINE missed == Cardinality(Missed(Listed, Order, Turned, Seen, stayed))
           missedNow == Cardinality(Missed(Listed', Order', Turned, Seen, stayed \cap Listed'))
           again == Cardinality(Again(Listed, Order, Turned, Seen))
           againNow == Cardinality(Again(Listed', Order', Turned, Seen))
<1>10. /\ missedNow <= missed + 1 /\ againNow <= again + 1
       /\ ~was => missedNow <= missed
       /\ ~is => againNow <= again
       /\ was /\ is /\ ~moved => missedNow <= missed /\ againNow <= again
  <2> HIDE DEF moved
  <2>1. /\ missedNow <= missed + 1 /\ againNow <= again + 1
        /\ ~was => missedNow <= missed
        /\ ~is => againNow <= again
        /\ was /\ is /\ (\A j \in Listed \ {i} : <<i, j>> \in Order <=> <<i, j>> \in Order')
             => missedNow <= missed /\ againNow <= again
    BY <1>5, <1>6, <1>7, <1>9, OneWrite
  <2> QED BY <1>8, <2>1
<1>11. missed \in Nat /\ missedNow \in Nat /\ again \in Nat /\ againNow \in Nat
  BY <1>5, BehindIsFinite
<1>12. Cardinality(Seen) \in Nat /\ Len(walk.shown) \in Nat /\ Len(walk.rows) \in Nat
  BY <1>1, WalkFacts
<1> DEFINE c == Cardinality(Seen)
           x == Len(walk.shown)
           y == Len(walk.rows)
<1>13. missed <= gone /\ x + y - c + again <= came /\ x + y <= Turned
       /\ (walk.pc = "rows" => walk.rows = <<>>)
  BY <1>1 DEF WalkIsBehind
<1>14. missedNow <= gone' /\ x + y - c + againNow <= came'
  <2> HIDE DEF was, is, moved, missed, missedNow, again, againNow, c, x, y
  <2>1. \/ gone' = gone + 1
        \/ gone' = gone /\ missedNow <= missed
    BY <1>1, <1>10
  <2>2. \/ came' = came + 1
        \/ came' = came /\ againNow <= again
    BY <1>1, <1>10
  <2>3. c \in Nat /\ x \in Nat /\ y \in Nat
    BY <1>12 DEF c, x, y
  <2>4. missedNow <= missed + 1 /\ againNow <= again + 1
    BY <1>10
  <2>5. missedNow <= gone'
    BY <1>2, <1>11, <1>13, <2>1, <2>4
  <2>6. x + y - c + againNow <= came'
    BY <1>2, <1>11, <1>13, <2>2, <2>3, <2>4
  <2> QED BY <2>5, <2>6
<1>15. WalkIsBehind'
  <2> HIDE DEF was, is, moved
  <2>1. Missed(Listed', Order', Turned, Seen, stayed \cap Listed')
          = Missed(Listed', Order', Turned', Seen', stayed')
    BY <1>1, <1>9
  <2>2. Again(Listed', Order', Turned, Seen) = Again(Listed', Order', Turned', Seen')
    BY <1>9
  <2> HIDE DEF missed, again
  <2> QED BY <1>1, <1>9, <1>13, <1>14, <2>1, <2>2 DEF WalkIsBehind
<1> QED BY <1>1, <1>4, <1>15 DEF WalkInv, WalkShowsTheList

-----------------------------------------------------------------------------
LEMMA RowsStayRows ==
  ASSUME walk.list \in Lists, NEW r \in RowsOf(walk.list)
  PROVE  After(r) \subseteq RowsOf(walk.list)
<1>1. CASE walk.list = "users"
  BY <1>1 DEF After, UsersAfter, RowsOf
<1>2. CASE walk.list = "teachers"
  <2>1. r \in [mark : Int, status : Statuses, q : BOOLEAN]
    BY <1>2 DEF RowsOf
  <2>2. \A s \in Statuses : [r EXCEPT !.status = s] \in [mark : Int, status : Statuses, q : BOOLEAN]
    BY <2>1
  <2>3. [r EXCEPT !.q = ~@] \in [mark : Int, status : Statuses, q : BOOLEAN]
    BY <2>1
  <2>4. After(r) = {[r EXCEPT !.status = s] : s \in Statuses \ {"pending"}} \cup {[r EXCEPT !.q = ~@]}
    BY <1>2 DEF After, TeachersAfter
  <2> QED BY <1>2, <2>2, <2>3, <2>4 DEF RowsOf
<1>3. CASE walk.list = "bookings"
  <2>1. r \in [mark : Int, status : BookingStatuses, q : BOOLEAN]
    BY <1>3 DEF RowsOf
  <2>2. \A s \in BookingStatuses : [r EXCEPT !.status = s] \in [mark : Int, status : BookingStatuses, q : BOOLEAN]
    BY <2>1
  <2> DEFINE next == CASE r.status = "pending_payment" -> {"confirmed", "cancelled"}
                       [] r.status = "confirmed" -> {"completed", "cancelled"}
                       [] OTHER -> {}
  <2>3. next \subseteq BookingStatuses
    BY <2>1 DEF BookingStatuses
  <2>4. After(r) = {[r EXCEPT !.status = s] : s \in next}
    BY <1>3 DEF After, BookingsAfter
  <2> HIDE DEF next
  <2> QED BY <1>3, <2>2, <2>3, <2>4 DEF RowsOf
<1>4. CASE walk.list = "disputes"
  BY <1>4 DEF After, DisputesAfter, RowsOf
<1>5. CASE walk.list = "reviews"
  BY <1>5 DEF After, ReviewsAfter, RowsOf
<1>6. CASE walk.list = "moderation"
  BY <1>6 DEF After, ReviewsAfter, RowsOf
<1>7. CASE walk.list = "batches"
  BY <1>7 DEF After
<1>8. CASE walk.list = "resources"
  <2> DEFINE columns == [mark : Int, type : {"quiz", "reading"}, status : {"draft", "published"},
                         archived : BOOLEAN]
  <2>1. r \in columns
    BY <1>8 DEF RowsOf
  <2>2. \A s \in {"draft", "published"} : [r EXCEPT !.status = s] \in columns
    BY <2>1
  <2>3. [r EXCEPT !.archived = ~@] \in columns
    BY <2>1
  <2>4. After(r) = {[r EXCEPT !.status = s] : s \in {"draft", "published"}} \cup {[r EXCEPT !.archived = ~@]}
    BY <1>8 DEF After, ResourcesAfter
  <2>5. RowsOf(walk.list) = columns
    BY <1>8 DEF RowsOf
  <2> HIDE DEF columns
  <2> QED BY <2>2, <2>3, <2>4, <2>5
<1>9. CASE walk.list = "search"
  <2> DEFINE columns == [status : Statuses, accepting : 0..1, rating : Int, price : Int,
                         reviews : Int, q : BOOLEAN]
  <2>1. r \in columns
    BY <1>9 DEF RowsOf
  <2>2. \A s \in {"approved", "suspended"} : [r EXCEPT !.status = s] \in columns
    BY <2>1 DEF Statuses
  <2>3. \A p \in 1..2 : [r EXCEPT !.price = p] \in columns
    BY <2>1
  <2>4. \A p \in (1..2) \X (0..1) : [r EXCEPT !.rating = p[1], !.reviews = p[2]] \in columns
    <3>1. \A n, k \in Int : [r EXCEPT !.rating = n, !.reviews = k] \in columns
      BY <2>1
    <3>2. \A p \in (1..2) \X (0..1) : p[1] \in Int /\ p[2] \in Int
      OBVIOUS
    <3> HIDE DEF columns
    <3> QED BY <3>1, <3>2
  <2>5. After(r) = {[r EXCEPT !.status = s] : s \in {"approved", "suspended"}}
                     \cup {[r EXCEPT !.price = p] : p \in 1..2}
                     \cup {[r EXCEPT !.rating = p[1], !.reviews = p[2]] : p \in (1..2) \X (0..1)}
    BY <1>9 DEF After, SearchAfter
  <2>6. RowsOf(walk.list) = columns
    BY <1>9 DEF RowsOf
  <2> HIDE DEF columns
  <2> QED BY <2>2, <2>3, <2>4, <2>5, <2>6
<1> QED BY <1>1, <1>2, <1>3, <1>4, <1>5, <1>6, <1>7, <1>8, <1>9 DEF Lists

LEMMA OthersWrite == WalkInv /\ (InsertRow \/ ChangeRow \/ DeleteRow) => WalkInv'
<1> SUFFICES ASSUME WalkInv, InsertRow \/ ChangeRow \/ DeleteRow PROVE WalkInv'
  OBVIOUS
<1>1. walk.list \in Lists /\ table \in [Ids -> RowsOf(walk.list) \cup {NoRow}]
  BY DEF WalkInv, WalkTyped, Walk
<1>2. CASE InsertRow
  <2>1. PICK i \in Ids, c \in Cases : c.list = walk.list /\ \E r \in c.rows : Write(i, r)
    BY <1>2 DEF InsertRow
  <2>2. c.rows \subseteq RowsOf(walk.list)
    BY <2>1, CasesAssumption
  <2> QED BY <2>1, <2>2, WriteStep
<1>3. CASE ChangeRow
  <2>1. PICK i \in Rows : \E r \in After(table[i]) : Write(i, r)
    BY <1>3 DEF ChangeRow
  <2>2. i \in Ids /\ table[i] \in RowsOf(walk.list)
    BY <1>1 DEF Rows
  <2>3. After(table[i]) \subseteq RowsOf(walk.list)
    BY <1>1, <2>2, RowsStayRows
  <2> QED BY <2>1, <2>2, <2>3, WriteStep
<1>4. CASE DeleteRow
  <2>1. PICK i \in Ids : Write(i, NoRow)
    BY <1>4 DEF DeleteRow, Rows
  <2> QED BY <2>1, WriteStep
<1> QED BY <1>2, <1>3, <1>4

\* The rows are counted, and what was read is shown.
LEMMA CountStep ==
  ASSUME WalkInv, NEW list, CountRows(list)
  PROVE  WalkInv'
<1> DEFINE total == Cardinality({i \in Rows : Counted(table[i], walk.filter)})
           screen == walk.shown \o walk.rows
           on == GoesOn(screen, total)
<1>1. /\ WalkTyped /\ WalkIsBehind /\ walk.pc = "count" /\ UNCHANGED <<table, stayed, gone, came>>
      /\ walk' = [walk EXCEPT !.pc = IF on THEN "rows" ELSE "end", !.page = IF on THEN @ + 1 ELSE @,
                              !.rows = <<>>, !.shown = screen]
  BY DEF WalkInv, CountRows
<1>2. /\ walk.page \in Nat \ {0} /\ walk.rows \in Seq(Ids) /\ walk.shown \in Seq(Ids)
      /\ Limit \in Nat \ {0} /\ Turned \in Nat /\ Turned = walk.page * Limit
      /\ Cardinality(Seen) \in Nat /\ Linear(Listed, Order)
  BY <1>1, WalkFacts, OrderIsLinear DEF Turned
<1>3. /\ screen \in Seq(Ids) /\ Len(screen) = Len(walk.shown) + Len(walk.rows)
      /\ Range(screen) = Seen /\ Len(screen) \in Nat
  <2>1. Len(walk.shown) + Len(walk.rows) \in Nat
    <3>1. walk.shown \in Seq(Ids) /\ walk.rows \in Seq(Ids)
      BY <1>2
    <3>2. Len(walk.shown) \in Nat /\ Len(walk.rows) \in Nat
      BY <3>1
    <3> DEFINE x == Len(walk.shown)
               y == Len(walk.rows)
    <3>3. x \in Nat /\ y \in Nat
      BY <3>2
    <3> HIDE DEF x, y
    <3>4. x + y \in Nat
      BY <3>3
    <3> QED BY <3>4 DEF x, y
  <2> QED BY <1>2, <2>1, RangesJoin DEF Seen, screen
<1>4. total = Cardinality(Listed)
  <2>1. \A i \in Rows : table[i] \in RowsOf(walk.list)
    BY <1>1 DEF WalkTyped, Rows
  <2>2. \A i \in Rows : Match(table[i], walk.filter) <=> Counted(table[i], walk.filter)
    BY <1>1, <2>1, CountsTheList DEF WalkTyped, Walk
  <2>3. {i \in Rows : Counted(table[i], walk.filter)} = Listed
    BY <2>2 DEF Listed
  <2> QED BY <2>3
<1> HIDE DEF total, screen
<1>5. /\ walk' \in Walk /\ walk'.shown = screen /\ walk'.rows = <<>> /\ walk'.ask = walk.ask
      /\ walk'.list = walk.list /\ walk'.filter = walk.filter
      /\ \/ walk'.pc = "rows" /\ walk'.page = walk.page + 1
         \/ walk'.pc = "end" /\ ~on
  <2> HIDE DEF on
  <2>1. walk \in Walk
    BY <1>1 DEF WalkTyped
  <2>2. CASE on
    <3>1. walk' = [walk EXCEPT !.pc = "rows", !.page = walk.page + 1, !.rows = <<>>, !.shown = screen]
      BY <1>1, <2>1, <2>2 DEF Walk
    <3>2. walk.page + 1 \in Nat \ {0} /\ <<>> \in Seq(Ids)
      BY <1>2
    <3> QED BY <1>3, <2>1, <3>1, <3>2 DEF Walk
  <2>3. CASE ~on
    <3>1. walk' = [walk EXCEPT !.pc = "end", !.rows = <<>>, !.shown = screen]
      BY <1>1, <2>1, <2>3 DEF Walk
    <3>2. <<>> \in Seq(Ids)
      OBVIOUS
    <3> QED BY <1>3, <2>1, <2>3, <3>1, <3>2 DEF Walk
  <2> QED BY <2>2, <2>3
<1> HIDE DEF on
<1>6. Listed' = Listed /\ Order' = Order
  <2>1. table' = table /\ walk'.list = walk.list /\ walk'.filter = walk.filter
    BY <1>1, <1>5
  <2> QED BY <2>1 DEF Listed, Rows, Match, Order, Before, NewestFirst, NewestReviewFirst, SearchBefore
<1>7. WalkTyped'
  BY <1>1, <1>5, <1>6 DEF WalkTyped
<1> DEFINE missed == Cardinality(Missed(Listed, Order, Turned, Seen, stayed))
           again == Cardinality(Again(Listed, Order, Turned, Seen))
<1>8. missed <= gone /\ Len(screen) - Cardinality(Seen) + again <= came /\ Len(screen) <= Turned
  <2> DEFINE x == Len(walk.shown)
             y == Len(walk.rows)
             z == Len(screen)
             c == Cardinality(Seen)
  <2>1. missed <= gone /\ x + y - c + again <= came /\ x + y <= Turned
    BY <1>1 DEF WalkIsBehind
  <2>2. z = x + y /\ z \in Nat
    BY <1>3
  <2>3. x \in Nat /\ y \in Nat
    BY <1>2
  <2>4. c \in Nat /\ again \in Nat
    BY <1>2, BehindIsFinite
  <2> HIDE DEF x, y, z, c, missed, again
  <2>5. missed <= gone /\ z - c + again <= came /\ z <= Turned
    BY <2>1, <2>2, <2>3, <2>4
  <2> QED BY <2>5 DEF z, c
<1>9. Seen' = Seen
  <2>1. Range(<<>>) = {}
    BY DEF Range
  <2> QED BY <1>3, <1>5, <2>1 DEF Seen
<1>10. CASE walk'.pc = "rows" /\ walk'.page = walk.page + 1
  <2>1. Limit' = Limit
    BY <1>5 DEF Limit
  <2>2. walk.page + 1 - 1 = walk.page
    BY <1>2
  <2>3. Turned' = Turned
    BY <1>2, <1>10, <2>1, <2>2 DEF Turned
  <2>4. Len(walk'.shown) + Len(walk'.rows) = Len(screen)
    <3>1. walk'.shown = screen /\ walk'.rows = <<>>
      BY <1>5
    <3>2. Len(<<>>) = 0
      OBVIOUS
    <3>3. Len(screen) + 0 = Len(screen)
      BY <1>3
    <3> QED BY <3>1, <3>2, <3>3
  <2>5. WalkIsBehind'
    <3>1. walk'.pc = "rows" /\ walk'.rows = <<>> /\ stayed' = stayed /\ gone' = gone /\ came' = came
      BY <1>1, <1>5, <1>10
    <3>2. /\ Cardinality(Missed(Listed, Order, Turned, Seen, stayed)) <= gone
          /\ Len(screen) - Cardinality(Seen) + Cardinality(Again(Listed, Order, Turned, Seen)) <= came
          /\ Len(screen) <= Turned
      BY <1>8
    <3>3. /\ Cardinality(Missed(Listed', Order', Turned', Seen', stayed')) <= gone'
          /\ Len(screen) - Cardinality(Seen') + Cardinality(Again(Listed', Order', Turned', Seen')) <= came'
          /\ Len(screen) <= Turned'
      BY <1>6, <1>9, <2>3, <3>1, <3>2
    <3> DEFINE x == Len(walk'.shown)
               y == Len(walk'.rows)
               z == Len(screen)
               c == Cardinality(Seen')
               b == Cardinality(Again(Listed', Order', Turned', Seen'))
    <3>4. x + y = z /\ z - c + b <= came' /\ z <= Turned'
      BY <2>4, <3>3
    <3>5. x \in Nat /\ y \in Nat
      <4>1. walk'.shown \in Seq(Ids) /\ walk'.rows \in Seq(Ids)
        BY <1>5 DEF Walk
      <4> QED BY <4>1
    <3>6. c \in Nat /\ b \in Nat /\ z \in Nat
      BY <1>2, <1>3, <1>6, <1>9, <2>3, BehindIsFinite
    <3> HIDE DEF x, y, z, c, b
    <3>7. x + y - c + b <= came' /\ x + y <= Turned'
      BY <3>4, <3>5, <3>6
    <3>8. /\ Len(walk'.shown) + Len(walk'.rows) - Cardinality(Seen')
               + Cardinality(Again(Listed', Order', Turned', Seen')) <= came'
          /\ Len(walk'.shown) + Len(walk'.rows) <= Turned'
      BY <3>7 DEF x, y, c, b
    <3> QED BY <3>1, <3>3, <3>8 DEF WalkIsBehind
  <2> QED BY <1>7, <1>10, <2>5 DEF WalkInv, WalkShowsTheList
<1>11. CASE walk'.pc = "end" /\ ~on
  <2>1. total <= Turned
    <3>1. NormalizePage(1, walk.ask).limit = Limit
      BY DEF Limit
    <3>2. total \in Nat /\ Len(screen) \in Nat
      <4>1. total \in Nat
        BY <1>1, <1>4, WalkFacts
      <4>2. Len(screen) \in Nat
        BY <1>3
      <4> QED BY <4>1, <4>2
    <3>3. CASE walk.client = "more"
      <4>1. ~(Len(screen) < total)
        BY <1>11, <3>3 DEF GoesOn, on
      <4> QED BY <1>2, <1>8, <3>2, <4>1
    <3>4. CASE walk.client # "more"
      <4>1. ~(Turned < total)
        BY <1>2, <1>11, <3>1, <3>4 DEF GoesOn, on
      <4> QED BY <1>2, <3>2, <4>1
    <3> QED BY <3>3, <3>4
  <2>2. First(Listed, Order, Turned) = Listed
    BY <1>2, <1>4, <2>1, WholeList
  <2>3. Missed(Listed, Order, Turned, Seen, stayed) = stayed \ Seen
    BY <1>1, <2>2 DEF Missed, WalkTyped
  <2>4. again \in Nat /\ Len(screen) \in Nat /\ came \in Nat
    <3>1. again \in Nat
      BY <1>2, BehindIsFinite
    <3>2. Len(screen) \in Nat
      BY <1>3
    <3>3. came \in Nat
      BY <1>1 DEF WalkTyped
    <3> QED BY <3>1, <3>2, <3>3
  <2>5. Cardinality(stayed \ Seen) <= gone
    BY <1>8, <2>3
  <2>6. Len(screen) - Cardinality(Seen) <= came
    <3> HIDE DEF again
    <3> QED BY <1>2, <1>8, <2>4
  <2>7. WalkShowsTheList'
    BY <1>1, <1>3, <1>5, <2>5, <2>6 DEF WalkShowsTheList
  <2>8. WalkIsBehind'
    BY <1>11 DEF WalkIsBehind
  <2> QED BY <1>7, <2>7, <2>8 DEF WalkInv
<1> QED BY <1>5, <1>10, <1>11

-----------------------------------------------------------------------------
LEMMA WalkStays ==
  ASSUME WalkInv, UNCHANGED <<table, stayed, gone, came>>,
         walk' = walk \/ walk' = [walk EXCEPT !.pc = "failed"]
  PROVE  WalkInv'
<1>1. WalkTyped /\ walk \in Walk
  BY DEF WalkInv, WalkTyped
<1>2. /\ walk' \in Walk /\ walk'.list = walk.list /\ walk'.filter = walk.filter
      /\ walk' = walk \/ walk'.pc = "failed"
  BY <1>1 DEF Walk
<1>3. Listed' = Listed
  BY <1>2 DEF Listed, Rows, Match
<1>4. WalkTyped'
  BY <1>1, <1>2, <1>3 DEF WalkTyped
<1>5. CASE walk'.pc = "failed"
  BY <1>4, <1>5 DEF WalkInv, WalkIsBehind, WalkShowsTheList
<1>6. CASE walk' = walk
  <2>1. Order' = Order /\ Limit' = Limit /\ Turned' = Turned /\ Seen' = Seen
    BY <1>6 DEF Order, Before, NewestFirst, NewestReviewFirst, SearchBefore, Limit, Turned, Seen
  <2>2. WalkIsBehind'
    BY <1>3, <1>6, <2>1 DEF WalkInv, WalkIsBehind
  <2>3. WalkShowsTheList'
    BY <1>6 DEF WalkInv, WalkShowsTheList
  <2> QED BY <1>4, <2>2, <2>3 DEF WalkInv
<1> QED BY <1>2, <1>5, <1>6

LEMMA ListsNextKinds ==
  ASSUME ListsNext
  PROVE  \/ \E list \in Lists : ReadRows(list) \/ CountRows(list)
         \/ WalkFails
         \/ InsertRow \/ ChangeRow \/ DeleteRow
<1>1. ASSUME \/ ListUsers \/ ListTeachers \/ ListBookings \/ ListQueue \/ ListByTeacher
             \/ ListForModeration \/ ListBatches \/ ListResources \/ SearchTeachers
      PROVE  \E list \in Lists : ReadRows(list)
  BY <1>1 DEF Lists, ListUsers, ListTeachers, ListBookings, ListQueue, ListByTeacher,
    ListForModeration, ListBatches, ListResources, SearchTeachers
<1>2. ASSUME \/ CountUsers \/ CountTeachers \/ CountBookings \/ CountDisputes \/ CountTeacherReviews
             \/ CountReviews \/ CountBatches \/ CountResources \/ CountSearch
      PROVE  \E list \in Lists : CountRows(list)
  BY <1>2 DEF Lists, CountUsers, CountTeachers, CountBookings, CountDisputes, CountTeacherReviews,
    CountReviews, CountBatches, CountResources, CountSearch
<1> QED BY <1>1, <1>2 DEF ListsNext

\* ListUsers, ListTeachers, ListBookings, ListQueue, ListByTeacher, ListForModeration,
\* ListBatches, ListResources and SearchTeachers with their counts: a client that turns the
\* pages to the end has shown every row that was in the list all along but one for each row
\* that left meanwhile, and shows no more rows again than have come - whatever the filter,
\* the order of the list, the size of a page and the number of rows and of writes.
THEOREM WalkShowsTheListHolds == ListsSpec => []WalkShowsTheList
<1>1. ListsInit => WalkInv
  BY WalkBegins
<1>2. WalkInv /\ [ListsNext]_listVars => WalkInv'
  <2> SUFFICES ASSUME WalkInv, [ListsNext]_listVars PROVE WalkInv'
    OBVIOUS
  <2>1. ASSUME NEW list \in Lists, ReadRows(list) PROVE WalkInv'
    BY <2>1, ReadStep
  <2>2. ASSUME NEW list \in Lists, CountRows(list) PROVE WalkInv'
    BY <2>2, CountStep
  <2>3. CASE WalkFails
    BY <2>3, WalkStays DEF WalkFails
  <2>4. CASE InsertRow \/ ChangeRow \/ DeleteRow
    BY <2>4, OthersWrite
  <2>5. CASE UNCHANGED listVars
    BY <2>5, WalkStays DEF listVars
  <2> QED BY <2>1, <2>2, <2>3, <2>4, <2>5, ListsNextKinds
<1>3. WalkInv => WalkShowsTheList
  BY DEF WalkInv
<1> QED BY <1>1, <1>2, <1>3, PTL DEF ListsSpec
=============================================================================
