-------------------------- MODULE RemindersProofs --------------------------
(* What holds of Reminders for any number of lessons, requests and failures. *)
EXTENDS Reminders, FiniteSetTheorems, TLAPS

LEMMA TaskInType ==
  ASSUME NEW n \in 0..MaxRetry,
         NEW s \in {"none", "waiting", "loading", "sending", "archived"}
  PROVE  TaskIn(s, n) \in Task
  BY DEF TaskIn, Task

LEMMA NoTaskType == NoTask \in Task
  <1>1. 0 \in 0..MaxRetry
    BY RemindersAssumption
  <1> QED BY <1>1, TaskInType DEF NoTask

\* A task put in its place leaves the others alone.
LEMMA PutIs ==
  ASSUME TypeOK, NEW l \in Lessons, NEW k \in Kinds, NEW t \in Task,
         task' = [task EXCEPT ![l][k] = t]
  PROVE  /\ task' \in [Lessons -> [Kinds -> Task]]
         /\ task'[l][k] = t
         /\ \A m \in Lessons, j \in Kinds : m # l \/ j # k => task'[m][j] = task[m][j]
  BY DEF TypeOK

LEMMA GotoIs ==
  ASSUME TypeOK, NEW r \in Requests, NEW l \in Lessons, NEW n \in 0..2,
         NEW pc \in {"idle", "pay", "schedule", "complete", "cancel", "unschedule"},
         req' = [req EXCEPT ![r] = [pc |-> pc, of |-> l, kind |-> 1, now |-> n]]
  PROVE  /\ req' \in [Requests -> Request]
         /\ req'[r] = [pc |-> pc, of |-> l, kind |-> 1, now |-> n]
         /\ \A q \in Requests : q # r => req'[q] = req[q]
  BY DEF TypeOK, Request

LEMMA FinishIs ==
  ASSUME TypeOK, NEW r \in Requests, Finish(r)
  PROVE  /\ req' \in [Requests -> Request]
         /\ req'[r].pc = "idle" /\ req'[r].of = req[r].of
         /\ \A q \in Requests : q # r => req'[q] = req[q]
  <1>1. req[r].of \in Lessons
    BY DEF TypeOK, Request
  <1>2. req' = [req EXCEPT ![r] = [pc |-> "idle", of |-> req[r].of, kind |-> 1, now |-> 0]]
    BY DEF Finish, Goto
  <1> QED BY <1>1, <1>2, GotoIs, 0 \in 0..2

LEMMA NextKindIs ==
  ASSUME TypeOK, NEW r \in Requests, NextKind(r)
  PROVE  /\ req' \in [Requests -> Request]
         /\ \/ req'[r].pc = "idle"
            \/ /\ req'[r].pc = req[r].pc /\ req'[r].of = req[r].of
               /\ req'[r].kind = 2 /\ req[r].kind = 1
         /\ \A q \in Requests : q # r => req'[q] = req[q]
  <1>1. CASE req[r].kind = 2
    BY <1>1, FinishIs DEF NextKind
  <1>2. CASE req[r].kind # 2
    <2>1. req' = [req EXCEPT ![r].kind = 2]
      BY <1>2 DEF NextKind
    <2>2. req[r] \in Request /\ req[r].kind = 1
      BY <1>2 DEF TypeOK, Request
    <2>3. [req[r] EXCEPT !.kind = 2] \in Request
      BY <2>2 DEF Request
    <2> QED BY <2>1, <2>2, <2>3 DEF TypeOK
  <1> QED BY <1>1, <1>2
-----------------------------------------------------------------------------
(* Types.                                                                   *)

LEMMA InitTyped == Init => TypeOK
  <1> SUFFICES ASSUME Init PROVE TypeOK
    OBVIOUS
  <1>1. \A r \in Requests : req[r] \in Request
    BY DEF Init, Request
  <1>2. req \in [Requests -> Request]
    BY <1>1 DEF Init
  <1> QED BY <1>2, NoTaskType, RemindersAssumption DEF Init, TypeOK

LEMMA FaultIs ==
  ASSUME TypeOK, Fault
  PROVE  faults' \in 0..MaxFaults /\ faults' = faults + 1
  BY RemindersAssumption DEF TypeOK, Fault

LEMMA StepTyped == TypeOK /\ [Next]_vars => TypeOK'
  <1> SUFFICES ASSUME TypeOK, [Next]_vars PROVE TypeOK'
    OBVIOUS
  <1> USE DEF Kinds
  <1>1. ASSUME NEW r \in Requests, NEW l \in Lessons, Begin(r, l) PROVE TypeOK'
    <2>1. PICK pc \in {"pay", "complete", "cancel"} : Goto(r, pc, l, 1, 0)
      BY <1>1 DEF Begin
    <2>2. req' = [req EXCEPT ![r] = [pc |-> pc, of |-> l, kind |-> 1, now |-> 0]]
      BY <2>1 DEF Goto
    <2>3. req' \in [Requests -> Request]
      BY <2>2, GotoIs, 0 \in 0..2
    <2> QED BY <1>1, <2>3 DEF Begin, TypeOK
  <1>2. ASSUME NEW r \in Requests, PayReads(r) PROVE TypeOK'
    <2>1. req[r].of \in Lessons /\ clock[req[r].of] \in 0..2
      BY DEF TypeOK, Request
    <2>2. Goto(r, "schedule", req[r].of, 1, clock[req[r].of]) \/ Finish(r)
      BY <1>2 DEF PayReads
    <2>3. req' \in [Requests -> Request]
      BY <2>1, <2>2, GotoIs, FinishIs, 0 \in 0..2 DEF Goto
    <2> QED BY <1>2, <2>3 DEF PayReads, TypeOK
  <1>3. ASSUME NEW r \in Requests, Enqueue(r) PROVE TypeOK'
    <2>1. req[r].of \in Lessons /\ req[r].kind \in Kinds
      BY DEF TypeOK, Request
    <2>2. \/ task' = [task EXCEPT ![req[r].of][req[r].kind] = TaskIn("waiting", 0)]
          \/ task' = task
      BY <1>3 DEF Enqueue, Put
    <2>3. TaskIn("waiting", 0) \in Task
      BY TaskInType, RemindersAssumption
    <2>4. task' \in [Lessons -> [Kinds -> Task]]
      BY <2>1, <2>2, <2>3, PutIs DEF TypeOK
    <2>5. req' \in [Requests -> Request]
      BY <1>3, NextKindIs DEF Enqueue
    <2> QED BY <1>3, <2>4, <2>5 DEF Enqueue, TypeOK
  <1>4. ASSUME NEW r \in Requests, Settle(r) PROVE TypeOK'
    <2> DEFINE l == req[r].of
    <2>1. l \in Lessons
      BY DEF TypeOK, Request
    <2>2. \A k \in Kinds : [task[l][k] EXCEPT !.caught = task[l][k].state = "sending"] \in Task
      <3> TAKE k \in Kinds
      <3>1. task[l][k] \in Task
        BY <2>1 DEF TypeOK
      <3> QED BY <3>1 DEF Task
    <2>3. task' \in [Lessons -> [Kinds -> Task]]
      BY <1>4, <2>1, <2>2 DEF Settle, TypeOK
    <2>4. Finish(r) \/ Goto(r, "unschedule", l, 1, 0)
      BY <1>4 DEF Settle
    <2>5. req' \in [Requests -> Request]
      BY <2>1, <2>4, GotoIs, FinishIs, 0 \in 0..2 DEF Goto
    <2> QED BY <1>4, <2>1, <2>3, <2>5 DEF Settle, TypeOK
  <1>5. ASSUME NEW r \in Requests, Delete(r) PROVE TypeOK'
    <2>1. req[r].of \in Lessons /\ req[r].kind \in Kinds
      BY DEF TypeOK, Request
    <2>2. task' \in [Lessons -> [Kinds -> Task]]
      BY <1>5, <2>1, NoTaskType, PutIs DEF Delete, Put, TypeOK
    <2>3. req' \in [Requests -> Request]
      BY <1>5, NextKindIs, FinishIs DEF Delete
    <2> QED BY <1>5, <2>2, <2>3 DEF Delete, TypeOK
  <1>6. ASSUME NEW r \in Requests, RequestFails(r) PROVE TypeOK'
    BY <1>6, FinishIs, FaultIs DEF RequestFails, TypeOK
  <1>7. ASSUME NEW l \in Lessons, Confirm(l) PROVE TypeOK'
    BY <1>7 DEF Confirm, TypeOK
  <1>8. ASSUME NEW l \in Lessons, TimePasses(l) PROVE TypeOK'
    BY <1>8 DEF TimePasses, TypeOK
  <1>9. ASSUME NEW l \in Lessons, NEW k \in Kinds, WorkerStep(l, k) PROVE TypeOK'
    <2>1. task[l][k] \in Task /\ task[l][k].retried \in 0..MaxRetry
      BY DEF TypeOK, Task
    <2>2. CASE Start(l, k)
      BY <2>1, <2>2, TaskInType, PutIs DEF Start, Put, TypeOK
    <2>3. CASE Load(l, k)
      <3>1. [task[l][k] EXCEPT !.state = "sending"] \in Task
        BY <2>1 DEF Task
      <3> QED BY <2>3, <3>1, NoTaskType, PutIs DEF Load, Put, TypeOK
    <2>4. CASE Send(l, k)
      <3> DEFINE p == task[l][k].to
      <3>1. CASE p <= Recipients
        <4>1. p \in 1..2
          BY <2>1, <3>1, RemindersAssumption DEF Task
        <4>2. [task[l][k] EXCEPT !.to = @ + 1] \in Task
          BY <2>1, <4>1 DEF Task
        <4>3. Put(l, k, [task[l][k] EXCEPT !.to = @ + 1]) /\ mails' = [mails EXCEPT ![l][k][p] = @ + 1]
          BY <2>4, <3>1 DEF Send
        <4>4. task' \in [Lessons -> [Kinds -> Task]]
          BY <4>2, <4>3, PutIs DEF Put
        <4>5. mails[l][k][p] + 1 \in Nat
          BY <4>1 DEF TypeOK
        <4>6. mails' \in [Lessons -> [Kinds -> [1..2 -> Nat]]]
          BY <4>1, <4>3, <4>5 DEF TypeOK
        <4> QED BY <2>4, <4>4, <4>6 DEF Send, TypeOK
      <3>2. CASE ~(p <= Recipients)
        BY <2>4, <3>2, NoTaskType, PutIs DEF Send, Put, TypeOK
      <3> QED BY <3>1, <3>2
    <2> QED BY <1>9, <2>2, <2>3, <2>4 DEF WorkerStep
  <1>10. ASSUME NEW l \in Lessons, NEW k \in Kinds, Retry(l, k) PROVE TypeOK'
    <2> DEFINE n == task[l][k].retried
    <2>1. n \in 0..MaxRetry
      BY DEF TypeOK, Task
    <2>2. \/ n < MaxRetry /\ Put(l, k, TaskIn("waiting", n + 1))
          \/ Put(l, k, TaskIn("archived", n))
      BY <1>10 DEF Retry
    <2>3. n < MaxRetry => n + 1 \in 0..MaxRetry
      BY <2>1, RemindersAssumption
    <2>4. task' \in [Lessons -> [Kinds -> Task]]
      <3> HIDE DEF n
      <3> QED BY <2>1, <2>2, <2>3, TaskInType, PutIs DEF Put
    <2> QED BY <1>10, <2>4, FaultIs DEF Retry, TypeOK
  <1>11. ASSUME NEW l \in Lessons, NEW k \in Kinds, Shutdown(l, k) PROVE TypeOK'
    <2>1. task[l][k].retried \in 0..MaxRetry
      BY DEF TypeOK, Task
    <2> QED BY <1>11, <2>1, TaskInType, PutIs, FaultIs DEF Shutdown, Put, TypeOK
  <1>12. CASE UNCHANGED vars
    BY <1>12 DEF vars, TypeOK
  <1> QED BY <1>1, <1>2, <1>3, <1>4, <1>5, <1>6, <1>7, <1>8, <1>9, <1>10, <1>11, <1>12
          DEF Next, RequestStep

\* Every variable stays in its type.
THEOREM TypeCorrect == Spec => []TypeOK
  <1>1. Init => TypeOK
    BY InitTyped
  <1>2. TypeOK /\ [Next]_vars => TypeOK'
    BY StepTyped
  <1> QED BY <1>1, <1>2, PTL DEF Spec
-----------------------------------------------------------------------------
(* Mails and the status.                                                    *)

\* What a step that leaves the statuses alone may do to a run that mails.
LEMMA NoMailKept ==
  ASSUME NoMailFromLaterRun, status' = status,
         \A l \in Lessons, k \in Kinds :
           task'[l][k].state = "sending" =>
             \/ task[l][k].state = "sending" /\ task'[l][k].caught = task[l][k].caught
             \/ status[l] = "confirmed"
  PROVE  NoMailFromLaterRun'
  BY DEF NoMailFromLaterRun

LEMMA StepNoMail == TypeOK /\ NoMailFromLaterRun /\ [Next]_vars => NoMailFromLaterRun'
  <1> SUFFICES ASSUME TypeOK, NoMailFromLaterRun, [Next]_vars PROVE NoMailFromLaterRun'
    OBVIOUS
  <1>1. CASE UNCHANGED <<status, task>>
    BY <1>1 DEF NoMailFromLaterRun
  <1>2. ASSUME NEW r \in Requests, Enqueue(r) PROVE NoMailFromLaterRun'
    <2>1. req[r].of \in Lessons /\ req[r].kind \in Kinds
      BY DEF TypeOK, Request, Kinds
    <2>2. \/ task' = [task EXCEPT ![req[r].of][req[r].kind] = TaskIn("waiting", 0)]
          \/ task' = task
      BY <1>2 DEF Enqueue, Put
    <2>3. TaskIn("waiting", 0) \in Task
      BY TaskInType, RemindersAssumption
    <2>7. TaskIn("waiting", 0).state # "sending"
      BY DEF TaskIn
    <2>4. status' = status
      BY <1>2 DEF Enqueue
    <2>5. CASE task' = task
      BY <2>4, <2>5 DEF NoMailFromLaterRun
    <2>6. CASE task' = [task EXCEPT ![req[r].of][req[r].kind] = TaskIn("waiting", 0)]
      BY <2>1, <2>3, <2>7, <2>4, <2>6, PutIs, NoMailKept
    <2> QED BY <2>2, <2>5, <2>6
  <1>3. ASSUME NEW r \in Requests, Settle(r) PROVE NoMailFromLaterRun'
    <2> DEFINE l == req[r].of
    <2>1. l \in Lessons
      BY DEF TypeOK, Request
    <2>2. /\ status' = [status EXCEPT ![l] = "off"]
          /\ task' = [task EXCEPT ![l] = [k \in Kinds |->
               [task[l][k] EXCEPT !.caught = task[l][k].state = "sending"]]]
      BY <1>3 DEF Settle
    <2>3. ASSUME NEW m \in Lessons, NEW k \in Kinds, task'[m][k].state = "sending", status'[m] # "confirmed"
          PROVE  task'[m][k].caught
      <3>1. task[m][k] \in Task /\ task[l][k] \in Task
        BY <2>1 DEF TypeOK
      <3>2. CASE m = l
        <4>1. task'[m][k] = [task[l][k] EXCEPT !.caught = task[l][k].state = "sending"]
          BY <2>1, <2>2, <3>2 DEF TypeOK
        <4>2. task'[m][k].state = task[l][k].state
          BY <3>1, <4>1 DEF Task
        <4>3. task'[m][k].caught = (task[l][k].state = "sending")
          BY <3>1, <4>1 DEF Task
        <4> QED BY <2>3, <4>2, <4>3
      <3>3. CASE m # l
        BY <2>1, <2>2, <2>3, <3>3 DEF TypeOK, NoMailFromLaterRun
      <3> QED BY <3>2, <3>3
    <2> QED BY <2>3 DEF NoMailFromLaterRun
  <1>4. ASSUME NEW r \in Requests, Delete(r) PROVE NoMailFromLaterRun'
    <2>1. req[r].of \in Lessons /\ req[r].kind \in Kinds
      BY DEF TypeOK, Request, Kinds
    <2>2. \/ task' = [task EXCEPT ![req[r].of][req[r].kind] = NoTask]
          \/ task' = task
      BY <1>4 DEF Delete, Put
    <2>3. NoTask.state # "sending"
      BY DEF NoTask, TaskIn
    <2>4. status' = status
      BY <1>4 DEF Delete
    <2>5. CASE task' = task
      BY <2>4, <2>5 DEF NoMailFromLaterRun
    <2>6. CASE task' = [task EXCEPT ![req[r].of][req[r].kind] = NoTask]
      BY <2>1, <2>3, <2>4, <2>6, NoTaskType, PutIs, NoMailKept
    <2> QED BY <2>2, <2>5, <2>6
  <1>5. ASSUME NEW l \in Lessons, Confirm(l) PROVE NoMailFromLaterRun'
    BY <1>5 DEF Confirm, NoMailFromLaterRun, TypeOK
  <1>6. ASSUME NEW l \in Lessons, NEW k \in Kinds,
               WorkerStep(l, k) \/ Retry(l, k) \/ Shutdown(l, k)
        PROVE  NoMailFromLaterRun'
    <2>1. task[l][k] \in Task /\ task[l][k].retried \in 0..MaxRetry
      BY DEF TypeOK, Task
    <2>2. status' = status
      BY <1>6 DEF WorkerStep, Start, Load, Send, Retry, Shutdown
    <2>3. PICK t : /\ task' = [task EXCEPT ![l][k] = t]
                   /\ t.state = "sending" =>
                        \/ task[l][k].state = "sending" /\ t.caught = task[l][k].caught
                        \/ status[l] = "confirmed"
      <3>1. CASE Start(l, k)
        <4>1. TaskIn("loading", task[l][k].retried).state # "sending"
          BY DEF TaskIn
        <4> QED BY <3>1, <4>1 DEF Start, Put
      <3>2. CASE Load(l, k)
        <4>1. NoTask.state # "sending"
          BY DEF NoTask, TaskIn
        <4> QED BY <3>2, <4>1 DEF Load, Put
      <3>3. CASE Send(l, k)
        <4>1. NoTask.state # "sending"
          BY DEF NoTask, TaskIn
        <4>2. [task[l][k] EXCEPT !.to = @ + 1].caught = task[l][k].caught
          BY <2>1 DEF Task
        <4>3. task[l][k].state = "sending"
          BY <3>3 DEF Send
        <4>4. \/ task' = [task EXCEPT ![l][k] = [task[l][k] EXCEPT !.to = @ + 1]]
              \/ task' = [task EXCEPT ![l][k] = NoTask]
          BY <3>3 DEF Send, Put
        <4> QED BY <4>1, <4>2, <4>3, <4>4
      <3>4. CASE Retry(l, k) \/ Shutdown(l, k)
        <4>1. \A s, n : TaskIn(s, n).state = s
          BY DEF TaskIn
        <4>2. \E s \in {"waiting", "archived"}, n \in Int :
                task' = [task EXCEPT ![l][k] = TaskIn(s, n)]
          BY <2>1, <3>4, RemindersAssumption DEF Retry, Shutdown, Put
        <4>3. PICK s \in {"waiting", "archived"}, n \in Int :
                task' = [task EXCEPT ![l][k] = TaskIn(s, n)]
          BY <4>2
        <4>4. TaskIn(s, n).state # "sending"
          BY <4>1
        <4> QED BY <4>3, <4>4
      <3> QED BY <1>6, <3>1, <3>2, <3>3, <3>4 DEF WorkerStep
    <2>4. /\ task'[l][k] = t
          /\ \A m \in Lessons, j \in Kinds : m # l \/ j # k => task'[m][j] = task[m][j]
      BY <2>3 DEF TypeOK
    <2> QED BY <2>2, <2>3, <2>4, NoMailKept
  <1>7. (\E r \in Requests : PayReads(r) \/ RequestFails(r) \/ \E l \in Lessons : Begin(r, l))
          \/ (\E l \in Lessons : TimePasses(l)) \/ UNCHANGED vars
        => UNCHANGED <<status, task>>
    BY DEF PayReads, RequestFails, Begin, TimePasses, vars
  <1> QED BY <1>1, <1>2, <1>3, <1>4, <1>5, <1>6, <1>7 DEF Next, RequestStep

\* Only a run that found the booking confirmed mails anybody.
THEOREM NoMailFromLaterRunHolds == Spec => []NoMailFromLaterRun
  <1>1. Init => NoMailFromLaterRun
    BY DEF Init, NoMailFromLaterRun, NoTask, TaskIn
  <1>2. TypeOK /\ NoMailFromLaterRun /\ [Next]_vars => NoMailFromLaterRun'
    BY StepNoMail
  <1> QED BY <1>1, <1>2, TypeCorrect, PTL DEF Spec
-----------------------------------------------------------------------------
(* How many copies.  Every Pay that may still enqueue a reminder stands for *)
(* one mail to come, and so does a task whose run has not mailed yet.       *)

Will(l, k) == {r \in Requests : req[r].of = l /\ \/ req[r].pc = "pay"
                                                 \/ req[r].pc = "schedule" /\ req[r].kind <= k}

Owes(t, p) ==
  IF t.state \in {"waiting", "loading"} \/ (t.state = "sending" /\ t.to <= p) THEN 1 ELSE 0

Fresh ==
  \A l \in Lessons : status[l] = "pending_payment" =>
    /\ \A k \in Kinds : task[l][k].state = "none" /\ \A p \in 1..2 : mails[l][k][p] = 0
    /\ \A r \in Requests : req[r].of = l => req[r].pc # "schedule"

Budget ==
  \A l \in Lessons, k \in Kinds, p \in 1..2 :
    mails[l][k][p] + Owes(task[l][k], p) + Cardinality(Will(l, k)) <= Cardinality(Requests) + faults

LEMMA Sizes ==
  ASSUME NEW V \in SUBSET Requests, NEW W \in SUBSET V
  PROVE  /\ Cardinality(V) \in Nat /\ Cardinality(W) \in Nat /\ Cardinality(Requests) \in Nat
         /\ Cardinality(W) <= Cardinality(V) /\ Cardinality(V) <= Cardinality(Requests)
         /\ \A x \in V \ W : Cardinality(W) + 1 <= Cardinality(V)
  <1>1. IsFiniteSet(Requests) /\ IsFiniteSet(V) /\ IsFiniteSet(W)
    BY FS_Subset, RemindersAssumption
  <1>2. /\ Cardinality(V) \in Nat /\ Cardinality(W) \in Nat /\ Cardinality(Requests) \in Nat
        /\ Cardinality(W) <= Cardinality(V) /\ Cardinality(V) <= Cardinality(Requests)
    BY <1>1, FS_Subset, FS_CardinalityType
  <1>3. ASSUME NEW x \in V \ W PROVE Cardinality(W) + 1 <= Cardinality(V)
    <2>1. Cardinality(V \ {x}) = Cardinality(V) - 1 /\ IsFiniteSet(V \ {x})
      BY <1>1, FS_RemoveElement
    <2>2. W \in SUBSET (V \ {x})
      OBVIOUS
    <2>3. Cardinality(W) <= Cardinality(V \ {x})
      BY <2>1, <2>2, FS_Subset
    <2> QED BY <1>2, <2>1, <2>3
  <1> QED BY <1>2, <1>3

LEMMA OwesIs ==
  ASSUME NEW t \in Task, NEW p \in 1..2
  PROVE  /\ Owes(t, p) \in 0..1
         /\ t.state \in {"waiting", "loading"} => Owes(t, p) = 1
         /\ t.state \in {"none", "archived"} => Owes(t, p) = 0
  <1>1. t.state \in {"none", "waiting", "loading", "sending", "archived"}
    BY DEF Task
  <1>2. Owes(t, p) = 1 \/ Owes(t, p) = 0
    BY DEF Owes
  <1>3. t.state \in {"waiting", "loading"} => Owes(t, p) = 1
    BY DEF Owes
  <1>4. t.state \in {"none", "archived"} => Owes(t, p) = 0
    BY DEF Owes
  <1> QED BY <1>2, <1>3, <1>4

\* A request that makes no new promise.
LEMMA WillShrinks ==
  ASSUME NEW r \in Requests, \A q \in Requests : q # r => req'[q] = req[q],
         \/ req'[r].pc \notin {"pay", "schedule"}
         \/ /\ req'[r].of = req[r].of /\ req'[r].pc = "schedule"
            /\ \/ req[r].pc = "pay"
               \/ req[r].pc = "schedule" /\ req[r].kind = 1
  PROVE  \A l \in Lessons, k \in Kinds : Will(l, k)' \in SUBSET Will(l, k)
  BY DEF Will, Kinds

LEMMA Balance ==
  ASSUME NEW m \in Nat, NEW n \in Nat, NEW o \in Int, NEW q \in Int, NEW c \in Nat, NEW d \in Nat,
         NEW R \in Nat, NEW f \in Nat, NEW g \in Nat,
         d <= c, m + o + c <= R + f, n + q + f <= m + o + g
  PROVE  n + q + d <= R + g
  OBVIOUS

LEMMA BudgetKept ==
  ASSUME TypeOK, TypeOK', Budget,
         \A l \in Lessons, k \in Kinds : Will(l, k)' \in SUBSET Will(l, k),
         \A l \in Lessons, k \in Kinds, p \in 1..2 :
           mails'[l][k][p] + Owes(task'[l][k], p) + faults
             <= mails[l][k][p] + Owes(task[l][k], p) + faults'
  PROVE  Budget'
  <1> SUFFICES ASSUME NEW l \in Lessons, NEW k \in Kinds, NEW p \in 1..2
               PROVE  mails'[l][k][p] + Owes(task'[l][k], p) + Cardinality(Will(l, k)')
                        <= Cardinality(Requests) + faults'
    BY DEF Budget
  <1>1. /\ Cardinality(Will(l, k)) \in Nat /\ Cardinality(Will(l, k)') \in Nat
        /\ Cardinality(Requests) \in Nat
        /\ Cardinality(Will(l, k)') <= Cardinality(Will(l, k))
    <2>1. Will(l, k) \in SUBSET Requests
      BY DEF Will
    <2>2. Will(l, k)' \in SUBSET Will(l, k)
      OBVIOUS
    <2> DEFINE V == Will(l, k)  W == Will(l, k)'
    <2> HIDE DEF V, W
    <2> SUFFICES /\ Cardinality(V) \in Nat /\ Cardinality(W) \in Nat /\ Cardinality(Requests) \in Nat
                 /\ Cardinality(W) <= Cardinality(V)
      BY DEF V, W
    <2>3. V \in SUBSET Requests /\ W \in SUBSET V
      BY <2>1, <2>2 DEF V, W
    <2> QED BY <2>3, Sizes
  <1>2. mails[l][k][p] \in Nat /\ mails'[l][k][p] \in Nat /\ faults \in Nat /\ faults' \in Nat
    BY RemindersAssumption DEF TypeOK
  <1>3. Owes(task[l][k], p) \in 0..1 /\ Owes(task'[l][k], p) \in 0..1
    <2>1. task[l][k] \in Task /\ task'[l][k] \in Task
      BY DEF TypeOK
    <2> QED BY <2>1, OwesIs
  <1>4. mails[l][k][p] + Owes(task[l][k], p) + Cardinality(Will(l, k)) <= Cardinality(Requests) + faults
    BY DEF Budget
  <1>5. mails'[l][k][p] + Owes(task'[l][k], p) + faults
          <= mails[l][k][p] + Owes(task[l][k], p) + faults'
    OBVIOUS
  <1> DEFINE m == mails[l][k][p]  o == Owes(task[l][k], p)  c == Cardinality(Will(l, k))
             n == mails'[l][k][p]  q == Owes(task'[l][k], p)  d == Cardinality(Will(l, k)')
             R == Cardinality(Requests)  f == faults  g == faults'
  <1>6. /\ f \in Nat /\ g \in Nat /\ m \in Nat /\ n \in Nat /\ o \in Int /\ q \in Int /\ c \in Nat /\ d \in Nat /\ R \in Nat
        /\ d <= c /\ m + o + c <= R + f /\ n + q + f <= m + o + g
    BY <1>1, <1>2, <1>3, <1>4, <1>5
  <1> HIDE DEF m, o, c, n, q, d, R, f, g
  <1>7. n + q + d <= R + g
    BY <1>6, Balance
  <1> QED BY <1>7 DEF n, q, d, R, g

\* What a step does to one task, without a mail.
LEMMA TaskBalance ==
  ASSUME TypeOK, TypeOK', NEW l \in Lessons, NEW k \in Kinds, NEW t \in Task,
         task' = [task EXCEPT ![l][k] = t], mails' = mails, faults' \in {faults, faults + 1},
         \A p \in 1..2 : Owes(t, p) + faults <= Owes(task[l][k], p) + faults'
  PROVE  \A m \in Lessons, j \in Kinds, p \in 1..2 :
           mails'[m][j][p] + Owes(task'[m][j], p) + faults
             <= mails[m][j][p] + Owes(task[m][j], p) + faults'
  <1> TAKE m \in Lessons, j \in Kinds, p \in 1..2
  <1>1. /\ mails[m][j][p] \in Nat /\ faults \in Nat /\ faults' \in Nat
        /\ task[m][j] \in Task /\ task[l][k] \in Task
    BY RemindersAssumption DEF TypeOK
  <1>2. Owes(task[m][j], p) \in 0..1 /\ Owes(task[l][k], p) \in 0..1 /\ Owes(t, p) \in 0..1
    BY <1>1, OwesIs
  <1>3. CASE m = l /\ j = k
    <2>1. task'[m][j] = t
      BY <1>3, PutIs
    <2> QED BY <1>1, <1>2, <1>3, <2>1
  <1>4. CASE m # l \/ j # k
    <2>1. task'[m][j] = task[m][j]
      BY <1>4, PutIs
    <2> QED BY <1>1, <1>2, <2>1
  <1> QED BY <1>3, <1>4

\* Only requests that are after a confirmation put anything into the queue, and only
\* while it is unconfirmed does a booking have none of it.
LEMMA FreshTask ==
  ASSUME Fresh, NEW l \in Lessons, NEW k \in Kinds, NEW t \in Task, TypeOK,
         task' = [task EXCEPT ![l][k] = t], status' = status, mails' = mails, req' = req,
         task[l][k].state # "none"
  PROVE  Fresh'
  <1>1. status[l] # "pending_payment"
    BY DEF Fresh
  <1>2. \A m \in Lessons, j \in Kinds : m # l => task'[m][j] = task[m][j]
    BY PutIs
  <1> QED BY <1>1, <1>2 DEF Fresh

LEMMA BudgetRequests ==
  ASSUME TypeOK, TypeOK', Budget, mails' = mails, task' = task, faults' \in {faults, faults + 1},
         \A l \in Lessons, k \in Kinds : Will(l, k)' \in SUBSET Will(l, k)
  PROVE  Budget'
  <1>1. ASSUME NEW l \in Lessons, NEW k \in Kinds, NEW p \in 1..2
        PROVE  mails'[l][k][p] + Owes(task'[l][k], p) + faults
                 <= mails[l][k][p] + Owes(task[l][k], p) + faults'
    <2>1. mails[l][k][p] \in Nat /\ faults \in Nat /\ task[l][k] \in Task
      BY RemindersAssumption DEF TypeOK
    <2>2. Owes(task[l][k], p) \in 0..1
      BY <2>1, OwesIs
    <2> QED BY <2>1, <2>2
  <1> QED BY <1>1, BudgetKept

LEMMA BeginBudget ==
  ASSUME TypeOK, TypeOK', Fresh, Budget, NEW r \in Requests, NEW l \in Lessons, Begin(r, l)
  PROVE  Fresh' /\ Budget'
  <1>1. PICK pc \in {"pay", "complete", "cancel"} :
          /\ req' = [req EXCEPT ![r] = [pc |-> pc, of |-> l, kind |-> 1, now |-> 0]]
          /\ pc = "pay" => status[l] = "pending_payment"
    BY DEF Begin, Goto
  <1>2. /\ req'[r] = [pc |-> pc, of |-> l, kind |-> 1, now |-> 0] /\ req[r].pc = "idle"
        /\ \A q \in Requests : q # r => req'[q] = req[q]
    BY <1>1 DEF Begin, At, TypeOK
  <1>3. UNCHANGED <<status, task, mails, faults>>
    BY DEF Begin
  <1>4. Fresh'
    BY <1>2, <1>3 DEF Fresh
  <1>5. CASE pc # "pay"
    <2>1. \A m \in Lessons, k \in Kinds : Will(m, k)' \in SUBSET Will(m, k)
      BY <1>2, <1>5, WillShrinks
    <2> QED BY <1>3, <1>4, <2>1, BudgetRequests
  <1>6. CASE pc = "pay"
    <2> SUFFICES ASSUME NEW m \in Lessons, NEW k \in Kinds, NEW p \in 1..2
                 PROVE  mails[m][k][p] + Owes(task[m][k], p) + Cardinality(Will(m, k)')
                          <= Cardinality(Requests) + faults
      BY <1>3, <1>4 DEF Budget
    <2>1. CASE m = l
      <3>1. mails[m][k][p] = 0 /\ task[m][k].state = "none" /\ task[m][k] \in Task
        BY <1>1, <1>6, <2>1 DEF Fresh, TypeOK
      <3>2. Owes(task[m][k], p) = 0
        BY <3>1, OwesIs
      <3>3. Will(m, k)' \in SUBSET Requests
        BY DEF Will
      <3>4. Cardinality(Will(m, k)') \in Nat /\ Cardinality(Requests) \in Nat
            /\ Cardinality(Will(m, k)') <= Cardinality(Requests)
        <4> DEFINE V == Will(m, k)'
        <4> HIDE DEF V
        <4> SUFFICES Cardinality(V) \in Nat /\ Cardinality(Requests) \in Nat
                     /\ Cardinality(V) <= Cardinality(Requests)
          BY DEF V
        <4>1. V \in SUBSET Requests
          BY <3>3 DEF V
        <4> QED BY <4>1, Sizes
      <3>5. faults \in Nat
        BY RemindersAssumption DEF TypeOK
      <3> QED BY <3>1, <3>2, <3>4, <3>5
    <2>2. CASE m # l
      <3>1. Will(m, k)' = Will(m, k)
        BY <1>2, <2>2 DEF Will
      <3> QED BY <3>1 DEF Budget
    <2> QED BY <2>1, <2>2
  <1> QED BY <1>5, <1>6

LEMMA EnqueueBudget ==
  ASSUME TypeOK, TypeOK', Fresh, Budget, NEW r \in Requests, Enqueue(r)
  PROVE  Fresh' /\ Budget'
  <1>0. req[r].of \in Lessons /\ req[r].kind \in Kinds
    BY DEF TypeOK, Request, Kinds
  <1>1. PICK l \in Lessons, k \in Kinds :
          l = req[r].of /\ k = req[r].kind /\ req[r].pc = "schedule"
    BY <1>0 DEF Enqueue, At
  <1>2. UNCHANGED <<status, mails, faults>>
    BY DEF Enqueue
  <1>3. /\ \/ req'[r].pc = "idle"
           \/ req'[r].pc = req[r].pc /\ req'[r].of = l /\ req'[r].kind = 2 /\ k = 1
        /\ \A q \in Requests : q # r => req'[q] = req[q]
    BY <1>1, NextKindIs DEF Enqueue
  <1>4. \A m \in Lessons, j \in Kinds : Will(m, j)' \in SUBSET Will(m, j)
    BY <1>1, <1>3, WillShrinks
  <1>5. Will(l, k)' \in SUBSET Will(l, k) /\ r \in Will(l, k) \ Will(l, k)'
    <2>1. r \in Will(l, k)
      BY <1>1 DEF Will, Kinds
    <2>2. r \notin Will(l, k)'
      BY <1>1, <1>3 DEF Will, Kinds
    <2> QED BY <1>1, <1>4, <2>1, <2>2
  <1>6. status[l] # "pending_payment"
    BY <1>1 DEF Fresh
  <1>7. \/ task' = task
        \/ /\ task' = [task EXCEPT ![l][k] = TaskIn("waiting", 0)]
           /\ task[l][k].state = "none"
    BY <1>1 DEF Enqueue, Put
  <1>8. TaskIn("waiting", 0) \in Task
    BY TaskInType, RemindersAssumption
  <1>9. \A m \in Lessons, j \in Kinds : m # l \/ j # k => task'[m][j] = task[m][j]
    BY <1>1, <1>7, <1>8, PutIs
  <1>10. Fresh'
    BY <1>2, <1>3, <1>6, <1>9 DEF Fresh
  <1>11. CASE task' = task
    BY <1>2, <1>4, <1>10, <1>11, BudgetRequests
  <1>12. CASE task' = [task EXCEPT ![l][k] = TaskIn("waiting", 0)] /\ task[l][k].state = "none"
    <2> SUFFICES ASSUME NEW m \in Lessons, NEW j \in Kinds, NEW p \in 1..2
                 PROVE  mails[m][j][p] + Owes(task'[m][j], p) + Cardinality(Will(m, j)')
                          <= Cardinality(Requests) + faults
      BY <1>2, <1>10 DEF Budget
    <2> DEFINE V == Will(m, j)  W == Will(m, j)'
    <2>1. V \in SUBSET Requests /\ W \in SUBSET V
      BY <1>4 DEF Will
    <2>2. mails[m][j][p] \in Nat /\ faults \in Nat /\ task[m][j] \in Task /\ task'[m][j] \in Task
      BY RemindersAssumption DEF TypeOK
    <2>3. Owes(task[m][j], p) \in 0..1 /\ Owes(task'[m][j], p) \in 0..1
      BY <2>2, OwesIs
    <2>4. mails[m][j][p] + Owes(task[m][j], p) + Cardinality(V) <= Cardinality(Requests) + faults
      BY DEF Budget
    <2>5. CASE m = l /\ j = k
      <3>1. Owes(task[m][j], p) = 0
        BY <1>12, <2>2, <2>5, OwesIs
      <3>2. r \in V \ W
        BY <1>5, <2>5
      <3> HIDE DEF V, W
      <3>3. Cardinality(W) + 1 <= Cardinality(V) /\ Cardinality(W) \in Nat /\ Cardinality(V) \in Nat
            /\ Cardinality(Requests) \in Nat
        BY <2>1, <3>2, Sizes
      <3>4. mails[m][j][p] + Owes(task'[m][j], p) + Cardinality(W) <= Cardinality(Requests) + faults
        BY <2>2, <2>3, <2>4, <3>1, <3>3
      <3> QED BY <3>4 DEF W
    <2>6. CASE m # l \/ j # k
      <3>1. task'[m][j] = task[m][j]
        BY <1>9, <2>6
      <3> HIDE DEF V, W
      <3>2. Cardinality(W) <= Cardinality(V) /\ Cardinality(W) \in Nat /\ Cardinality(V) \in Nat
            /\ Cardinality(Requests) \in Nat
        BY <2>1, Sizes
      <3>3. mails[m][j][p] + Owes(task'[m][j], p) + Cardinality(W) <= Cardinality(Requests) + faults
        BY <2>2, <2>3, <2>4, <3>1, <3>2
      <3> QED BY <3>3 DEF W
    <2> QED BY <2>5, <2>6
  <1> QED BY <1>7, <1>11, <1>12

LEMMA SettleBudget ==
  ASSUME TypeOK, TypeOK', Fresh, Budget, NEW r \in Requests, Settle(r)
  PROVE  Fresh' /\ Budget'
  <1>0. req[r].of \in Lessons
    BY DEF TypeOK, Request
  <1>1. PICK l \in Lessons : l = req[r].of
    BY <1>0
  <1>2. /\ status' = [status EXCEPT ![l] = "off"]
        /\ task' = [task EXCEPT ![l] = [k \in Kinds |->
             [task[l][k] EXCEPT !.caught = task[l][k].state = "sending"]]]
        /\ mails' = mails /\ faults' = faults
    BY <1>1 DEF Settle
  <1>3. /\ req'[r].pc \in {"idle", "unschedule"}
        /\ \A q \in Requests : q # r => req'[q] = req[q]
    <2>1. CASE Finish(r)
      BY <2>1, FinishIs
    <2>2. CASE req' = [req EXCEPT ![r] = [pc |-> "unschedule", of |-> l, kind |-> 1, now |-> 0]]
      BY <2>2, GotoIs, 0 \in 0..2
    <2> QED BY <1>1, <2>1, <2>2 DEF Settle, Goto
  <1>4. \A m \in Lessons, k \in Kinds :
          task'[m][k].state = task[m][k].state /\ task'[m][k].to = task[m][k].to
    <2> TAKE m \in Lessons, k \in Kinds
    <2>1. task[l][k] \in Task
      BY DEF TypeOK
    <2>2. CASE m = l
      <3>1. task'[m][k] = [task[l][k] EXCEPT !.caught = task[l][k].state = "sending"]
        BY <1>2, <2>2 DEF TypeOK
      <3> QED BY <2>1, <2>2, <3>1 DEF Task
    <2>3. CASE m # l
      BY <1>2, <2>3 DEF TypeOK
    <2> QED BY <2>2, <2>3
  <1>5. Fresh'
    <2> SUFFICES ASSUME NEW m \in Lessons, status'[m] = "pending_payment"
                 PROVE  /\ \A k \in Kinds : /\ task'[m][k].state = "none"
                                            /\ \A p \in 1..2 : mails'[m][k][p] = 0
                        /\ \A q \in Requests : req'[q].of = m => req'[q].pc # "schedule"
      BY DEF Fresh
    <2>1. status[m] = "pending_payment"
      BY <1>2 DEF TypeOK
    <2>2. \A q \in Requests : req'[q].of = m => req'[q].pc # "schedule"
      BY <1>3, <2>1 DEF Fresh
    <2> QED BY <1>2, <1>4, <2>1, <2>2 DEF Fresh
  <1>6. \A m \in Lessons, k \in Kinds : Will(m, k)' \in SUBSET Will(m, k)
    BY <1>3, WillShrinks
  <1>7. ASSUME NEW m \in Lessons, NEW k \in Kinds, NEW p \in 1..2
        PROVE  mails'[m][k][p] + Owes(task'[m][k], p) + faults
                 <= mails[m][k][p] + Owes(task[m][k], p) + faults'
    <2>1. Owes(task'[m][k], p) = Owes(task[m][k], p)
      BY <1>4 DEF Owes
    <2>2. mails[m][k][p] \in Nat /\ faults \in Nat /\ task[m][k] \in Task
      BY RemindersAssumption DEF TypeOK
    <2>3. Owes(task[m][k], p) \in 0..1
      BY <2>2, OwesIs
    <2> QED BY <1>2, <2>1, <2>2, <2>3
  <1> QED BY <1>5, <1>6, <1>7, BudgetKept

LEMMA DeleteBudget ==
  ASSUME TypeOK, TypeOK', Fresh, Budget, NEW r \in Requests, Delete(r)
  PROVE  Fresh' /\ Budget'
  <1>0. req[r].of \in Lessons /\ req[r].kind \in Kinds /\ req[r].pc = "unschedule"
    BY DEF TypeOK, Request, Kinds, Delete, At
  <1>1. PICK l \in Lessons, k \in Kinds : l = req[r].of /\ k = req[r].kind
    BY <1>0
  <1>2. /\ UNCHANGED <<status, mails, faults>>
        /\ task' = task \/ task' = [task EXCEPT ![l][k] = NoTask]
    BY <1>1 DEF Delete, Put
  <1>3. /\ req'[r].pc \in {"idle", "unschedule"}
        /\ \A q \in Requests : q # r => req'[q] = req[q]
    <2>1. Finish(r) \/ NextKind(r)
      BY DEF Delete
    <2>2. CASE Finish(r)
      BY <2>2, FinishIs
    <2>3. CASE NextKind(r)
      BY <1>0, <2>3, NextKindIs
    <2> QED BY <2>1, <2>2, <2>3
  <1>4. \A m \in Lessons, j \in Kinds : Will(m, j)' \in SUBSET Will(m, j)
    BY <1>3, WillShrinks
  <1>5. NoTask.state = "none"
    BY DEF NoTask, TaskIn
  <1>6. Fresh'
    <2>1. \A m \in Lessons, j \in Kinds : task'[m][j] = task[m][j] \/ task'[m][j].state = "none"
      BY <1>2, <1>5, NoTaskType, PutIs
    <2> QED BY <1>2, <1>3, <2>1 DEF Fresh
  <1>7. CASE task' = task
    BY <1>2, <1>4, <1>6, <1>7, BudgetRequests
  <1>8. CASE task' = [task EXCEPT ![l][k] = NoTask]
    <2>1. \A p \in 1..2 : Owes(NoTask, p) + faults <= Owes(task[l][k], p) + faults'
      <3> TAKE p \in 1..2
      <3>1. Owes(NoTask, p) = 0
        BY <1>5, NoTaskType, OwesIs
      <3>2. task[l][k] \in Task /\ faults \in Nat
        BY RemindersAssumption DEF TypeOK
      <3>3. Owes(task[l][k], p) \in 0..1
        BY <3>2, OwesIs
      <3> QED BY <1>2, <3>1, <3>2, <3>3
    <2>2. \A m \in Lessons, j \in Kinds, p \in 1..2 :
            mails'[m][j][p] + Owes(task'[m][j], p) + faults
              <= mails[m][j][p] + Owes(task[m][j], p) + faults'
      BY <1>2, <1>8, <2>1, NoTaskType, TaskBalance
    <2> QED BY <1>4, <1>6, <2>2, BudgetKept
  <1> QED BY <1>2, <1>7, <1>8

\* The worker, but for a mail.
LEMMA QuietBudget ==
  ASSUME TypeOK, TypeOK', Fresh, Budget, NEW l \in Lessons, NEW k \in Kinds, NEW t \in Task,
         task' = [task EXCEPT ![l][k] = t], status' = status, mails' = mails, req' = req,
         faults' \in {faults, faults + 1}, task[l][k].state # "none",
         \A p \in 1..2 : Owes(t, p) + faults <= Owes(task[l][k], p) + faults'
  PROVE  Fresh' /\ Budget'
  <1>1. Fresh'
    BY FreshTask
  <1>2. \A m \in Lessons, j \in Kinds : Will(m, j)' \in SUBSET Will(m, j)
    BY DEF Will
  <1>3. \A m \in Lessons, j \in Kinds, p \in 1..2 :
          mails'[m][j][p] + Owes(task'[m][j], p) + faults
            <= mails[m][j][p] + Owes(task[m][j], p) + faults'
    BY TaskBalance
  <1> QED BY <1>1, <1>2, <1>3, BudgetKept

LEMMA StartBudget ==
  ASSUME TypeOK, TypeOK', Fresh, Budget, NEW l \in Lessons, NEW k \in Kinds, Start(l, k)
  PROVE  Fresh' /\ Budget'
  <1>1. task[l][k] \in Task /\ task[l][k].retried \in 0..MaxRetry /\ faults \in Nat
    BY RemindersAssumption DEF TypeOK, Task
  <1>2. PICK t \in Task : t = TaskIn("loading", task[l][k].retried)
    BY <1>1, TaskInType
  <1>3. t.state = "loading" /\ task[l][k].state = "waiting"
    BY <1>2 DEF TaskIn, Start
  <1>4. \A p \in 1..2 : Owes(t, p) = 1 /\ Owes(task[l][k], p) = 1
    BY <1>1, <1>3, OwesIs
  <1>5. /\ task' = [task EXCEPT ![l][k] = t]
        /\ status' = status /\ mails' = mails /\ req' = req /\ faults' = faults
    BY <1>2 DEF Start, Put
  <1>6. \A p \in 1..2 : Owes(t, p) + faults <= Owes(task[l][k], p) + faults'
    BY <1>1, <1>4, <1>5
  <1>7. task[l][k].state # "none"
    BY <1>3
  <1> QED BY <1>5, <1>6, <1>7, QuietBudget

LEMMA LoadBudget ==
  ASSUME TypeOK, TypeOK', Fresh, Budget, NEW l \in Lessons, NEW k \in Kinds, Load(l, k)
  PROVE  Fresh' /\ Budget'
  <1>1. task[l][k] \in Task /\ task[l][k].state = "loading" /\ faults \in Nat
    BY RemindersAssumption DEF TypeOK, Load
  <1>2. [task[l][k] EXCEPT !.state = "sending"] \in Task
    BY <1>1 DEF Task
  <1>3. PICK t \in Task : task' = [task EXCEPT ![l][k] = t]
    BY <1>2, NoTaskType DEF Load, Put
  <1>4. \A p \in 1..2 : Owes(t, p) \in 0..1 /\ Owes(task[l][k], p) = 1
    BY <1>1, OwesIs
  <1>5. status' = status /\ mails' = mails /\ req' = req /\ faults' = faults
    BY DEF Load
  <1>6. \A p \in 1..2 : Owes(t, p) + faults <= Owes(task[l][k], p) + faults'
    BY <1>1, <1>4, <1>5
  <1> QED BY <1>1, <1>3, <1>5, <1>6, QuietBudget

LEMMA FailBudget ==
  ASSUME TypeOK, TypeOK', Fresh, Budget, NEW l \in Lessons, NEW k \in Kinds,
         Retry(l, k) \/ Shutdown(l, k)
  PROVE  Fresh' /\ Budget'
  <1> DEFINE n == task[l][k].retried
  <1>1. /\ task[l][k] \in Task /\ task[l][k].state # "none" /\ faults \in Nat
        /\ n \in 0..MaxRetry
    BY RemindersAssumption DEF TypeOK, Task, Retry, Shutdown, Active
  <1>2. PICK t \in Task : task' = [task EXCEPT ![l][k] = t]
    <2>1. /\ n < MaxRetry => TaskIn("waiting", n + 1) \in Task
          /\ TaskIn("archived", n) \in Task /\ TaskIn("waiting", n) \in Task
      <3>1. n < MaxRetry => n + 1 \in 0..MaxRetry
        BY <1>1, RemindersAssumption
      <3> HIDE DEF n
      <3> QED BY <1>1, <3>1, TaskInType
    <2> QED BY <2>1 DEF Retry, Shutdown, Put
  <1>3. \A p \in 1..2 : Owes(t, p) \in 0..1 /\ Owes(task[l][k], p) \in 0..1
    BY <1>1, OwesIs
  <1>4. status' = status /\ mails' = mails /\ req' = req /\ faults' = faults + 1
    BY DEF Retry, Shutdown, Fault
  <1>5. \A p \in 1..2 : Owes(t, p) + faults <= Owes(task[l][k], p) + faults'
    BY <1>1, <1>3, <1>4
  <1> QED BY <1>1, <1>2, <1>4, <1>5, QuietBudget

LEMMA SendBudget ==
  ASSUME TypeOK, TypeOK', Fresh, Budget, NEW l \in Lessons, NEW k \in Kinds, Send(l, k)
  PROVE  Fresh' /\ Budget'
  <1>1. /\ task[l][k] \in Task /\ task[l][k].state = "sending" /\ faults \in Nat
        /\ task[l][k].to \in 1..3
    BY RemindersAssumption DEF TypeOK, Task, Send
  <1>2. status' = status /\ req' = req /\ faults' = faults
    BY DEF Send
  <1>3. CASE ~(task[l][k].to <= Recipients)
    <2>1. task' = [task EXCEPT ![l][k] = NoTask] /\ mails' = mails
      BY <1>3 DEF Send, Put
    <2>2. \A p \in 1..2 : Owes(NoTask, p) = 0 /\ Owes(task[l][k], p) \in 0..1
      BY <1>1, NoTaskType, OwesIs DEF NoTask, TaskIn
    <2>3. \A p \in 1..2 : Owes(NoTask, p) + faults <= Owes(task[l][k], p) + faults'
      BY <1>1, <1>2, <2>2
    <2> QED BY <1>1, <1>2, <2>1, <2>3, NoTaskType, QuietBudget
  <1>4. CASE task[l][k].to <= Recipients
    <2>1. PICK q \in 1..2 : q = task[l][k].to
      BY <1>1, <1>4, RemindersAssumption
    <2>2. PICK t \in Task : t = [task[l][k] EXCEPT !.to = q + 1]
      <3>1. q + 1 \in 1..3
        OBVIOUS
      <3>2. [task[l][k] EXCEPT !.to = q + 1] \in Task
        BY <1>1, <3>1 DEF Task
      <3> QED BY <3>2
    <2>3. t.state = "sending" /\ t.to = q + 1
      BY <1>1, <2>2 DEF Task
    <2>4. task' = [task EXCEPT ![l][k] = t] /\ mails' = [mails EXCEPT ![l][k][q] = @ + 1]
      BY <1>4, <2>1, <2>2 DEF Send, Put
    <2>5. /\ task'[l][k] = t
          /\ \A m \in Lessons, j \in Kinds : m # l \/ j # k => task'[m][j] = task[m][j]
      BY <2>4, PutIs
    <2>6. \A m \in Lessons, j \in Kinds, p \in 1..2 :
            mails'[m][j][p] = IF m = l /\ j = k /\ p = q THEN mails[m][j][p] + 1 ELSE mails[m][j][p]
      BY <2>4 DEF TypeOK
    <2>7. Fresh'
      <3>1. status[l] # "pending_payment"
        BY <1>1 DEF Fresh
      <3> QED BY <1>2, <2>5, <2>6, <3>1 DEF Fresh
    <2>8. \A m \in Lessons, j \in Kinds : Will(m, j)' \in SUBSET Will(m, j)
      BY <1>2 DEF Will
    <2>9. ASSUME NEW m \in Lessons, NEW j \in Kinds, NEW p \in 1..2
          PROVE  mails'[m][j][p] + Owes(task'[m][j], p) + faults
                   <= mails[m][j][p] + Owes(task[m][j], p) + faults'
      <3>1. mails[m][j][p] \in Nat /\ task[m][j] \in Task
        BY DEF TypeOK
      <3>2. Owes(task[m][j], p) \in 0..1
        BY <3>1, OwesIs
      <3>3. CASE m = l /\ j = k
        <4>1. Owes(task[m][j], p) = IF q <= p THEN 1 ELSE 0
          BY <1>1, <2>1, <3>3 DEF Owes
        <4>2. Owes(task'[m][j], p) = IF q + 1 <= p THEN 1 ELSE 0
          BY <2>3, <2>5, <3>3 DEF Owes
        <4>3. mails'[m][j][p] = IF p = q THEN mails[m][j][p] + 1 ELSE mails[m][j][p]
          BY <2>6, <3>3
        <4> QED BY <1>1, <1>2, <2>1, <3>1, <4>1, <4>2, <4>3
      <3>4. CASE ~(m = l /\ j = k)
        BY <1>1, <1>2, <2>5, <2>6, <3>1, <3>2, <3>4
      <3> QED BY <3>3, <3>4
    <2> QED BY <2>7, <2>8, <2>9, BudgetKept
  <1> QED BY <1>3, <1>4

LEMMA StepBudget ==
  TypeOK /\ TypeOK' /\ Fresh /\ Budget /\ [Next]_vars => Fresh' /\ Budget'
  <1> SUFFICES ASSUME TypeOK, TypeOK', Fresh, Budget, [Next]_vars PROVE Fresh' /\ Budget'
    OBVIOUS
  <1>1. ASSUME NEW r \in Requests, PayReads(r) PROVE Fresh' /\ Budget'
    <2>1. PICK l \in Lessons : l = req[r].of /\ req[r].pc = "pay"
      BY <1>1 DEF PayReads, At, TypeOK, Request
    <2>2. UNCHANGED <<status, task, mails, faults>>
      BY <1>1 DEF PayReads
    <2>3. CASE status[l] = "confirmed"
      <3>1. PICK n \in 0..2 : n = clock[l]
        BY DEF TypeOK
      <3>2. req' = [req EXCEPT ![r] = [pc |-> "schedule", of |-> l, kind |-> 1, now |-> n]]
        BY <1>1, <2>1, <2>3, <3>1 DEF PayReads, Goto
      <3>3. /\ req'[r].pc = "schedule" /\ req'[r].of = l
            /\ \A q \in Requests : q # r => req'[q] = req[q]
        BY <3>2, GotoIs
      <3>4. \A m \in Lessons, k \in Kinds : Will(m, k)' \in SUBSET Will(m, k)
        BY <2>1, <3>3, WillShrinks
      <3>5. Fresh'
        BY <2>2, <2>3, <3>3 DEF Fresh
      <3> QED BY <2>2, <3>4, <3>5, BudgetRequests
    <2>4. CASE status[l] # "confirmed"
      <3>1. /\ req'[r].pc = "idle"
            /\ \A q \in Requests : q # r => req'[q] = req[q]
        BY <1>1, <2>1, <2>4, FinishIs DEF PayReads
      <3>2. \A m \in Lessons, k \in Kinds : Will(m, k)' \in SUBSET Will(m, k)
        BY <3>1, WillShrinks
      <3>3. Fresh'
        BY <2>2, <3>1 DEF Fresh
      <3> QED BY <2>2, <3>2, <3>3, BudgetRequests
    <2> QED BY <2>3, <2>4
  <1>2. ASSUME NEW r \in Requests, RequestFails(r) PROVE Fresh' /\ Budget'
    <2>1. /\ req'[r].pc = "idle" /\ faults' = faults + 1
          /\ \A q \in Requests : q # r => req'[q] = req[q]
          /\ UNCHANGED <<status, task, mails>>
      BY <1>2, FinishIs DEF RequestFails, Fault
    <2>2. \A m \in Lessons, k \in Kinds : Will(m, k)' \in SUBSET Will(m, k)
      BY <2>1, WillShrinks
    <2>3. Fresh'
      BY <2>1 DEF Fresh
    <2> QED BY <2>1, <2>2, <2>3, BudgetRequests
  <1>3. ASSUME NEW l \in Lessons, Confirm(l) PROVE Fresh' /\ Budget'
    <2>1. UNCHANGED <<task, mails, req, faults>> /\ status' = [status EXCEPT ![l] = "confirmed"]
      BY <1>3 DEF Confirm
    <2>2. Fresh'
      BY <2>1 DEF Fresh, TypeOK
    <2> QED BY <2>1, <2>2 DEF Budget, Will
  <1>4. ASSUME NEW l \in Lessons, TimePasses(l) PROVE Fresh' /\ Budget'
    BY <1>4 DEF TimePasses, Fresh, Budget, Will
  <1>5. CASE UNCHANGED vars
    BY <1>5 DEF vars, Fresh, Budget, Will
  <1>6. ASSUME NEW r \in Requests,
               Enqueue(r) \/ Settle(r) \/ Delete(r) \/ \E l \in Lessons : Begin(r, l)
        PROVE  Fresh' /\ Budget'
    BY <1>6, EnqueueBudget, SettleBudget, DeleteBudget, BeginBudget
  <1>7. ASSUME NEW l \in Lessons, NEW k \in Kinds,
               WorkerStep(l, k) \/ Retry(l, k) \/ Shutdown(l, k)
        PROVE  Fresh' /\ Budget'
    BY <1>7, StartBudget, LoadBudget, SendBudget, FailBudget DEF WorkerStep
  <1> QED BY <1>1, <1>2, <1>3, <1>4, <1>5, <1>6, <1>7 DEF Next, RequestStep

LEMMA InitBudget == Init => Fresh /\ Budget
  <1> SUFFICES ASSUME Init PROVE Fresh /\ Budget
    OBVIOUS
  <1>1. Fresh
    BY DEF Init, Fresh, NoTask, TaskIn
  <1>2. ASSUME NEW l \in Lessons, NEW k \in Kinds, NEW p \in 1..2
        PROVE  mails[l][k][p] + Owes(task[l][k], p) + Cardinality(Will(l, k))
                 <= Cardinality(Requests) + faults
    <2>1. mails[l][k][p] = 0 /\ task[l][k] = NoTask /\ faults = 0
      BY <1>2 DEF Init
    <2>2. Owes(task[l][k], p) = 0
      BY <2>1, NoTaskType, OwesIs DEF NoTask, TaskIn
    <2>3. Will(l, k) \in SUBSET Requests
      BY DEF Will
    <2>4. Cardinality(Will(l, k)) \in Nat /\ Cardinality(Requests) \in Nat
          /\ Cardinality(Will(l, k)) <= Cardinality(Requests)
      BY <2>3, Sizes
    <2> QED BY <2>1, <2>2, <2>4
  <1> QED BY <1>1, <1>2 DEF Budget

LEMMA BudgetIsCause == TypeOK /\ Budget => CopiesHaveCause
  <1> SUFFICES ASSUME TypeOK, Budget, NEW l \in Lessons, NEW k \in Kinds, NEW p \in 1..2
               PROVE  mails[l][k][p] <= Cardinality(Requests) + faults
    BY DEF CopiesHaveCause
  <1>1. mails[l][k][p] \in Nat /\ faults \in Nat /\ task[l][k] \in Task
    BY RemindersAssumption DEF TypeOK
  <1>2. Owes(task[l][k], p) \in 0..1
    BY <1>1, OwesIs
  <1>3. Will(l, k) \in SUBSET Requests
    BY DEF Will
  <1>4. Cardinality(Will(l, k)) \in Nat /\ Cardinality(Requests) \in Nat
    BY <1>3, Sizes
  <1> QED BY <1>1, <1>2, <1>4 DEF Budget

\* A recipient gets a reminder once for every Pay that was under way when the booking was
\* confirmed, and once more for every failure.
THEOREM CopiesHaveCauseHolds == Spec => []CopiesHaveCause
  <1>1. Init => Fresh /\ Budget
    BY InitBudget
  <1>2. TypeOK /\ TypeOK' /\ (Fresh /\ Budget) /\ [Next]_vars => (Fresh /\ Budget)'
    BY StepBudget
  <1>3. TypeOK /\ Fresh /\ Budget => CopiesHaveCause
    BY BudgetIsCause
  <1> QED BY <1>1, <1>2, <1>3, TypeCorrect, PTL DEF Spec
==============================================================================
