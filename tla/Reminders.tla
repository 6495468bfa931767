------------------------------ MODULE Reminders ------------------------------
(***************************************************************************)
(* The reminders of lessons: the API schedules and deletes tasks           *)
(* (internal/lessons, called by internal/bookings), the worker runs them   *)
(* (cmd/worker).  The queue is asynq on Redis: a task has an identity, is  *)
(* run from its time on, is put back when its run fails or its worker is   *)
(* lost, and is archived once its retries are spent.                       *)
(***************************************************************************)
EXTENDS Integers, FiniteSets

CONSTANTS
  Lessons,
  Requests,    \* goroutines that pay, cancel or report a no-show
  Recipients,  \* how many of student and teacher have an address
  MaxRetry,
  MaxFaults    \* bound: failures, lost workers and shutdowns

ASSUME RemindersAssumption ==
  /\ IsFiniteSet(Requests) /\ Recipients \in 0..2 /\ MaxRetry \in Nat /\ MaxFaults \in Nat

VARIABLES
  status,  \* bookings.status; "off" is completed or cancelled
  clock,   \* 0: more than a day before the lesson, 1: a day or less, 2: less, or past
  task,    \* the queue: the task of each lesson and kind, if any
  mails,   \* reminders that left, for each lesson, kind and recipient
  req,     \* what each request has still to do
  faults

vars == <<status, clock, task, mails, req, faults>>

\* reminderOffsets: reminder 1 is due a day before the lesson, 2 an hour before.
Kinds == 1..2

\* "waiting" is scheduled, pending or up for a retry; "loading" and "sending" are
\* active.  to is the recipient whose turn it is; caught: the lesson was cancelled
\* or completed during this run, after its status was read.
Task == [state : {"none", "waiting", "loading", "sending", "archived"},
         retried : 0..MaxRetry, to : 1..3, caught : BOOLEAN]

\* kind is the reminder to be enqueued or deleted next, now the clock as it was read.
Request == [pc : {"idle", "pay", "schedule", "complete", "cancel", "unschedule"},
            of : Lessons, kind : 1..2, now : 0..2]

TypeOK ==
  /\ status \in [Lessons -> {"pending_payment", "confirmed", "off"}]
  /\ clock \in [Lessons -> 0..2]
  /\ task \in [Lessons -> [Kinds -> Task]]
  /\ mails \in [Lessons -> [Kinds -> [1..2 -> Nat]]]
  /\ req \in [Requests -> Request]
  /\ faults \in 0..MaxFaults

TaskIn(state, n) == [state |-> state, retried |-> n, to |-> 1, caught |-> FALSE]
NoTask == TaskIn("none", 0)

Init ==
  /\ status = [l \in Lessons |-> "pending_payment"]
  /\ clock \in [Lessons -> 0..2]
  /\ task = [l \in Lessons |-> [k \in Kinds |-> NoTask]]
  /\ mails = [l \in Lessons |-> [k \in Kinds |-> [p \in 1..2 |-> 0]]]
  /\ req \in [Requests -> [pc : {"idle"}, of : Lessons, kind : {1}, now : {0}]]
  /\ faults = 0

Fault == faults < MaxFaults /\ faults' = faults + 1
Active(l, k) == task[l][k].state \in {"loading", "sending"}
Put(l, k, t) == task' = [task EXCEPT ![l][k] = t]

At(r, pc) == req[r].pc = pc
Goto(r, pc, l, k, now) == req' = [req EXCEPT ![r] = [pc |-> pc, of |-> l, kind |-> k, now |-> now]]
Finish(r) == Goto(r, "idle", req[r].of, 1, 0)
-----------------------------------------------------------------------------
(* The API.                                                                 *)

\* Pay has found the booking unpaid, Complete or NoShow has found it confirmed and its
\* time past, a cancel has found it neither completed nor cancelled.  NoShow is a
\* "cancel", for either party: it sets a final status and deletes the tasks.
Begin(r, l) ==
  /\ At(r, "idle")
  /\ \/ status[l] = "pending_payment" /\ Goto(r, "pay", l, 1, 0)
     \/ status[l] = "confirmed" /\ clock[l] = 2 /\ Goto(r, "complete", l, 1, 0)
     \/ status[l] \in {"pending_payment", "confirmed"} /\ Goto(r, "cancel", l, 1, 0)
  /\ UNCHANGED <<status, clock, task, mails, faults>>

\* The payment event that confirms a booking.
Confirm(l) ==
  /\ status[l] = "pending_payment"
  /\ status' = [status EXCEPT ![l] = "confirmed"]
  /\ UNCHANGED <<clock, task, mails, req, faults>>

\* The read of Pay after Authorize; Schedule reads the clock once.
PayReads(r) ==
  /\ At(r, "pay")
  /\ LET l == req[r].of IN
       IF status[l] = "confirmed" THEN Goto(r, "schedule", l, 1, clock[l]) ELSE Finish(r)
  /\ UNCHANGED <<status, clock, task, mails, faults>>

\* The loop moves on to the next kind, or ends.
NextKind(r) == IF req[r].kind = 2 THEN Finish(r) ELSE req' = [req EXCEPT ![r].kind = 2]

\* A reminder that is due already is skipped.  The task identity is taken as long as
\* the task is in the queue, archived included.
Enqueue(r) ==
  /\ At(r, "schedule")
  /\ LET l == req[r].of  k == req[r].kind IN
       IF req[r].now < k /\ task[l][k].state = "none"
       THEN Put(l, k, TaskIn("waiting", 0))
       ELSE UNCHANGED task
  /\ NextKind(r)
  /\ UNCHANGED <<status, clock, mails, faults>>

\* SetStatus and Cancel write by id, whatever the status is by now; Complete leaves the
\* tasks in the queue.
Settle(r) ==
  /\ At(r, "complete") \/ At(r, "cancel")
  /\ LET l == req[r].of IN
       /\ status' = [status EXCEPT ![l] = "off"]
       /\ task' = [task EXCEPT ![l] = [k \in Kinds |->
                     [task[l][k] EXCEPT !.caught = task[l][k].state = "sending"]]]
       /\ IF At(r, "complete") THEN Finish(r) ELSE Goto(r, "unschedule", l, 1, 0)
  /\ UNCHANGED <<clock, mails, faults>>

\* An active task cannot be deleted, and the error ends the loop.
Delete(r) ==
  /\ At(r, "unschedule")
  /\ LET l == req[r].of  k == req[r].kind IN
       IF Active(l, k) THEN Finish(r) /\ UNCHANGED task
                       ELSE NextKind(r) /\ Put(l, k, NoTask)
  /\ UNCHANGED <<status, clock, mails, faults>>

\* An error of Redis, a failed read or the end of the process.
RequestFails(r) ==
  /\ ~At(r, "idle") /\ Fault
  /\ Finish(r)
  /\ UNCHANGED <<status, clock, task, mails>>
-----------------------------------------------------------------------------
(* The worker.                                                              *)

Start(l, k) ==
  /\ task[l][k].state = "waiting" /\ clock[l] >= k
  /\ Put(l, k, TaskIn("loading", task[l][k].retried))
  /\ UNCHANGED <<status, clock, mails, req, faults>>

\* Mutant of Load: the status is not looked at.
LoadAny(l, k) ==
  /\ task[l][k].state = "loading"
  /\ Put(l, k, [task[l][k] EXCEPT !.state = "sending"])
  /\ UNCHANGED <<status, clock, mails, req, faults>>

\* Mutant of Load: the task of a booking that is off is put back into the queue.
LoadPutsBack(l, k) ==
  /\ task[l][k].state = "loading"
  /\ Put(l, k, [task[l][k] EXCEPT !.state = IF status[l] = "confirmed" THEN "sending" ELSE "waiting"])
  /\ UNCHANGED <<status, clock, mails, req, faults>>

\* handleLessonReminder loads the booking: done, unless it is still confirmed.
Load(l, k) ==
  /\ task[l][k].state = "loading"
  /\ Put(l, k, IF status[l] = "confirmed" THEN [task[l][k] EXCEPT !.state = "sending"] ELSE NoTask)
  /\ UNCHANGED <<status, clock, mails, req, faults>>

\* Mutant of Send: the task is not taken off the queue when its run has ended.
SendForgotten(l, k) ==
  /\ task[l][k].state = "sending"
  /\ LET p == task[l][k].to IN
       IF p <= Recipients
       THEN /\ mails' = [mails EXCEPT ![l][k][p] = @ + 1]
            /\ Put(l, k, [task[l][k] EXCEPT !.to = @ + 1])
       ELSE Put(l, k, TaskIn("waiting", 0)) /\ UNCHANGED mails
  /\ UNCHANGED <<status, clock, req, faults>>

\* Mutant of Send: the run ends with the first mail.
SendOne(l, k) ==
  /\ task[l][k].state = "sending"
  /\ mails' = [mails EXCEPT ![l][k][1] = @ + 1]
  /\ Put(l, k, NoTask)
  /\ UNCHANGED <<status, clock, req, faults>>

\* One mail after the other, then the run has succeeded and the task is gone.
Send(l, k) ==
  /\ task[l][k].state = "sending"
  /\ LET p == task[l][k].to IN
       IF p <= Recipients
       THEN /\ mails' = [mails EXCEPT ![l][k][p] = @ + 1]
            /\ Put(l, k, [task[l][k] EXCEPT !.to = @ + 1])
       ELSE Put(l, k, NoTask) /\ UNCHANGED mails
  /\ UNCHANGED <<status, clock, req, faults>>

\* A failed load or mail, or a worker that is lost: from the start, or never again.
Retry(l, k) ==
  /\ Active(l, k) /\ Fault
  /\ LET n == task[l][k].retried IN
       Put(l, k, IF n < MaxRetry THEN TaskIn("waiting", n + 1)
                                 ELSE TaskIn("archived", n))
  /\ UNCHANGED <<status, clock, mails, req>>

\* srv.Shutdown gives up on the runs that do not end in time; that is no retry.
Shutdown(l, k) ==
  /\ Active(l, k) /\ Fault
  /\ Put(l, k, TaskIn("waiting", task[l][k].retried))
  /\ UNCHANGED <<status, clock, mails, req>>

TimePasses(l) ==
  /\ clock[l] < 2
  /\ clock' = [clock EXCEPT ![l] = @ + 1]
  /\ UNCHANGED <<status, task, mails, req, faults>>

RequestStep(r) == PayReads(r) \/ Enqueue(r) \/ Settle(r) \/ Delete(r)
WorkerStep(l, k) == Start(l, k) \/ Load(l, k) \/ Send(l, k)

Next ==
  \/ \E r \in Requests : RequestStep(r) \/ RequestFails(r) \/ \E l \in Lessons : Begin(r, l)
  \/ \E l \in Lessons : \/ Confirm(l) \/ TimePasses(l)
                        \/ \E k \in Kinds : WorkerStep(l, k) \/ Retry(l, k) \/ Shutdown(l, k)

Spec == Init /\ [][Next]_vars

\* A request goes on, time passes, and a worker runs what is due.
Fairness ==
  /\ \A r \in Requests : WF_vars(RequestStep(r))
  /\ \A l \in Lessons : WF_vars(TimePasses(l)) /\ \A k \in Kinds : WF_vars(WorkerStep(l, k))

FairSpec == Spec /\ Fairness
-----------------------------------------------------------------------------
\* The handler mails "only if it is still confirmed": whatever tasks a failed delete,
\* an active task or a late Pay left behind, no run that reads the booking after its
\* cancellation or completion mails anybody.
NoMailFromLaterRun ==
  \A l \in Lessons, k \in Kinds :
    task[l][k].state = "sending" /\ status[l] # "confirmed" => task[l][k].caught

\* The reminder tasks of a lesson that is off leave the queue for good, though the
\* deletion may fail, stop at an active task, or come before the enqueue.
OffDrainsQueue ==
  \A l \in Lessons :
    status[l] = "off" ~> [](\A k \in Kinds : task[l][k].state \in {"none", "archived"})

\* handleLessonReminder: "A send error is returned so asynq retries".  A reminder in the
\* queue reaches student and teacher, unless its retries are spent or the lesson is off.
ReminderArrives ==
  \A l \in Lessons, k \in Kinds :
    task[l][k].state = "waiting" ~>
      \/ \A p \in 1..Recipients : mails[l][k][p] > 0
      \/ task[l][k].state = "archived" /\ task[l][k].retried = MaxRetry
      \/ status[l] # "confirmed"

\* "A re-schedule is idempotent", and the queue runs a task again after a failure only:
\* a recipient gets a reminder once for every Pay that was under way when the booking
\* was confirmed, and once more for every failure.
CopiesHaveCause ==
  \A l \in Lessons, k \in Kinds, p \in 1..2 : mails[l][k][p] <= Cardinality(Requests) + faults
==============================================================================
