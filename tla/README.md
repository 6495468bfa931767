# A verification of the tutor marketplace backend

This directory holds TLA+ models of the Go backend (`src/backend`), the TLC
configurations that check them on small instances, and TLAPS proofs of what
matters most for every instance. It is kept beside the code: every definition
is translated from a source range listed in `PROJECT.json` under `map`.

Contents: [the system](#1-the-system), [the plan](#2-the-plan),
[modules and code](#3-modules-and-the-code-they-model),
[runs](#4-what-the-runs-check), [fairness](#5-fairness-and-deadlock),
[proofs](#6-what-is-proved), [disagreements](#7-where-code-and-documents-disagree),
[limits](#8-what-is-not-modelled-and-why).

## 1. The system

One API process (gin handlers, one goroutine for each request), one PostgreSQL
database, Redis with an asynq worker for reminders, and a payment provider that
at present lives in the API process (`FakeProvider`). The repositories run
their statements in autocommit, on a pool: **apart from a handful of
transactions every statement commits on its own**, at READ COMMITTED, and two
requests interleave between any two statements. Almost all that is hard here
comes from that, and a unit test over an in-memory repository does not see it.

| Component | State | Operations | What makes it correct |
|---|---|---|---|
| Booking lifecycle (`bookings/service.go`) | `bookings.status`, `no_show_party`, `cancelled_by` | Create, Pay, Complete, NoShow, Cancel, AdminForceCancel, AdminRefund, SetMeetingLink | a lesson is taught only if paid, a cancelled lesson holds no money, nothing returns to an earlier state |
| Payments (`payments/`) | `payments`, `payment_events` | InitiatePayment, Authorize, Capture, Refund, ApplyEvent, webhook | every event is applied once, the payment row and the ledger row tell one story |
| Provider (`payments/fake_provider.go`) | a sequence and three maps, in memory | Authorize, Capture, Refund | a reference belongs to one payment, also after a restart |
| Payouts (`payouts/`) | `payout_ledger`, `payout_batches` | Run, clearing | an earning is paid once, after clearing, and never both paid and given back |
| Disputes (`disputes/`) | `disputes` | Raise, Resolve as a rejection or with a refund | a refund is decided once, and the money follows |
| Slots and calendar (`bookings/bookings.go`, `Create`) | `bookings`, exclusion constraints | Slots, Create | nobody is in two lessons at once, and what is listed is what may be booked |
| Weekly availability (`availability/`) | `teacher_availability_slots` | Replace | the stored week is valid, and the one that was sent |
| Accounts and sessions (`auth/`) | `users`, `sessions`, `auth_tokens` | Register, Login, Refresh, Logout, reset, verify | a refresh token works once, a reset ends every session that no request is about to store |
| Reviews (`reviews/`) | `reviews`, `teachers.rating`, `review_count` | Create, Hide, Unhide, Remove | the cached rating is that of the visible reviews, unless its reading was overtaken |
| Reminders (`lessons/`, `cmd/worker`) | the asynq queue | Schedule, Cancel, the worker's runs, retries, shutdown | a lesson that is off mails nobody, a confirmed one mails each participant |
| Roles (`rbac/`) | `roles`, `role_permissions`, `user_roles` | Create, Update, Delete, Assign, Unassign | a role's permissions are a set somebody sent, a deletion takes no assignment it could have seen, a role that is gone grants nothing |
| Teacher profiles and moderation (`teachers/`, `admin/`) | `teachers` and its child tables | Create, Update, Approve, Reject, Suspend, SetVerified | an account gets no second profile unless its creations overlap, decisions follow the life cycle, an edit touches the fields it was given |
| Resources and files (`resources/`, `files/`) | `resources`, `file_assets`, blobs | Upload; Create, Update, SetPublished, SetArchived, Delete | no row without its bytes, no stored question that cannot be graded |
| Paged lists (nine queries) | none of their own; the walk of a client | the SELECT and the count of each list | a walk shows every row of the list once |
| Lesson page and operator's page (`bookings/handler.go`, `admin/`, `booking-detail.tsx`) | what a page has read | Get, List, GetBookingDetail, the buttons | a button that is offered is granted, one that is not offered is refused, as far as the page asks |

How they meet: `bookings` calls `payments` through a gateway and `payments`
writes `bookings.status` and `payout_ledger` inside ApplyEvent; `payouts`
settles rows that ApplyEvent may be reversing; `disputes` calls
`bookings.AdminRefund`; Create reads what `availability` replaces; Pay and
Cancel add and delete tasks that the worker runs later; `reviews` and
`disputes` read a booking's status before they insert; `resources` names files by
ids that no foreign key follows; the guard of every admin endpoint reads what
`rbac` writes; lists and pages read everything, in several statements.

The hazards are listed in `PROJECT.json` at their lines, each with the
properties that would catch it, or with a note why none does.

## 2. The plan

In this order, the most consequential first.

| | Modules | Composition | State |
|---|---|---|---|
| 1 | `EarningsPromise`, `LessonMoney`, `LessonMoneyClaims`, `LessonMoneyProofs` | bookings x payments x provider x ledger x disputes; refines EarningsPromise | done |
| 2 | `PayoutRuns`, `PagesProofs` (its first part) | payouts x webhook at the grain of row locks; refines EarningsPromise | done |
| 3 | `SlotGrid`, `BookingCalendar`, `BookingCalendarProofs` | slots x Create x constraints x availability | done |
| 4 | `Sessions`, `SessionsProofs` | refresh chain x logout x reset x mailed links | done |
| 5 | `TeacherRating`, `TeacherRatingProofs` | review writes x moderation x the cached aggregate | done |
| 6 | `Reminders`, `RemindersProofs` | queue and worker x booking status, with retries and shutdowns | done |
| 7 | `Roles`, `RolesProofs`; `Profiles`, `ProfilesProofs` | rbac behind its guard; owners x moderators | done |
| 8 | `Uploads`, `ResourceContent`, `Library`, `PagesProofs` | uploads in two stores x resources that name files, unchecked | done |
| 9 | `Listings`, `PageOffers`, `PagesProofs` | the read side: what the writes above look like to a client | done |

Every safety property that a run checks is proved (section 6). Theorems still worth stating: that the
transactions of `PayoutRuns`, and the calls of `Roles`, never wait for each other in a circle, which
TLC checks as the absence of deadlocks. That PayoutRuns' commit is the payout step of LessonMoney
needs no theorem of its own: both implement `Settle` of `EarningsPromise`, which says what that step does.

## 3. Modules and the code they model

**`EarningsPromise`** is the abstract specification: one variable, the state of
a lesson's earning as the teacher sees it. It is credited at most once, matures,
and leaves by being paid or reversed, once. It knows nothing of payments.

**`LessonMoney`** is the booking lifecycle with all the money behind it. A
handler is a record `req[r]` with a program counter; each step is one statement
or one transaction of the code:

| Code | Actions |
|---|---|
| `Create` + `InitiatePayment` | `CreateBooking`, `InitiatePayment`, `InitiatePaymentFails` |
| `Pay` + `Authorize` | `StartPay`, `ReadForAuthorize`, `Decline` or `PlaceHold`, `Authorized`, `ReadAfterPay`, `ScheduleReminders` |
| `Complete` | `StartComplete`, `ReadForCapture`, `Capture` or `CaptureFails`, `SetCompleted` |
| `NoShow` | `StartNoShow`, the capture or the cancel path, with `SetNoShowParty` |
| `Cancel`, `AdminForceCancel`, `doCancel` | `StartCancel`, `CancelRow`, `ReadForRefund`, `VoidIntent` or `RefundHold` or `RefundFails`, `CancelReminders` |
| disputes | `RaiseDispute`, `CloseDispute`, `ResolveWithRefund` and the refund path |
| `ApplyEvent` | the operator `ApplyEvent`, inside the actions that emit an event, and `Redeliver` |
| payout run, clearing, clock, restart, dying request | `PayoutRun`, `ClearingPasses`, `TimePasses`, `Restart`, `Abort` |

The guards are those the code has and no more: `SetCompleted` and `CancelRow`
do not look at the status again, `ApplyEvent` confirms a booking only while it
is pending, and nothing checks the payment's own status. Identity of an event is
`SameId`, as `eventID` builds it. Who may call what (student, owner, permission)
does not change the state and is left out.

**`PayoutRuns`** takes apart the two transactions that `LessonMoney` has as one
step each. A run's scan (`StartRun`), its row locks one at a time with SKIP
LOCKED (`TakeRow`), the sum and the commit; ApplyEvent's insert of the event id,
which waits for an open insert of the same id, its lock on the payments row, and
its lock on the ledger row, which waits for a run. Writes are placed at the
commit, since nobody sees them earlier; a lock is derived from where the
transactions are. Both may fail anywhere and are rolled back. This is what
entitles `LessonMoney` to take a run as one step on *some* of the payable rows.

**`SlotGrid`** is the slot arithmetic as operators: `ProjectSpans`,
`MergeIntervals` (a fold of `Extend` in order of the starts: a span that overlaps or touches the
last window extends it, or is inside it), `GenerateSlots`,
`IsBookableStart`. Time is in ticks of 15 minutes, and the lengths of a day, a
week and the slot step are constants. Its reference definition `FreeStarts`
speaks of single ticks and knows no windows.

**`BookingCalendar`** runs Create against the database: the read of the week,
the read of the booked intervals with the decision, and the INSERT under the
exclusion constraints (`Excluded`); cancellations and late completions, which
write by id whatever the row has become; and Replace of the weekly set
(`StartReplace`, `CommitReplace`), whose DELETE removes the rows that it saw
and not those committed since. Several weekly rows with equal spans cannot be
live together, so rows are told apart by value: what a commit deletes leaves
the set `sees` of every other open replacement. A lesson is
"booked" from pending_payment to confirmed, which no calendar decision tells apart.

**`Sessions`** is the accounts package. A request is a record `req[r]` as in
`LessonMoney`: Refresh reads (`Refresh`), inserts the next session (`OpenNext`) and
revokes the old one (`Rotate`), or ends in `Sweep` on a revoked session and in
`Drop` on an expired one; a mail request invalidates (`ConsumeLinks`) and stores
(`StoreLink`) in two statements; redeeming a link reads it (`ResetPassword`,
`VerifyEmail`) before its transaction (`Redeem`, `Confirm`). Those two
transactions are one step each: they consist of UPDATEs that depend on nothing
read before, and what they write is guarded by nothing else in between. `Dies` ends
a request after any statement, and `Faults` names the statements whose error the
code drops or survives: the cooldown's and the link's reads, the invalidation,
the insert of a link. `given` says whether the answer with a token reached its client, and
revocation and consumption
hide an expiry, as no branch looks at it then. A password is a number, that of the resets
before it. `ended`, a history field, is how many links a mail request has consumed before it stores its own.

`Overlap` is about the clients of one login, and nothing else. The browser client shares its refresh in flight
(`features/auth/browser-client.ts`) and so presents a token once at a time; two
tabs are two such clients. With `Overlap = FALSE` a client waits for the answer,
which may never come: then its request dies or its answer is lost and it presents the
same token again. Different logins, and any number of requests on one link or for one
mailbox, interleave freely in both.

**`TeacherRating`** is the reviews of one teacher. Every write is a transaction: the
review (`Insert`, or `Find` before it and `Change`), then the recomputation. The recomputation
is one statement, and still two steps: `Read` takes the sum from the statement's snapshot,
`Store` comes later, when the teacher's row is
free, with the sum it has. Store and commit are one step. A review row is
locked from the statement that wrote it to the commit (`Locked`); what is written but not
committed only its author sees (`With`). `Rollback` may come at any point. The ghosts `late`
and `overtaken` say that another transaction committed between reading and store.

**`Reminders`** has the API's side (`Begin`, `Confirm`, `PayReads`, `Enqueue`, `Settle`, `Delete`,
`RequestFails`) and the worker's (`Start`, `Load`, `Send`, `Retry`, `Shutdown`). A task is
waiting, loading its booking, sending its mails one after the other, or archived once
its retries are spent; its identity is taken as long as it is in the queue,
and an active task cannot be deleted. asynq is external and modelled from its use. The
ghost `caught` marks a run whose booking was settled after it had read it.

**`Roles`** takes a call through the guard's two reads (`Ask`, `Permit`), the read of the role
(`Find`), and what it writes: `Create`; `Count` and `Delete`, which waits for the row
and cascades; `Lock`, `Clear` and `Write`, the transaction of UpdateRole, whose
first statement holds the role's row and whose DELETE removes the rows of its snapshot;
`Grant` and `Revoke`, with the foreign key. `Stop` ends a call anywhere. The ghost `late` is who
got the role since the holders were counted.

**`Profiles`** is what owners and moderators do with a profile: `Check`, `Name`, `Insert` for
Create; `Own`, `Merge`, `Save` for Update; `Decide` and `SetStatus` for the three decisions;
`SetVerified`; `Stop`. All of them read outside the transaction that writes. The ghost `late`
says that somebody wrote in between.

**`Uploads`** is an upload over its two stores: `Put`, `Record`, `Undo`, each with its failure, the
death of the process in between, and an INSERT that comes back as an error and
was committed all the same. **`ResourceContent`** is the validation and
normalisation of a resource's content as operators on records: `ContentOK`
is what is accepted, `StripTo` what is stored, `NormalQuestion` fills in, trims and
de-duplicates the ids of choices and the answers. Loops that append what passes a test are
selections by position (`At`), about which lemmas can be proved. `Texts` are the strings that occur and
`NewIds` the ids uuid.NewString would return; that they are not empty and suffice for the
choices without an id is assumed (`TextsAssumption`, `RawsAssumption`). **`Library`** composes the two. A
content may name any file id, as the server looks none up; the id of an upload still to come
stands for one that nobody has.
A write of the library is one UPDATE by id and what is read before it never
changes, so each of its five operations is one step.

**`Listings`** is the nine lists with LIMIT and OFFSET, and a client that walks one of them
from the first page to the last. A page is two statements, the SELECT
(`ListUsers`, ...) and the count (`CountUsers`, ...), and the filter is translated
once from each of them. The client is a pager, which stops at the last page the
total allows, or the "Show more" of the reviews. Between any two statements others
insert, change and delete rows, at most `MaxWrites` times. A transaction has the time it
began, so rows do not arrive in the order of `created_at`. `RowsOf` names the columns a list filters
and sorts by; `CasesAssumption` says that the rows of a walk have them.

**`PageOffers`** is the page of one lesson. It is read in several statements (`GetBooking`,
`ReviewFor`, `OpenDisputeFor`; `GetBookingDetail`, `ListBookingDisputes`), where a lookup that
fails counts as nothing found; `Offered` is what the page's buttons look at, `Passes` what the
handlers check of the row they read. A click is checked (a force-cancel twice). Pay, complete and
the student's no-show then read the payment (`ReadPayment`), which may refuse them, and ask the provider
(`AskProvider`), who may decline; last comes the write (`Confirm`, `SetStatus`, `SetMeetingLink`,
`CreateReview`, `CreateDispute`). A lesson starts with any payment its status can have
(`MoneyOf`), and other requests move it on (`MovesOn`). `Breaks` is a failing database
anywhere. The ghosts `changed` and `blind` say what may excuse a refusal. The order of
the statements behind a payment is `LessonMoney`'s.

**`LessonMoneyClaims`** states what comments and documents say and the code
does not keep. The modules **`MC...`** hold the constants and symmetries of the runs.
**`MCPages`** puts `Library`, `Listings` and `PageOffers` side by side: three machines
that share no state, of which one runs and the others rest, so that one run
of TLC goes through all three. Operators named as a mutant in their
comment are alternatives that a run must refute; no specification uses them.

## 4. What the runs check

| Run | Instance | Shows |
|---|---|---|
| `money_races` | 1 booking, 2 handlers, 2 references, all faults, 1 restart | MoneyRowsAgree, PaidBeforeTaught, NeverReopened, EventsBackMoney in every interleaving of pay, complete, cancel, force-cancel |
| `money_two_lessons` | 2 bookings, 2 handlers, 2 references, payouts, no restart | CompletedIsCaptured, RefReachesItsPayment, KeepsEarningsPromise |
| `money_serial` | 1 booking, 1 handler, every operation but force-cancel without refund | SettledAgree, CancelReleasesHold |
| `payout_runs` | 2 lessons, 2 runs, 2 webhooks, 2 batches | BatchTotalsAddUp, RefundedIsNotOwed, KeepsEarningsPromise, EveryTransactionEnds |
| `calendar_races` | 2 teachers, 2 students, 2 lessons, 2 handlers, days of 4 ticks, weeks of 2 days | NoDoubleBooking, StoredWeekIsValid, ListsExactlyFreeTime |
| `sessions` | 1 account, 2 requests, up to 3 sessions and 3 links, 4 rows together, dropped errors of reads, of the invalidation and of the link's insert, `Overlap = FALSE` | OneUsableTokenPerLogin, ReuseEndsTheChain, OnlyUnseenLinksStay, LinkEndsWithItsUse, ResetEndsSettledLogins, ToldIsVerified |
| `ratings` | 2 writers, 2 lessons, 1 and 5 stars, 3 rows, a baseline and a sample review | ExactUnlessOvertaken, CountsEachLessonOnce, RemovedStaysRemoved |
| `reminders` | 1 lesson, 2 kinds, 2 requests, 2 recipients, 1 retry, 2 faults | NoMailFromLaterRun, CopiesHaveCause, OffDrainsQueue, ReminderArrives |
| `roles` | 2 calls, 2 users, 2 roles, 2 permission sets | WholePermissionSets, DeletionTakesLateGrantsOnly, GoneGrantsNothing |
| `profiles` | 2 requests, 1 account, 2 slugs, a scalar and a list field, 2 values | ProfilesWithinOverlap, LifecycleUnlessOvertaken, PatchTouchesOnlyItsFields |
| `library` | 2 files, 1 resource, contents of every type; tables of 3 rows, pages of 1 and 2, 2 writes; every status and payment of a lesson, 1 write beside the page | RowHasItsBytes, StoredQuestionsCanBeGraded, SavingAgainChangesNothing; WalkShowsTheList; OffersAreKept |
| `money_cancel_hold` | 1 booking, 2 handlers | a counterexample to CancelledHoldsNoMoney, see section 7 |

No run checks the type invariants: they are proved for every instance (section 6); those of the
modules of the run `library` are the first conjuncts of the invariants `UploadsInv`, `ResourcesInv`,
`WalkInv` and `OffersInv` in `PagesProofs`.

Why the bounds are enough. The races are between two requests: every wrong
outcome we know of needs one handler stopped between a read and its write while
another one runs, and two handlers with a pool of two reuse their slots for as
many requests as the bounds let happen. Two references allow a second hold on
one booking, and one on each of two. One restart suffices to hand a reference out
again. `MaxBatches = 2` never blocks a commit, as a batch has at least one row
and there are two. In `calendar_races` a lesson of two steps and one in each of
its halves give touching, nested and equal intervals; a day of two slots makes
every window either end or continue at a midnight; the two weekly sets collide
without sharing a start, and both cross a midnight; the clock stops at
`Horizon = 2`, after the start of the first lessons. `Asked` bounds what students ask for, and
`MaxRef`, `MaxRestarts`, `MaxBatches`, `Horizon` are the only other bounds.
In `sessions` three rows hold a login with two rotations, or a rotation beside a second
login, and three links are an older and a newer one of a purpose with one of the other, or
three of one; `MaxRows` bounds both together, so that three of one kind meet one of the other.
`Room` starts a request that inserts a session only while there is room for it. No statement reads or writes rows of two
accounts, so one account is enough.
In `ratings` three rows are a review, one that is written again for the same lesson
after a removal, and one of another lesson or the sample; the rating never depends on
who wrote. In `reminders` two faults are a failed request and a failed run, or a run that
fails until it is archived. In `roles` the second role is one that is recreated after a
deletion, and each set allows one half of the endpoints, so a caller can lose
a permission while its call runs. In `profiles` one account suffices, as the rows of two never
meet; moderators have no identity. In `library` two files let a resource exchange one for the
other, uploads share nothing, no write of one resource reads another, and the contents cover every branch of the validation. A walk over three rows with
pages of one has three pages, each with two gaps to write in; rows tie in their mark
and differ in what the filters look at; `MaxPage` is beyond the last page two writes can
make. Besides the page's own request one write suffices to change anything it has read.

What is checked and is not obvious:

- **MoneyRowsAgree**: one transaction writes both rows,
  but capture and refund arrive in either order, twice, or after a payout.
- **RefundedIsNotOwed**: the refund's write waits for rows that a run holds and must not
  skip them; and a redelivered capture must not undo it. It says which event does
  undo it, a capture processed for the first time: that is entry 2 of section 7.
- **PaidBeforeTaught**: evidence of a hold for *this* booking, though completion
  is written by a handler that read "confirmed" long ago and captures by a reference.
- **CompletedIsCaptured**, **RefReachesItsPayment** hold while the process lives and fail
  after a restart.
- **BatchTotalsAddUp**: two operators, one row, SKIP LOCKED, rollbacks.
- **NoDoubleBooking**: also when a no-show completes a booking that was cancelled
  in between and whose time has been given away.
- **ListsExactlyFreeTime**: for weeks on the half-hour grid. Off that grid the code
  departs from it, which is what the config `BookingCalendar_drift.cfg` shows.
- **OneUsableTokenPerLogin**, **ReuseEndsTheChain**: the next session exists before the
  old one is revoked, the answer may be lost, and a retry looks like reuse.
- **OnlyUnseenLinksStay**, **LinkEndsWithItsUse**, **ResetEndsSettledLogins**: nothing
  serialises mail requests, redemptions or resets, and the error of the invalidation is dropped. The
  strict claims (`OnlyNewestLinkWorks`, `LinkWorksOnce`, `ResetEndsOlderSessions`) therefore fail,
  which three configs show; these three say how far the failure goes: an older link stays
  only where the newer one's UPDATE could not have seen it or failed, no request that comes after a
  use redeems the link again, and a reset leaves fewer logins than there are other requests
  under way, whatever number of logins there was.
- **ToldIsVerified**: a dead link may still be answered with yes, and may have died
  because a newer one was mailed.
- **ExactUnlessOvertaken**, **CountsEachLessonOnce**: the cache is rebuilt from a snapshot that
  another transaction may overtake; nothing else makes it wrong, and whatever it was, the next
  undisturbed write repairs it.
- **NoMailFromLaterRun**, **OffDrainsQueue**: tasks may be left behind by a failed delete, by an
  active task, or by a Pay that enqueues after the Cancel; the run's own read protects.
- **CopiesHaveCause**, **ReminderArrives**: at least once, and not more often than that takes.
- **WholePermissionSets**: the second update's DELETE does not see the rows of the first, and only
  the lock on a row that neither needs to change keeps them from mixing.
- **DeletionTakesLateGrantsOnly**, **GoneGrantsNothing**: the check and the deletion are apart,
  and calls go on with the id of a role that is gone.
- **ProfilesWithinOverlap**: the sources say one profile for each account and no constraint does. It counts
  profiles and creations under way together: a second profile takes a second creation that
  passed the check while there was none, and afterwards none passes.
- **LifecycleUnlessOvertaken**, **PatchTouchesOnlyItsFields**: what
  the code promises without a constraint, and exactly which overlaps break it.
- **StoredQuestionsCanBeGraded**, **SavingAgainChangesNothing**: answers are matched against
  ids that are filled in, trimmed and de-duplicated on the way, and the editor sends back what it got.
- **RowHasItsBytes**: over a cleanup that follows an INSERT of unknown outcome; a file whose id was
  answered is there, row and bytes. That a resource names such a file is checked nowhere.
- **WalkShowsTheList**: a filter written out twice, nine orders that have to be total, and
  writes between the statements: no more rows slip than moved.
- **OffersAreKept**: two pieces of code decide the same question at two times, and the
  page does not ask about the payment. Apart from what changed meanwhile, it names the two payments
  for which an offered button is refused; the same without them fails (`Pages_offers.cfg`).
- **SettledAgree**, **CancelReleasesHold** hold only if requests run one after the
  other; `money_cancel_hold` shows what two may do.

## 5. Fairness and deadlock

`LessonMoney!FairSpec` has weak fairness of `Step(r)`: a goroutine that was
started goes on running, and none of its steps waits for another one. Nothing is
assumed of callers, of the clock or of faults. `PayoutRuns!FairSpec` has weak
fairness of a run's steps, which never wait thanks to SKIP LOCKED, and strong
fairness of a webhook's steps: it waits for the payments row, the event id and a
ledger row, and PostgreSQL's lock queue serves waiters in their turn, so a lock
that is free again and again is eventually granted. `Reminders!FairSpec`
has weak fairness of a request's steps, of the clock, and of the worker's steps for each
task: the worker polls the queue and runs what is due, and no step of it waits for another one.
Failures, lost workers and shutdowns are never forced, and there are at most `MaxFaults`
of them: a queue that fails for ever promises nothing. The other modules state no liveness
and assume no fairness.

`CHECK_DEADLOCK FALSE` is set where the system may really stop: all bookings are
final and no reference is left, the clock has reached its bound with every
row used, every session, link or review row of the bound is spent, the lesson is off and its
queue drained, or the walk is over. `payout_runs` checks deadlock: webhooks can always be
delivered again, and no two transactions wait for each other. So do `roles`, where
UpdateRole's lock is waited for, and `profiles`.

## 6. What is proved

For all values of the constants, under the named assumptions
(`ConstantsAssumption`, `GridAssumption`, `CalendarAssumption`, `SessionsAssumption`,
`RatingAssumption`, `RemindersAssumption`, `RolesAssumption`, `ProfilesAssumption`,
`TextsAssumption`, `RawsAssumption`, `CasesAssumption`: bounds are
naturals, "nobody" is no id, stars are 1 to 5, weekly sets are ones that
`validateSlots` accepts, a content has all its fields, a row has the columns of its list,
the default page size is one that is allowed).

| Theorem | Argument |
|---|---|
| `LessonMoneyProofs!TypeCorrect` | inductive with `Serving`: a handler in flight has a booking |
| `MoneyRowsAlwaysAgree` | every change of the three tables is one `MoneyMove`, and the property is inductive under it |
| `EventsAlwaysBackMoney` | the same, as an action property |
| `NeverReopenedHolds` | the status moves in four ways only, and only one of them confirms |
| `PaidBeforeTaughtHolds` | inductive with `CompletingIsPaid`: a handler on its way to `SetCompleted` has read "confirmed", so the evidence exists, and events are never deleted |
| `RefReachesItsPaymentHolds` (until the first restart) | `RefsInv`: wherever a reference is, in a payment, a handler or an event, it has been handed out and the provider's map has the booking it came with |
| `CompletedIsCapturedHolds` (until the first restart) | inductive with `CompletingIsCaptured`; a capture that meets an event of its reference meets that of its own payment, by `RefsInv` |
| `LedgerKeepsPromise` | step simulation with `ClearedIsCredited` |
| `SettledAgreeHolds` (`OneAtATime`: one request at a time, `Faults = {}`, no force-cancel that keeps the money; until the first restart) | `SettledInv`: a booking that no request serves rests (`Rests`: status, payment, no-show flag and reminder agree); for the served one, how far the request has come says which rows it has written (`Serves`); and the event it is about to send has not been sent before (`Fresh`), so it does move the money |
| `PagesProofs!TypeCorrect`, `BatchTotalsHold`, `RefundedIsNotOwedHolds`, `RunsKeepPromise` | one invariant `IInv`: who holds a payments row or a ledger row is unique, and a row that a run has locked stays payable until it commits; without it the sum and the marking could differ. That a refund after the capture is final needs `EventLock`: the event of an open transaction is not processed yet, and no other open transaction has it |
| `BookingCalendarProofs!TypeCorrect` | inductive with `MovesRealLesson` |
| `NoDoubleBookingHolds` | every write of a lesson that is live afterwards passed `Excluded`; overlap is symmetric |
| `StoredWeekIsValidHolds` | rows kept are part of a valid week, rows sent make one, and they do not collide |
| `SlotsAreFreeStarts` | an equation between operators, for every grid, week, diary and window. The fold of `Extend` has the equation of a loop (`FoldEquation`); by induction over finite sets the windows cover exactly what the spans cover, do not touch, and begin where a span begins (`MergedAreWindows`), so that a run of offered ticks lies in one window and the grid of a window is the grid of the day |
| `ListsExactlyFreeTimeHolds`, `ListIsTheRecheckHolds` | the equation, with `LessonsTakeTime`: a lesson ends after it starts, so its interval is one; a free start is free in whatever window it is sought |
| `SessionsProofs!TypeCorrect` | inductive with `RefsOK`: what a request refers to exists |
| `OneUsableTokenHolds`, `ReuseEndsTheChainHolds` (for `Overlap = FALSE`) | one invariant `ChainOK`: a login has at most one request at its sessions, and while that is a refresh the login was not caught and no token of it works but the presented one; without it the row created before the old one is revoked could be a second |
| `OnlyUnseenLinksStayHolds`, `LinkEndsWithItsUseHolds` (any overlap, any faults) | `LinksOK`: what a request has consumed before it stores its link does not work; a used link is consumed, and its uses and the requests about to use it are together at most the requests |
| `ResetEndsSettledLoginsHolds` (any overlap, any faults) | `StandingOK`: the logins with an older password, those that have a row and those about to get their first, are fewer than the requests; a reset leaves only those that other requests are about to go on with, and a refresh puts a row in the place of another |
| `ToldIsVerifiedHolds` | an address once verified stays so, and both branches that answer yes have seen or made it so |
| `TeacherRatingProofs!TypeCorrect`, `OneReviewHolds` | inductive with `RowsInv`: which transaction can have an unfinished row, and that an insert has no rival on its lesson |
| `ExactHolds`, `CountsOnceHolds` | `SeenOK`: what a reading has seen is what is committed and its author's own row, unless it is late; its size is bounded by the lessons, as rows that count have different ones |
| `RemovedHolds` | a write that found its row gone writes nothing |
| `RemindersProofs!TypeCorrect`, `NoMailFromLaterRunHolds` | whoever settles a lesson marks the runs that have read it; a later run reads the status it left |
| `CopiesHaveCauseHolds` | a budget: the mails that left, those the task may still send and those that requests may still schedule are together at most requests and faults |
| `RolesProofs!TypeCorrect`, `WholePermissionSetsHolds` | `OneWriter` and `SeenIsAll`: the holder of a role's row is alone, and what it has deleted is all there is |
| `LateGrantsHolds`, `GoneHolds` | every assignment made after the count is noted at the deletion it may meet; the foreign key keeps rows from a role that has gone |
| `ProfilesProofs!TypeCorrect`, `LifecycleHolds`, `PatchHolds` | one invariant, `Informed`: what a request has read is what the row says, unless it is late |
| `WithinOverlapHolds` | inductive: a creation goes from the requests under way to the profiles, and none starts once there is a profile; the sets are finite (`Few`) |
| `RowHasItsBytesHolds` | `BytesFirst`: the bytes, then the row, then the answer or the deletion, so what a client knows is complete and stays |
| `StoredQuestionsHold`, `SavingAgainHolds` | `Sound`: a stored content has been normalized. `AtSelects` says what a selection by position returns, for every length: counting the positions below each is a bijection (`AtPositions`), by cardinalities and without an induction; `Deduped` and `NamedChoices` follow, and that each normalisation is the identity on its results |
| `WalkShowsTheListHolds` | `WalkInv`, in terms of ranks: of the rows before the place the client has reached, those that stayed and were not seen are at most `gone`; the rows shown twice so far and the seen ones behind that place are together at most `came`. A page is a run of ranks (`PageIsRun`), since each of the nine orders is linear (`OrderIsLinear`); a write moves at most one row across a place (`CutAround`, `OneWrite`); the total of the count is the size of the list (`CountsTheList`), so who stops has passed it all (`WholeList`) |
| `OffersAreKeptHolds` | `PageIsFresh`: unless the lesson changed or a lookup failed, what the page has read is what the rows say, and a button it offers passes the checks of the status; `ClickIsJudged`: a click under way was offered then, and what a capture works on was held once |

`CountsEachLessonOnce`, `CopiesHaveCause` and `WalkShowsTheList` count, so their proofs rest on lemmas about
cardinalities of finite sets; the lemmas are stated once in each module.

The induction theorems of the library take an operator as a parameter, which the provers cannot
instantiate; where a proof above needs an induction it goes by the least
counterexample, the smallest set for which the claim fails: `SmallestSet`, from the library's fact that
strict inclusion of finite sets is well-founded. Numbers are treated as the intervals below them.

Only model-checked: the liveness properties (`CancelReleasesHold`, `EveryTransactionEnds`,
`OffDrainsQueue`, `ReminderArrives`), which with ENABLED are out of the prover's reach, and the
absence of deadlocks. Of the configs of section 7 nothing is to be proved:
TLC finds the counterexamples.

## 7. Where code and documents disagree

The first has a run that ends in a counterexample, and an entry under `findings`. The others have
a config beside the runs; `tlc -config <config> <module>` finds the counterexample.

1. A cancel and a pay race, the void comes before the hold, and the cancelled
   booking keeps an authorized payment that nobody releases (`money_cancel_hold`).
2. A complete and a cancel race, and a refunded payment is captured:
   RefundedIsNotCaptured, `LessonMoney_refund_capture.cfg` with `MCLessonMoney`. The
   capture makes the lesson's earning owed, and a run may pay it.
3. After a restart the provider hands out references again; completing a lesson
   captures another one, and the lesson stays unpaid: CompletedIsCaptured,
   `LessonMoney_restart_unpaid.cfg` with `MCLessonMoney`.
4. A week that starts at a quarter past and goes on without a gap for more than a
   day is listed on one grid and re-checked on another: ListedIsBookable,
   `BookingCalendar_drift.cfg` with `MCBookingCalendar`.
5. Two tabs present one refresh token at once: the reuse is detected and all sessions
   are revoked, and then the slower request inserts a session that works:
   ReuseEndsTheChain, `Sessions_refresh_twice.cfg` with `MCSessions`.
6. A login or refresh under way during a password reset leaves a session that
   survives it: ResetEndsOlderSessions, `Sessions_reset_overtaken.cfg` with `MCSessions`.
7. Two reviews of one teacher are written at once, and the rating that stays is the
   one without the other review, until the next write: RatingMatchesReviews,
   `TeacherRating_drift.cfg` with `MCTeacherRating`.
8. Two requests redeem one link at the same moment; both have read it before either
   writes, and ConsumeAuthToken's zero rows are no error: the password is set twice
   (`auth/service.go:222`). LinkWorksOnce, `Sessions_link_twice.cfg` with `MCSessions`.
9. "So only the newest link works" (`queries/auth.sql`): two mail requests that overlap both
   consume before either stores, and both links work; so they do when the invalidation fails, as its
   error is dropped (`auth/service.go:203`, `:276`). OnlyNewestLinkWorks, `Sessions_two_links.cfg`
   with `MCSessions`, shows the first; with `"consume"` among its `Faults`, also the second.
10. "One teacher profile per account" (`teachers/service.go:13-14`; "one per user",
    `queries/teachers_write.sql:8`): two creations at the same moment both pass the check, and no constraint is
    behind it. OneProfilePerAccount, `Profiles_two_profiles.cfg` with `MCProfiles`. RefByOwner then finds
    either of the two.
11. The lesson page offers what the payment refuses, with nothing changed in between: "Pay now" for
    a lesson whose intent could not be opened (`bookings/service.go:487`), and "Mark lesson
    complete" and "Student didn't show" for a confirmed lesson whose hold is gone, through the refund of a
    dispute (`AdminRefund`) or a declined second payment (`:536`, `:701`). OffersAlwaysKept,
    `Pages_offers.cfg` with `MCPages`.

Smaller ones, met while modelling and without a config:

- `slot_taken` is also the answer to a student whose own diary is full, where nothing raced.
- The comment in Create that the pay call tries the intent again describes no code:
  a booking whose intent failed cannot be paid.
- Two replacements of one week whose spans do not collide leave the union of both, as the
  DELETE of the second does not see the rows of the first.
- A resource may name any file: neither Create nor Update looks up the ids in `file_asset_id` and
  `audio_asset_id` (`resources/content.go:17`, `:44`; `resources/service.go:85`, `:122`), and no
  foreign key holds them. A resource can be saved with a file that does not exist.
- The super-admin role can be taken from its last holder.
- A scalar that a PATCH of a profile leaves out is written back as it was read, also when
  another edit has changed it since; lists are spared.
- Two moderators who decide on one profile at once can move it along a pair of states
  that is no edge of the lifecycle.
- `meeting_url` is accepted when a profile is created, and not stored.
- Two choices of a question may have one id; both are then right.
- An INSERT of `file_assets` that is committed and comes back as an error has its blob
  deleted after it; the row stays without its bytes. Its id was never answered.
- A page number without a bound overflows the 32 bits of an offset.
- "Show more" of the reviews can be left with a total that one more page does not reach, when
  a review is removed or arrives between the rows and the count.
- A meeting link saved while a lesson waits for its payment is neither shown to the teacher
  nor clearable on the page; and the API still takes one when the lesson is over.
- A page that was refused a request is not read again by itself.

## 8. What is not modelled, and why

- Operator dashboards: metrics, the detail of a user, the totals owed and paid. They are
  sums over one reading each, from which nothing is decided.
- The edit of a display name: one UPDATE that no other component reads to decide
  anything (the walk through the list of users has it as a write).
- Names, descriptions, titles, tags, prices, reasons and notes: data that no property
  tells apart. Parsing, rendering and wording, except the normalisation of contents.
- The frontend, but for the refresh in flight, the buttons of a lesson and the two ways to
  turn pages: it renders what the API answers.
- The webhook signature and the hashing of passwords and tokens: cryptography, no state.
- HTTP routing, configuration, the pool, migrations as such, e-mail templates: no state of
  their own.
- Seed data: a development fixture that runs alone; the modules take from it which states
  there may be at the start. Generated queries are cited where the query they
  run is modelled, and have no state. The OpenAPI document is used as a source of claims.
- The read replicas, backups and failures of PostgreSQL itself are outside; a lost connection is
  a failed statement (`Abort`, `RefundFails`, `RunFails`, `HookFails`, `Rollback`, `Stop`, the
  rollback of `CommitReplace`). The disk keeps what was written to it: `Put` does not
  look at fsync, which the code does not call.
