# Formal verification of goreminder

TLA+ specifications of the parts of goreminder whose correctness depends on
the order of things: what handlers read and when they write it, what is inside
a transaction and what is not, which messages reach the worker, which work a
crash or a failed call leaves half done. TLC checks them on small instances;
TLAPS proves the central invariants for every instance.

## 1. The system

goreminder is a Go service over PostgreSQL and RabbitMQ. Clients (bots) create
tasks through an HTTP API; the service keeps them in `tasks` and tells an
external worker, by messages, when to remind whom. The worker keeps its own
table of due jobs and calls a bot back. Optionally calendars are imported from
and exported to Google.

| Part | State it keeps | Operations | Interacts with |
|---|---|---|---|
| Task service (`internal/service/task_service.go`) | none of its own; rows of `tasks` | create, update, delete, queue, mute, unmute, done, reschedule | repository (reads through the pool, writes through the pool or a transaction), queue producer, calendar export hook |
| Task repository | `tasks`, soft deletion | whole-row UPDATE, soft delete, selections | PostgreSQL |
| Recurrence (`task_recurrence.go`) | none | next occurrence, next executable start | task service, calendar import |
| Autoreschedule (`task_scheduler.go`) | none | daily job | task service |
| Queue producer (`pkg/queue`) | a channel | Publish | RabbitMQ, the worker |
| Sample worker (`examples/worker`) | a Redis sorted set of due jobs, a hash per job, anti-duplicate keys | schedule, delete, poll, fire, retry | queue, bot webhook |
| Calendar sync (`calendar_sync_*.go`) | `calendar_bindings`, `task_sync_links`, `google_accounts` | bind, pull, cancel, export | task service, Google |
| Export outbox (`sync_outbox_repository.go`) | `sync_outbox` | enqueue, claim, done, retry, failed | calendar sync scheduler |
| Users (`user_service.go`) | `users` | register (with a limit), update, delete with tasks and chats, lists, last activity | task and messenger repositories, producer |
| Messengers (`messenger_service.go`) | `messengers`, `user_messengers` | create, look up both ways, list | every service that names a chat |
| Task groups (`task_group_service.go`) | `task_groups` | CRUD; deletion only without bindings | calendar bindings |
| Digest settings (`digest_service.go`) | `digest_settings` | CRUD, the digest itself | producer: the worker is told times |
| Backlog, targets | one table each | CRUD, a batch of lines, lists filtered by messenger user | messengers, users |
| Connection manager, start-up, shutdown | pool handle, goroutines | health check, reconnect, stop | everything |

What is hard, by part (the full list, with lines, is `hazards` in
`PROJECT.json`):

* Task service. Every handler reads a row, computes, and writes *all columns*
  of it some statements later; there is no version column. Some writes are in a
  transaction, others go through the pool while that transaction is open.
  Messages are sent before the commit in some handlers and after it in others.
  A series (a rule with `requires_confirmation`) is a parent row that never
  executes and child rows that do; who creates the next child, and what a
  change of the parent does to the children, is spread over five handlers.
  It is correct when deleted rows stay deleted, no reminder of a deleted, done,
  muted or parent row is left in the worker, the worker's time is the row's
  time, a series has one waiting occurrence, requests end, and missed reminders
  move.
* Outbox. An item is claimed, exported over the network, and then marked;
  a crash, a failed mark or a second process sits in between.
* Worker. A consumer thread and a polling thread share a store; a claim, the
  HTTP call and the re-arm are separate steps. It is correct when nothing
  scheduled is forgotten, nothing deleted is sent, deliveries of one job are
  acknowledged a key's life apart (less the time of a POST), a reminder is taken for a
  duplicate only of a delivery, and no due job waits for ever.
* Calendar import. The task is created by one statement and linked to its
  event by another; a failed pull is retried with backoff; a removal of the
  binding may run beside it. It is correct when the saved token never runs ahead
  of the tasks, an event has one task, what is removed stays removed, and the
  import catches up.
* The other services. No transaction anywhere: checks, writes and messages are
  statements of their own, and two requests may take turns. It is correct when
  statuses say what happened, a deleted user stays silent, deleted rows stay
  deleted, and what a check promises is broken only by requests that overlap.

## 2. The plan

Order, the most important behaviour first. "Done" means modelled, checked and,
where theorems are named, proved.

| # | Modules | Content | Theorems | State |
|---|---|---|---|---|
| 1 | `TaskRows`, `TaskService`, `TaskProperties`, `MCTask`, `TaskProofs`, `FamilyProofs` | the task service and the job, interleaved statement by statement | type, transactions disjoint, deleted rows frozen, what is over is not armed, one occurrence waits and none of a deleted series | done |
| 2 | `WorkQueue`, `SyncOutbox`, `MCOutbox`, `OutboxProofs` | the export outbox and the schedulers that drain it; the abstract work queue it implements | one holder, limit, finished rows frozen, refinement | done |
| 3 | `CalendarExport` (extends `SyncOutbox`), `MCExport`, `ExportProofs` | what an item does: export hook, upsert and delete, the link row, the event at Google; `CalendarExport` implements `SyncOutbox` | type, refinement of the outbox and so of the work queue, one event but orphans, none of a deleted task, the last change is shown | done |
| 4 | `DueStore`, `DueProperties`, `MCDue`, `DueProofs` | the sample worker: the consumer and the poller threads on one Redis store | nothing scheduled forgotten, nothing deleted sent, acknowledgements apart, only repeats skipped, payloads, preliminary reminders | done |
| 5 | `CalendarImport`, `ImportProperties`, `MCImport`, `ImportProofs` | import of events, links, delete policies, messages; error status, backoff and force sync of a binding; deletion of a binding and disconnection while it syncs | type, removed stays removed, one task per event, a removed binding has served its links, the worker holds what the rows say, the token is not ahead | done |
| 6 | `ApiCore`, `Users`, `Messengers`, `Groups`, `Digests`, `Notes`, `Api`, `ApiProperties`, `MCApi`, `ApiProofs`, `RequestProofs` | every request about users, messengers, chats, groups, bindings, digests, backlogs and targets, composed on one database | type, honest statuses, nothing goes back, one deletion answered, groups in use, the limit of users, completed notes, deleted users, digests, lists | done |
| 7 | `Recurrence` | the completion shift and the rebasing of rules, as operators against a reference definition | bounds of the operators | left |
| 8 | `Lifecycle` | start, shutdown, the connection manager and the producer's reconnect loop | none | left |

Conventions that hold for every module: parameters are CONSTANTS with named
assumptions; one action per operation; no RECURSIVE operator, so that every
module can carry proofs; a definition named like a Go function models that
function; a definition commented *Slip* is a plausible bug in the definition
below it, and no specification uses it (it documents what the properties can
tell apart).

## 3. Task service

### 3.1 Modules

* `TaskRows.tla`: the row, the repository's selections, the recurrence
  arithmetic. Texts, users, chats and groups are left out; "has a chat" is the
  flag `mru`. A recurrence rule is the flag `rule`, firing at multiples of
  `Period`; a day is `DayLen` units.
* `TaskService.tla`: the state machine.
* `TaskProperties.tla`: the properties. `MCTask.tla`: requests for TLC.
  `TaskProofs.tla`, `FamilyProofs.tla`: theorems.

### 3.2 State and actions

| TLA+ | Code |
|---|---|
| `rows` | the committed `tasks` table; `db = "gone"` is `deleted_at` set |
| `wire[t]` | the last message published about `t`, which is what the worker acts on: nothing, `delete_task`, or the start_date of a `schedule_task` |
| `plan[p]` | the statements the handler of goroutine `p` still has to run, with the rows it computed |
| `held[p]`, `dirty[p]` | rows locked and written by its open transaction |
| `now`, `budget` | time and the requests that may still arrive |

A request action (`CreateTask`, `UpdateTask`, `DeleteTask`, `QueueTask`,
`MuteTask`, `UnmuteTask`, `MarkTaskAsDone`) does the first read of the handler
with its checks and early returns and lays out the statements. Where the code
reads again (children, the parent, the next occurrence) a statement stands for
the read and lays out the rest (`SyncChildTasks`, `DeleteChildren`,
`NextChild`, `DoneChildren`, `MuteChildren`, `PublishSchedule`,
`RescheduleTask`, `RescheduleCronTasks`). The database statements are
`WriteRow` (pool), `UpdateTaskWithTx`, `DeleteTaskWithTx`,
`DeleteChildTasksWithTx`, `InsertChild`, `CommitTx`; `Send` is
`publishTaskEvent`. `RunScheduledRescheduling` starts the daily job in the
goroutine `Cron`. Each statement carries whether its failure is returned
(`must`) or logged and passed.

PostgreSQL, modelled from how the repository uses it (read committed, no
explicit locks): an UPDATE waits for the row lock, re-evaluates its WHERE
clause when it gets it, is visible to others at the commit; of transactions
waiting in a circle one is aborted; a wait of a handler for itself (the same
goroutine through the pool) is not a circle PostgreSQL can see.

Faults (`Faults`): `"db"`, any statement or read fails; `"publish"`, Publish
reports an error, whether or not the message reached the broker; `"crash"`, the
process dies between two statements and open transactions are rolled back.

Fairness (`FairSpec`, only for the liveness runs): weak fairness of `Proceed`
per goroutine and of the daily job. Goroutines run, statements return, the
timer of `StartScheduler` comes round. Requests, faults and time are not fair.

### 3.3 Runs

| Run | Instance | Shows |
|---|---|---|
| `task_faults` | one request at a time, 3 rows, 4 requests, all faults, series with and without chat, updates that dismantle a series | `AtMostOneActiveChild`, `FinishedNotArmed`, `GoneParentHasNoActiveChild` |
| `task_settled` | one request at a time, 4 rows, 5 requests, no faults, all kinds of task | `SilentNotArmed`, `SeriesHasItsOccurrence`, `ArmedMatchesRow` |
| `task_concurrent` | two requests, or a request and the job, interleaved, 6 rows, 3 requests, fair | `DeletedFrozen`, `EveryRequestEnds`, `MissedRemindersMove` |
| `doc_self_block`, `doc_done_twice` | minimal instances | one documented promise each that the code breaks, see 3.5 |

Bounds. Three rows are a parent, its child and the next child; four and six
leave room for a second series and for what two requests create at once. In
`task_concurrent` three requests are a creation and two that race; in the other
runs four or five reach create, change, complete, delete and one operation after it. `MaxTime`
passes the first start (2) and, in `task_concurrent`, a further miss. Two
concurrent processes are enough for every stale read, lock order and self-wait
of this code: no handler waits on two others. Deadlock checking is off because
the bounds on time and requests end every behaviour.

Excluded from single runs, because the code does not keep the property there:
deleting a waiting child ends its series (the run of `SeriesHasItsOccurrence` has no delete);
`POST /tasks/:id/queue` arms what the client names (`SilentNotArmed` has no
queue); unmuting a task already done re-arms it, and clients that revive a
`deleted` status, give a rule back to a task that lost it, or mute by PUT after
unmuting one child reach states that `task_faults` and `task_settled` leave out (their `PutRequests` name the
updates they contain).

### 3.4 Proofs

`TaskProofs.tla`, all obligations checked by TLAPS for every value of the
constants that satisfies `RowsAssumption` and `ServiceAssumption`:

* `TypeCorrect == Spec => []TypeOK`. One lemma per group of actions; the work is
  in `plan`, whose statements must carry rows of the table.
* `TransactionsAgree == Spec => []LocksAgree`: open transactions hold disjoint sets of
  rows, all live in the committed table (no run of its own). It is inductive given
  `TypeOK`: a transaction takes only rows that no other holds and that are live
  in its view; `WriteRow` cannot delete a row and touches only rows nobody
  holds; `CommitTx` of one transaction leaves the rows of the others alone
  because they are disjoint.
* `DeletedRowsFrozen == Spec => DeletedFrozen`. From the two invariants: a pool
  write tests `deleted_at`, a commit brings only rows that `LocksAgree` says are
  live, an insert takes an absent row.

Its second half proves `FinishedNotArmedCorrect`: `Spec => []FinishedNotArmed`
under three hypotheses, the ones `task_faults` checks it under: `MaxInFlight = 1`
(with two requests at once it is false: a schedule of one may follow the
deletion of the other), no `"unmute"` in `Ops` and no update that sets the
status `done` itself (both really re-arm or leave armed a completed task, 3.3).
All three kinds of fault are allowed. The property speaks of the table and the
worker, but whether a step keeps it depends on what the handler was about to do,
so the inductive invariant `SeriesInv` is about statement lists of any length:

* `StepFits`: a statement that writes a row writes a live one and keeps its
  parent; one that leads to a schedule_task names a task that is neither over
  nor about to be; one that ends a task is followed by a delete_task whose
  failure undoes the transaction;
* `PairFits`: nothing is armed after a statement of the list has ended it, and
  nothing goes through the pool while the transaction holds rows;
* `PlanFits`: the two for the whole list; every transaction is followed by its
  commit; a task that the transaction ends is out of the worker already or its
  delete_task comes before the commit (`WillDisarm`). The statement that deletes
  all children of a task is the hard case: it names no child, so its list must
  hold a delete_task for each of them;
* `OneInFlight`, `OverIsSilent`, `NoOwnParent`.

The proof has one lemma per action (`...Fits`). Two facts carry most of it:
`StepFitsOn` (a step that leaves the later statements fitting, and lays out ones
that fit before them, leaves the whole list fitting) and `MessageFits` (what a
message does to the worker). A commit makes over only tasks that
`BarrierSilent` says are disarmed; an abort or a crash drops the list and the
transaction together.

`FamilyProofs.tla` proves the other two invariants of `task_faults`, again with
every fault and `MaxInFlight = 1`:

* `AtMostOneActiveChildCorrect == Spec => []AtMostOneActiveChild`, when no
  update gives a rule to a task that has none (`NoNewRule`);
* `GoneParentHasNoActiveChildCorrect == Spec => []GoneParentHasNoActiveChild`,
  when in addition no update replaces the status `deleted` by one that is not
  over (`NoRevival`).

Muting, unmuting, queueing, every other update, completions, deletions and the
daily job are all allowed. The hypotheses are what the code needs, not what the
proof needs: TLC finds the second waiting child when a series loses its rule,
then its confirmation, has its waiting child set to `deleted`, gets rule and
confirmation back (which inserts a child) and the old child is completed (which
inserts the next). `task_faults` runs under both.

Neither property is inductive: a completed child is followed by an insertion
that may come several statements later or, after a failure, never; a parent
that loses its rule still has children until its transaction commits. The
inductive invariant `FamilyInv` says

* of the table (`Family`): of the children of one task at most one is not done
  (`OneKid`); a task without a rule, deleted or without confirmation has none of
  the children it may not have (`NoStray`, for two kinds of child: those not
  done, and those neither done nor deleted); children have no rule; no task is
  its own child;
* of the statements left to the handler (`FamilyFits`): each suits the table *as
  the transaction sees it* and the statements before it (`Suits`, `Precedes`): a
  row it writes only ever loses a rule or a state in which it is counted
  (`Follows`); one that leaves children without a parent is followed, before the
  commit, by the statement that removes them (`WillRemove`); an insertion finds
  no child that waits, and comes after the commit of the row it belongs to.

The argument is about lists: `FitsOn` is the one lemma about a step
that replaces the first statement by others, `SuitsOn` what it needs of one
statement, and every action has a lemma (`...Family`) that gives these two what
they ask. `SyncChildTasksFamily` is the longest: the reconciliation of children
after an update lays out one write or deletion per child, in an order that is
not known.

The invariants of `task_settled` are model-checked only. Liveness is
model-checked only.

### 3.5 Where code and documentation disagree

| Run | What happens |
|---|---|
| `doc_self_block` | removing confirmation from an overdue series waits for its own row lock |
| `doc_done_twice` | two overlapping "done" create two next occurrences |

Seven more were met on the way and have no run of their own: a waiting child
whose new start falls on the day of its parent's next occurrence is moved to that
occurrence, written and published (`task_service.go`, lines 3190 to 3213), where line 1061
of the repository's README says "Rescheduling is skipped (parent will create a new
child)" (`RescheduleTask` is the code, and that child is one of the reminders of which
`MissedRemindersMove` says that they move); a series that is deleted while
one of its occurrences is completed leaves the next occurrence behind, live and
armed, which the job passes over for ever because its parent is gone; the job returns before it comes to
the recurring tasks when no other task is due (`task_scheduler.go`, line 64,
against line 1067 of the repository's README); a recurrence rule added
to a task that already requires confirmation makes a series without a first
child, which never executes (the first child is created when
`requires_confirmation` changes, or at creation); the `muted` flag that
suppresses a `schedule_task` is the one of the row read at the beginning of a
handler, so a queue request may publish for a task muted meanwhile; an update of
a parent skips deleted children by `deleted_at` only and publishes a child whose
*status* was set to `deleted`; the job also moves one-time reminders that do not
require confirmation, which the README does not say.

### 3.6 Left out

`shift_from_completion`: the handler computes the shifted rule before its
transaction (`prepareCompletionShift`) and writes the parent and the shifted start in
the same transaction as the completion, so the model has the transaction without
these columns. History rows and attachments (best effort, after the last
statement modelled); the calendar export hook, which is modelled in
`CalendarExport`; tasks imported from
calendars in the job's selections; requests cancelled by the client; validation
of requests.
## 4. Export outbox

### 4.1 Modules

| Module | What it is |
|---|---|
| `WorkQueue` | the abstract specification: an item waits, is in one worker's hands, or is finished |
| `SyncOutbox` | the table `sync_outbox` with `ClaimDue`, `MarkDone`, `MarkRetry`, `MarkFailed`, and the loop of `ProcessOutbox` |
| `MCOutbox` | backoff tables for the instances |
| `OutboxProofs` | theorems |

### 4.2 State and actions

`box` is the table. A row has its status, its attempts and `wait`, the time left
until `next_retry_at` (the clock, `BoxTick`, counts the pending rows down: only
those are ever compared with the time). `locked[w]` are the rows the open
transaction of scheduler `w` holds, `batch[w]` the claimed items it has still to
work on, with the attempts that its SELECT read.

| Action | Code |
|---|---|
| `Enqueue` | `Enqueue`: a pending row, due at once, with the next id |
| `SelectDue` | the `SELECT ... FOR UPDATE SKIP LOCKED` of `ClaimDue`: the first `BatchLimit` due rows that nobody has locked |
| `CommitClaim`, `ClaimFails` | its `UPDATE` and commit; a failure of either rolls back |
| `MarkDone`, `MarkRetryOrFailed` | the two outcomes of an iteration of `ProcessOutbox`, in order of id. Whether the export succeeds is free here. Each may lose its write, since the code drops the error (fault `mark`) |
| `CrashWorker` | the process dies: the batch is forgotten, an open transaction rolled back |

The claim and the mark are separate transactions; everything between them is a
network call, so other schedulers, enqueues and time may come in anywhere.

### 4.3 Runs

* `outbox_claims`: two schedulers, three items, a limit of three attempts,
  batches of two, all faults. Three items and batches of two are the least at
  which one scheduler holds a full batch while the other finds one item and a
  locked row; three attempts are the least with a first, a middle and a last
  failure; the two retries use both steps of backoff `<<1, 2>>`. Checked: `ClaimsAgree` (no item in two
  hands, and what is in hand agrees with the table), `GivenUpAtTheLimit`,
  `FinalStays` (a finished item is never touched, although no mark is
  conditional on the status), `ImplementsQueue`, and `EndsOrStranded`: a pending
  item ends done or failed, or is left in `processing` by a crash or a lost mark.
Fairness (`BoxFairness`) is weak for the loop and the clock: the ticker of
`CalendarSyncScheduler.Start` comes round, a call to Google or the database
returns, and time passes. It is strong for the commit of a claim: a claim that
is tried again at each tick does not roll back for ever. No export is assumed
to succeed.

The exception in `EndsOrStranded` is a gap of the code, and known: when the
process dies after the claim was committed, or the mark is lost, the item stays
`processing`, and `ClaimDue` looks at `pending` rows only. Nothing in the
repository ever moves a row out of `processing`, while `docs/google-calendar.md`
(line 526) says that the job drains it. `EndsOrStranded` says
that this is the only way an item is left over: claims that roll back, retries
of others and full batches are not.

Refinement: `todo` are the pending rows, `finished` the done and failed ones,
and `doing[w]` the ids of `batch[w]`. The SELECT of a claim is a stutter, the
commit is `Take`; a retry is `PutBack`, a lost mark or a crash is `Lose`. That
`Lose` is needed at all is the gap described above.

### 4.4 Proofs

For any number of schedulers, items and attempts, any batch size, any table of
backoff and any set of faults (`OutboxAssumption`):

* `BoxTypeCorrect`: `BoxSpec => []BoxTypeOK`.
* `ClaimsCorrect`: `BoxSpec => []ClaimsAgree`. `ClaimsAgree` is inductive next to
  the type: the claim needs that locked rows are pending and locked once, so that
  committing gives each to one scheduler; the marks need that a claimed row is
  held once, so that setting it free leaves no second holder; the crash takes
  rows away only. That a scheduler never has locks and a batch at a time is part
  of it, as `ProcessOutbox` claims only when its loop is over.
* `LimitCorrect`: `BoxSpec => []GivenUpAtTheLimit`. It rests on `ClaimsAgree`: the
  attempts that are written are those of the copy, and the copy is current.
* `FinishedStays`: `BoxSpec => FinalStays`, because what is in hand is
  `processing` in the table.
* `OutboxIsQueue`: `BoxSpec => ImplementsQueue`, one case per action
  (`BoxStepIsQueueStep`), from the type and `ClaimsAgree`.

`EndsOrStranded` is liveness and only model-checked.

### 4.5 Left out

`CountPending` feeds a metric. `last_error` and `updated_at` are written and
never decided on. A cancelled context makes every later call of the loop fail,
which is a sequence of failed exports with lost marks. The kind and payload of an
item are in `CalendarExport`.

## 5. Calendar export

### 5.1 Modules

| Module | What it is |
|---|---|
| `CalendarExport` | extends `SyncOutbox`: what queues the items, and what a scheduler does with one |
| `MCExport` | a backoff table for the instances |
| `ExportProofs` | theorems |

### 5.2 State and actions

`tasks` are the rows with what the export looks at: whether the row is there,
the set of bindings whose group it matches (`scope`), and `ver`, a count of the
changes of what an event shows. `links` is `task_sync_links` in order of id;
`events` is Google; an event is known by its place in the list. `job[i]` is the
payload of outbox row `i`. `hook[c]` is how far the `OnTaskChanged` of request
`c` has come, `work[w]` how far scheduler `w` has come with its current item,
with everything it has read. Bindings are fixed, export or both, and each has
its own calendar.

| Action | Code |
|---|---|
| `CreateTask`, `UpdateTask`, `MoveTask`, `DeleteTask` | the commit of a request of the task service and its call of `notifyCalendarExport`; `MoveTask` is an update of `group_id` |
| `HookReadTask`, `HookReadLink` | the two reads of `EnqueueExport`; a deleted task goes on in `enqueueExportDeleteForGoneTask` |
| `HookEnqueue` | one INSERT of the two loops over Go maps; the first that fails ends the hook |
| `UpsertReadTask`, `UpsertReadLink`, `UpsertCallGoogle`, `UpsertWriteLink` | `exportUpsert`: two reads, one call (patch or create), one write of the link |
| `DeleteReadLink`, `DeleteCallGoogle`, `DeleteWriteLink` | `exportDelete` |
| `FinishItem` | the mark, from `SyncOutbox` |
| `ClaimBatch`, `Crash`, `TimePasses` | those of `SyncOutbox` |

Faults (`ExportFaults`): `call`, Google fails a call without effect; `lost`, it
fails one that had its effect; `write`, a write of a link fails; `enqueue`, an
INSERT into the outbox fails. About an event that is already deleted Google may
always complain. The faults of the outbox (`BoxFaults`) come on top.

### 5.3 Runs

* `export_current`: two requests at a time and up to four in all, one task, one
  binding, four items, a scheduler with batches of two, and every fault but a failing
  enqueue: calls that fail, answers that are lost, link writes that fail, failing
  claims and marks, crashes. Four requests and items are a creation, an update,
  a move out and a move back (or a deletion), each with its item; two attempts
  give a retry and a failed item; a batch of two has an item that waits while
  the other is worked on. About three million states.
  `OneEventPerCalendar`: a task has one event, besides *orphans*, the events whose
  creation was not answered or whose link was not written. The code does create these
  a second time (5.5); the property says that nothing else does: no retry after a
  lost mark, no upsert out of order, no deletion, no failed patch.
  `GoneHasNoEvent`: nothing but orphans is left of a deleted task, also
  when an old upsert is tried again after the deletion (it finds no row and
  fails). `InScopeIsCurrent`: when all is through, the calendar shows the last
  change, because an upsert exports what it reads when it runs and not what was
  queued.
* `doc_export_two_calendars` (violation): one task in the scope of two bindings,
  without any fault. See 5.5.

Deadlock checking is off, because the bounds on requests and items end every
behaviour. No liveness is stated here; that items end is `EndsOrStranded` of the outbox.

### 5.4 Assumptions of the run, and why they are there

The code has races and faults for which it does nothing. Lost answers and failed link
writes are in the run, and `orphans` counts what they leave. Left out by name are:

* `Overlap = FALSE`: a task is not deleted while a scheduler is in the middle of
  exporting it, and not moved between groups while another request's hook looks
  at it. With `Overlap = TRUE` TLC violates `GoneHasNoEvent`: the hook of the deletion
  finds no link and queues nothing, while the upsert is creating event and link.
* A failing `enqueue`: the item of a change or a deletion is lost with it.
* A second scheduler. Two that work on two items of one new task both find no
  link and both create an event, and one of them is left when the task is deleted.
  `OneEventCorrect` (5.6) bounds their number for any number of schedulers, with
  `Overlap = TRUE` and all faults.
* A crash in mid-item strands the item (section 4), possibly with an event that no
  link names; `GoneHasNoEvent` and `InScopeIsCurrent` except tasks with such an item.
* `InScopeIsCurrent` excepts tasks with a retried delete: it takes the newest link
  of the task, which by then may be that of a newer upsert.

### 5.5 Where code and documentation disagree

`doc_export_two_calendars`: `exportUpsert` knows the event in a calendar by the
newest link of the task alone, and overwrites it when it belongs to another
calendar. With two calendars in scope each upsert finds the link of the other,
creates a new event and forgets the old one; `docs/google-calendar.md` says that
calendars are independent and that an update patches the event.

Without a run:

* `docs/google-calendar.md` (line 445) says that duplicates are prevented by the
  `goreminder_task_id` of an event. The import looks at it, the export does not:
  `exportUpsert` goes by the link alone, and an event whose creation was not answered,
  or whose link could not be written, stays beside the one the retry makes. These are
  the `orphans` that all the properties of the export except.
* A task that leaves its group before its first upsert was tried
  has no link yet, so nothing is queued to remove the event, and the upsert does
  not look at the group again; the document says that moving out removes it.

### 5.6 Proofs

For any number of tasks, bindings, requests, schedulers and items, and any set
of faults (`ExportAssumption`, `OutboxAssumption`):

* `ExportIsOutbox`: `ExportSpec => BoxSpec`. Every step is a step of the outbox or
  leaves it alone (`ExportStepIsBoxStep`). All the theorems of section 4.4 hold
  of the export for this reason, among them
* `ExportIsQueue`: `ExportSpec => ImplementsQueue /\ []ClaimsAgree`.
* `ExportTypeCorrect`: `ExportSpec => []ExportTypeOK`, inductive next to the type of
  the outbox. What needs work is that the newest link is a row (`NewestLink`) and
  that what a hook queues names a task and a binding that exist (`JobsOfExports`).

The three invariants of the runs are proved for any number of tasks, requests, changes
and items, any batch, backoff and number of attempts, with failing calls, lost answers,
failing link writes, failing claims and marks, and crashes: every fault of the run.
Their hypotheses on the constants name the races and
faults of 5.4 that are left out:

* `OneCalendar`: one binding, and so one calendar (two are `doc_export_two_calendars`).
* `OneExporter`: besides, one scheduler.
* `CarefulExporter`: besides, `Overlap = FALSE`, and a hook queues all it has to
  (no `enqueue`).

`OneEventCorrect`: `OneCalendar` and finitely many schedulers give
`ExportSpec => []OneEventPerCalendar`, with every fault, requests at any time and any
number of schedulers. The property counts events and says nothing of who made them,
so it is not inductive. `BoundInv` does: every live event is an orphan, or a live link
names it, or it is in the hands of a scheduler that has still to write the link
(`NamedOrOrphan`); and the links of a task together with the schedulers that found
none and are about to make one (`Makers`) are no more than the schedulers
(`FewMakers`): who finds no link joins the makers only while there is none, and a
maker that has written its link leaves them. The events of a task that are no orphans are therefore the
image of its links and its makers (`ImageBound`). What a scheduler has read still
names what the tables say (`Held`, `LinksName`), so that a failed write or a crash
turns into orphans exactly what falls out of its hands (`Unlinked`).

For the other two, `OneInv` says what every scheduler's hand fits: a task has one live
link (`OneLink`), a link names an event of its own task (`LinkNamesEvent`), what a
scheduler has read between its statements is still what the tables say (`UpsertKnows`,
`DeleteKnows`), and each live event is an orphan, or named by a link, or by the
scheduler that is about to write the link (`EventsNamed`).

`GoneEventCorrect`: `CarefulExporter` gives `ExportSpec => []GoneHasNoEvent`. With
`OneInv`, `GoneInv` follows a link of a deleted task: a hook or an item that is not
done will delete it (`GoneIsTold`); no upsert past its first read writes a new one
(`GoneNotExported`, where `Overlap` matters); a delete that is about to be marked
done has left none (`DeletedHasNoLink`). At rest there is no link, and by
`EventsNamed` no event but orphans.

`InScopeCurrentCorrect`: `CarefulExporter` gives `ExportSpec => []InScopeIsCurrent`.
`CurrentInv` has five parts. `CurrentOrComing` is the heart: the last change of a task
in scope is shown, or an upsert that will read it is due, or one that has read it
is under way, or a hook will queue one, or an item is `Exceptional` (given up,
stranded, or a delete tried again). A delete may undo what is shown, so that
`DeleteIsFollowed` keeps an upsert behind each open delete of a task in scope;
`HookFits` says why a hook queues it (what it read of the scope is still so); and
`QueueInOrder` says why a delete at its first try runs before it: rows that were
never tried are locked, claimed and worked on in order of id, `FirstFirst` being
the fact about `FirstOf` that needs cardinalities. `LinkedEventLives` says that the
event an upsert patches is there: a deletion whose answer is lost, or whose write
fails, leaves the row of a link without its event, but it is then an item that is
tried again, given up or left behind (`FailedDeletionIsExceptional`). An upsert with an older copy of the task may be
under way after a change; then the newer one is still queued (`UpsertIsStale`).

No hypothesis is there for the proof's sake alone: 5.4 and 5.5 name a behaviour
that breaks one of the invariants for each of them, and an INSERT that fails
(`enqueue`) loses the item of a deletion.

### 5.7 Left out

`EnableTaskExport` (the opt-in of one task), deletion and change of bindings,
disconnected accounts, and the columns of a link that nothing modelled decides
on. Confirmation children are never exported (`ShouldExportTask`).

## 6. Sample worker

### 6.1 Modules and state

`DueStore.tla` is the worker of `examples/worker`, `DueProperties.tla` what it
promises, `MCDue.tla` the messages of the instance, `DueProofs.tla` the theorems. It is
the receiving end of the messages that `TaskService` publishes: what `wire[t]`
stands for there is a message here.

| TLA+ | Code |
|---|---|
| `due`, `body` | the sorted set of fire times and the hash of payloads (`store.py`); a job is a task with `"main"` or `"pre"`, the reminder or its preliminary one |
| `dupe` | when the anti-duplicate key of a job expires (`webhook.py`) |
| `cons` | the consumer thread: its step, its message, the start it computed |
| `poll` | the poller thread: the ids it read, the payloads it read for them, the job in hand |
| `rev`, `failed` | bounds: messages arrived, failures so far |
| `want`, `shaken`, `sent`, `skipped`, `ackedAt` | history for the properties: the last message handled, tasks for which the two threads met or a failure cut the handling short, what was last posted, what was last taken for a duplicate, and when the last two deliveries were acknowledged |

`Receive` delivers a message; `Refuse`, `ScheduleMain`, `SchedulePre`, `DeleteMain`
and `DeletePre` are the Redis transactions of `schedule_task` and `delete_task`
(`handlers.py`). `PollRead`, `ReadBody`, `DropGone` and `ReadAll` are `due`; `Claim`,
`SkipDuplicate`, `SetKey`, `Deliver`, `DeliveryFails`, `PutBack`, `AfterSend`,
`AfterSendPre` and `EndSeries` are `fire_due` and `send_reminder`. `SetKey` sets the
anti-duplicate key before the POST; time passes while the webhook answers
(`PostTime` at most), and the acknowledgement is `Deliver`. `ConsumerFails`,
`SetKeyFails`, `DropKeyFails` and `PollerFails` are a failing Redis call, which may have
had its effect; the two calls of `send_reminder` fail into the retry, as `fire_due`
catches them with the POST's. `Crash` is the end of the process: the store stays, the
message in hand comes again, and a key that was set stays too. The webhook may fail
at any time and any number of times.

### 6.2 Run

`worker_store`: one task, three messages out of one-time, cron and RRULE
reminders with and without a preliminary one and deletions, times 0 to 3,
polls of one job, one failure of Redis or one crash. Both threads touch
nothing but the jobs of one task, except that a poll reads the oldest jobs of all
tasks: with a limit of one and the two jobs of the task a job is already crowded
out, which is what `DueIsTaken` is about. Three messages are a reminder, its
replacement and its deletion. A retry (`Retry`) and the life of a key (`DupeTTL`) are
two units and an answer (`PostTime`) takes up to one, where the code has 30, 30 and 10
seconds (`WEBHOOK_TIMEOUT_SEC` bounds the connection and each wait for data); the
theorems below hold for any. These times hold a delivery, its retry or
next occurrence, and a key that runs out in between.

* `ScheduledIsKept`: a job once scheduled is armed with the last payload, in the
  hands of the poller, or was posted, or was passed over as a duplicate.
* `OnlyRepeatsAreSkipped`: as long as neither Redis nor the process failed, a job is
  passed over only when a delivery of it was acknowledged less than a key's life ago:
  the key of a failed delivery is not in the way of the retry.
* `DeletedIsSilent`: after a deletion nothing of the task is armed or on its way.
* `PreHasMain`: no preliminary reminder outlives its reminder or announces an
  older one.
* `NoEmptyJob`: no job is fired without its payload, although ids and payloads are
  read one after the other.
* `AckedApart`: two acknowledged deliveries are the life of the key apart, less the
  time an answer takes, because the key lives from before the POST.
* `DueIsTaken`: no due job waits for ever, though deliveries keep failing, since a
  retry moves a job behind the others.

Fairness: each of the two threads goes on (`main` in `run.py` restarts neither, and
neither ends: both loops catch what is raised). Time and messages are not fair.

### 6.3 Proofs

For any set of tasks and messages, any limit, period, time and set of faults
(`DueStoreAssumption`): `DueTypeCorrect`, `NoEmptyJobCorrect`, `AckedApartCorrect`,
`OnlyRepeatsAreSkippedCorrect`, `ScheduledIsKeptCorrect`, `DeletedIsSilentCorrect`, `PreHasMainCorrect`. The invariants
speak of tasks that are *settled*, and whether they hold there depends on what
happens while they are not. The inductive invariant is `CourseAll`:

* `DueInv`: the types, `DueHasBody`, and what the threads carry between steps;
* `DistinctInv`: no job is twice among the ids, the list and the hand of the
  poller, so that dealing with one cannot disturb what is known of another;
* `GoneInv`: an id whose payload was gone is still without one, or its task has
  been shaken;
* `HalfInv(t)`: what the consumer has already done for a message about `t` while
  it is half handled;
* `QuietInv(t)`: for a task not shaken, what the poller has on its lists and in hand
  of `t`, and what is in the store, fit each other and the last message.

`HalfInv` and `QuietInv` are proved task by task: a lemma says that an action leaves
the invariant of every task alone whose jobs it does not touch, another what it
does for its own task. `AckedApart` and `OnlyRepeatsAreSkipped` have an invariant of
their own, `KeysInv`: a running POST has the key that was set when it began
(`PostInv`); after an acknowledged delivery the job has a key for the life of one,
less the time the answer took (`KeyInv`); and without failures a live key is that of
the running POST or of an acknowledged delivery (`SkipInv`).
`DueIsTaken` is liveness and only model-checked.

### 6.4 Known to go wrong

* The two threads meet: a deletion, or a new schedule, arrives while the poller
  holds the job. A recurring job is armed again after its deletion, although
  `examples/worker/README.md` (line 43) and the repository's README (line 1011) say
  that a deletion removes both jobs; a retry writes the old payload back. These are
  the *shaken* tasks the properties leave out.
* An RRULE that runs out makes `fire_due` raise after the last delivery: the
  payload stays in the hash, the rest of the batch waits for the next poll, and a
  preliminary reminder that was put back for a retry stays armed. `PreHasMain`
  names this case.
* A reminder that is sent, set anew and due again within the life of the key (30
  seconds) is passed over as a duplicate: nothing is posted, and a one-time one is
  removed. So is the retry of a delivery when a crash, or a failing `delete` of the key,
  has left the key behind.
* A message whose handling fails is rejected without being queued again, and lost.

Left out: digests, several messengers and chats, formatting, the HTTP side of the
webhook, and `mute`, which the worker knows only as a deletion.

## 7. Calendar import

### 7.1 Modules and state

`CalendarImport.tla` is one import binding, `ImportProperties.tla` what it promises,
`MCImport.tla` the scenarios. `ImportProofs.tla` has the theorems.

| TLA+ | Code |
|---|---|
| `google`, `edits`, `summary` | the calendar: events with the change that made them, the number of changes (the token it would give now), its name |
| `binding`, `revoked` | the row of `calendar_bindings`, and whether the account is revoked |
| `links`, `tasks` | `task_sync_links` by event, and the tasks made for events |
| `armed` | when the worker reminds of a task |
| `sync[s]` | how far a sync has come: the copy of the binding it read, what is listed and left, the event, link and task at hand. `s` is the scheduler's (`"poll"`) or a client's (`"force"`) |
| `removal` | how far `DeleteBinding` or `DisconnectGoogle` has come |
| `mixed`, `cut`, `untold`, `dropped` | history: two of sync, removal and user met; something failed in mid-sync; tasks of which the worker was not told; tasks deleted by the user or with the binding |

A sync is `Poll` or `ForceSync`, `Open`, `Refresh`, `List` (or `TokenInvalid`, the answer 410),
`Take` for each event and then, by what the event is, `CreateTask`, `CreateLink`,
`ReadTask`, `WriteTask`, `Tell`, `Relink`, `Policy`, `Unlink`, `Drop`, `Mute`; it ends in
`MarkSynced` or `MarkError`. The removal is `StartRemoval`, `RmBinding`, `RmLinks`, `RmRead`,
`RmTask`, `RmLast`, `RmRevoke`. The world changes events and the name, completes and
deletes tasks, lets statements and messages fail and processes die.

### 7.2 Run

`import`: twelve scenarios in `MCImport!Cases`, each a calendar of two events, a policy,
and a set of things that may happen with a bound on how often: changes and
cancellations with a forced sync beside the scheduler; failing statements, crashes
and lost messages; a user who completes and deletes; an invalid token and a
renamed calendar; an event without a start; a recurring event while the binding is
deleted or the account disconnected, with failures; an event that is cancelled
and comes back; the policies mute and keep; a user who deletes an imported task and then the binding;
an event that is the echo of an exported task, with and without its link. Two
attempts and two steps of backoff reach the first retry and the limit, four
tasks are more than any scenario needs. Together about 250 000 states.

* `TokenNotAhead`: every change the saved token covers has been written.
* `OneTaskPerEvent`: an event has one task until a task of it is gone.
* `ImportArmed`: when nothing runs, the worker holds exactly what the rows say; but
  for tasks without a chat of which the import told it with the binding's
  (`doc_import_chat`).
* `UnboundIsEmpty`: a removed binding has applied its policy to every task it had a
  link to. Imported tasks without a link do stay, live and armed: each of them was cut
  off from its link by a failure, or is a later task of an event whose first one is
  gone. And no exported task is taken with the binding, as long as its event is
  never cancelled.
* `RemovedStays`: no whole row that a sync or a removal read earlier brings a
  deleted binding or task back, and no account is revoked before its binding is
  removed.
* `CatchesUp`: the binding becomes current, is removed, or has used its attempts.

Fairness (`FairSpec`): the clock, the scheduler's ticker, and every running sync
and removal go on. Clients, the calendar and failures are not fair.

`doc_import_chat` (violation): a task exported without a chat comes back from the
calendar. The chat of the binding is used for the message and never written to
the row, so that the deletion, which reads the row again, tells the worker
nothing; the comment at `calendar_sync_helpers.go:373` says that it is copied onto
the task.

### 7.3 Known to go wrong

The properties except these by name (`mixed`, `cut`, `untold`, `dropped`):

* A crash or a failure between the task and its link imports the event a second
  time; between the row and the message, the worker is never told.
* Overlapping syncs of a binding may leave an older value behind a newer token.
* A link keeps its task for good, because `Update` of the link does not write
  `task_id`: after the user deletes an imported task, or the policy soft delete does
  because the event is cancelled and it comes back, each later change of the event
  makes another task, with no link. `DeleteBinding` goes by links and does not find
  it, without any failure, while its comment (`calendar_sync_service.go`, line 349) says
  that the policy is applied to imported tasks. `UnboundIsEmpty` excepts it by name.
* After an answer 410 everything is listed again; an exported task without a chat
  is then never told to the worker.
* `DeleteBinding` that fails half way leaves tasks deleted and the binding active.
* After an answer 410 the code ignores a `ClearSyncToken` that fails: the sync lists
  everything all the same, and the row keeps the old token until it is through. The
  model has the statement succeed.
* An event without a usable start fails every sync until the attempts are used up.
* `docs/google-calendar.md` (lines 167, 175, 194) says that a one-time event that is over is
  completed, and a series moved on, at the next sync: a sync with a token lists
  only events that changed.
* Cancelling the event of an exported task deletes the task as well.

### 7.4 Proofs

`ImportProofs.tla` proves all but one of the properties above, for any events, tasks,
scenarios, periods and backoff (`ImportAssumption`, which says of a scenario that it
starts as a new binding finds a calendar: unchanged so far, every task known by one
link or tag of its own event).

What makes the invariants inductive is what is true *between* two statements of a
sync. `FlowInv` says it once for all of them: the types; a link joins an event and a
task of that event (`LinkOK`); the event, link, task and row a sync has in its hand
fit each other (`Hand`); the row it works from is what the calendar still says unless
it changed after the token the sync is going to save (`Listing`); and a removal holds
rows of tasks that are there. `FlowStep` shows that every step keeps it, whoever meets
whom and whatever fails. Each statement is then shown once to change what it changes
field by field (`TakeDoes`, `CreateDoes`, ...), and the later proofs use only that.

`AloneInv`: as long as no two met (`Alone`), beside a running sync everything is idle,
and the binding holds the token the sync goes on from. On these rest

* `TokenNotAheadCorrect` by `TokenInv`: for the saved token *and*, while a sync runs,
  for the one it is going to save, every event is `Covered`, or in hand, or still on
  the list as the calendar has it (`Worked`); `Done` is what the statements so far have
  come to for the event at hand. A failure throws the list away and keeps the token,
  which is why the property needs no `cut`.
* `OneTaskPerEventCorrect` by `OneInv`: a task of an event is its linked one, the tagged
  one, or the one a sync is about to link (`Claimed`), unless a task of the event is
  gone (`Lost`).
* `UnboundIsEmptyCorrect` by `KeptInv` and `EmptyInv`: while a removal runs, each task
  with an imported link is served by the policy, on its list, or in its hand
  (`Cleared`), and nothing on its list or in its hand is an exported task. A task that
  was spared has therefore no link; it is not tagged either, as tags and exported
  links are of the user's own tasks (`ExportedInv`); and nobody is about to link it,
  as no sync runs beside a removal that was alone. By `OneInv` only a failure or a
  lost task of the same event is left.
* `RemovedStaysCorrect` needs `ImportInv` and that the account is revoked after the
  binding only (`RevokedLast`).

* `ImportArmedCorrect` by `ArmedInv`: a task not in `untold` is armed as its row says,
  also while a sync or a removal runs, unless it is between its row and its message
  (`InHalf`). What closes that gap is what a sync has in hand: the message it is
  going to send makes the worker hold what the row it wrote says (`TellFits`), and
  the row it is going to write needs no message other than that one (`WriteFits`).
  Every failure in the gap puts the task in `untold`. A task without a chat under a
  binding that has one is told with that chat, which its row never gets
  (`doc_import_chat`): these are `GivenChat`, and the property says nothing of them.

Model-checked only: `CatchesUp`, a liveness property.

## 8. The other services of the API

### 8.1 Modules and state

`ApiCore.tla` has the tables, the log of requests and the kinds of statement
services are made of; `Users`, `Messengers`, `Groups` (with the bindings), `Digests` and
`Notes` (backlogs and targets) have one operator per request, service and handler;
`Api.tla` composes them with the two requests of the task service that reach what
the deletion of a user removes. `ApiProperties.tla` has the properties, `MCApi.tla`
the scenarios. `ApiProofs.tla` and `RequestProofs.tla` have the theorems.

| TLA+ | Code |
|---|---|
| `db` | nine tables; a row keeps which request inserted it, ended it and wrote it last |
| `armed`, `told` | what the worker holds: tasks, and digest times by user and chat |
| `req` | every request so far: its next statement, the row it read, ids and counts it holds, its outcome, whether it wrote and whether anything failed under it |
| `scene`, `failed` | the scenario, and how many statements and messages have failed |

Statements are `Reads`, `Inserts` (with the unique indexes of the migrations),
`Updates`, `Deletes`, `Touch` (`touchUserActivity`), `Counts` and `ShowsPage`. Each commits by
itself, as no service here opens a transaction. An UPDATE writes the whole row
that was read; one of a deleted row finds nothing and says so only where the
repository looks at the number of rows. `StatusOf` is the status a handler answers
an outcome with. Faults: a statement fails (`StatementFails`, and where the service goes
on after it, an action of its own), a message is not published.

### 8.2 Run

`api`: thirteen scenarios, each a few rows and the requests that may come, two at a
time and two to four in all: two is what every check-then-write needs to be
overtaken, the third and fourth look at what the two have left. Three ids per
table, at most one user, pages of one row, one failure.

* `LimitOvershoot`: the limit of users is passed by no more than the requests that
  overlap.
* `StatusIsHonest`: a request answered with a client error has written nothing, and
  a 500 has a cause.
* `OneDeleteAnswered`: of overlapping deletions of a row one is told 204.
* `GoneUserStaysGone`: a deleted user gets no rows and no reminders afterwards.
* `OneDigestPerChat`, `DigestTold`: one digest per chat, unless none is given and two
  requests overlap; and the worker has the times of the settings.
* `GroupInUseStays`: a group with a binding is deleted only by a request that
  overlaps the creation of the binding.
* `ListsAgree`: a filter that finds no chat shows nothing, and page and number of
  rows agree.
* `CompletedStays`: a completed backlog is opened again only by an overlapping update
  (targets are updated by the same operator, and not looked at by the property).
* `NothingGoesBack`: deleted rows do not change, and the time last seen grows.

### 8.3 Known to go wrong, without a run

* Two overlapping `DeleteUser` leave a task with the worker: one removes the chat by
  which the other would find the messenger. `DeleteUser` repeated after a failed
  publish does not find the task any more (`user_service.go:285`).
* Recurring parents of a deleted user stay live and armed: the query of
  `GetTasksByUserID` leaves them out. Digest settings and the Google account of
  a deleted user stay as well.
* A soft-deleted binding keeps its place in the unique index: binding the same
  calendar again answers 500.
* Moving a digest to another chat leaves the old chat told. Without a chat the unique
  index does not hold: two requests beside each other make two digests, and so does an
  update that writes back the copy of a digest moved away and replaced meanwhile.
* A batch with failed lines answers 201 with fewer ids.

### 8.4 Proofs

For any tables that a deployment may begin with, any requests, any number of them
beside each other and any number of failures (`ApiAssumption`):

`ApiProofs.tla` proves what every statement keeps. Its inductive invariant is `Inv`:

* `Base`: the types; a row that is not there is empty, a live one has no end; every
  row names requests of the log; a request that waits has not ended; the copy a
  request is about to write back is of a row that is there and still belongs to
  the same user (`CopyOK`), because an update writes the *whole* row it read.
* `Honest` for every request: what it wrote fits the outcome it can still get. A
  client error is out of reach once something is written, so a handler that checked
  after a write would break it.
* `HeldOK`: a request that looks a row up by its id has found one from its second
  statement on.

Each kind of statement is shown once to keep it (`ReadsDoes`, `InsertsDoes`, ...); a
service is a sequence of kinds. From `Inv` follow `ApiTypeCorrect`,
`StatusIsHonestCorrect` and, with what a step does to a row (`RowStep`),
`NothingGoesBackCorrect`.

`RequestProofs.tla` proves what requests beside each other do to each other. Each
theorem strengthens `Inv` by what holds *between* two statements:

* `OneDeleteAnsweredCorrect`: a deletion past its DELETE is named by the row it
  deleted (`DeleteOK`), and a deleted row does not change.
* `GroupInUseStaysCorrect`: past the count, a group has no binding that was answered
  before the deletion began (`UseChecked`).
* `LimitOvershootCorrect`: users and requests between count and INSERT together stay
  below the limit and the width (`LimitInv`); every one of them saw the limit kept.
* `CompletedStaysCorrect`: a note that a request completed and that is open now has an
  overlapping update that wrote, or holds, an older copy (`StaysCompleted`).
* `GoneUserStaysGoneCorrect`: `GoneInv` says that an answered deletion has removed the
  user, so that a request which began later does not pass the statement that looks
  for the user. `SilentInv` follows a deletion `p`: while it sweeps, every task that
  was there before `p` is in its hand or gone (`SweepOK`); a task the worker still
  has is in the hand of `p`, or another deletion of the user or a queue request
  overlaps `p` (`SilentOK`). For the last step one has to know who removed a task
  or a chat that `p` does not find any more: `TaskEnd` and `ChatEnd` say that it was
  a deletion of the same user, and by `GoneInv` that one cannot have been answered
  before `p` began. `QueueOK` keeps a queue request that began later from arming a
  task it read before.

* `OneDigestPerChatCorrect`: the index on user and chat keeps two digests of one chat
  apart (`OnePerChat`) but not two for no chat, where only the service looks first. A
  digest for no chat is one in the table *or* in the hand of an update that will write
  its old chat back (`Loose`); any two of a user come from requests beside each other,
  or such an update ran beside one of the two (`LooseOK`). A creation that found none
  is beside the maker of any that turned up since (`LooseMade`).
* `DigestToldCorrect`: while the requests about digests run one at a time and no
  fault hits one (`Orderly`), a digest is either what the worker was last told of its
  user and chat or about to be told by the one in flight (`DigestKnown`), the worker
  knows no time of a digest that is gone but for the chats an update left
  (`MessageKnown`, `LeftBehind`), and who reaches the message holds what it is to
  tell (`TellerOK`).

* `ListsAgreeCorrect`: the chats a list filters on are never empty and stay chats of
  the messenger user that was asked for (`FilterOK`), since a row, deleted or not,
  keeps the chat and the key it was made with. Count and page are over the same rows: a
  statement that does not put itself on record as having written
  (`Recorded`) leaves every row a list looks at alone (`Spared`), so as long as
  nothing beside the list wrote (`Alone`) the number it holds is the number of rows
  (`CountOK`). How many rows a page has then follows from `PageCounts`: the rank of a
  row, the number of rows after it, numbers the rows without a gap.

With this every invariant the run `api` checks is a theorem.

## 9. Not modelled

| Part | Why |
|---|---|
| Completion shift (`prepareCompletionShift`) and rebasing of rules | calendar arithmetic on RRULE and cron texts; planned as operators (plan, 7) |
| Process start and shutdown, connection manager, reconnect loop of the producer | planned (plan, 8). Seen on the way: shutdown calls a cancel function that is assigned only when autoreschedule is enabled (`main.go:444`), and the health check replaces a handle of which the repositories keep the old value (`db.go:245`) |
| HTTP handlers of tasks, rate limiter | decoding and validation around the task service; the limiter is a library |
| OAuth round trip, token cipher, Google client | network I/O and cryptography |
| ICS import | a parser, then `CreateTask` for each event, with one result per event |
| Attachments | calls of an external service and generated code |
| Task history, audit log | append-only, nothing is decided on them |
| Configuration, logging, metrics, example clients | no state the other parts decide on |

In every part liveness under fairness is checked by TLC only: TLAPS proves no
statement about what must eventually happen. Two known races of the export hook
have no property, because nothing in the code answers them: a deletion during
the upsert of the same task leaves its event (`calendar_sync_service.go:1169`), and an
enqueue that fails is logged only (`calendar_sync_service.go:820`).
