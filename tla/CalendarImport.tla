---------------------------- MODULE CalendarImport ----------------------------
(***************************************************************************)
(* One import binding.  Google lists the events that changed since the     *)
(* saved token; a sync writes them to the tasks one statement at a time,   *)
(* and saves the next token when it has come through the whole list.  The  *)
(* scheduler and a client may run it at the same time, while the binding   *)
(* is deleted, the account disconnected, and the tasks used.               *)
(***************************************************************************)
EXTENDS Integers, Sequences, FiniteSets

CONSTANTS
  Event,         \* events of the calendar
  MaxTask,       \* how many tasks are created (bound of the model)
  MaxTime,       \* the clock stops there (bound of the model)
  MaxAttempts,   \* MaxBindingSyncAttempts
  BackoffSteps,  \* bindingSyncBackoff, a sequence
  Period,        \* of every recurring event
  Scenario       \* a sequence of ScenarioType

Syncer  == {"poll", "force"}
TaskId  == 1..MaxTask
NoTask  == 0
NoToken == -1
Never   == -1
Time    == 0..MaxTime

\* ver: the change that made it what it is; tag: goreminder_task_id; bad: it
\* has no start.
EventRow == [st : {"none", "live", "cancelled"}, start : Nat, series : BOOLEAN,
             bad : BOOLEAN, tag : TaskId \cup {NoTask}, ver : Nat]

\* calendar_bindings; st is "disconnected" exactly when it is deleted.
BindingRow == [st : {"active", "error", "disconnected"}, token : Nat \cup {NoToken},
               attempts : Nat, next : Nat, summary : Nat]

\* task_sync_links by event; a link to NoTask is no link.
LinkRow == [task : TaskId \cup {NoTask}, origin : {"imported", "exported"}]
NoLink  == [task |-> NoTask, origin |-> "imported"]

\* event: the one it was made for; text: title and description, by the change
\* of the event they are from.
TaskRow == [st : {"none", "live", "gone"}, done : BOOLEAN, start : Nat, series : BOOLEAN,
            chat : BOOLEAN, muted : BOOLEAN, text : Nat, event : Event]

Listed == [ev : Event, row : EventRow]

\* A sync: its copy of the binding, what is listed and left to do, the token to
\* save, the link of the event at hand and whose it is, the task at hand.
Sync == [pc : {"idle", "open", "refresh", "list", "next", "create", "link", "read",
               "write", "tell", "relink", "policy", "unlink", "drop", "mute",
               "synced", "failed"},
         copy : BindingRow, todo : SUBSET Listed, upto : Nat,
         link : LinkRow, of : Event, id : TaskId \cup {NoTask}, row : TaskRow,
         tell : {"none", "schedule", "delete"}]

Removal == [pc : {"idle", "binding", "links", "read", "drop", "mute", "last", "revoke"},
            op : {"delete", "disconnect"}, todo : SUBSET TaskId,
            id : TaskId \cup {NoTask}, row : TaskRow]

\* What a scenario starts with, how often the world acts in it, how,
\* and until when.
ScenarioType ==
  [events : [Event -> EventRow], tasks : [TaskId -> TaskRow], links : [Event -> LinkRow],
   chat : BOOLEAN, policy : {"soft_delete", "mute", "keep"}, edits : Nat, budget : Nat,
   acts : SUBSET {"start", "text", "cancel", "rename", "force", "delete", "disconnect",
                  "complete", "remove", "db", "publish", "crash", "invalid"}, time : Time]

(* A calendar as a new binding finds it: unchanged so far, some of its      *)
(* events with a task of the user's, which is known by a link or by its tag.*)
Starts(sc) ==
  /\ \A e \in Event :
       /\ sc.events[e].ver = 0
       /\ sc.links[e] # NoLink => sc.links[e].task # NoTask /\ sc.links[e].origin = "exported"
       /\ \A t \in {sc.links[e].task, sc.events[e].tag} \ {NoTask} :
            sc.tasks[t].st = "live" /\ sc.tasks[t].event = e
  /\ \A t \in TaskId : sc.tasks[t].st # "none" =>
       LET e == sc.tasks[t].event IN t \in {sc.links[e].task, sc.events[e].tag}
  /\ \A t, u \in TaskId : "none" \notin {sc.tasks[t].st, sc.tasks[u].st} /\ t # u
       => sc.tasks[t].event # sc.tasks[u].event

ASSUME ImportAssumption ==
  /\ Event # {}
  /\ MaxTask \in Nat \ {0} /\ MaxTime \in Nat /\ MaxAttempts \in Nat \ {0}
  /\ Period \in Nat \ {0}
  /\ BackoffSteps \in Seq(Nat \ {0}) /\ BackoffSteps # <<>>
  /\ Scenario \in Seq(ScenarioType) /\ \A i \in DOMAIN Scenario : Starts(Scenario[i])

VARIABLES now,
          google,   \* the calendar
          edits,    \* how often it changed: the token it would give now
          summary,  \* its name
          binding, revoked, links, tasks,
          armed,    \* when the worker reminds of a task, Never if it does not
          sync, removal, scene,
          budget,   \* what is left of the scenario's budget (bound of the model)
          mixed,    \* have two of sync, removal and user met?
          cut,      \* did a statement fail, or the process stop in mid-sync?
          untold,   \* tasks written of which the worker was not told in time, or the reverse
          dropped   \* tasks the user deleted, one by one or with the binding

vars == <<now, google, edits, summary, binding, revoked, links, tasks, armed, sync,
          removal, scene, budget, mixed, cut, untold, dropped>>

world == <<now, google, edits, summary>>
rows  == <<binding, revoked, links, tasks, armed>>
notes == <<scene, budget, mixed, cut, untold, dropped>>

Sc == Scenario[scene]

-----------------------------------------------------------------------------
(* Statements.                                                             *)

(* Slip: a binding with an error is not tried again.                       *)
DueActive == binding.st = "active"

Due ==
  \/ binding.st = "active"
  \/ binding.st = "error" /\ binding.attempts < MaxAttempts /\ binding.next <= now

Connected == ~revoked

(* Slip: deleted bindings are written as well.                             *)
UpdateBindingBlindly(copy) == copy

(* bindings.Update writes the whole row, but not a deleted one.            *)
UpdateBinding(copy) == IF binding.st = "disconnected" THEN binding ELSE copy

ClearSyncToken == UpdateBinding([binding EXCEPT !.token = NoToken])

Exists(t) == t # NoTask /\ tasks[t].st = "live"

HasLink(e) == links[e].task # NoTask

Free == {t \in TaskId : tasks[t].st = "none" /\ \A u \in TaskId : u < t => tasks[u].st # "none"}

(* The events that changed since the token, or all; cancelled ones too.    *)
ListEvents(token) ==
  {[ev |-> e, row |-> google[e]] :
     e \in {e \in Event : google[e].st # "none" /\ google[e].ver > token}}

BindingSyncBackoff(n) == BackoffSteps[IF n > Len(BackoffSteps) THEN Len(BackoffSteps) ELSE n]

-----------------------------------------------------------------------------
(* MapEventToTaskFields: an event that has begun makes a completed task, a *)
(* recurring one moves to its next occurrence.                             *)
NextStart(start) == start + Period * ((now - start) \div Period + 1)

StartOf(ev) == IF ev.series /\ ev.start <= now THEN NextStart(ev.start) ELSE ev.start

Fields(x) ==
  [st |-> "live", done |-> StartOf(x.row) <= now, start |-> StartOf(x.row),
   series |-> x.row.series, chat |-> Sc.chat, muted |-> FALSE, text |-> x.row.ver,
   event |-> x.ev]

(* What an import makes of a task: the reminder of an exported task stays  *)
(* open when its event is over, and a chat is only given to a task without.*)
KeepOpen(origin, f) == origin = "exported" /\ f.done

Merged(row, f, origin) ==
  [row EXCEPT !.text = f.text, !.chat = @ \/ f.chat,
              !.start  = IF KeepOpen(origin, f) THEN @ ELSE f.start,
              !.series = IF KeepOpen(origin, f) THEN @ ELSE f.series,
              !.done   = IF KeepOpen(origin, f) THEN @ ELSE f.done]

ScheduleChanged(row, f) == row.start # f.start \/ row.series # f.series \/ row.text # f.text

(* Slip: the worker is only told of tasks that were closed.                *)
TellOfClosed(row, f, origin) ==
  IF KeepOpen(origin, f) \/ ~(row.chat \/ f.chat) THEN "none"
  ELSE CASE ~f.done /\ row.done -> "schedule"
         [] f.done /\ ~row.done -> "delete"
         [] OTHER               -> "none"

(* What the worker is told after an import.                                *)
TellOf(row, f, origin) ==
  IF KeepOpen(origin, f) \/ ~(row.chat \/ f.chat) THEN "none"
  ELSE CASE ~f.done /\ (ScheduleChanged(row, f) \/ row.done) -> "schedule"
         [] f.done /\ ~row.done                              -> "delete"
         [] OTHER                                            -> "none"

(* PublishImportedTaskSchedule and PublishImportedTaskDelete.  The worker  *)
(* sends what is due at once.                                              *)
PublishSchedule(t, row) ==
  IF row.chat /\ ~row.muted /\ row.start >= now
  THEN [armed EXCEPT ![t] = IF row.start > now THEN row.start ELSE Never]
  ELSE armed

PublishDelete(t, row) == IF row.chat THEN [armed EXCEPT ![t] = Never] ELSE armed

(* When the worker is to remind of a task: what the user is owed.          *)
ReminderOf(row) ==
  IF row.st = "live" /\ ~row.done /\ row.chat /\ ~row.muted /\ row.start > now
  THEN row.start ELSE Never

-----------------------------------------------------------------------------
(* The steps of a sync.                                                    *)

Running == {s \in Syncer : sync[s].pc # "idle"}
Busy    == Running # {} \/ removal.pc # "idle"

NoEvent == [st |-> "none", start |-> 0, series |-> FALSE, bad |-> FALSE,
            tag |-> NoTask, ver |-> 0]

NoRow == [st |-> "none", done |-> FALSE, start |-> 0, series |-> FALSE, chat |-> FALSE,
          muted |-> FALSE, text |-> 0, event |-> CHOOSE e \in Event : TRUE]

NewBinding == [st |-> "active", token |-> NoToken, attempts |-> 0, next |-> 0, summary |-> 0]

NoSync == [pc |-> "idle", copy |-> NewBinding, todo |-> {}, upto |-> 0,
           link |-> NoLink, of |-> CHOOSE e \in Event : TRUE, id |-> NoTask, row |-> NoRow,
           tell |-> "none"]

NoRemoval == [pc |-> "idle", op |-> "delete", todo |-> {}, id |-> NoTask, row |-> NoRow]

Step(s, pc, next) == sync[s].pc = pc /\ sync' = [sync EXCEPT ![s] = next]

Go(s, pc)    == [sync[s] EXCEPT !.pc = pc]
Fail(s)      == [NoSync EXCEPT !.pc = "failed", !.copy = sync[s].copy]
NextEvent(s) == [NoSync EXCEPT !.pc = "next", !.copy = sync[s].copy,
                               !.todo = sync[s].todo, !.upto = sync[s].upto]

Begin(s) ==
  /\ sync[s].pc = "idle"
  /\ sync' = [sync EXCEPT ![s].pc = "open", ![s].copy = binding]
  /\ mixed' = (mixed \/ Busy)
  /\ UNCHANGED <<world, rows, removal, scene, cut, untold, dropped>>

(* runOnce: ListDueForSync, then SyncBinding.                              *)
Poll == Due /\ Begin("poll") /\ UNCHANGED budget

ForceSync ==
  /\ "force" \in Sc.acts /\ budget > 0 /\ budget' = budget - 1
  /\ binding.st # "disconnected"
  /\ Begin("force")

(* clientForAccountID                                                      *)
Open(s) ==
  /\ Step(s, "open", IF Connected THEN Go(s, "refresh") ELSE Fail(s))
  /\ UNCHANGED <<world, rows, removal, notes>>

(* refreshBindingCalendarSummary                                           *)
Refresh(s) ==
  LET renamed == [sync[s].copy EXCEPT !.summary = summary] IN
  /\ Step(s, "refresh", [sync[s] EXCEPT !.pc = "list", !.copy = renamed])
  /\ binding' = IF sync[s].copy.summary = summary THEN binding ELSE UpdateBinding(renamed)
  /\ UNCHANGED <<world, revoked, links, tasks, armed, removal, notes>>

(* Slip: the next token is kept before the list is worked off.             *)
ListKeepsToken(s) ==
  /\ Step(s, "list", [sync[s] EXCEPT !.pc = "next", !.upto = edits, !.copy.token = edits,
                                     !.todo = ListEvents(sync[s].copy.token)])
  /\ UNCHANGED <<world, rows, removal, notes>>

List(s) ==
  /\ Step(s, "list", [sync[s] EXCEPT !.pc = "next", !.upto = edits,
                                     !.todo = ListEvents(sync[s].copy.token)])
  /\ UNCHANGED <<world, rows, removal, notes>>

(* The answer 410: the token is forgotten, and everything listed.          *)
TokenInvalid(s) ==
  /\ "invalid" \in Sc.acts /\ budget > 0 /\ budget' = budget - 1
  /\ sync[s].copy.token # NoToken
  /\ Step(s, "list", [sync[s] EXCEPT !.copy.token = NoToken])
  /\ binding' = ClearSyncToken
  /\ UNCHANGED <<world, revoked, links, tasks, armed, removal, scene, mixed, cut, untold, dropped>>

(* Slip: the link of the event itself is not looked up.                    *)
LinkedByTag(x) == {e \in Event : x.row.tag # NoTask /\ links[e].task = x.row.tag}

(* The link an event is taken for: its own, or that of the task it was     *)
(* exported from.                                                          *)
LinkedEvents(x) ==
  IF HasLink(x.ev) THEN {x.ev}
  ELSE {e \in Event : x.row.tag # NoTask /\ links[e].task = x.row.tag}

Take(s) ==
  \E x \in sync[s].todo :
    LET skipped == [sync[s] EXCEPT !.todo = @ \ {x}]
        taken  == [sync[s] EXCEPT !.todo = @ \ {x}, !.of = x.ev]
        fields == [taken EXCEPT !.row = Fields(x)]
        with(e) == [fields EXCEPT !.of = e, !.link = links[e], !.id = links[e].task]
    IN
    /\ UNCHANGED <<world, binding, revoked, tasks, armed, removal, notes>>
    /\ \/ /\ x.row.st = "cancelled" /\ ~HasLink(x.ev)
          /\ Step(s, "next", skipped)
          /\ UNCHANGED links
       \/ /\ x.row.st = "cancelled" /\ HasLink(x.ev)
          /\ Step(s, "next", [taken EXCEPT !.pc = "policy", !.link = links[x.ev],
                                           !.id = links[x.ev].task])
          /\ UNCHANGED links
       \/ /\ x.row.st = "live" /\ LinkedEvents(x) = {} /\ x.row.tag # NoTask
          /\ Step(s, "next", skipped)
          /\ links' = [links EXCEPT ![x.ev] = [task |-> x.row.tag, origin |-> "exported"]]
       \/ /\ x.row.st = "live" /\ LinkedEvents(x) = {} /\ x.row.tag = NoTask
          /\ Step(s, "next", IF x.row.bad THEN Fail(s)
                             ELSE [fields EXCEPT !.pc = "create"])
          /\ UNCHANGED links
       \/ \E e \in LinkedEvents(x) :
          /\ x.row.st = "live"
          /\ Step(s, "next", IF x.row.bad THEN Fail(s)
                             ELSE [with(e) EXCEPT !.pc = "read"])
          /\ UNCHANGED links

(* A new task, for a new event or for a link whose task is gone.           *)
CreateTask(s) ==
  \E t \in Free :
    /\ Step(s, "create", [sync[s] EXCEPT !.id = t, !.tell = "schedule",
                             !.pc = IF sync[s].link = NoLink THEN "link" ELSE "tell"])
    /\ tasks' = [tasks EXCEPT ![t] = sync[s].row]
    /\ UNCHANGED <<world, binding, revoked, links, armed, removal, notes>>

(* An event has one link.                                                  *)
CreateLink(s) ==
  LET e == sync[s].of IN
  /\ Step(s, "link", IF HasLink(e) THEN Fail(s) ELSE Go(s, "tell"))
  /\ links' = IF HasLink(e) THEN links
              ELSE [links EXCEPT ![e] = [task |-> sync[s].id, origin |-> "imported"]]
  /\ UNCHANGED <<world, binding, revoked, tasks, armed, removal, notes>>

(* The task of the link.  A link keeps its task for good: syncLinks.Update *)
(* does not write task_id.                                                 *)
ReadTask(s) ==
  LET t == sync[s].id
      f == sync[s].row
      o == sync[s].link.origin
      r == Merged(tasks[t], f, o)
      tell == TellOf(tasks[t], f, o)
  IN
  /\ Step(s, "read",
          IF ~Exists(t) THEN Go(s, "create")
          ELSE [sync[s] EXCEPT !.row = r, !.tell = tell,
                  !.pc = IF r # tasks[t] THEN "write"
                         ELSE IF tell # "none" THEN "tell" ELSE "relink"])
  /\ UNCHANGED <<world, rows, removal, notes>>

(* tasks.UpdateTask writes the row but for its chat, and not a deleted one; *)
(* it does not say whether it found the row.                               *)
UpdateTask(t, row) ==
  IF Exists(t) THEN [tasks EXCEPT ![t] = [row EXCEPT !.chat = tasks[t].chat]] ELSE tasks

DeleteTask(t) == IF Exists(t) THEN [tasks EXCEPT ![t].st = "gone"] ELSE tasks

WriteTask(s) ==
  /\ Step(s, "write", Go(s, IF sync[s].tell = "none" THEN "relink" ELSE "tell"))
  /\ tasks' = UpdateTask(sync[s].id, sync[s].row)
  /\ UNCHANGED <<world, binding, revoked, links, armed, removal, notes>>

AfterTell(s) == IF sync[s].link = NoLink THEN NextEvent(s) ELSE Go(s, "relink")

(* A start that has passed by now is not scheduled any more.               *)
TooLate(s) == sync[s].tell = "schedule" /\ sync[s].row.start < now

Tell(s) ==
  /\ Step(s, "tell", AfterTell(s))
  /\ armed' = IF sync[s].tell = "schedule" THEN PublishSchedule(sync[s].id, sync[s].row)
              ELSE PublishDelete(sync[s].id, sync[s].row)
  /\ untold' = IF TooLate(s) THEN untold \cup {sync[s].id} ELSE untold
  /\ UNCHANGED <<world, binding, revoked, links, tasks, removal, scene, budget, mixed, cut, dropped>>

(* syncLinks.Update: etag, duration and dates, which nothing here looks at.*)
Relink(s) ==
  /\ Step(s, "relink", IF HasLink(sync[s].of) THEN NextEvent(s) ELSE Fail(s))
  /\ UNCHANGED <<world, rows, removal, notes>>

(* applyCancelledEvent and applyImportedDeletePolicy.  The task is read    *)
(* and the worker told in one step.                                        *)
PolicyPc(t) ==
  CASE Sc.policy = "soft_delete"                      -> "drop"
    [] Sc.policy = "mute" /\ ~tasks[t].muted          -> "mute"
    [] OTHER                                          -> "next"

Silenced(t) == IF PolicyPc(t) = "next" THEN armed ELSE PublishDelete(t, tasks[t])

Policy(s) ==
  LET t == sync[s].id IN
  /\ Step(s, "policy", IF ~Exists(t) THEN Go(s, "unlink")
                       ELSE IF PolicyPc(t) = "next" THEN NextEvent(s)
                       ELSE [sync[s] EXCEPT !.pc = PolicyPc(t), !.row = tasks[t]])
  /\ armed' = IF Exists(t) THEN Silenced(t) ELSE armed
  /\ UNCHANGED <<world, binding, revoked, links, tasks, removal, notes>>

Unlink(s) ==
  /\ Step(s, "unlink", IF HasLink(sync[s].of) THEN NextEvent(s) ELSE Fail(s))
  /\ links' = [links EXCEPT ![sync[s].of] = NoLink]
  /\ UNCHANGED <<world, binding, revoked, tasks, armed, removal, notes>>

Drop(s) ==
  /\ Step(s, "drop", NextEvent(s))
  /\ tasks' = DeleteTask(sync[s].id)
  /\ UNCHANGED <<world, binding, revoked, links, armed, removal, notes>>

Mute(s) ==
  /\ Step(s, "mute", NextEvent(s))
  /\ tasks' = UpdateTask(sync[s].id, [sync[s].row EXCEPT !.muted = TRUE])
  /\ UNCHANGED <<world, binding, revoked, links, armed, removal, notes>>

(* markBindingSynced.  The copy is the one read when the sync began.       *)
Synced(s) == [sync[s].copy EXCEPT !.st = "active", !.attempts = 0, !.next = 0,
                                  !.token = sync[s].upto]

MarkSynced(s) ==
  /\ sync[s].todo = {}
  /\ Step(s, "next", NoSync)
  /\ binding' = UpdateBinding(Synced(s))
  /\ UNCHANGED <<world, revoked, links, tasks, armed, removal, notes>>

(* markBindingError.  No retry is set past the end of time (bound of the     *)
(* model).                                                                 *)
Errored(s) ==
  LET n     == sync[s].copy.attempts + 1
      retry == now + BindingSyncBackoff(n)
  IN [sync[s].copy EXCEPT !.st = "error", !.attempts = n,
                          !.next = IF retry > Sc.time THEN Sc.time ELSE retry]

MarkError(s) ==
  /\ Step(s, "failed", NoSync)
  /\ binding' = UpdateBinding(Errored(s))
  /\ UNCHANGED <<world, revoked, links, tasks, armed, removal, notes>>

-----------------------------------------------------------------------------
(* DeleteBinding, and DisconnectGoogle, which deletes the bindings first.  *)

Rm(pc, next) == removal.pc = pc /\ removal' = next

StartRemoval(op) ==
  /\ op \in Sc.acts /\ budget > 0 /\ budget' = budget - 1
  /\ IF op = "delete" THEN binding.st # "disconnected" ELSE ~revoked
  /\ Rm("idle", [NoRemoval EXCEPT !.op = op,
                   !.pc = IF op = "disconnect" /\ binding.st = "disconnected" THEN "revoke"
                          ELSE "binding"])
  /\ mixed' = (mixed \/ Busy)
  /\ UNCHANGED <<world, rows, sync, scene, cut, untold, dropped>>

(* Slip: exported tasks are removed as well.                               *)
RemovedAny == {links[e].task : e \in {e \in Event : HasLink(e)}}

RemovedTasks == {links[e].task : e \in {e \in Event : HasLink(e) /\ links[e].origin = "imported"}}

RmBinding ==
  /\ Rm("binding", IF binding.st = "disconnected" THEN NoRemoval
                   ELSE [removal EXCEPT !.pc = "links"])
  /\ UNCHANGED <<world, rows, sync, notes>>

RmLinks ==
  /\ Rm("links", [removal EXCEPT !.pc = "read", !.todo = RemovedTasks])
  /\ UNCHANGED <<world, rows, sync, notes>>

RmRead ==
  \E t \in removal.todo :
    /\ Rm("read", [removal EXCEPT !.todo = @ \ {t}, !.id = t, !.row = tasks[t],
                     !.pc = IF ~Exists(t) \/ PolicyPc(t) = "next" THEN "read" ELSE PolicyPc(t)])
    /\ armed' = IF Exists(t) THEN Silenced(t) ELSE armed
    /\ UNCHANGED <<world, binding, revoked, links, tasks, sync, notes>>

RmTask ==
  /\ \/ /\ Rm("drop", [removal EXCEPT !.pc = "read"])
        /\ tasks' = DeleteTask(removal.id)
        /\ dropped' = dropped \cup {removal.id}
     \/ /\ Rm("mute", [removal EXCEPT !.pc = "read"])
        /\ tasks' = UpdateTask(removal.id, [removal.row EXCEPT !.muted = TRUE])
        /\ UNCHANGED dropped
  /\ UNCHANGED <<world, binding, revoked, links, armed, sync, scene, budget, mixed, cut, untold>>

(* SoftDelete finds no row when another removal was faster.                *)
RmLast ==
  /\ removal.todo = {}
  /\ Rm("read", IF binding.st # "disconnected" /\ removal.op = "disconnect"
                THEN [removal EXCEPT !.pc = "revoke"] ELSE NoRemoval)
  /\ binding' = IF binding.st = "disconnected" THEN binding
                ELSE [binding EXCEPT !.st = "disconnected"]
  /\ UNCHANGED <<world, revoked, links, tasks, armed, sync, notes>>

RmRevoke ==
  /\ Rm("revoke", NoRemoval)
  /\ revoked' = TRUE
  /\ UNCHANGED <<world, binding, links, tasks, armed, sync, notes>>

-----------------------------------------------------------------------------
(* The world: the clock and the worker, the calendar, the user, failures.  *)

Act(a) == a \in Sc.acts /\ budget > 0 /\ budget' = budget - 1

Tick ==
  /\ now < Sc.time
  /\ now' = now + 1
  /\ armed' = [t \in TaskId |-> IF armed[t] <= now' THEN Never ELSE armed[t]]
  /\ UNCHANGED <<google, edits, summary, binding, revoked, links, tasks, sync, removal, notes>>

(* Every change of an event is one of its text as well.                    *)
Edit(e, row) ==
  /\ edits < Sc.edits
  /\ edits' = edits + 1
  /\ google' = [google EXCEPT ![e] = [row EXCEPT !.ver = edits']]
  /\ UNCHANGED <<now, summary, rows, sync, removal, notes>>

EditEvent(e) ==
  \/ \E t \in Time : "start" \in Sc.acts /\ Edit(e, [google[e] EXCEPT !.start = t, !.st = "live"])
  \/ google[e].st = "live" /\ "text" \in Sc.acts /\ Edit(e, google[e])
  \/ google[e].st = "live" /\ "cancel" \in Sc.acts /\ Edit(e, [google[e] EXCEPT !.st = "cancelled"])

Rename ==
  /\ Act("rename")
  /\ summary' = summary + 1
  /\ UNCHANGED <<now, google, edits, rows, sync, removal, scene, mixed, cut, untold, dropped>>

(* What the task service does in the end, see TaskService.                 *)
UserCompletes(t) ==
  /\ Act("complete") /\ Exists(t) /\ ~tasks[t].done
  /\ tasks' = [tasks EXCEPT ![t].done = TRUE]
  /\ armed' = [armed EXCEPT ![t] = Never]
  /\ mixed' = (mixed \/ Busy)
  /\ UNCHANGED <<world, binding, revoked, links, sync, removal, scene, cut, untold, dropped>>

UserDeletes(t) ==
  /\ Act("remove") /\ Exists(t)
  /\ tasks' = DeleteTask(t)
  /\ armed' = [armed EXCEPT ![t] = Never]
  /\ dropped' = dropped \cup {t}
  /\ mixed' = (mixed \/ Busy)
  /\ UNCHANGED <<world, binding, revoked, links, sync, removal, scene, cut, untold>>

(* A statement or a call of Google fails: of a sync, which then notes the  *)
(* error, unless that or the name is what fails; of a removal, which ends. *)
Half(pc) == pc \in {"link", "tell", "drop", "mute"}

SyncFails(s) ==
  /\ Act("db")
  /\ sync[s].pc \notin {"idle", "tell"}
  /\ sync' = [sync EXCEPT ![s] =
       IF sync[s].pc = "refresh" THEN Go(s, "list")
       ELSE IF sync[s].pc = "failed" \/ (sync[s].pc = "next" /\ sync[s].todo = {}) THEN NoSync
       ELSE Fail(s)]
  /\ cut' = TRUE
  /\ untold' = untold \cup (IF Half(sync[s].pc) THEN {sync[s].id} ELSE {})
  /\ UNCHANGED <<world, rows, removal, scene, mixed, dropped>>

RemovalFails ==
  /\ Act("db")
  /\ removal.pc # "idle"
  /\ removal' = NoRemoval
  /\ cut' = TRUE
  /\ untold' = untold \cup (IF Half(removal.pc) THEN {removal.id} ELSE {})
  /\ UNCHANGED <<world, rows, sync, scene, mixed, dropped>>

PublishFails(s) ==
  /\ Act("publish")
  /\ Step(s, "tell", AfterTell(s))
  /\ untold' = untold \cup {sync[s].id}
  /\ UNCHANGED <<world, rows, removal, scene, mixed, cut, dropped>>

InHalf == {sync[s].id : s \in {s \in Syncer : Half(sync[s].pc)}}
            \cup {t \in {removal.id} : Half(removal.pc)}

Crash ==
  /\ Act("crash") /\ Busy
  /\ sync' = [s \in Syncer |-> NoSync]
  /\ removal' = NoRemoval
  /\ cut' = TRUE
  /\ untold' = untold \cup InHalf
  /\ UNCHANGED <<world, rows, scene, mixed, dropped>>

-----------------------------------------------------------------------------
Init ==
  /\ scene \in DOMAIN Scenario
  /\ now = 0 /\ edits = 0 /\ summary = 0
  /\ google = Sc.events
  /\ binding = NewBinding /\ revoked = FALSE
  /\ links = Sc.links /\ tasks = Sc.tasks
  /\ armed = [t \in TaskId |-> ReminderOf(Sc.tasks[t])]
  /\ sync = [s \in Syncer |-> NoSync]
  /\ removal = NoRemoval
  /\ budget = Sc.budget
  /\ mixed = FALSE /\ cut = FALSE /\ untold = {} /\ dropped = {}

SyncStep(s) ==
  \/ Open(s) \/ Refresh(s) \/ List(s) \/ TokenInvalid(s) \/ Take(s) \/ CreateTask(s)
  \/ CreateLink(s) \/ ReadTask(s) \/ WriteTask(s) \/ Tell(s) \/ Relink(s) \/ Policy(s)
  \/ Unlink(s) \/ Drop(s) \/ Mute(s) \/ MarkSynced(s) \/ MarkError(s)

RemovalStep == RmBinding \/ RmLinks \/ RmRead \/ RmTask \/ RmLast \/ RmRevoke

World ==
  \/ Tick \/ Rename \/ Crash \/ RemovalFails
  \/ \E e \in Event : EditEvent(e)
  \/ \E t \in TaskId : UserCompletes(t) \/ UserDeletes(t)
  \/ \E s \in Syncer : SyncFails(s) \/ PublishFails(s)

Next ==
  \/ Poll \/ ForceSync
  \/ \E s \in Syncer : SyncStep(s)
  \/ \E op \in {"delete", "disconnect"} : StartRemoval(op)
  \/ RemovalStep \/ World

Spec == Init /\ [][Next]_vars

(* The clock goes on, the scheduler has its ticker, and what runs goes on. *)
FairSpec ==
  /\ Spec
  /\ WF_vars(Tick) /\ WF_vars(Poll) /\ WF_vars(RemovalStep)
  /\ \A s \in Syncer : WF_vars(SyncStep(s))
=============================================================================
