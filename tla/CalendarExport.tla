--------------------------- MODULE CalendarExport ----------------------------
(***************************************************************************)
(* What the outbox is for.  A change of a task writes its row, then the    *)
(* hook of the handler reads the row and the link, and queues exports; a   *)
(* scheduler reads the row and the link again, calls Google, and writes    *)
(* the link.  Every line between two of these steps belongs to the others. *)
(***************************************************************************)
EXTENDS SyncOutbox

CONSTANTS
  MaxTask,       (* how many tasks are created.  Bounds the model.         *)
  Binding,       (* bindings of direction export or both; each has its own *)
                 (* calendar, and possibly a group.                        *)
  Client,        (* requests that may be open at the same time.            *)
  MaxChange,     (* how many requests are served.  Bounds the model.       *)
  Overlap,       (* may a task be deleted while it is being exported, or   *)
                 (* moved while the hook of another request looks at it?   *)
  ExportFaults   (* subset of {"call", "lost", "write", "enqueue"}.        *)

ASSUME ExportAssumption ==
  /\ MaxTask \in Nat /\ MaxChange \in Nat /\ Overlap \in BOOLEAN
  /\ ExportFaults \subseteq {"call", "lost", "write", "enqueue"}

VARIABLES
  tasks,     (* the rows of tasks: what of them the export looks at.       *)
  links,     (* task_sync_links in order of id; a deleted row is not live. *)
  events,    (* the events at Google.                                      *)
  job,       (* kind and payload of each row of the outbox.                *)
  hook,      (* how far a request has come after it wrote the row.         *)
  work,      (* how far a scheduler has come with its current item.        *)
  changes,   (* how many requests were served.                             *)
  orphans    (* history: the events whose creation no link was written of. *)

clientVars == <<tasks, hook, changes>>
workVars   == <<links, events, work, orphans>>
exportVars == <<box, locked, batch, tasks, links, events, job, hook, work, changes, orphans>>

TaskId == 1..MaxTask
NoTask == 0

(* scope: the bindings whose group the task matches.  ver counts the       *)
(* changes of what an event shows.                                         *)
TaskRow == [db : {"absent", "live", "gone"}, scope : SUBSET Binding, ver : Nat]
Link    == [live : BOOLEAN, task : TaskId, binding : Binding, event : Nat]
Event   == [live : BOOLEAN, task : TaskId, binding : Binding, ver : Nat]
Job     == [kind : {"export_upsert", "export_delete"}, task : TaskId, binding : Binding]
Hook    == [at : {"idle", "task", "link", "send"}, task : TaskId \cup {NoTask},
            gone : BOOLEAN, scope : SUBSET Binding, jobs : SUBSET Job]
Work    == [at : {"idle", "link", "google", "write", "ok", "error"},
            ver : Nat, link : Nat, event : Nat]

NoHook == [at |-> "idle", task |-> NoTask, gone |-> FALSE, scope |-> {}, jobs |-> {}]
NoWork == [at |-> "idle", ver |-> 0, link |-> 0, event |-> 0]
NoJob  == [kind |-> "none"]

(* GetByTaskID: the newest link of the task, 0 if there is none.           *)
LinksOf(t)     == {l \in DOMAIN links : links[l].live /\ links[l].task = t}
GetByTaskID(t) ==
  IF LinksOf(t) = {} THEN 0 ELSE CHOOSE l \in LinksOf(t) : \A k \in LinksOf(t) : k <= l

(* TRUE, and FALSE where the environment may let this step fail.           *)
MayFail(fault) == {TRUE} \cup {o \in {FALSE} : fault \in ExportFaults}

Exporting(w, t) == work[w].at # "idle" /\ \E c \in batch[w] : Current(w, c) /\ job[c.id].task = t

-----------------------------------------------------------------------------
(* Requests.  The service writes the row, then calls OnTaskChanged.        *)
Change(c, t, row) ==
  /\ hook[c].at = "idle"
  /\ changes < MaxChange
  /\ tasks' = [tasks EXCEPT ![t] = row]
  /\ hook' = [hook EXCEPT ![c] = [NoHook EXCEPT !.at = "task", !.task = t,
                                                !.gone = (row.db = "gone")]]
  /\ changes' = changes + 1
  /\ UNCHANGED <<boxVars, job, workVars>>

CreateTask(c, t, S) ==
  /\ tasks[t].db = "absent"
  /\ Change(c, t, [db |-> "live", scope |-> S, ver |-> 1])

UpdateTask(c, t) ==
  /\ tasks[t].db = "live"
  /\ Change(c, t, [tasks[t] EXCEPT !.ver = @ + 1])

(* An update of group_id; the event does not show it.                      *)
MoveTask(c, t, S) ==
  /\ tasks[t].db = "live" /\ tasks[t].scope # S
  /\ Overlap \/ \A d \in Client : hook[d].task # t
  /\ Change(c, t, [tasks[t] EXCEPT !.scope = S])

DeleteTask(c, t) ==
  /\ tasks[t].db = "live"
  /\ Overlap \/ \A w \in Worker : ~Exporting(w, t)
  /\ Change(c, t, [tasks[t] EXCEPT !.db = "gone"])

-----------------------------------------------------------------------------
(* EnqueueExport.  A deleted row is not found: a deletion goes on with the *)
(* link alone, anything else ends with an error that is only logged.       *)
HookReadTask(c) ==
  LET h == hook[c] IN
    /\ h.at = "task"
    /\ hook' = [hook EXCEPT ![c] =
         IF tasks[h.task].db = "gone" /\ ~h.gone THEN NoHook
         ELSE [h EXCEPT !.at = "link", !.scope = tasks[h.task].scope]]
    /\ UNCHANGED <<boxVars, job, workVars, tasks, changes>>

Jobs(kind, t, S) == [kind : {kind}, task : {t}, binding : S]

(* Slips: the link of a deleted task is not looked at; a task that was     *)
(* exported is not exported again.                                         *)
ExportsOfLive(t, gone, S) == IF gone THEN {} ELSE
  LET linked == {links[l].binding : l \in LinksOf(t) \cap {GetByTaskID(t)}}
  IN  Jobs("export_upsert", t, S \cup linked) \cup Jobs("export_delete", t, linked \ S)

ExportsOfNew(t, gone, S) ==
  LET linked == {links[l].binding : l \in LinksOf(t) \cap {GetByTaskID(t)}}
      left   == IF gone THEN linked ELSE linked \ S
  IN  Jobs("export_upsert", t, S \ linked) \cup Jobs("export_delete", t, left)

(* What to queue for task t, that was found in scope S, or not found.      *)
ExportsOf(t, gone, S) ==
  LET linked == {links[l].binding : l \in LinksOf(t) \cap {GetByTaskID(t)}}
      left   == IF gone THEN linked ELSE linked \ S
      kept   == IF gone THEN {} ELSE S \cup linked
  IN  Jobs("export_upsert", t, kept \ left) \cup Jobs("export_delete", t, left)

HookReadLink(c) ==
  LET h == hook[c]
      jobs == ExportsOf(h.task, h.gone, h.scope)
  IN  /\ h.at = "link"
      /\ hook' = [hook EXCEPT ![c] =
           IF jobs = {} THEN NoHook ELSE [h EXCEPT !.at = "send", !.jobs = jobs]]
      /\ UNCHANGED <<boxVars, job, workVars, tasks, changes>>

(* Upserts before deletes, in no order otherwise: the code ranges over a   *)
(* Go map.  The first failing insert ends it.                              *)
HookEnqueue(c) ==
  LET h == hook[c] IN
    /\ h.at = "send"
    /\ UNCHANGED <<workVars, tasks, changes>>
    /\ \E j \in h.jobs, i \in Item, ok \in MayFail("enqueue") :
         /\ j.kind = "export_delete" => \A k \in h.jobs : k.kind = "export_delete"
         /\ box[i].status = "absent" /\ \A k \in Item : k < i => box[k].status # "absent"
         /\ IF ok
              THEN /\ Enqueue(i)
                   /\ job' = [job EXCEPT ![i] = j]
                   /\ hook' = [hook EXCEPT ![c] =
                        IF h.jobs = {j} THEN NoHook ELSE [h EXCEPT !.jobs = @ \ {j}]]
              ELSE /\ hook' = [hook EXCEPT ![c] = NoHook]
                   /\ UNCHANGED <<boxVars, job>>

-----------------------------------------------------------------------------
(* processOutboxItem, for the current item c of scheduler w.               *)
Upserting(w, c) == Current(w, c) /\ job[c.id].kind = "export_upsert"
Deleting(w, c)  == Current(w, c) /\ job[c.id].kind = "export_delete"

Goes(w, step) == work' = [work EXCEPT ![w] = step]

UpsertReadTask(w, c) ==
  LET t == job[c.id].task IN
    /\ Upserting(w, c) /\ work[w].at = "idle"
    /\ Goes(w, IF tasks[t].db = "gone" THEN [NoWork EXCEPT !.at = "error"]
               ELSE [NoWork EXCEPT !.at = "link", !.ver = tasks[t].ver])
    /\ UNCHANGED <<boxVars, clientVars, job, links, events, orphans>>

(* Slip: the calendar of the link is compared with the wrong binding, so   *)
(* that no linked event is ever recognised.                                *)
UpsertReadNoEvent(w, c) ==
  /\ Upserting(w, c) /\ work[w].at = "link"
  /\ Goes(w, [work[w] EXCEPT !.at = "google", !.link = GetByTaskID(job[c.id].task)])
  /\ UNCHANGED <<boxVars, clientVars, job, links, events, orphans>>

(* An event of another calendar than the binding's counts as none.         *)
UpsertReadLink(w, c) ==
  LET l == GetByTaskID(job[c.id].task) IN
    /\ Upserting(w, c) /\ work[w].at = "link"
    /\ Goes(w, [work[w] EXCEPT !.at = "google", !.link = l,
                  !.event = IF l # 0 /\ links[l].binding = job[c.id].binding
                              THEN links[l].event ELSE 0])
    /\ UNCHANGED <<boxVars, clientVars, job, links, events, orphans>>

(* A call about event e is answered, or fails with or without its effect.  *)
(* About an event that is deleted Google may always complain: only 404 of  *)
(* a deletion is taken for an answer.                                      *)
Answers(e) == {"ok"} \cup (ExportFaults \cap {"call", "lost"})
                     \cup {a \in {"call"} : e # 0 /\ ~events[e].live}

Called(w, answer, event) ==
  Goes(w, IF answer = "ok" THEN [work[w] EXCEPT !.at = "write", !.event = event]
          ELSE [work[w] EXCEPT !.at = "error"])

(* PatchEvent on the linked event, else CreateEvent.                       *)
UpsertCallGoogle(w, c) ==
  LET j == job[c.id]
      e == work[w].event
  IN  /\ Upserting(w, c) /\ work[w].at = "google"
      /\ \E answer \in Answers(e) :
           /\ events' = IF answer = "call" THEN events
                        ELSE IF e # 0 THEN [events EXCEPT ![e].ver = work[w].ver]
                        ELSE Append(events, [live |-> TRUE, task |-> j.task,
                                             binding |-> j.binding, ver |-> work[w].ver])
           /\ orphans' = IF answer = "lost" /\ e = 0 THEN orphans \cup {Len(events')} ELSE orphans
           /\ Called(w, answer, IF e # 0 THEN e ELSE Len(events'))
      /\ UNCHANGED <<boxVars, clientVars, job, links>>

(* The event in the hands of w that no link names.                         *)
Unlinked(w) ==
  {e \in {work[w].event} \ {0} :
     work[w].at = "write" /\ \A l \in DOMAIN links : links[l].live => links[l].event # e}

(* A patch rewrites columns of the link that are not modelled; an event    *)
(* that was created goes into the link that was read, or into a new one.   *)
UpsertWriteLink(w, c) ==
  LET j == job[c.id]
      l == work[w].link
      row == [live |-> TRUE, task |-> j.task, binding |-> j.binding, event |-> work[w].event]
  IN  /\ Upserting(w, c) /\ work[w].at = "write"
      /\ \E ok \in MayFail("write") : LET written == ok /\ (l = 0 \/ links[l].live) IN
           /\ links' = IF ~written THEN links
                       ELSE IF l = 0 THEN Append(links, row) ELSE [links EXCEPT ![l] = row]
           /\ orphans' = IF written THEN orphans ELSE orphans \cup Unlinked(w)
           /\ Goes(w, [NoWork EXCEPT !.at = IF written THEN "ok" ELSE "error"])
      /\ UNCHANGED <<boxVars, clientVars, job, events>>

DeleteReadLink(w, c) ==
  LET l == GetByTaskID(job[c.id].task) IN
    /\ Deleting(w, c) /\ work[w].at = "idle"
    /\ Goes(w, IF l = 0 THEN [NoWork EXCEPT !.at = "ok"]
               ELSE [NoWork EXCEPT !.at = "google", !.link = l, !.event = links[l].event])
    /\ UNCHANGED <<boxVars, clientVars, job, links, events, orphans>>

(* DeleteEvent on the event of the link that was read.                     *)
DeleteCallGoogle(w, c) ==
  LET e == work[w].event IN
    /\ Deleting(w, c) /\ work[w].at = "google"
    /\ \E answer \in Answers(e) :
         /\ events' = IF answer = "call" THEN events ELSE [events EXCEPT ![e].live = FALSE]
         /\ Called(w, answer, e)
    /\ UNCHANGED <<boxVars, clientVars, job, links, orphans>>

DeleteWriteLink(w, c) ==
  LET l == work[w].link IN
    /\ Deleting(w, c) /\ work[w].at = "write"
    /\ \E ok \in MayFail("write") :
         /\ links' = IF ok THEN [links EXCEPT ![l].live = FALSE] ELSE links
         /\ Goes(w, [NoWork EXCEPT !.at = IF ok /\ links[l].live THEN "ok" ELSE "error"])
    /\ UNCHANGED <<boxVars, clientVars, job, events, orphans>>

(* The rest of the iteration of ProcessOutbox.                             *)
FinishItem(w, c) ==
  /\ \/ work[w].at = "ok" /\ MarkDone(w, c)
     \/ work[w].at = "error" /\ MarkRetryOrFailed(w, c)
  /\ Goes(w, NoWork)
  /\ UNCHANGED <<clientVars, job, links, events, orphans>>

ProcessItem(w) ==
  \E c \in batch[w] :
    \/ UpsertReadTask(w, c) \/ UpsertReadLink(w, c)
    \/ UpsertCallGoogle(w, c) \/ UpsertWriteLink(w, c)
    \/ DeleteReadLink(w, c) \/ DeleteCallGoogle(w, c) \/ DeleteWriteLink(w, c)
    \/ FinishItem(w, c)

ClaimBatch(w) == Claiming(w) /\ UNCHANGED <<clientVars, job, workVars>>
Crash(w)      == /\ CrashWorker(w) /\ Goes(w, NoWork) /\ orphans' = orphans \cup Unlinked(w)
                 /\ UNCHANGED <<clientVars, job, links, events>>
TimePasses    == BoxTick /\ UNCHANGED <<clientVars, job, workVars>>

-----------------------------------------------------------------------------
ExportInit ==
  /\ BoxInit
  /\ tasks = [t \in TaskId |-> [db |-> "absent", scope |-> {}, ver |-> 0]]
  /\ links = <<>> /\ events = <<>>
  /\ job = [i \in Item |-> NoJob]
  /\ hook = [c \in Client |-> NoHook]
  /\ work = [w \in Worker |-> NoWork]
  /\ changes = 0 /\ orphans = {}

Request(c) ==
  \/ \E t \in TaskId : UpdateTask(c, t) \/ DeleteTask(c, t)
  \/ \E t \in TaskId, S \in SUBSET Binding : CreateTask(c, t, S) \/ MoveTask(c, t, S)
  \/ HookReadTask(c) \/ HookReadLink(c) \/ HookEnqueue(c)

ExportNext ==
  \/ \E c \in Client : Request(c)
  \/ \E w \in Worker : ClaimBatch(w) \/ ProcessItem(w) \/ Crash(w)
  \/ TimePasses

ExportSpec == ExportInit /\ [][ExportNext]_exportVars

-----------------------------------------------------------------------------
(* Every variable keeps its type; no item is queued for a binding that     *)
(* does not exist.                                                         *)
ExportTypeOK ==
  /\ tasks \in [TaskId -> TaskRow]
  /\ links \in Seq(Link) /\ events \in Seq(Event)
  /\ job \in [Item -> Job \cup {NoJob}]
  /\ hook \in [Client -> Hook]
  /\ \A c \in Client : hook[c].at = "idle" \/ hook[c].task # NoTask
  /\ work \in [Worker -> Work]
  /\ changes \in Nat /\ orphans \subseteq Nat

ItemsOf(t) == {i \in Item : box[i].status # "absent" /\ job[i].task = t}
EventsOf(t, b) == {e \in DOMAIN events : events[e].live /\ events[e].task = t
                                         /\ events[e].binding = b}

(* Nothing is left to be done for t.                                       *)
AtRest(t) ==
  /\ \A c \in Client : hook[c].task # t
  /\ \A i \in ItemsOf(t) : box[i].status \in {"done", "failed"}

(* An event is created anew when the link does not name one.  So a task    *)
(* has one event in its calendar, for each scheduler that may create one   *)
(* at the same time, and besides only orphans: events whose creation was   *)
(* not answered, or whose link was not written.  Retries, lost marks, late *)
(* and repeated updates and deletions never add another.  (Of one calendar *)
(* only: the one link of a task does not name the events of two.)          *)
OneEventPerCalendar ==
  \A t \in TaskId, b \in Binding :
    Cardinality(EventsOf(t, b) \ orphans) <= Cardinality(Worker)

(* When a task was deleted and its items are through, no event is left,    *)
(* also not by an upsert that was retried after the deletion; orphans are, *)
(* as nothing in the code knows of them any more.                          *)
GoneHasNoEvent ==
  \A t \in TaskId, b \in Binding :
    /\ tasks[t].db = "gone" /\ AtRest(t)
    /\ \A i \in ItemsOf(t) : job[i].kind = "export_delete" => box[i].status = "done"
    => EventsOf(t, b) \subseteq orphans

(* When the items of a task are through, the calendars in whose scope it   *)
(* is show its last change, in whatever order its upserts were tried and   *)
(* also after it left and came back.  (A delete that is retried late may   *)
(* take away what a newer upsert brought.)                                 *)
InScopeIsCurrent ==
  \A t \in TaskId, b \in Binding :
    /\ tasks[t].db = "live" /\ b \in tasks[t].scope /\ AtRest(t)
    /\ \A i \in ItemsOf(t) : box[i].status = "done"
    /\ \A i \in ItemsOf(t) : job[i].kind = "export_delete" => box[i].attempts = 0
    => \E e \in EventsOf(t, b) : events[e].ver = tasks[t].ver
=============================================================================
