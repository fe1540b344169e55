--------------------------- MODULE ImportProperties ---------------------------
(* What the import of a calendar promises. *)
EXTENDS CalendarImport

(* The variables have their types. *)
ImportTypeOK ==
  /\ now \in Time /\ edits \in Nat /\ summary \in Nat
  /\ google \in [Event -> EventRow]
  /\ binding \in BindingRow /\ revoked \in BOOLEAN
  /\ links \in [Event -> LinkRow]
  /\ tasks \in [TaskId -> TaskRow]
  /\ armed \in [TaskId -> Nat \cup {Never}]
  /\ sync \in [Syncer -> Sync] /\ removal \in Removal
  /\ scene \in DOMAIN Scenario /\ budget \in Nat
  /\ mixed \in BOOLEAN /\ cut \in BOOLEAN
  /\ untold \subseteq TaskId /\ dropped \subseteq TaskId \cup {NoTask}

Alone == ~mixed
MadeFor(e)   == {t \in TaskId : tasks[t].st # "none" /\ tasks[t].event = e}
AliveFor(e)  == {t \in MadeFor(e) : tasks[t].st = "live"}
TouchedBy(e) == MadeFor(e) \cap dropped # {}

(* The saved token is never ahead of the tasks: every change of an event it *)
(* covers has been written, whatever failed on the way and however often   *)
(* the list was read again, as long as no two of syncs, removal and user   *)
(* met.  A live event has a task with its text or a later one, a cancelled *)
(* one no linked task under the policy soft_delete_imported.               *)
TokenNotAhead ==
  Alone /\ binding.st # "disconnected" =>
    \A e \in Event :
      google[e].st # "none" /\ google[e].ver <= binding.token /\ links[e].origin = "imported"
        /\ ~TouchedBy(e)
      => IF google[e].st = "live" THEN \E t \in AliveFor(e) : tasks[t].text >= google[e].ver
         ELSE Sc.policy = "soft_delete" => ~Exists(links[e].task)

(* An event has one task, however often it is listed, until that task is   *)
(* gone: duplicates come from syncs that overlap, from a failure between   *)
(* the task and its link, and from a task that the user or, when its event *)
(* was cancelled for a while, the import deleted: the link stays with the  *)
(* task that is gone.                                                      *)
OneTaskPerEvent ==
  Alone /\ ~cut =>
    \A e \in Event : Cardinality(AliveFor(e)) <= 1 \/ AliveFor(e) # MadeFor(e)

(* Tasks without a chat that the import takes to have the binding's: what  *)
(* it tells the worker of them is not what their rows say (see the run     *)
(* doc_import_chat).                                                       *)
GivenChat == {t \in TaskId : tasks[t].st # "none" /\ Sc.chat /\ ~tasks[t].chat}

(* When nothing runs, the worker holds the start of exactly the open tasks *)
(* that have a chat and are not muted, unless a message was lost or late,  *)
(* or a row was not written after it.                                      *)
ImportArmed ==
  Alone /\ ~Busy =>
    \A t \in TaskId \ (untold \cup GivenChat) : armed[t] = ReminderOf(tasks[t])

(* A binding that was deleted stays as it is, and so does a task: the      *)
(* whole rows that running syncs and removals write back do not bring them *)
(* back.  And an account is not revoked while its binding is left, so that *)
(* a disconnect that fails half way can be repeated.                       *)
RemovedStays ==
  [][ /\ binding.st = "disconnected" => binding' = binding
      /\ \A t \in TaskId : tasks[t].st = "gone" => tasks'[t] = tasks[t]
      /\ revoked' => binding'.st = "disconnected" ]_vars

(* Nobody deletes the task of an event that is never cancelled.            *)
Kept(e) == Sc.events[e].st # "cancelled" /\ {"cancel", "remove"} \cap Sc.acts = {}

Imported(t) == tasks[t].st # "none" /\ Sc.tasks[t].st = "none"

(* Against the delete policy, the user still has the task.                 *)
Spared(t) ==
  CASE Sc.policy = "soft_delete" -> Exists(t)
    [] Sc.policy = "mute"        -> Exists(t) /\ ~tasks[t].muted
    [] OTHER                     -> FALSE

(* A removed binding has applied its policy to every task it had a link    *)
(* to, whatever failed before, and takes no exported task with it: those   *)
(* only go when the user deletes them or their event.  Tasks without a     *)
(* link are not found, so imported ones do stay: those that a failure cut  *)
(* off from their link, and those made for an event whose first task was   *)
(* gone, as its link keeps the first.  There are no others.                *)
UnboundIsEmpty ==
  Alone /\ binding.st = "disconnected" =>
    /\ \A t \in TaskId : Imported(t) /\ Spared(t) =>
         LET e == tasks[t].event IN
         /\ \A f \in Event : links[f].task # t
         /\ cut \/ AliveFor(e) # MadeFor(e)
    /\ \A e \in Event :
         links[e].origin = "exported" /\ Kept(e) => Exists(links[e].task)

(* The scheduler catches up with the calendar, or gives up at the limit of *)
(* attempts, or the binding is removed.                                    *)
CatchesUp ==
  <>[] \/ binding.st = "disconnected"
       \/ binding.st = "error" /\ binding.attempts >= MaxAttempts
       \/ binding.st = "active" /\ binding.token = edits

(* helpers.go:373 says that the chat of the binding is copied onto a task  *)
(* that has none, and the delete policy tells the worker to forget a task: *)
(* with nothing failing and no two actors meeting, a task that is gone is  *)
(* not reminded of.                                                        *)
GoneIsSilentAfterImport ==
  Alone /\ ~cut /\ ~Busy => \A t \in TaskId \ untold : tasks[t].st = "gone" => armed[t] = Never
=============================================================================
