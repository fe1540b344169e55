--------------------------- MODULE TaskProperties ---------------------------
(***************************************************************************)
(* What the task service promises about the table of tasks and about the  *)
(* messages the worker acts on.  MCTask.tla checks it on small instances,  *)
(* TaskProofs.tla proves part of it for every instance.                    *)
(***************************************************************************)
EXTENDS TaskService

(* Every variable keeps its type; in particular every row a handler is     *)
(* about to write is a row the table can hold.                             *)
TypeOK ==
  /\ rows \in [Task -> Row]
  /\ wire \in [Task -> Wire]
  /\ now \in Nat
  /\ plan \in [Proc -> Seq(Step)]
  /\ held \in [Proc -> SUBSET Task]
  /\ dirty \in [Proc -> [Task -> Row]]
  /\ budget \in Nat

AllIdle == \A p \in Proc : Idle(p)

Active(t) == Live(rows, t) /\ Unfinished(rows[t])
ActiveChildren(q) == {c \in Task : Active(c) /\ rows[c].parent = q}

-----------------------------------------------------------------------------
(* Whatever runs at the same time.                                         *)

(* A handler works on rows it read some statements ago and writes all of   *)
(* their columns.  Even so no write reaches a row deleted in between: a    *)
(* soft-deleted row never changes again.                                   *)
DeletedFrozen ==
  [][\A t \in Task : rows[t].db = "gone" => rows'[t] = rows[t]]_vars

(* The rows an open transaction will bring to the table at its commit are  *)
(* still live there, and no other transaction will bring them too: that    *)
(* makes it safe to replace whole rows at the commit.                      *)
LocksAgree ==
  \A p \in Proc : \A t \in held[p] :
    /\ Live(rows, t)
    /\ \A q \in Proc \ {p} : t \notin held[q]

(* Transactions lock parent and children in different orders (an update    *)
(* the parent first, a deletion the children first), and some handlers     *)
(* write through the pool while others hold rows.  Every handler still     *)
(* ends, with the database resolving the deadlocks it can see.             *)
EveryRequestEnds == \A p \in Proc : (~Idle(p)) ~> Idle(p)

(* Every reminder whose time has passed unconfirmed is moved to a later    *)
(* one, by the autoreschedule job or by a client, each time it happens.    *)
(* (A series that is deleted while one of its occurrences is completed     *)
(* leaves the next one behind; the job passes over it.)  That includes the *)
(* child whose new day is the one of its parent's next occurrence, and     *)
(* disagrees with README.md:1061 ("Rescheduling is skipped"): the code     *)
(* moves it to that occurrence (RescheduleTask).                           *)
MissedReminder(t) ==
  /\ Live(rows, t)
  /\ rows[t].status \in {"scheduled", "rescheduled", "postponed"}
  /\ IF rows[t].parent = NoTask THEN ~rows[t].rule ELSE Live(rows, rows[t].parent)
  /\ rows[t].start < now
MissedRemindersMove == \A t \in Task : MissedReminder(t) ~> ~MissedReminder(t)

-----------------------------------------------------------------------------
(* One request after another, with failing statements and messages and     *)
(* with crashes between any two statements.                                *)

(* A series of confirmations never has two occurrences waiting for the     *)
(* user, however its requests failed and were repeated.  (Two requests at  *)
(* once, the run doc_done_twice, do break it.)                             *)
AtMostOneActiveChild ==
  \A q \in Task : Cardinality(ActiveChildren(q)) <= 1

(* A task that is over is not left in the worker: delete_task is sent      *)
(* inside the transaction that deletes or completes the row, and a failure *)
(* to send it keeps the row.                                               *)
FinishedNotArmed ==
  \A t \in Task : rows[t].db = "gone" \/ rows[t].status = "done" => ~Armed(t)

(* Deleting a series takes its occurrences with it or does nothing.        *)
GoneParentHasNoActiveChild ==
  \A q \in Task : rows[q].db = "gone" => ActiveChildren(q) = {}

-----------------------------------------------------------------------------
(* One request after another, without failures, between requests.          *)

(* The worker holds no reminder of a muted task, nor of the parent of a    *)
(* series with confirmation, which does not execute itself: nothing done   *)
(* to the task, to its parent or to its children arms one.                 *)
SilentNotArmed ==
  AllIdle => \A t \in Task :
    Live(rows, t) /\ (rows[t].muted \/ isRecurrenceParentWithConfirmation(rows[t]))
      => ~Armed(t)

(* A series with confirmation has an occurrence waiting for the user as    *)
(* long as it is not finished, and none when its parent is done:           *)
(* completing one, or turning confirmation on, brings the next, completing *)
(* the parent takes all.  (Giving a rule to a confirmation task brings     *)
(* none, and is left out of the run.)                                      *)
SeriesHasItsOccurrence ==
  AllIdle => \A q \in Task :
    /\ Active(q) /\ isRecurrenceParentWithConfirmation(rows[q]) => ActiveChildren(q) # {}
    /\ Live(rows, q) /\ rows[q].status = "done" => ActiveChildren(q) = {}

(* The worker fires when the table says: through updates of the parent,    *)
(* muting, completion and rescheduling, the start_date of the last         *)
(* schedule_task is the one stored.                                        *)
ArmedMatchesRow ==
  AllIdle => \A t \in Task :
    Active(t) /\ ~rows[t].rule /\ Armed(t) => wire[t] = rows[t].start

-----------------------------------------------------------------------------
(* What the documentation or a comment says and the code does not do.      *)

(* publishScheduleTaskEvent: with a transaction, start_date "stays in the  *)
(* caller's transaction"; so no handler waits for a row it holds itself.   *)
NoSelfBlock ==
  \A p \in Proc : At(p, "write") => Next1(p).t \notin held[p]
=============================================================================
