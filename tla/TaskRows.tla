------------------------------ MODULE TaskRows ------------------------------
(***************************************************************************)
(* The rows of the `tasks` table, the selections the repository makes on   *)
(* them, and the recurrence arithmetic the service applies to them.        *)
(* Nothing here has state: TaskService.tla owns the table.                 *)
(*                                                                         *)
(* Texts, identities of users and chats, groups and the pre-remind offset  *)
(* are left out.  A recurrence rule (cron_expression or rrule) is the flag *)
(* `rule`; every rule fires at the multiples of Period, which is what a    *)
(* cron expression without an anchor does.                                 *)
(***************************************************************************)
EXTENDS Integers, FiniteSets

CONSTANTS
  MaxTask,   (* how many rows the table can hold. Bounds the model.        *)
  DayLen,    (* length of a day, in units of time.                         *)
  Period     (* distance between two occurrences of a recurrence rule.     *)

ASSUME RowsAssumption ==
  /\ MaxTask \in Nat
  /\ DayLen \in Nat \ {0}
  /\ Period \in Nat \ {0}

Task   == 1..MaxTask
NoTask == 0
Time   == Nat

Status == {"pending", "scheduled", "done", "rescheduled", "postponed", "deleted"}

(* db: "absent" before the INSERT, "gone" once deleted_at is set.          *)
Row == [db     : {"absent", "live", "gone"},
        status : Status,
        parent : Task \cup {NoTask},
        rule   : BOOLEAN,            \* cron_expression or rrule is set
        conf   : BOOLEAN,            \* requires_confirmation
        muted  : BOOLEAN,
        mru    : BOOLEAN,            \* messenger_related_user_id is set
        start  : Time]

Absent == [db |-> "absent", status |-> "pending", parent |-> NoTask, rule |-> FALSE,
           conf |-> FALSE, muted |-> FALSE, mru |-> FALSE, start |-> 0]

-----------------------------------------------------------------------------
(* Selections.  `r` is a table, a function from Task to Row.               *)

Live(r, t) == r[t].db = "live"

(* GetTaskByID does not return a done task;                                *)
(* GetTaskByIDWithoutStatusFilter does.                                    *)
GetTaskByID(r, t) == Live(r, t) /\ r[t].status # "done"

GetChildTasksByParentID(r, q) == {t \in Task : Live(r, t) /\ r[t].parent = q}

Overdue(row, now) == row.start < now

(* Slip: only the status the comment on this query names.                  *)
ScheduledOnlyNeedRescheduling(r, now) ==
  {t \in Task : /\ Live(r, t)
                /\ r[t].status = "scheduled"
                /\ ~r[t].rule \/ r[t].parent # NoTask
                /\ Overdue(r[t], now)}

GetTasksNeedingRescheduling(r, now) ==
  {t \in Task : /\ Live(r, t)
                /\ r[t].status \in {"scheduled", "rescheduled", "postponed"}
                /\ ~r[t].rule \/ r[t].parent # NoTask
                /\ Overdue(r[t], now)}

GetTasksWithCronNeedingRescheduling(r, now) ==
  {t \in Task : /\ Live(r, t)
                /\ r[t].status = "scheduled"
                /\ r[t].rule
                /\ ~r[t].conf
                /\ Overdue(r[t], now)}

-----------------------------------------------------------------------------
(* Recurrence.                                                             *)

isRecurrenceParentWithConfirmation(row) == row.conf /\ row.rule

(* The first occurrence strictly after `from`.                             *)
nextRecurrenceAfter(from) == Period * (from \div Period + 1)

(* start_date of a row about to be published: its own when still to come,  *)
(* the next occurrence of its rule, or of its parent's rule; 0 when the    *)
(* row has nothing left to execute.                                        *)
nextExecutableStartDate(row, parentRow, now) ==
  IF ~Overdue(row, now) THEN row.start
  ELSE IF isRecurrenceParentWithConfirmation(row) THEN 0
  ELSE IF row.rule \/ (row.parent # NoTask /\ parentRow.rule)
         THEN nextRecurrenceAfter(now)
         ELSE 0

shouldRepublishScheduleAfterUnmute(row, now) ==
  /\ ~isRecurrenceParentWithConfirmation(row)
  /\ row.rule \/ row.parent # NoTask \/ ~Overdue(row, now)

(* RescheduleTask adds whole days to start until it is strictly after now. *)
addDaysUntilAfter(start, now) ==
  IF start + DayLen > now THEN start + DayLen
  ELSE start + DayLen * ((now - start) \div DayLen + 1)

sameDay(a, b) == a \div DayLen = b \div DayLen

(* The row of the next occurrence of the series of q, whose row is p.      *)
childOf(p, q, start, status) ==
  [db |-> "live", status |-> status, parent |-> q, rule |-> FALSE, conf |-> p.conf,
   muted |-> p.muted, mru |-> p.mru, start |-> start]

(* A child an operation on its parent still has to carry along.            *)
Unfinished(row) == row.status \notin {"done", "deleted"}
=============================================================================
