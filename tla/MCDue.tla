------------------------------- MODULE MCDue --------------------------------
(***************************************************************************)
(* Small instances of the sample worker: one-time and recurring reminders, *)
(* with and without a preliminary one, and deletions.                      *)
(***************************************************************************)
EXTENDS DueProperties

Schedule(t, start, rule, before) ==
  [kind |-> "schedule", task |-> t, start |-> start, rule |-> rule,
   before |-> before]

Delete(t) == [Schedule(t, NoTime, "none", 0) EXCEPT !.kind = "delete"]

Messages ==
  UNION {{Schedule(t, 2, "none", 1), Schedule(t, 0, "rrule", 0),
          Schedule(t, NoTime, "cron", 1), Schedule(t, NoTime, "none", 0), Schedule(t, 2, "last", 1),
          Delete(t)} : t \in Task}
=============================================================================
