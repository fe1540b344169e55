---------------------------- MODULE TaskService -----------------------------
(***************************************************************************)
(* The task service: HTTP handlers and the daily autoreschedule job, which *)
(* read rows, compute on what they read, and then write rows and publish   *)
(* worker messages one statement at a time, interleaved with each other.   *)
(*                                                                         *)
(* A handler is the sequence of statements it still has to run, plan[p].   *)
(* An action that starts a request does the handler's first read, with its *)
(* checks and early returns, and lays out the statements that follow; a    *)
(* later read of the handler is a statement that lays out more.  A row in  *)
(* a statement is therefore what the handler believed when it computed it: *)
(* the table may have moved since.                                         *)
(*                                                                         *)
(* Transactions are PostgreSQL's, read committed: an UPDATE locks its rows *)
(* until the transaction ends, its effect is seen by others at the commit, *)
(* and a waiting UPDATE looks at the row again when it gets the lock.      *)
(***************************************************************************)
EXTENDS TaskRows, SequencesExt

CONSTANTS
  Handler,         (* slots for concurrent HTTP requests.                  *)
  Cron,            (* the goroutine of the autoreschedule scheduler.       *)
  MaxInFlight,     (* how many of them run at once; 1: one after another.  *)
  MaxRequests,     (* how many requests are served. Bounds the model.      *)
  MaxTime,         (* last instant. Bounds the model.                      *)
  Ops,             (* the operations clients call in this instance.        *)
  CreateRequests,  (* the rows clients ask to create.                      *)
  PutRequests,     (* the updates clients ask for.                         *)
  Faults           (* subset of {"publish", "db", "crash"}.                *)

Proc == Handler \cup {Cron}

(* An update names the fields it sends; "keep" and -1 stand for omitted.   *)
Put == [status : Status \cup {"keep"},
        start  : Time \cup {-1},
        rule   : {"keep", "set", "clear"},
        conf   : {"keep", "on", "off"},
        muted  : {"keep", "on", "off"},
        meta   : BOOLEAN]         \* another title, description or pre-remind

ASSUME ServiceAssumption ==
  /\ Cron \notin Handler
  /\ IsFiniteSet(Handler)
  /\ MaxInFlight \in Nat
  /\ MaxRequests \in Nat
  /\ MaxTime \in Nat
  /\ Ops \subseteq {"create", "update", "delete", "done", "mute", "unmute", "queue"}
  /\ CreateRequests \subseteq {r \in Row : r.db = "live" /\ r.parent = NoTask}
  /\ PutRequests \subseteq Put
  /\ Faults \subseteq {"publish", "db", "crash"}

VARIABLES
  rows,      (* the committed table.                                       *)
  wire,      (* the last message published about each task.                *)
  now,
  plan,      (* the statements a handler has left, idle when there is none.*)
  held,      (* the rows its open transaction has written and locked,      *)
  dirty,     (* and what it wrote there.                                   *)
  budget     (* how many requests may still arrive.                        *)

vars == <<rows, wire, now, plan, held, dirty, budget>>

(* wire[t]: NoMsg, Deleted, or the start_date of the schedule_task.        *)
NoMsg   == -2
Deleted == -1
Wire    == {NoMsg, Deleted} \cup Time
Armed(t) == wire[t] >= 0

-----------------------------------------------------------------------------
(* Statements.  `msg` is what a "publish" sends, and what a row statement  *)
(* is followed by once it has succeeded; `must` says whose failure ends    *)
(* the handler with an error; `why` is what changed, for "sync".           *)

Changes == {"meta", "start", "rule", "muteGiven", "muteToggled",
            "confRemoved", "ruleRemoved"}

Statements ==
  {"write", "txwrite", "txdelete", "txdeletechildren", "insert", "spawn",
   "publish", "publishMoved", "resched", "sync", "deleteChildren", "nextChild",
   "doneChildren", "muteChildren", "unmuteChildren", "reschedule"}

Fields(Do, T) == [do   : Do,
                  t    : T,
                  row  : Row,
                  msg  : {"none", "delete", "schedule", "resched"},
                  must : SUBSET {"row", "msg"},
                  why  : SUBSET Changes]

(* Only the commit and the last part of the job are not about one task.    *)
Step == Fields(Statements, Task) \cup Fields({"commit", "reschedulecron"}, {NoTask})

Do(do, t, row, msg, must) ==
  [do |-> do, t |-> t, row |-> row, msg |-> msg, must |-> must, why |-> {}]

Publish(t, row, msg, must) == Do("publish", t, row, msg, must)
Commit == Do("commit", NoTask, Absent, "none", {"row"})

Idle(p) == plan[p] = <<>>
Next1(p) == Head(plan[p])
At(p, do) == ~Idle(p) /\ Next1(p).do = do

(* The head statement of p is replaced by `steps`.                         *)
Continue(p, steps) == plan' = [plan EXCEPT ![p] = steps \o Tail(@)]

(* The deferred rollback: the handler returns an error.                    *)
Abort(p) ==
  /\ plan'  = [plan EXCEPT ![p] = <<>>]
  /\ held'  = [held EXCEPT ![p] = {}]
  /\ dirty' = [dirty EXCEPT ![p] = [t \in Task |-> Absent]]

(* What follows a row statement that succeeded.                            *)
After(s) ==
  CASE s.msg = "none"    -> <<>>
    [] s.msg = "resched" -> <<[s EXCEPT !.do = "resched"]>>
    [] OTHER             -> <<[s EXCEPT !.do = "publish"]>>

-----------------------------------------------------------------------------
(* Requests.                                                               *)

InFlight == {p \in Proc : ~Idle(p)}

Begin(p, op, steps) ==
  /\ op \in Ops
  /\ p \in Handler
  /\ Idle(p)
  /\ Cardinality(InFlight) < MaxInFlight
  /\ budget > 0
  /\ budget' = budget - 1
  /\ plan' = [plan EXCEPT ![p] = steps]
  /\ UNCHANGED <<wire, now, held, dirty>>

Free == {t \in Task : rows[t].db = "absent"}
NewId == CHOOSE t \in Free : TRUE

(* A confirmation parent gets its first child, pending, at its own start;  *)
(* neither row is published: the client asks for that.                     *)
CreateTask(p) ==
  \E row \in CreateRequests :
    /\ Free # {}
    /\ rows' = [rows EXCEPT ![NewId] = row]
    /\ Begin(p, "create",
             IF isRecurrenceParentWithConfirmation(row)
               THEN <<Do("insert", NewId, childOf(row, NewId, row.start, "pending"),
                         "none", {})>>
               ELSE <<>>)

applyUpdate(old, u) ==
  [old EXCEPT !.status = IF u.status = "keep" THEN @ ELSE u.status,
              !.start  = IF u.start = -1 THEN @ ELSE u.start,
              !.rule   = IF u.rule = "keep" THEN @ ELSE u.rule = "set",
              !.conf   = IF u.conf = "keep" THEN @ ELSE u.conf = "on",
              !.muted  = IF u.muted = "keep" THEN @ ELSE u.muted = "on"]

changesOf(old, new, u) ==
  LET wasParent == isRecurrenceParentWithConfirmation(old) IN
    {c \in Changes :
      \/ c = "meta" /\ u.meta
      \/ c = "start" /\ new.start # old.start
      \/ c = "rule" /\ new.rule # old.rule
      \/ c = "muteGiven" /\ u.muted # "keep"
      \/ c = "muteToggled" /\ new.muted # old.muted
      \/ c = "confRemoved" /\ old.conf /\ ~new.conf
      \/ c = "ruleRemoved" /\ wasParent /\ ~new.rule}

(* Messages about the updated row itself, unless it is a confirmation      *)
(* parent.  None of them can fail the request.                             *)
ownMessages(t, old, new, u) ==
  LET why == changesOf(old, new, u)
      toDeleted == old.status # new.status /\ new.status = "deleted"
      toScheduled == old.status # new.status /\ new.status = "scheduled"
  IN  (IF toDeleted THEN <<Publish(t, new, "delete", {})>>
       ELSE IF toScheduled \/ {"meta", "start", "rule"} \cap why # {}
         THEN <<Do("resched", t, new, "resched", {})>>
         ELSE <<>>)
      \o
      (IF "muteToggled" \notin why THEN <<>>
       ELSE IF new.muted THEN <<Publish(t, new, "delete", {})>>
       ELSE <<Do("resched", t, new, "resched", {})>>)

(* A task that is or was a confirmation parent is updated in a transaction *)
(* together with its children; one that becomes such a parent by turning   *)
(* requires_confirmation on gets its first child after the commit.         *)
updatePlan(t, old, new, u) ==
  LET why       == changesOf(old, new, u)
      isParent  == isRecurrenceParentWithConfirmation(new)
      wasParent == isRecurrenceParentWithConfirmation(old)
      own       == IF isParent THEN <<>> ELSE ownMessages(t, old, new, u)
  IN  IF ~isParent /\ ~wasParent
        THEN <<Do("write", t, new, "none", {"row"})>> \o own
        ELSE <<Do("txwrite", t, new, "none", {"row"})>>
             \o own
             \o <<[Do("sync", t, new, "none", {"row"}) EXCEPT !.why = why]>>
             \o (IF isParent /\ ~old.conf
                   THEN <<Publish(t, new, "delete", {}),
                          Do("spawn", t, new, "schedule", {})>>
                   ELSE <<>>)

UpdateTask(p) ==
  \E t \in Task, u \in PutRequests :
    /\ GetTaskByID(rows, t)
    /\ Begin(p, "update", updatePlan(t, rows[t], applyUpdate(rows[t], u), u))
    /\ UNCHANGED rows

(* Slips of DeleteTask: the children are forgotten; the row is written     *)
(* through the pool, outside the transaction that holds the children.      *)
DeleteRowOnly(p) ==
  \E t \in Task :
    /\ Live(rows, t)
    /\ Begin(p, "delete", <<Do("txdelete", t, rows[t], "delete", {"row", "msg"}), Commit>>)
    /\ UNCHANGED rows

DeleteThroughPool(p) ==
  \E t \in Task :
    /\ Live(rows, t)
    /\ Begin(p, "delete",
             (IF rows[t].rule
                THEN <<Do("deleteChildren", t, rows[t], "none", {"row"})>> ELSE <<>>)
             \o <<Do("write", t, [rows[t] EXCEPT !.db = "gone", !.status = "deleted"],
                     "delete", {"row", "msg"}), Commit>>)
    /\ UNCHANGED rows

(* The rows go in one transaction, and the messages are sent inside it.    *)
DeleteTask(p) ==
  \E t \in Task :
    /\ Live(rows, t)
    /\ Begin(p, "delete",
             (IF rows[t].rule
                THEN <<Do("deleteChildren", t, rows[t], "none", {"row"})>> ELSE <<>>)
             \o <<Do("txdelete", t, rows[t], "delete", {"row", "msg"}), Commit>>)
    /\ UNCHANGED rows

QueueTask(p) ==
  \E t \in Task, msg \in {"schedule", "delete"} :
    /\ GetTaskByID(rows, t)
    /\ Begin(p, "queue", <<Publish(t, rows[t], msg, {"msg"})>>)
    /\ UNCHANGED rows

MuteTask(p) ==
  \E t \in Task :
    /\ Live(rows, t) /\ rows[t].status # "deleted" /\ ~rows[t].muted
    /\ LET new == [rows[t] EXCEPT !.muted = TRUE] IN
         Begin(p, "mute",
               <<Do("write", t, new, "none", {"row"})>>
               \o (IF isRecurrenceParentWithConfirmation(new)
                     THEN <<Do("muteChildren", t, new, "none", {})>> ELSE <<>>)
               \o <<Publish(t, new, "delete", {})>>)
    /\ UNCHANGED rows

UnmuteTask(p) ==
  \E t \in Task :
    /\ Live(rows, t) /\ rows[t].status # "deleted" /\ rows[t].muted
    /\ LET new == [rows[t] EXCEPT !.muted = FALSE] IN
         Begin(p, "unmute",
               <<Do("write", t, new, "none", {"row"})>>
               \o (IF isRecurrenceParentWithConfirmation(new)
                     THEN <<Do("unmuteChildren", t, new, "none", {})>> ELSE <<>>)
               \o <<Do("resched", t, new, "resched", {})>>)
    /\ UNCHANGED rows

(* Slips of MarkTaskAsDone: the next child is created before the old one   *)
(* is done; the message is sent once the transaction is over.              *)
DoneNextChildFirst(p) ==
  \E t \in Task :
    /\ Live(rows, t) /\ rows[t].status # "done"
    /\ LET new == [rows[t] EXCEPT !.status = "done"] IN
         Begin(p, "done",
               (IF new.parent # NoTask
                  THEN <<Do("nextChild", new.parent, new, "none", {})>> ELSE <<>>)
               \o <<Do("txwrite", t, new, "delete", {"row", "msg"}), Commit>>)
    /\ UNCHANGED rows

DonePublishLast(p) ==
  \E t \in Task :
    /\ Live(rows, t) /\ rows[t].status # "done"
    /\ LET new == [rows[t] EXCEPT !.status = "done"] IN
         Begin(p, "done",
               <<Do("txwrite", t, new, "none", {"row"}), Commit,
                 Publish(t, new, "delete", {"msg"})>>)
    /\ UNCHANGED rows

(* A task already done is answered as it is.  The next child of a series,  *)
(* and the children of a completed parent, come after the commit.          *)
MarkTaskAsDone(p) ==
  \E t \in Task :
    /\ Live(rows, t) /\ rows[t].status # "done"
    /\ LET new == [rows[t] EXCEPT !.status = "done"] IN
         Begin(p, "done",
               <<Do("txwrite", t, new, "delete", {"row", "msg"}), Commit>>
               \o (IF new.parent # NoTask
                     THEN <<Do("nextChild", new.parent, new, "none", {})>> ELSE <<>>)
               \o (IF new.rule
                     THEN <<Do("doneChildren", t, new, "none", {})>> ELSE <<>>))
    /\ UNCHANGED rows

(* Nothing to reschedule ends the job before the recurring tasks.          *)
RunScheduledRescheduling ==
  /\ Idle(Cron)
  /\ Cardinality(InFlight) < MaxInFlight
  /\ LET due == GetTasksNeedingRescheduling(rows, now) IN
       /\ due # {}
       /\ \E order \in SetToSeqs(due) :
            plan' = [plan EXCEPT ![Cron] =
                       [i \in DOMAIN order |->
                          Do("reschedule", order[i], rows[order[i]], "none", {})]
                       \o <<Do("reschedulecron", NoTask, Absent, "none", {})>>]
  /\ UNCHANGED <<rows, wire, now, held, dirty, budget>>

-----------------------------------------------------------------------------
(* The handlers' later reads.                                              *)

Read(p, steps) == Continue(p, steps) /\ UNCHANGED <<rows, wire, now, held, dirty, budget>>

Fail(p) == Abort(p) /\ UNCHANGED <<rows, wire, now, budget>>

(* A child of an updated parent, with the start it gets.  Turning the mute *)
(* off, or a new schedule, brings an overdue start forward.                *)
syncedChild(q, c, new, why) ==
  LET moved == {"rule", "start"} \cap why # {} /\ (new.rule \/ "start" \in why)
      child == [c EXCEPT !.muted = IF "muteGiven" \in why THEN new.muted ELSE @,
                         !.start = IF ~moved THEN @
                                   ELSE IF new.rule THEN nextRecurrenceAfter(now)
                                   ELSE new.start]
      unmuted == "muteToggled" \in why /\ ~new.muted
      next == nextExecutableStartDate(child, rows[q], now)
  IN  IF Overdue(child, now) /\ (moved \/ unmuted) /\ Live(rows, q) /\ next # 0
        THEN [child EXCEPT !.start = next] ELSE child

(* Slip: a new schedule is not a reason to publish.                        *)
RepublishedTextOnly(child, new, why) ==
  /\ "meta" \in why \/ ("muteToggled" \in why /\ ~new.muted)
  /\ shouldRepublishScheduleAfterUnmute(child, now)
  /\ ~Overdue(child, now)

(* Is the child published once the transaction is committed?  Only with a  *)
(* start still to come.                                                    *)
republished(child, new, why) ==
  /\ \/ {"meta", "rule", "start"} \cap why # {}
     \/ "muteToggled" \in why /\ ~new.muted
  /\ shouldRepublishScheduleAfterUnmute(child, now)
  /\ ~Overdue(child, now)

(* requires_confirmation removed: every child goes and the former parent   *)
(* is scheduled itself.  Rule removed: the unfinished children go.         *)
(* Otherwise the children follow the parent, all but the done ones.        *)
SyncChildTasks(p) ==
  /\ At(p, "sync")
  /\ LET s    == Next1(p)
         kids == GetChildTasksByParentID(rows, s.t)
         open == {c \in kids : Unfinished(rows[c])}
         quiet == IF "muteToggled" \in s.why /\ s.row.muted
                    THEN <<Publish(s.t, s.row, "delete", {})>> ELSE <<>>
     IN
     \/ /\ "confRemoved" \in s.why
        /\ kids # {} => s.row.mru
        /\ \E order \in SetToSeqs(kids) :
             Read(p, (IF kids = {} THEN <<>>
                      ELSE <<Do("txdeletechildren", s.t, s.row, "none", {"row"})>>)
                     \o [i \in DOMAIN order |->
                           Publish(order[i], rows[order[i]], "delete", {"msg"})]
                     \o <<Do("resched", s.t, s.row, "resched", {})>> \o quiet \o <<Commit>>)
     \/ /\ "confRemoved" \notin s.why
        /\ "ruleRemoved" \in s.why
        /\ kids # {} => s.row.mru
        /\ \E order \in SetToSeqs(open) :
             Read(p, [i \in DOMAIN order |->
                        Do("txdelete", order[i], rows[order[i]], "delete", {"row", "msg"})]
                     \o quiet \o <<Commit>>)
     \/ /\ {"confRemoved", "ruleRemoved"} \cap s.why # {}
        /\ kids # {} /\ ~s.row.mru
        /\ Fail(p)
     \/ /\ {"confRemoved", "ruleRemoved"} \cap s.why = {}
        /\ \E order \in SetToSeqs({c \in kids : rows[c].status # "done"}) :
             LET child == [i \in DOMAIN order |->
                             syncedChild(s.t, rows[order[i]], s.row, s.why)]
                 mute  == IF "muteToggled" \in s.why /\ s.row.muted THEN "delete" ELSE "none"
             IN  Read(p,
                   (IF s.why = {} THEN <<>>
                    ELSE [i \in DOMAIN order |->
                            Do("txwrite", order[i], child[i], mute, {"row"})])
                   \o (IF kids = {} THEN quiet \o <<Commit>> ELSE <<Commit>>)
                   \o [i \in DOMAIN order |->
                         Publish(order[i], child[i],
                                 IF republished(child[i], s.row, s.why)
                                   THEN "schedule" ELSE "none", {})]
                   \o (IF kids = {} THEN <<>> ELSE quiet))

DeleteChildren(p) ==
  /\ At(p, "deleteChildren")
  /\ LET s    == Next1(p)
         kids == GetChildTasksByParentID(rows, s.t)
     IN  IF kids # {} /\ ~s.row.mru THEN Fail(p)
         ELSE \E order \in SetToSeqs(kids) :
                Read(p, (IF kids = {} THEN <<>>
                         ELSE <<Do("txdeletechildren", s.t, s.row, "none", {"row"})>>)
                        \o [i \in DOMAIN order |->
                              Publish(order[i], rows[order[i]], "delete", {"msg"})])

(* Slip: the rule is looked for on the child, which has none.              *)
NextOfChildRule(p) ==
  /\ At(p, "nextChild")
  /\ LET q == Next1(p).t IN
       Read(p, IF /\ Live(rows, q)
                  /\ isRecurrenceParentWithConfirmation(Next1(p).row)
                 THEN <<Do("insert", q,
                           childOf(rows[q], q, nextRecurrenceAfter(now), "scheduled"),
                           "schedule", {})>>
                 ELSE <<>>)

NextChild(p) ==
  /\ At(p, "nextChild")
  /\ LET q == Next1(p).t IN
       Read(p, IF /\ Live(rows, q)
                  /\ rows[q].status # "done"
                  /\ isRecurrenceParentWithConfirmation(rows[q])
                 THEN <<Do("insert", q,
                           childOf(rows[q], q, nextRecurrenceAfter(now), "scheduled"),
                           "schedule", {})>>
                 ELSE <<>>)

DoneChildren(p) ==
  /\ At(p, "doneChildren")
  /\ \E order \in SetToSeqs({c \in GetChildTasksByParentID(rows, Next1(p).t) :
                              Unfinished(rows[c])}) :
       Read(p, [i \in DOMAIN order |->
                  Do("txwrite", order[i], [rows[order[i]] EXCEPT !.status = "done"],
                     "delete", {"row", "msg"})]
               \o <<Commit>>)

(* Slip: the children are muted in the table only.                         *)
MuteChildrenSilently(p) ==
  /\ At(p, "muteChildren") \/ At(p, "unmuteChildren")
  /\ LET mute == Next1(p).do = "muteChildren" IN
     \E order \in SetToSeqs({c \in GetChildTasksByParentID(rows, Next1(p).t) :
                              Unfinished(rows[c])}) :
       Read(p, [i \in DOMAIN order |->
                  Do("write", order[i], [rows[order[i]] EXCEPT !.muted = mute],
                     IF mute THEN "none" ELSE "resched", {})])

(* The children of a muted or unmuted parent, one statement each.          *)
MuteChildren(p) ==
  /\ At(p, "muteChildren") \/ At(p, "unmuteChildren")
  /\ LET mute == Next1(p).do = "muteChildren" IN
     \E order \in SetToSeqs({c \in GetChildTasksByParentID(rows, Next1(p).t) :
                              Unfinished(rows[c])}) :
       Read(p, [i \in DOMAIN order |->
                  Do("write", order[i], [rows[order[i]] EXCEPT !.muted = mute],
                     IF mute THEN "delete" ELSE "resched", {})])

(* publishScheduleTaskEvent with advancePastStartDate and no transaction:  *)
(* an overdue start is moved in the table first, through the pool.  The    *)
(* handler's later statements about the row share it, and see it moved.    *)
PublishSchedule(p) ==
  /\ At(p, "resched")
  /\ LET s     == Next1(p)
         q     == s.row.parent
         late  == Overdue(s.row, now)
         above == IF q = NoTask THEN Absent ELSE rows[q]
         next  == nextExecutableStartDate(s.row, above, now)
         new   == [s.row EXCEPT !.start = next]
         rest  == [i \in DOMAIN Tail(plan[p]) |->
                     LET r == Tail(plan[p])[i] IN
                       IF r.t = s.t THEN [r EXCEPT !.row.start = next] ELSE r]
     IN  IF \/ ~shouldRepublishScheduleAfterUnmute(s.row, now)
            \/ late /\ q # NoTask /\ above.db # "live"
            \/ next = 0 /\ late
           THEN Read(p, <<>>)
         ELSE IF ~late THEN Read(p, <<Publish(s.t, s.row, "schedule", {})>>)
         ELSE /\ plan' = [plan EXCEPT ![p] =
                              <<Do("write", s.t, new, "schedule", {})>> \o rest]
              /\ UNCHANGED <<rows, wire, now, held, dirty, budget>>

(* One overdue task, +24h or with its series; a child whose parent row is  *)
(* gone is skipped.  The message goes first: a failed one leaves the row.  *)
RescheduleTask(p) ==
  /\ At(p, "reschedule")
  /\ LET s   == Next1(p)
         q   == s.row.parent
         day == addDaysUntilAfter(s.row.start, now)
         occ == nextRecurrenceAfter(now)
         new == [s.row EXCEPT
                   !.status = "rescheduled",
                   !.start = IF /\ q # NoTask
                                /\ rows[q].rule
                                /\ s.row.muted \/ sameDay(day, occ)
                               THEN occ ELSE day]
     IN  IF q # NoTask /\ ~Live(rows, q)
           THEN Read(p, <<>>)
           ELSE Read(p, <<Do("publishMoved", s.t, new, "schedule", {})>>)

(* Recurring tasks without confirmation: start_date only, no message.      *)
RescheduleCronTasks(p) ==
  /\ At(p, "reschedulecron")
  /\ \E order \in SetToSeqs(GetTasksWithCronNeedingRescheduling(rows, now)) :
       Read(p, [i \in DOMAIN order |->
                  Do("write", order[i],
                     [rows[order[i]] EXCEPT !.start = nextRecurrenceAfter(now)],
                     "none", {})])

-----------------------------------------------------------------------------
(* Statements.                                                             *)

LockedByOther(p, t) == \E q \in Proc \ {p} : t \in held[q]

(* A row as the transaction of p sees it.                                  *)
View(p, t) == IF t \in held[p] THEN dirty[p][t] ELSE rows[t]

(* Slip: the UPDATE does not ask for deleted_at IS NULL.                   *)
WriteAnyRow(p) ==
  /\ At(p, "write")
  /\ LET s == Next1(p) IN
       /\ \A q \in Proc : s.t \notin held[q]
       /\ rows' = [rows EXCEPT ![s.t] = s.row]
       /\ Continue(p, After(s))
  /\ UNCHANGED <<wire, now, held, dirty, budget>>

(* An UPDATE through the pool waits for every transaction, p's own too.    *)
(* It writes all columns of the row it was given; a row deleted meanwhile  *)
(* is not matched, which is no error.                                      *)
WriteRow(p) ==
  /\ At(p, "write")
  /\ LET s == Next1(p) IN
       /\ \A q \in Proc : s.t \notin held[q]
       /\ rows' = IF Live(rows, s.t) THEN [rows EXCEPT ![s.t] = s.row] ELSE rows
       /\ Continue(p, After(s))
  /\ UNCHANGED <<wire, now, held, dirty, budget>>

Stage(p, S, new) ==
  /\ \A t \in S : ~LockedByOther(p, t)
  /\ held'  = [held EXCEPT ![p] = @ \cup S]
  /\ dirty' = [dirty EXCEPT ![p] = [t \in Task |-> IF t \in S THEN new[t] ELSE @[t]]]
  /\ Continue(p, After(Next1(p)))
  /\ UNCHANGED <<rows, wire, now, budget>>

softDeleted(row) == [row EXCEPT !.db = "gone", !.status = "deleted"]

UpdateTaskWithTx(p) ==
  /\ At(p, "txwrite")
  /\ ~LockedByOther(p, Next1(p).t)
  /\ Stage(p, {t \in {Next1(p).t} : View(p, t).db = "live"},
           [t \in Task |-> Next1(p).row])

DeleteTaskWithTx(p) ==
  /\ At(p, "txdelete")
  /\ ~LockedByOther(p, Next1(p).t)
  /\ Stage(p, {t \in {Next1(p).t} : View(p, t).db = "live"},
           [t \in Task |-> softDeleted(View(p, t))])

DeleteChildTasksWithTx(p) ==
  /\ At(p, "txdeletechildren")
  /\ Stage(p, {t \in Task : View(p, t).db = "live" /\ View(p, t).parent = Next1(p).t},
           [t \in Task |-> softDeleted(View(p, t))])

CommitTx(p) ==
  /\ At(p, "commit")
  /\ rows'  = [t \in Task |-> View(p, t)]
  /\ held'  = [held EXCEPT ![p] = {}]
  /\ dirty' = [dirty EXCEPT ![p] = [t \in Task |-> Absent]]
  /\ Continue(p, <<>>)
  /\ UNCHANGED <<wire, now, budget>>

(* A child row, given ("insert") or of the next occurrence ("spawn").      *)
InsertChild(p) ==
  /\ At(p, "insert") \/ At(p, "spawn")
  /\ Free # {}
  /\ LET s   == Next1(p)
         row == IF s.do = "insert" THEN s.row
                ELSE childOf(s.row, s.t, nextRecurrenceAfter(now), "scheduled")
     IN  /\ rows' = [rows EXCEPT ![NewId] = row]
         /\ Continue(p, After([s EXCEPT !.t = NewId, !.row = row]))
  /\ UNCHANGED <<wire, now, held, dirty, budget>>

(* publishTaskEvent.  A schedule for a muted row is skipped, a row without *)
(* a chat is an error.  Publish may report an error for a message that has *)
(* reached the broker.  "publishMoved" writes the row once it is sent.     *)
Send(p) ==
  /\ At(p, "publish") \/ At(p, "publishMoved")
  /\ LET s       == Next1(p)
         quiet   == s.msg = "none" \/ (s.msg = "schedule" /\ s.row.muted)
         message == IF s.msg = "delete" THEN Deleted ELSE s.row.start
         after   == IF s.do = "publish" THEN <<>>
                    ELSE <<Do("write", s.t, s.row, "none", {})>>
         failed  == /\ IF "msg" \in s.must THEN Abort(p)
                       ELSE Continue(p, <<>>) /\ UNCHANGED <<held, dirty>>
                    /\ UNCHANGED <<rows, now, budget>>
     IN
     \/ /\ quiet /\ (s.msg = "schedule" => s.row.mru)
        /\ Read(p, after)
     \/ /\ ~quiet /\ s.row.mru
        /\ wire' = [wire EXCEPT ![s.t] = message]
        /\ Continue(p, after)
        /\ UNCHANGED <<rows, now, held, dirty, budget>>
     \/ /\ s.msg # "none" /\ ~s.row.mru
        /\ failed /\ UNCHANGED wire
     \/ /\ ~quiet /\ s.row.mru /\ "publish" \in Faults
        /\ failed /\ wire' \in {wire, [wire EXCEPT ![s.t] = message]}

-----------------------------------------------------------------------------
(* Faults and time.                                                        *)

(* A failed statement or read returns the error, or is logged and passed.  *)
StatementFails(p) ==
  /\ "db" \in Faults
  /\ ~Idle(p) /\ Next1(p).do \notin {"publish", "publishMoved"}
  /\ IF "row" \in Next1(p).must THEN Abort(p)
     ELSE Continue(p, <<>>) /\ UNCHANGED <<held, dirty>>
  /\ UNCHANGED <<rows, wire, now, budget>>

(* The rows the transaction of p is waiting for.                           *)
Wanted(p) ==
  CASE At(p, "txwrite") \/ At(p, "txdelete") -> {Next1(p).t}
    [] At(p, "txdeletechildren") -> {t \in Task : /\ View(p, t).db = "live"
                                                 /\ View(p, t).parent = Next1(p).t}
    [] OTHER -> {}

WaitsFor(p, q) == p # q /\ Wanted(p) \cap held[q] # {}

(* PostgreSQL ends one of the transactions that wait for each other.       *)
DeadlockDetected(p) ==
  /\ \E S \in SUBSET Proc : /\ p \in S
                            /\ \A q \in S : \E r \in S : WaitsFor(q, r)
                            /\ \A q \in S : \E r \in S : WaitsFor(r, q)
  /\ Abort(p)
  /\ UNCHANGED <<rows, wire, now, budget>>

(* The process dies: open transactions are rolled back.                    *)
Crash ==
  /\ "crash" \in Faults
  /\ InFlight # {}
  /\ plan'  = [p \in Proc |-> <<>>]
  /\ held'  = [p \in Proc |-> {}]
  /\ dirty' = [p \in Proc |-> [t \in Task |-> Absent]]
  /\ UNCHANGED <<rows, wire, now, budget>>

Tick ==
  /\ now < MaxTime
  /\ now' = now + 1
  /\ UNCHANGED <<rows, wire, plan, held, dirty, budget>>

-----------------------------------------------------------------------------
Init ==
  /\ rows   = [t \in Task |-> Absent]
  /\ wire   = [t \in Task |-> NoMsg]
  /\ now    = 1
  /\ plan   = [p \in Proc |-> <<>>]
  /\ held   = [p \in Proc |-> {}]
  /\ dirty  = [p \in Proc |-> [t \in Task |-> Absent]]
  /\ budget = MaxRequests

Request(p) ==
  \/ CreateTask(p) \/ UpdateTask(p) \/ DeleteTask(p) \/ QueueTask(p)
  \/ MuteTask(p) \/ UnmuteTask(p) \/ MarkTaskAsDone(p)

(* What a handler does once started, the database permitting.              *)
Proceed(p) ==
  \/ SyncChildTasks(p) \/ DeleteChildren(p) \/ NextChild(p) \/ DoneChildren(p)
  \/ MuteChildren(p) \/ PublishSchedule(p)
  \/ RescheduleTask(p) \/ RescheduleCronTasks(p)
  \/ WriteRow(p) \/ UpdateTaskWithTx(p) \/ DeleteTaskWithTx(p)
  \/ DeleteChildTasksWithTx(p) \/ CommitTx(p) \/ InsertChild(p) \/ Send(p)
  \/ DeadlockDetected(p)

Next ==
  \/ \E p \in Proc : Request(p) \/ Proceed(p) \/ StatementFails(p)
  \/ RunScheduledRescheduling
  \/ Crash
  \/ Tick

Spec == Init /\ [][Next]_vars

(* Goroutines are not stopped halfway, statements return, and the daily    *)
(* job comes round.                                                        *)
Fairness ==
  /\ \A p \in Proc : WF_vars(Proceed(p))
  /\ WF_vars(RunScheduledRescheduling)

FairSpec == Spec /\ Fairness
=============================================================================
