----------------------------- MODULE TaskProofs -----------------------------
(***************************************************************************)
(* Proofs about TaskService, for every value of its constants.             *)
(***************************************************************************)
EXTENDS TaskProperties, FiniteSetTheorems, SequenceTheorems, TLAPS

-----------------------------------------------------------------------------
(* Rows and recurrence.                                                    *)

(* A row that is not there is a row.                                       *)
LEMMA AbsentType == Absent \in Row
BY DEF Absent, Row, Task, NoTask, Time, Status

(* Integer division of natural numbers.                                    *)
LEMMA DivType == \A n \in Nat, d \in Nat \ {0} : n \div d \in Nat
BY SMT

(* The next occurrence is a point in time.                                 *)
LEMMA NextRecurrenceType == \A n \in Nat : nextRecurrenceAfter(n) \in Nat
<1> SUFFICES ASSUME NEW n \in Nat PROVE nextRecurrenceAfter(n) \in Nat
  OBVIOUS
<1>1. Period \in Nat \ {0}
  BY RowsAssumption
<1>2. n \div Period + 1 \in Nat
  BY <1>1, DivType
<1> QED
  BY <1>1, <1>2 DEF nextRecurrenceAfter

(* Adding days until after now gives a point in time.                      *)
LEMMA AddDaysType ==
  \A s \in Nat, n \in Nat : addDaysUntilAfter(s, n) \in Nat
<1> SUFFICES ASSUME NEW s \in Nat, NEW n \in Nat
             PROVE addDaysUntilAfter(s, n) \in Nat
  OBVIOUS
<1>1. DayLen \in Nat \ {0}
  BY RowsAssumption
<1>2. CASE s + DayLen > n
  BY <1>1, <1>2 DEF addDaysUntilAfter
<1>3. CASE ~(s + DayLen > n)
  <2>1. n - s \in Nat
    BY <1>1, <1>3
  <2>2. (n - s) \div DayLen + 1 \in Nat
    BY <1>1, <2>1, DivType
  <2>3. DayLen * ((n - s) \div DayLen + 1) \in Nat
    BY <1>1, <2>2
  <2> QED
    BY <1>1, <1>3, <2>3 DEF addDaysUntilAfter
<1> QED
  BY <1>2, <1>3

(* The next executable start is a point in time.                           *)
LEMMA NextExecutableType ==
  \A r \in Row, q \in Row, n \in Nat : nextExecutableStartDate(r, q, n) \in Nat
BY NextRecurrenceType DEF nextExecutableStartDate, Row, Time

(* The child of a parent is a row the table can hold.                      *)
LEMMA ChildType ==
  \A r \in Row, q \in Task, s \in Nat, st \in Status : childOf(r, q, s, st) \in Row
BY DEF childOf, Row, Time

(* Soft deletion leaves a row a row.                                       *)
LEMMA SoftDeletedType == \A r \in Row : softDeleted(r) \in Row
BY DEF softDeleted, Row, Status

(* What an update request makes of a row is a row.                         *)
LEMMA UpdatedType ==
  \A r \in Row, u \in Put : applyUpdate(r, u) \in Row
<1> SUFFICES ASSUME NEW r \in Row, NEW u \in Put
             PROVE applyUpdate(r, u) \in Row
  OBVIOUS
<1> DEFINE status == IF u.status = "keep" THEN r.status ELSE u.status
           start  == IF u.start = -1 THEN r.start ELSE u.start
           rule   == IF u.rule = "keep" THEN r.rule ELSE u.rule = "set"
           conf   == IF u.conf = "keep" THEN r.conf ELSE u.conf = "on"
           muted  == IF u.muted = "keep" THEN r.muted ELSE u.muted = "on"
<1>1. status \in Status
  BY DEF Row, Put
<1>2. start \in Time
  BY DEF Row, Put, Time
<1>3. rule \in BOOLEAN /\ conf \in BOOLEAN /\ muted \in BOOLEAN
  BY DEF Row, Put
<1>4. applyUpdate(r, u) = [r EXCEPT !.status = status, !.start = start, !.rule = rule,
                                     !.conf = conf, !.muted = muted]
  BY Zenon DEF applyUpdate
<1> HIDE DEF status, start, rule, conf, muted
<1> QED
  BY <1>1, <1>2, <1>3, <1>4 DEF Row

-----------------------------------------------------------------------------
(* Statements and sequences of statements.                                 *)

(* A statement on a row is a statement.                                    *)
LEMMA DoType ==
  \A do \in Statements, t \in Task, row \in Row,
     msg \in {"none", "delete", "schedule", "resched"},
     must \in SUBSET {"row", "msg"} :
       Do(do, t, row, msg, must) \in Step
BY DEF Do, Step, Fields

(* The commit is a statement.                                              *)
LEMMA CommitType == Commit \in Step /\ <<Commit>> \in Seq(Step)
BY AbsentType DEF Commit, Do, Step, Fields

(* One statement is a list of statements.                                  *)
LEMMA SingletonType == \A s \in Step : <<s>> \in Seq(Step)
OBVIOUS

(* What a statement leaves to be done after it is a list of statements.    *)
LEMMA AfterType == \A s \in Fields(Statements, Task) : After(s) \in Seq(Step)
<1> SUFFICES ASSUME NEW s \in Fields(Statements, Task) PROVE After(s) \in Seq(Step)
  OBVIOUS
<1>1. [s EXCEPT !.do = "resched"] \in Step /\ [s EXCEPT !.do = "publish"] \in Step
  BY DEF Step, Fields, Statements
<1>2. <<>> \in Seq(Step)
  OBVIOUS
<1> QED
  BY <1>1, <1>2, SingletonType DEF After

(* The order in which a set of children is visited is a sequence of them.  *)
LEMMA OrderType ==
  ASSUME NEW S \in SUBSET Task, NEW order \in SetToSeqs(S)
  PROVE  /\ DOMAIN order = 1..Cardinality(S)
         /\ Cardinality(S) \in Nat
         /\ \A i \in DOMAIN order : order[i] \in S
<1>1. IsFiniteSet(Task)
  BY RowsAssumption, FS_Interval DEF Task
<1>2. IsFiniteSet(S)
  BY <1>1, FS_Subset
<1> QED
  BY <1>2, FS_CardinalityType DEF SetToSeqs

(* A statement for each of a sequence of tasks is a list of statements.    *)
LEMMA ComprehensionType ==
  ASSUME NEW n \in Nat, NEW f, f \in [1..n -> Step]
  PROVE  f \in Seq(Step)
OBVIOUS

(* The first statement of a list that is not empty, and what is left.      *)
LEMMA HeadType ==
  ASSUME TypeOK, NEW p \in Proc, ~Idle(p)
  PROVE  Next1(p) \in Step /\ Tail(plan[p]) \in Seq(Step)
BY HeadTailProperties DEF TypeOK, Idle, Next1

(* Going on to another list of statements keeps the types.                 *)
LEMMA ContinueType ==
  ASSUME TypeOK, NEW p \in Proc, ~Idle(p), NEW steps \in Seq(Step), Continue(p, steps)
  PROVE  plan' \in [Proc -> Seq(Step)]
<1>1. steps \o Tail(plan[p]) \in Seq(Step)
  BY HeadType, ConcatProperties
<1> QED
  BY <1>1 DEF Continue, TypeOK

(* A read that only lays out statements keeps the types.                   *)
LEMMA ReadType ==
  ASSUME TypeOK, NEW p \in Proc, ~Idle(p), NEW steps \in Seq(Step), Read(p, steps)
  PROVE  TypeOK'
<1>1. plan' \in [Proc -> Seq(Step)]
  BY ContinueType DEF Read
<1> QED
  BY <1>1 DEF Read, TypeOK

(* Giving up the transaction and the request keeps the types.              *)
LEMMA AbortType ==
  ASSUME TypeOK, NEW p \in Proc, Abort(p)
  PROVE  /\ plan' \in [Proc -> Seq(Step)]
         /\ held' \in [Proc -> SUBSET Task]
         /\ dirty' \in [Proc -> [Task -> Row]]
<1>1. <<>> \in Seq(Step)
  OBVIOUS
<1>2. [t \in Task |-> Absent] \in [Task -> Row]
  BY AbsentType
<1> QED
  BY <1>1, <1>2 DEF Abort, TypeOK

(* Beginning a request with a list of statements keeps the types.          *)
LEMMA BeginType ==
  ASSUME TypeOK, NEW p \in Proc, NEW op, NEW steps \in Seq(Step), Begin(p, op, steps)
  PROVE  /\ plan' \in [Proc -> Seq(Step)]
         /\ budget' \in Nat
         /\ UNCHANGED <<wire, now, held, dirty>>
BY DEF Begin, TypeOK

(* What the committed table holds is a row.                                *)
LEMMA RowType == ASSUME TypeOK, NEW t \in Task PROVE rows[t] \in Row
BY DEF TypeOK

(* What a transaction sees of the table is a row.                          *)
LEMMA ViewType == ASSUME TypeOK, NEW p \in Proc, NEW t \in Task PROVE View(p, t) \in Row
BY DEF TypeOK, View

-----------------------------------------------------------------------------
(* Requests keep the types.                                                *)

(* No statements are a list of statements.                                 *)
LEMMA EmptyPlanType == <<>> \in Seq(Step)
OBVIOUS

(* A new id is the id of an absent row.                                    *)
LEMMA FreeType == Free # {} => NewId \in Task /\ rows[NewId].db = "absent"
BY DEF Free, NewId

(* CreateTask keeps every variable in its type.                            *)
LEMMA CreateTaskType == ASSUME TypeOK, NEW p \in Proc, CreateTask(p) PROVE TypeOK'
<1>1. PICK row \in CreateRequests :
        /\ Free # {}
        /\ rows' = [rows EXCEPT ![NewId] = row]
        /\ Begin(p, "create",
                 IF isRecurrenceParentWithConfirmation(row)
                   THEN <<Do("insert", NewId, childOf(row, NewId, row.start, "pending"),
                             "none", {})>>
                   ELSE <<>>)
  BY DEF CreateTask
<1>2. row \in Row /\ NewId \in Task
  BY <1>1, ServiceAssumption, FreeType
<1>3. childOf(row, NewId, row.start, "pending") \in Row
  BY <1>2, ChildType DEF Row, Time, Status
<1>4. Do("insert", NewId, childOf(row, NewId, row.start, "pending"), "none", {}) \in Step
  BY <1>2, <1>3, DoType DEF Statements
<1>5. (IF isRecurrenceParentWithConfirmation(row)
         THEN <<Do("insert", NewId, childOf(row, NewId, row.start, "pending"), "none", {})>>
         ELSE <<>>) \in Seq(Step)
  BY <1>4, SingletonType, EmptyPlanType
<1>6. rows' \in [Task -> Row]
  BY <1>1, <1>2 DEF TypeOK
<1> QED
  BY <1>1, <1>5, <1>6, BeginType DEF TypeOK

(* The statement that publishes a row is a list of statements.             *)
LEMMA PublishType ==
  \A t \in Task, row \in Row,
     msg \in {"none", "delete", "schedule", "resched"}, must \in SUBSET {"row", "msg"} :
       <<Publish(t, row, msg, must)>> \in Seq(Step)
BY DoType, SingletonType DEF Publish, Statements

(* One statement on a row is a list of statements.                         *)
LEMMA OneType ==
  \A do \in Statements, t \in Task, row \in Row,
     msg \in {"none", "delete", "schedule", "resched"},
     must \in SUBSET {"row", "msg"} :
       <<Do(do, t, row, msg, must)>> \in Seq(Step)
BY DoType, SingletonType

(* Lists of statements can be put together.                                *)
LEMMA ConcatType == \A a, b \in Seq(Step) : a \o b \in Seq(Step)
BY ConcatProperties

(* The messages an update sends about the task itself are statements.      *)
LEMMA OwnMessagesType ==
  ASSUME NEW t \in Task, NEW old \in Row, NEW new \in Row, NEW u \in Put
  PROVE  ownMessages(t, old, new, u) \in Seq(Step)
<1> DEFINE why == changesOf(old, new, u)
           toDeleted == old.status # new.status /\ new.status = "deleted"
           toScheduled == old.status # new.status /\ new.status = "scheduled"
           first == IF toDeleted THEN <<Publish(t, new, "delete", {})>>
                    ELSE IF toScheduled \/ {"meta", "start", "rule"} \cap why # {}
                      THEN <<Do("resched", t, new, "resched", {})>>
                      ELSE <<>>
           second == IF "muteToggled" \notin why THEN <<>>
                     ELSE IF new.muted THEN <<Publish(t, new, "delete", {})>>
                     ELSE <<Do("resched", t, new, "resched", {})>>
<1>1. <<Publish(t, new, "delete", {})>> \in Seq(Step)
  BY PublishType
<1>2. <<Do("resched", t, new, "resched", {})>> \in Seq(Step)
  BY OneType DEF Statements
<1>3. first \in Seq(Step) /\ second \in Seq(Step)
  BY <1>1, <1>2, EmptyPlanType
<1>4. ownMessages(t, old, new, u) = first \o second
  BY DEF ownMessages
<1> QED
  BY <1>3, <1>4, ConcatType

(* The plan of an update is a list of statements.                          *)
LEMMA UpdatePlanType ==
  ASSUME NEW t \in Task, NEW old \in Row, NEW new \in Row, NEW u \in Put
  PROVE  updatePlan(t, old, new, u) \in Seq(Step)
<1> DEFINE why       == changesOf(old, new, u)
           isParent  == isRecurrenceParentWithConfirmation(new)
           wasParent == isRecurrenceParentWithConfirmation(old)
           own       == IF isParent THEN <<>> ELSE ownMessages(t, old, new, u)
           sync      == [Do("sync", t, new, "none", {"row"}) EXCEPT !.why = why]
           spawn     == IF isParent /\ ~old.conf
                          THEN <<Publish(t, new, "delete", {}),
                                 Do("spawn", t, new, "schedule", {})>>
                          ELSE <<>>
<1>1. own \in Seq(Step)
  BY OwnMessagesType, EmptyPlanType
<1>2. <<Do("write", t, new, "none", {"row"})>> \in Seq(Step)
  BY OneType DEF Statements
<1>3. <<Do("txwrite", t, new, "none", {"row"})>> \in Seq(Step)
  BY OneType DEF Statements
<1>4. why \in SUBSET Changes
  BY DEF changesOf
<1>6. sync \in Step
  <2> HIDE DEF why
  <2> QED
    BY <1>4 DEF Do, Step, Fields, Statements
<1>7. <<sync>> \in Seq(Step)
  BY <1>6, SingletonType
<1>8. spawn \in Seq(Step)
  <2>1. Publish(t, new, "delete", {}) \in Step
    BY DoType DEF Publish, Statements
  <2>2. Do("spawn", t, new, "schedule", {}) \in Step
    BY DoType DEF Statements
  <2> QED
    BY <2>1, <2>2, EmptyPlanType
<1>9. updatePlan(t, old, new, u) =
        IF ~isParent /\ ~wasParent
          THEN <<Do("write", t, new, "none", {"row"})>> \o own
          ELSE <<Do("txwrite", t, new, "none", {"row"})>> \o own \o <<sync>> \o spawn
  BY DEF updatePlan
<1> HIDE DEF why, isParent, wasParent, own, sync, spawn
<1> QED
  BY <1>1, <1>2, <1>3, <1>7, <1>8, <1>9, ConcatType

(* UpdateTask keeps every variable in its type.                            *)
LEMMA UpdateTaskType == ASSUME TypeOK, NEW p \in Proc, UpdateTask(p) PROVE TypeOK'
<1>1. PICK t \in Task, u \in PutRequests :
        /\ Begin(p, "update", updatePlan(t, rows[t], applyUpdate(rows[t], u), u))
        /\ UNCHANGED rows
  BY DEF UpdateTask
<1>2. u \in Put /\ rows[t] \in Row
  BY ServiceAssumption, RowType
<1>3. updatePlan(t, rows[t], applyUpdate(rows[t], u), u) \in Seq(Step)
  BY <1>2, UpdatedType, UpdatePlanType
<1> QED
  BY <1>1, <1>3, BeginType DEF TypeOK

(* DeleteTask keeps every variable in its type.                            *)
LEMMA DeleteTaskType == ASSUME TypeOK, NEW p \in Proc, DeleteTask(p) PROVE TypeOK'
<1>1. PICK t \in Task :
        /\ Begin(p, "delete",
                 (IF rows[t].rule
                    THEN <<Do("deleteChildren", t, rows[t], "none", {"row"})>> ELSE <<>>)
                 \o <<Do("txdelete", t, rows[t], "delete", {"row", "msg"}), Commit>>)
        /\ UNCHANGED rows
  BY DEF DeleteTask
<1>2. rows[t] \in Row
  BY RowType
<1>3. <<Do("deleteChildren", t, rows[t], "none", {"row"})>> \in Seq(Step)
  BY <1>2, OneType DEF Statements
<1>4. Do("txdelete", t, rows[t], "delete", {"row", "msg"}) \in Step /\ Commit \in Step
  BY <1>2, CommitType, DoType DEF Statements
<1>5. <<Do("txdelete", t, rows[t], "delete", {"row", "msg"}), Commit>> \in Seq(Step)
  BY <1>4
<1>6. ((IF rows[t].rule
          THEN <<Do("deleteChildren", t, rows[t], "none", {"row"})>> ELSE <<>>)
       \o <<Do("txdelete", t, rows[t], "delete", {"row", "msg"}), Commit>>) \in Seq(Step)
  BY <1>3, <1>5, EmptyPlanType, ConcatType
<1> QED
  BY <1>1, <1>6, BeginType DEF TypeOK

(* QueueTask keeps every variable in its type.                             *)
LEMMA QueueTaskType == ASSUME TypeOK, NEW p \in Proc, QueueTask(p) PROVE TypeOK'
<1>1. PICK t \in Task, msg \in {"schedule", "delete"} :
        /\ Begin(p, "queue", <<Publish(t, rows[t], msg, {"msg"})>>)
        /\ UNCHANGED rows
  BY DEF QueueTask
<1>2. <<Publish(t, rows[t], msg, {"msg"})>> \in Seq(Step)
  BY RowType, PublishType
<1> QED
  BY <1>1, <1>2, BeginType DEF TypeOK

(* MuteTask keeps every variable in its type.                              *)
LEMMA MuteTaskType == ASSUME TypeOK, NEW p \in Proc, MuteTask(p) PROVE TypeOK'
<1> DEFINE new(t) == [rows[t] EXCEPT !.muted = TRUE]
           steps(t) == <<Do("write", t, new(t), "none", {"row"})>>
                       \o (IF isRecurrenceParentWithConfirmation(new(t))
                             THEN <<Do("muteChildren", t, new(t), "none", {})>> ELSE <<>>)
                       \o <<Publish(t, new(t), "delete", {})>>
<1>1. PICK t \in Task : Begin(p, "mute", steps(t)) /\ UNCHANGED rows
  BY DEF MuteTask
<1>2. new(t) \in Row
  BY RowType DEF Row
<1>3. /\ <<Do("write", t, new(t), "none", {"row"})>> \in Seq(Step)
      /\ <<Do("muteChildren", t, new(t), "none", {})>> \in Seq(Step)
      /\ <<Publish(t, new(t), "delete", {})>> \in Seq(Step)
  BY <1>2, OneType, PublishType DEF Statements
<1>4. steps(t) \in Seq(Step)
  BY <1>3, EmptyPlanType, ConcatType
<1> HIDE DEF steps
<1> QED
  BY <1>1, <1>4, BeginType DEF TypeOK

(* UnmuteTask keeps every variable in its type.                            *)
LEMMA UnmuteTaskType == ASSUME TypeOK, NEW p \in Proc, UnmuteTask(p) PROVE TypeOK'
<1> DEFINE new(t) == [rows[t] EXCEPT !.muted = FALSE]
           steps(t) == <<Do("write", t, new(t), "none", {"row"})>>
                       \o (IF isRecurrenceParentWithConfirmation(new(t))
                             THEN <<Do("unmuteChildren", t, new(t), "none", {})>> ELSE <<>>)
                       \o <<Do("resched", t, new(t), "resched", {})>>
<1>1. PICK t \in Task : Begin(p, "unmute", steps(t)) /\ UNCHANGED rows
  BY DEF UnmuteTask
<1>2. new(t) \in Row
  BY RowType DEF Row
<1>3. /\ <<Do("write", t, new(t), "none", {"row"})>> \in Seq(Step)
      /\ <<Do("unmuteChildren", t, new(t), "none", {})>> \in Seq(Step)
      /\ <<Do("resched", t, new(t), "resched", {})>> \in Seq(Step)
  BY <1>2, OneType, PublishType DEF Statements
<1>4. steps(t) \in Seq(Step)
  BY <1>3, EmptyPlanType, ConcatType
<1> HIDE DEF steps
<1> QED
  BY <1>1, <1>4, BeginType DEF TypeOK

(* MarkTaskAsDone keeps every variable in its type.                        *)
LEMMA MarkTaskAsDoneType == ASSUME TypeOK, NEW p \in Proc, MarkTaskAsDone(p) PROVE TypeOK'
<1> DEFINE new(t) == [rows[t] EXCEPT !.status = "done"]
           steps(t) == <<Do("txwrite", t, new(t), "delete", {"row", "msg"}), Commit>>
                       \o (IF new(t).parent # NoTask
                             THEN <<Do("nextChild", new(t).parent, new(t), "none", {})>>
                             ELSE <<>>)
                       \o (IF new(t).rule
                             THEN <<Do("doneChildren", t, new(t), "none", {})>> ELSE <<>>)
<1>1. PICK t \in Task : Begin(p, "done", steps(t)) /\ UNCHANGED rows
  BY DEF MarkTaskAsDone
<1>2. new(t) \in Row
  BY RowType DEF Row, Status
<1>3. new(t).parent \in Task \cup {NoTask}
  BY <1>2 DEF Row
<1>4. Do("txwrite", t, new(t), "delete", {"row", "msg"}) \in Step /\ Commit \in Step
  BY <1>2, CommitType, DoType DEF Statements
<1>5. /\ <<Do("txwrite", t, new(t), "delete", {"row", "msg"}), Commit>> \in Seq(Step)
      /\ new(t).parent # NoTask =>
           <<Do("nextChild", new(t).parent, new(t), "none", {})>> \in Seq(Step)
      /\ <<Do("doneChildren", t, new(t), "none", {})>> \in Seq(Step)
  <2> HIDE DEF new
  <2>1. <<Do("txwrite", t, new(t), "delete", {"row", "msg"}), Commit>> \in Seq(Step)
    BY <1>4
  <2>2. new(t).parent # NoTask =>
          <<Do("nextChild", new(t).parent, new(t), "none", {})>> \in Seq(Step)
    BY <1>2, <1>3, OneType DEF Statements
  <2>3. <<Do("doneChildren", t, new(t), "none", {})>> \in Seq(Step)
    BY <1>2, OneType DEF Statements
  <2> QED
    BY <2>1, <2>2, <2>3
<1>6. steps(t) \in Seq(Step)
  BY <1>5, EmptyPlanType, ConcatType
<1> HIDE DEF steps
<1> QED
  BY <1>1, <1>6, BeginType DEF TypeOK

(* RunScheduledRescheduling keeps every variable in its type.              *)
LEMMA RunScheduledReschedulingType ==
  ASSUME TypeOK, RunScheduledRescheduling PROVE TypeOK'
<1> DEFINE due == GetTasksNeedingRescheduling(rows, now)
           first(order) == [i \in DOMAIN order |->
                              Do("reschedule", order[i], rows[order[i]], "none", {})]
           last == <<Do("reschedulecron", NoTask, Absent, "none", {})>>
<1>1. PICK order \in SetToSeqs(due) : plan' = [plan EXCEPT ![Cron] = first(order) \o last]
  BY DEF RunScheduledRescheduling
<1>2. due \in SUBSET Task
  BY DEF GetTasksNeedingRescheduling
<1>3. /\ DOMAIN order = 1..Cardinality(due) /\ Cardinality(due) \in Nat
      /\ \A i \in DOMAIN order : order[i] \in Task
  BY <1>2, OrderType
<1>4. \A i \in DOMAIN order : Do("reschedule", order[i], rows[order[i]], "none", {}) \in Step
  BY <1>3, RowType, DoType DEF Statements
<1>5. first(order) \in Seq(Step)
  BY <1>3, <1>4, ComprehensionType
<1>6. last \in Seq(Step)
  BY AbsentType, SingletonType DEF Do, Step, Fields
<1>7. first(order) \o last \in Seq(Step)
  BY <1>5, <1>6, ConcatType
<1>8. UNCHANGED <<rows, wire, now, held, dirty, budget>>
  BY DEF RunScheduledRescheduling
<1> HIDE DEF first, last
<1> QED
  BY <1>1, <1>7, <1>8 DEF TypeOK

-----------------------------------------------------------------------------
(* Later reads keep the types.                                             *)

(* The statement a handler is at carries a task, a row and a message of    *)
(* their types.                                                            *)
LEMMA AtType ==
  ASSUME TypeOK, NEW p \in Proc, NEW do, At(p, do)
  PROVE  /\ ~Idle(p) /\ Next1(p) \in Step /\ Tail(plan[p]) \in Seq(Step)
         /\ Next1(p).row \in Row
         /\ do \in Statements => /\ Next1(p) \in Fields(Statements, Task)
                                /\ Next1(p).t \in Task
<1>1. ~Idle(p)
  BY DEF At
<1>2. Next1(p) \in Step /\ Tail(plan[p]) \in Seq(Step)
  BY <1>1, HeadType
<1>3. "commit" \notin Statements /\ "reschedulecron" \notin Statements
  BY DEF Statements
<1> QED
  BY <1>1, <1>2, <1>3 DEF Step, Fields, At

(* Statements laid out for the tasks of a set, in some order.              *)
LEMMA ForEachType ==
  ASSUME NEW S \in SUBSET Task, NEW order \in SetToSeqs(S),
         NEW steps, steps = [i \in DOMAIN order |-> steps[i]],
         \A i \in DOMAIN order : steps[i] \in Step
  PROVE  steps \in Seq(Step)
<1>1. DOMAIN order = 1..Cardinality(S) /\ Cardinality(S) \in Nat
  BY OrderType
<1>2. steps \in [1..Cardinality(S) -> Step]
  BY <1>1
<1> QED
  BY <1>1, <1>2, ComprehensionType

(* DeleteChildren keeps every variable in its type.                        *)
LEMMA DeleteChildrenType == ASSUME TypeOK, NEW p \in Proc, DeleteChildren(p) PROVE TypeOK'
<1> DEFINE s    == Next1(p)
           kids == GetChildTasksByParentID(rows, s.t)
           head == IF kids = {} THEN <<>>
                   ELSE <<Do("txdeletechildren", s.t, s.row, "none", {"row"})>>
           each(order) == [i \in DOMAIN order |->
                             Publish(order[i], rows[order[i]], "delete", {"msg"})]
<1>1. At(p, "deleteChildren")
  BY DEF DeleteChildren
<1>2. CASE Fail(p)
  BY <1>2, AbortType DEF Fail, TypeOK
<1>3. ASSUME NEW order \in SetToSeqs(kids), Read(p, head \o each(order))
      PROVE  TypeOK'
  <2>1. kids \in SUBSET Task
    BY DEF GetChildTasksByParentID
  <2>2. head \in Seq(Step)
    BY <1>1, AtType, OneType, EmptyPlanType DEF Statements
  <2>3. \A i \in DOMAIN order : order[i] \in Task
    BY <2>1, OrderType
  <2>4. \A i \in DOMAIN order : each(order)[i] \in Step
    BY <2>3, RowType, DoType DEF Publish, Statements
  <2>5. each(order) \in Seq(Step)
    BY <2>1, <2>4, ForEachType
  <2>6. head \o each(order) \in Seq(Step)
    BY <2>2, <2>5, ConcatType
  <2> HIDE DEF head, each
  <2> QED
    BY <1>1, <1>3, <2>6, AtType, ReadType
<1> QED
  BY <1>2, <1>3 DEF DeleteChildren

(* NextChild keeps every variable in its type.                             *)
LEMMA NextChildType == ASSUME TypeOK, NEW p \in Proc, NextChild(p) PROVE TypeOK'
<1> DEFINE q   == Next1(p).t
           row == childOf(rows[q], q, nextRecurrenceAfter(now), "scheduled")
           new == IF /\ Live(rows, q)
                     /\ rows[q].status # "done"
                     /\ isRecurrenceParentWithConfirmation(rows[q])
                    THEN <<Do("insert", q, row, "schedule", {})>> ELSE <<>>
<1>1. At(p, "nextChild") /\ Read(p, new)
  BY DEF NextChild
<1>2. q \in Task
  BY <1>1, AtType DEF Statements
<1>3. row \in Row
  BY <1>2, RowType, ChildType, NextRecurrenceType DEF TypeOK, Status
<1>4. <<Do("insert", q, row, "schedule", {})>> \in Seq(Step)
  BY <1>2, <1>3, OneType DEF Statements
<1>5. new \in Seq(Step)
  BY <1>4, EmptyPlanType
<1> HIDE DEF new
<1> QED
  BY <1>1, <1>5, AtType, ReadType

(* DoneChildren keeps every variable in its type.                          *)
LEMMA DoneChildrenType == ASSUME TypeOK, NEW p \in Proc, DoneChildren(p) PROVE TypeOK'
<1> DEFINE S == {c \in GetChildTasksByParentID(rows, Next1(p).t) : Unfinished(rows[c])}
           each(order) == [i \in DOMAIN order |->
                             Do("txwrite", order[i], [rows[order[i]] EXCEPT !.status = "done"],
                                "delete", {"row", "msg"})]
<1>1. PICK order \in SetToSeqs(S) : Read(p, each(order) \o <<Commit>>)
  BY DEF DoneChildren
<1>2. S \in SUBSET Task
  BY DEF GetChildTasksByParentID
<1>3. \A i \in DOMAIN order : order[i] \in Task
  BY <1>2, OrderType
<1>4. \A t \in Task : [rows[t] EXCEPT !.status = "done"] \in Row
  BY RowType DEF Row, Status
<1>5. \A i \in DOMAIN order : each(order)[i] \in Step
  BY <1>3, <1>4, DoType DEF Statements
<1>6. each(order) \in Seq(Step)
  BY <1>2, <1>5, ForEachType
<1>7. each(order) \o <<Commit>> \in Seq(Step)
  BY <1>6, CommitType, ConcatType
<1>8. At(p, "doneChildren")
  BY DEF DoneChildren
<1> HIDE DEF each
<1> QED
  BY <1>1, <1>7, <1>8, AtType, ReadType

(* MuteChildren keeps every variable in its type.                          *)
LEMMA MuteChildrenType == ASSUME TypeOK, NEW p \in Proc, MuteChildren(p) PROVE TypeOK'
<1> DEFINE S == {c \in GetChildTasksByParentID(rows, Next1(p).t) : Unfinished(rows[c])}
           mute == Next1(p).do = "muteChildren"
           each(order) == [i \in DOMAIN order |->
                             Do("write", order[i], [rows[order[i]] EXCEPT !.muted = mute],
                                IF mute THEN "delete" ELSE "resched", {})]
<1>1. PICK order \in SetToSeqs(S) : Read(p, each(order))
  BY DEF MuteChildren
<1>2. S \in SUBSET Task
  BY DEF GetChildTasksByParentID
<1>3. \A i \in DOMAIN order : order[i] \in Task
  BY <1>2, OrderType
<1>4. mute \in BOOLEAN /\ (IF mute THEN "delete" ELSE "resched") \in {"delete", "resched"}
  OBVIOUS
<1>5. \A t \in Task : [rows[t] EXCEPT !.muted = mute] \in Row
  <2> HIDE DEF mute
  <2> QED
    BY <1>4, RowType DEF Row
<1>6. \A i \in DOMAIN order : each(order)[i] \in Step
  <2> SUFFICES ASSUME NEW i \in DOMAIN order PROVE each(order)[i] \in Step
    OBVIOUS
  <2>1. each(order)[i] = Do("write", order[i], [rows[order[i]] EXCEPT !.muted = mute],
                            IF mute THEN "delete" ELSE "resched", {})
    OBVIOUS
  <2> HIDE DEF each, mute
  <2> QED
    BY <1>3, <1>4, <1>5, <2>1, DoType DEF Statements
<1>7. each(order) \in Seq(Step)
  BY <1>2, <1>6, ForEachType
<1>8. At(p, "muteChildren") \/ At(p, "unmuteChildren")
  BY DEF MuteChildren
<1> HIDE DEF each
<1> QED
  BY <1>1, <1>7, <1>8, AtType, ReadType

(* RescheduleCronTasks keeps every variable in its type.                   *)
LEMMA RescheduleCronTasksType ==
  ASSUME TypeOK, NEW p \in Proc, RescheduleCronTasks(p) PROVE TypeOK'
<1> DEFINE S == GetTasksWithCronNeedingRescheduling(rows, now)
           each(order) == [i \in DOMAIN order |->
                             Do("write", order[i],
                                [rows[order[i]] EXCEPT !.start = nextRecurrenceAfter(now)],
                                "none", {})]
<1>1. PICK order \in SetToSeqs(S) : Read(p, each(order))
  BY DEF RescheduleCronTasks
<1>2. S \in SUBSET Task
  BY DEF GetTasksWithCronNeedingRescheduling
<1>3. \A i \in DOMAIN order : order[i] \in Task
  BY <1>2, OrderType
<1>4. \A t \in Task : [rows[t] EXCEPT !.start = nextRecurrenceAfter(now)] \in Row
  BY RowType, NextRecurrenceType DEF TypeOK, Row, Time
<1>5. \A i \in DOMAIN order : each(order)[i] \in Step
  BY <1>3, <1>4, DoType DEF Statements
<1>6. each(order) \in Seq(Step)
  BY <1>2, <1>5, ForEachType
<1>7. At(p, "reschedulecron")
  BY DEF RescheduleCronTasks
<1> HIDE DEF each
<1> QED
  BY <1>1, <1>6, <1>7, AtType, ReadType

(* RescheduleTask keeps every variable in its type.                        *)
LEMMA RescheduleTaskType ==
  ASSUME TypeOK, NEW p \in Proc, RescheduleTask(p) PROVE TypeOK'
<1> DEFINE s   == Next1(p)
           q   == s.row.parent
           day == addDaysUntilAfter(s.row.start, now)
           occ == nextRecurrenceAfter(now)
           start == IF /\ q # NoTask
                       /\ rows[q].rule
                       /\ s.row.muted \/ sameDay(day, occ)
                      THEN occ ELSE day
           new == [s.row EXCEPT !.status = "rescheduled", !.start = start]
<1>1. At(p, "reschedule")
  BY DEF RescheduleTask
<1>2. s.row \in Row /\ s.t \in Task
  BY <1>1, AtType DEF Statements
<1>3. day \in Nat /\ occ \in Nat
  BY <1>2, AddDaysType, NextRecurrenceType DEF TypeOK, Row, Time
<1>4. start \in Nat
  BY <1>3
<1>5. new \in Row
  <2> HIDE DEF start
  <2> QED
    BY <1>2, <1>4 DEF Row, Status, Time
<1>6. <<Do("publishMoved", s.t, new, "schedule", {})>> \in Seq(Step)
  BY <1>2, <1>5, OneType DEF Statements
<1>7. \/ Read(p, <<>>)
      \/ Read(p, <<Do("publishMoved", s.t, new, "schedule", {})>>)
  BY DEF RescheduleTask
<1> HIDE DEF new
<1> QED
  BY <1>1, <1>6, <1>7, AtType, ReadType, EmptyPlanType

(* A statement whose row starts at another time is still a statement.      *)
LEMMA StepRowType ==
  \A r \in Step, n \in Nat : [r EXCEPT !.row.start = n] \in Step
<1> SUFFICES ASSUME NEW r \in Step, NEW n \in Nat
             PROVE [r EXCEPT !.row.start = n] \in Step
  OBVIOUS
<1>1. r.row \in Row
  BY DEF Step, Fields
<1>2. [r.row EXCEPT !.start = n] \in Row
  BY <1>1 DEF Row, Time
<1>3. [r EXCEPT !.row.start = n] = [r EXCEPT !.row = [r.row EXCEPT !.start = n]]
  OBVIOUS
<1>4. \A row \in Row : [r EXCEPT !.row = row] \in Step
  BY DEF Step, Fields
<1> QED
  BY <1>2, <1>3, <1>4

(* PublishSchedule keeps every variable in its type.                       *)
LEMMA PublishScheduleType ==
  ASSUME TypeOK, NEW p \in Proc, PublishSchedule(p) PROVE TypeOK'
<1> DEFINE s     == Next1(p)
           q     == s.row.parent
           above == IF q = NoTask THEN Absent ELSE rows[q]
           next  == nextExecutableStartDate(s.row, above, now)
           new   == [s.row EXCEPT !.start = next]
           tail  == Tail(plan[p])
           moved(i) == IF tail[i].t = s.t THEN [tail[i] EXCEPT !.row.start = next]
                       ELSE tail[i]
           rest  == [i \in DOMAIN tail |-> moved(i)]
<1>1. At(p, "resched")
  BY DEF PublishSchedule
<1>2. s.row \in Row /\ s.t \in Task /\ tail \in Seq(Step) /\ ~Idle(p)
  BY <1>1, AtType DEF Statements
<1>3. above \in Row
  BY <1>2, AbsentType, RowType DEF Row
<1>4. next \in Nat
  BY <1>2, <1>3, NextExecutableType DEF TypeOK
<1>5. new \in Row
  <2> HIDE DEF next
  <2> QED
    BY <1>2, <1>4 DEF Row, Time
<1>6. rest \in Seq(Step)
  <2>1. DOMAIN tail = 1..Len(tail) /\ Len(tail) \in Nat
    BY <1>2, LenProperties
  <2>2. \A i \in 1..Len(tail) : tail[i] \in Step
    BY <1>2, ElementOfSeq
  <2>3. \A i \in 1..Len(tail) : moved(i) \in Step
    <3> HIDE DEF next, tail
    <3> QED
      BY <1>4, <2>2, StepRowType
  <2> HIDE DEF moved, tail
  <2>4. rest \in [1..Len(tail) -> Step]
    BY <2>1, <2>3
  <2> QED
    BY <2>1, <2>4, ComprehensionType
<1>7. CASE Read(p, <<>>)
  BY <1>2, <1>7, ReadType, EmptyPlanType
<1>8. CASE Read(p, <<Publish(s.t, s.row, "schedule", {})>>)
  BY <1>2, <1>8, ReadType, PublishType
<1>9. CASE /\ plan' = [plan EXCEPT ![p] = <<Do("write", s.t, new, "schedule", {})>> \o rest]
           /\ UNCHANGED <<rows, wire, now, held, dirty, budget>>
  <2>1. <<Do("write", s.t, new, "schedule", {})>> \in Seq(Step)
    BY <1>2, <1>5, OneType DEF Statements
  <2> HIDE DEF rest, new
  <2>2. <<Do("write", s.t, new, "schedule", {})>> \o rest \in Seq(Step)
    BY <1>6, <2>1, ConcatType
  <2> QED
    BY <1>9, <2>2 DEF TypeOK
<1> QED
  BY <1>7, <1>8, <1>9 DEF PublishSchedule

(* A child made to follow its parent is a row.                             *)
LEMMA SyncedChildType ==
  ASSUME TypeOK, NEW q \in Task, NEW c \in Row, NEW new \in Row, NEW why
  PROVE  syncedChild(q, c, new, why) \in Row
<1> DEFINE moved == {"rule", "start"} \cap why # {} /\ (new.rule \/ "start" \in why)
           muted == IF "muteGiven" \in why THEN new.muted ELSE c.muted
           start == IF ~moved THEN c.start
                    ELSE IF new.rule THEN nextRecurrenceAfter(now) ELSE new.start
           child == [c EXCEPT !.muted = muted, !.start = start]
           unmuted == "muteToggled" \in why /\ ~new.muted
           next == nextExecutableStartDate(child, rows[q], now)
<1>1. muted \in BOOLEAN /\ start \in Nat
  BY NextRecurrenceType DEF TypeOK, Row, Time
<1>2. child \in Row
  <2> HIDE DEF muted, start
  <2> QED
    BY <1>1 DEF Row, Time
<1>3. next \in Nat
  <2> HIDE DEF child
  <2> QED
    BY <1>2, RowType, NextExecutableType DEF TypeOK
<1>4. [child EXCEPT !.start = next] \in Row
  <2> HIDE DEF child, next
  <2> QED
    BY <1>2, <1>3 DEF Row, Time
<1>5. syncedChild(q, c, new, why) =
        IF Overdue(child, now) /\ (moved \/ unmuted) /\ Live(rows, q) /\ next # 0
          THEN [child EXCEPT !.start = next] ELSE child
  BY DEF syncedChild
<1> HIDE DEF child, next, moved, unmuted
<1> QED
  BY <1>2, <1>4, <1>5

(* SyncChildTasks keeps every variable in its type.                        *)
LEMMA SyncChildTasksType ==
  ASSUME TypeOK, NEW p \in Proc, SyncChildTasks(p) PROVE TypeOK'
<1> DEFINE s    == Next1(p)
           kids == GetChildTasksByParentID(rows, s.t)
           open == {c \in kids : Unfinished(rows[c])}
           left == {c \in kids : rows[c].status # "done"}
           quiet == IF "muteToggled" \in s.why /\ s.row.muted
                      THEN <<Publish(s.t, s.row, "delete", {})>> ELSE <<>>
           removed == IF kids = {} THEN <<>>
                      ELSE <<Do("txdeletechildren", s.t, s.row, "none", {"row"})>>
           forget(order) == [i \in DOMAIN order |->
                               Publish(order[i], rows[order[i]], "delete", {"msg"})]
           direct == <<Do("resched", s.t, s.row, "resched", {})>>
           delete(order) == [i \in DOMAIN order |->
                               Do("txdelete", order[i], rows[order[i]], "delete",
                                  {"row", "msg"})]
           child(order) == [i \in DOMAIN order |->
                              syncedChild(s.t, rows[order[i]], s.row, s.why)]
           mute  == IF "muteToggled" \in s.why /\ s.row.muted THEN "delete" ELSE "none"
           writes(order) == [i \in DOMAIN order |->
                               Do("txwrite", order[i], child(order)[i], mute, {"row"})]
           messages(order) == [i \in DOMAIN order |->
                                 Publish(order[i], child(order)[i],
                                         IF republished(child(order)[i], s.row, s.why)
                                           THEN "schedule" ELSE "none", {})]
<1>1. At(p, "sync")
  BY DEF SyncChildTasks
<1>2. s.row \in Row /\ s.t \in Task /\ ~Idle(p)
  BY <1>1, AtType DEF Statements
<1>3. kids \in SUBSET Task /\ open \in SUBSET Task /\ left \in SUBSET Task
  BY DEF GetChildTasksByParentID
<1>4. /\ quiet \in Seq(Step) /\ removed \in Seq(Step) /\ direct \in Seq(Step)
      /\ <<Commit>> \in Seq(Step) /\ <<>> \in Seq(Step)
  BY <1>2, OneType, PublishType, CommitType, EmptyPlanType DEF Statements
<1>5. CASE Fail(p)
  BY <1>5, AbortType DEF Fail, TypeOK
<1>6. ASSUME NEW order \in SetToSeqs(kids),
             Read(p, removed \o forget(order) \o direct \o quiet \o <<Commit>>)
      PROVE  TypeOK'
  <2>1. \A i \in DOMAIN order : order[i] \in Task
    BY <1>3, OrderType
  <2>2. \A i \in DOMAIN order : forget(order)[i] \in Step
    BY <2>1, RowType, DoType DEF Publish, Statements
  <2>3. forget(order) \in Seq(Step)
    BY <1>3, <2>2, ForEachType
  <2> HIDE DEF removed, forget, direct, quiet
  <2>4. removed \o forget(order) \o direct \o quiet \o <<Commit>> \in Seq(Step)
    BY <1>4, <2>3, ConcatType
  <2> QED
    BY <1>2, <1>6, <2>4, ReadType
<1>7. ASSUME NEW order \in SetToSeqs(open), Read(p, delete(order) \o quiet \o <<Commit>>)
      PROVE  TypeOK'
  <2>1. \A i \in DOMAIN order : order[i] \in Task
    BY <1>3, OrderType
  <2>2. \A i \in DOMAIN order : delete(order)[i] \in Step
    BY <2>1, RowType, DoType DEF Statements
  <2>3. delete(order) \in Seq(Step)
    BY <1>3, <2>2, ForEachType
  <2> HIDE DEF delete, quiet
  <2>4. delete(order) \o quiet \o <<Commit>> \in Seq(Step)
    BY <1>4, <2>3, ConcatType
  <2> QED
    BY <1>2, <1>7, <2>4, ReadType
<1>8. ASSUME NEW order \in SetToSeqs(left),
             Read(p, (IF s.why = {} THEN <<>> ELSE writes(order))
                     \o (IF kids = {} THEN quiet \o <<Commit>> ELSE <<Commit>>)
                     \o messages(order)
                     \o (IF kids = {} THEN <<>> ELSE quiet))
      PROVE  TypeOK'
  <2>1. \A i \in DOMAIN order : order[i] \in Task
    BY <1>3, OrderType
  <2>2. \A i \in DOMAIN order : child(order)[i] \in Row
    BY <1>2, <2>1, RowType, SyncedChildType
  <2>3. mute \in {"delete", "none"}
    OBVIOUS
  <2>4. ASSUME NEW i \in DOMAIN order PROVE writes(order)[i] \in Step
    <3>1. writes(order)[i] = Do("txwrite", order[i], child(order)[i], mute, {"row"})
      OBVIOUS
    <3> HIDE DEF child, mute, writes
    <3> QED
      BY <2>1, <2>2, <2>3, <3>1, DoType DEF Statements
  <2>5. ASSUME NEW i \in DOMAIN order PROVE messages(order)[i] \in Step
    <3> DEFINE msg == IF republished(child(order)[i], s.row, s.why)
                        THEN "schedule" ELSE "none"
    <3>1. messages(order)[i] = Publish(order[i], child(order)[i], msg, {})
      OBVIOUS
    <3>2. msg \in {"schedule", "none"}
      OBVIOUS
    <3> HIDE DEF child, msg, messages
    <3> QED
      BY <2>1, <2>2, <3>1, <3>2, DoType DEF Publish, Statements
  <2>6. writes(order) \in Seq(Step)
    BY <1>3, <2>4, ForEachType
  <2>7. messages(order) \in Seq(Step)
    BY <1>3, <2>5, ForEachType
  <2> DEFINE a == IF s.why = {} THEN <<>> ELSE writes(order)
             b == IF kids = {} THEN quiet \o <<Commit>> ELSE <<Commit>>
             c == IF kids = {} THEN <<>> ELSE quiet
  <2> HIDE DEF writes, messages, quiet, kids
  <2>8. a \in Seq(Step) /\ b \in Seq(Step) /\ c \in Seq(Step)
    BY <1>4, <2>6, ConcatType
  <2> HIDE DEF a, b, c
  <2>9. a \o b \o messages(order) \o c \in Seq(Step)
    BY <2>7, <2>8, ConcatType
  <2> QED
    BY <1>2, <1>8, <2>9, ReadType DEF a, b, c
<1>9. \/ Fail(p)
      \/ \E order \in SetToSeqs(kids) :
           Read(p, removed \o forget(order) \o direct \o quiet \o <<Commit>>)
      \/ \E order \in SetToSeqs(open) : Read(p, delete(order) \o quiet \o <<Commit>>)
      \/ \E order \in SetToSeqs(left) :
           Read(p, (IF s.why = {} THEN <<>> ELSE writes(order))
                   \o (IF kids = {} THEN quiet \o <<Commit>> ELSE <<Commit>>)
                   \o messages(order)
                   \o (IF kids = {} THEN <<>> ELSE quiet))
  BY Zenon DEF SyncChildTasks
<1> QED
  BY <1>5, <1>6, <1>7, <1>8, <1>9

-----------------------------------------------------------------------------
(* Statements, faults and time keep the types.                             *)

(* WriteRow keeps every variable in its type.                              *)
LEMMA WriteRowType == ASSUME TypeOK, NEW p \in Proc, WriteRow(p) PROVE TypeOK'
<1>1. At(p, "write")
  BY DEF WriteRow
<1>2. /\ ~Idle(p) /\ Next1(p) \in Fields(Statements, Task)
      /\ Next1(p).row \in Row /\ Next1(p).t \in Task
  BY <1>1, AtType DEF Statements
<1>3. After(Next1(p)) \in Seq(Step)
  BY <1>2, AfterType
<1>4. plan' \in [Proc -> Seq(Step)]
  BY <1>2, <1>3, ContinueType DEF WriteRow
<1>5. rows' \in [Task -> Row]
  BY <1>2 DEF WriteRow, TypeOK
<1> QED
  BY <1>4, <1>5 DEF WriteRow, TypeOK

(* Staging a row in a transaction keeps the types.                         *)
LEMMA StageType ==
  ASSUME TypeOK, NEW p \in Proc, NEW S \in SUBSET Task, NEW new \in [Task -> Row],
         ~Idle(p), Next1(p) \in Fields(Statements, Task), Stage(p, S, new)
  PROVE  TypeOK'
<1>1. plan' \in [Proc -> Seq(Step)]
  BY AfterType, ContinueType DEF Stage
<1>2. held' \in [Proc -> SUBSET Task]
  BY DEF Stage, TypeOK
<1>3. [t \in Task |-> IF t \in S THEN new[t] ELSE dirty[p][t]] \in [Task -> Row]
  BY DEF TypeOK
<1>4. dirty' \in [Proc -> [Task -> Row]]
  BY <1>3 DEF Stage, TypeOK
<1> QED
  BY <1>1, <1>2, <1>4 DEF Stage, TypeOK

(* UpdateTaskWithTx keeps every variable in its type.                      *)
LEMMA UpdateTaskWithTxType ==
  ASSUME TypeOK, NEW p \in Proc, UpdateTaskWithTx(p) PROVE TypeOK'
<1> DEFINE S == {t \in {Next1(p).t} : View(p, t).db = "live"}
           new == [t \in Task |-> Next1(p).row]
<1>1. At(p, "txwrite") /\ Stage(p, S, new)
  BY DEF UpdateTaskWithTx
<1>2. /\ ~Idle(p) /\ Next1(p) \in Fields(Statements, Task)
      /\ Next1(p).row \in Row /\ Next1(p).t \in Task
  BY <1>1, AtType DEF Statements
<1>3. S \in SUBSET Task /\ new \in [Task -> Row]
  BY <1>2
<1> HIDE DEF S, new
<1> QED
  BY <1>1, <1>2, <1>3, StageType

(* DeleteTaskWithTx keeps every variable in its type.                      *)
LEMMA DeleteTaskWithTxType ==
  ASSUME TypeOK, NEW p \in Proc, DeleteTaskWithTx(p) PROVE TypeOK'
<1> DEFINE S == {t \in {Next1(p).t} : View(p, t).db = "live"}
           new == [t \in Task |-> softDeleted(View(p, t))]
<1>1. At(p, "txdelete") /\ Stage(p, S, new)
  BY DEF DeleteTaskWithTx
<1>2. ~Idle(p) /\ Next1(p) \in Fields(Statements, Task) /\ Next1(p).t \in Task
  BY <1>1, AtType DEF Statements
<1>3. S \in SUBSET Task /\ new \in [Task -> Row]
  BY <1>2, ViewType, SoftDeletedType
<1> HIDE DEF S, new
<1> QED
  BY <1>1, <1>2, <1>3, StageType

(* DeleteChildTasksWithTx keeps every variable in its type.                *)
LEMMA DeleteChildTasksWithTxType ==
  ASSUME TypeOK, NEW p \in Proc, DeleteChildTasksWithTx(p) PROVE TypeOK'
<1> DEFINE S == {t \in Task : View(p, t).db = "live" /\ View(p, t).parent = Next1(p).t}
           new == [t \in Task |-> softDeleted(View(p, t))]
<1>1. At(p, "txdeletechildren") /\ Stage(p, S, new)
  BY DEF DeleteChildTasksWithTx
<1>2. ~Idle(p) /\ Next1(p) \in Fields(Statements, Task)
  BY <1>1, AtType DEF Statements
<1>3. S \in SUBSET Task /\ new \in [Task -> Row]
  BY ViewType, SoftDeletedType
<1> HIDE DEF S, new
<1> QED
  BY <1>1, <1>2, <1>3, StageType

(* CommitTx keeps every variable in its type.                              *)
LEMMA CommitTxType == ASSUME TypeOK, NEW p \in Proc, CommitTx(p) PROVE TypeOK'
<1>1. At(p, "commit")
  BY DEF CommitTx
<1>2. plan' \in [Proc -> Seq(Step)]
  BY <1>1, AtType, EmptyPlanType, ContinueType DEF CommitTx
<1>3. rows' \in [Task -> Row]
  BY ViewType DEF CommitTx
<1>4. [t \in Task |-> Absent] \in [Task -> Row]
  BY AbsentType
<1> QED
  BY <1>2, <1>3, <1>4 DEF CommitTx, TypeOK

(* InsertChild keeps every variable in its type.                           *)
LEMMA InsertChildType == ASSUME TypeOK, NEW p \in Proc, InsertChild(p) PROVE TypeOK'
<1> DEFINE s   == Next1(p)
           row == IF s.do = "insert" THEN s.row
                  ELSE childOf(s.row, s.t, nextRecurrenceAfter(now), "scheduled")
           new == [s EXCEPT !.t = NewId, !.row = row]
<1>1. At(p, "insert") \/ At(p, "spawn")
  BY DEF InsertChild
<1>2. ~Idle(p) /\ s \in Fields(Statements, Task) /\ s.row \in Row /\ s.t \in Task
  BY <1>1, AtType DEF Statements
<1>3. NewId \in Task
  BY FreeType DEF InsertChild
<1>4. row \in Row
  BY <1>2, ChildType, NextRecurrenceType DEF TypeOK, Status
<1>5. new \in Fields(Statements, Task)
  <2> HIDE DEF row
  <2> QED
    BY <1>2, <1>3, <1>4 DEF Fields
<1>6. /\ rows' = [rows EXCEPT ![NewId] = row]
      /\ Continue(p, After(new))
      /\ UNCHANGED <<wire, now, held, dirty, budget>>
  BY DEF InsertChild
<1> HIDE DEF row, new
<1>7. plan' \in [Proc -> Seq(Step)]
  BY <1>2, <1>5, <1>6, AfterType, ContinueType
<1>8. rows' \in [Task -> Row]
  BY <1>3, <1>4, <1>6 DEF TypeOK
<1> QED
  BY <1>6, <1>7, <1>8 DEF TypeOK

(* Send keeps every variable in its type.                                  *)
LEMMA SendType == ASSUME TypeOK, NEW p \in Proc, Send(p) PROVE TypeOK'
<1> DEFINE s       == Next1(p)
           message == IF s.msg = "delete" THEN Deleted ELSE s.row.start
           after   == IF s.do = "publish" THEN <<>>
                      ELSE <<Do("write", s.t, s.row, "none", {})>>
           failed  == /\ IF "msg" \in s.must THEN Abort(p)
                         ELSE Continue(p, <<>>) /\ UNCHANGED <<held, dirty>>
                      /\ UNCHANGED <<rows, now, budget>>
<1>1. At(p, "publish") \/ At(p, "publishMoved")
  BY DEF Send
<1>2. ~Idle(p) /\ s.row \in Row /\ s.t \in Task
  BY <1>1, AtType DEF Statements
<1>3. after \in Seq(Step)
  BY <1>2, OneType, EmptyPlanType DEF Statements
<1>4. message \in Wire
  BY <1>2 DEF Wire, Row
<1>5. [wire EXCEPT ![s.t] = message] \in [Task -> Wire]
  BY <1>4 DEF TypeOK
<1>6. CASE Read(p, after)
  BY <1>2, <1>3, <1>6, ReadType
<1>7. CASE /\ wire' = [wire EXCEPT ![s.t] = message]
           /\ Continue(p, after)
           /\ UNCHANGED <<rows, now, held, dirty, budget>>
  <2> HIDE DEF after, message
  <2>1. plan' \in [Proc -> Seq(Step)]
    BY <1>2, <1>3, <1>7, ContinueType
  <2> QED
    BY <1>5, <1>7, <2>1 DEF TypeOK
<1>8. CASE failed /\ wire' \in {wire, [wire EXCEPT ![s.t] = message]}
  <2> HIDE DEF message
  <2>1. wire' \in [Task -> Wire]
    BY <1>5, <1>8 DEF TypeOK
  <2>2. CASE Abort(p)
    BY <1>8, <2>1, <2>2, AbortType DEF TypeOK
  <2>3. CASE Continue(p, <<>>) /\ UNCHANGED <<held, dirty>>
    BY <1>2, <1>8, <2>1, <2>3, EmptyPlanType, ContinueType DEF TypeOK
  <2> QED
    BY <1>8, <2>2, <2>3
<1>9. \/ Read(p, after)
      \/ /\ wire' = [wire EXCEPT ![s.t] = message]
         /\ Continue(p, after)
         /\ UNCHANGED <<rows, now, held, dirty, budget>>
      \/ failed /\ wire' \in {wire, [wire EXCEPT ![s.t] = message]}
  BY DEF Send
<1> QED
  BY <1>6, <1>7, <1>8, <1>9

(* StatementFails keeps every variable in its type.                        *)
LEMMA StatementFailsType ==
  ASSUME TypeOK, NEW p \in Proc, StatementFails(p) PROVE TypeOK'
<1>1. ~Idle(p) /\ UNCHANGED <<rows, wire, now, budget>>
  BY DEF StatementFails
<1>2. CASE Abort(p)
  BY <1>1, <1>2, AbortType DEF TypeOK
<1>3. CASE Continue(p, <<>>) /\ UNCHANGED <<held, dirty>>
  BY <1>1, <1>3, EmptyPlanType, ContinueType DEF TypeOK
<1> QED
  BY <1>2, <1>3 DEF StatementFails

(* DeadlockDetected keeps every variable in its type.                      *)
LEMMA DeadlockDetectedType ==
  ASSUME TypeOK, NEW p \in Proc, DeadlockDetected(p) PROVE TypeOK'
BY AbortType DEF DeadlockDetected, TypeOK

(* Crash keeps every variable in its type.                                 *)
LEMMA CrashType == ASSUME TypeOK, Crash PROVE TypeOK'
BY AbsentType, EmptyPlanType DEF Crash, TypeOK

(* Tick keeps every variable in its type.                                  *)
LEMMA TickType == ASSUME TypeOK, Tick PROVE TypeOK'
BY DEF Tick, TypeOK

(* Whatever the constants, every step keeps the types.                     *)
THEOREM TypeCorrect == Spec => []TypeOK
<1>1. Init => TypeOK
  BY AbsentType, EmptyPlanType, ServiceAssumption DEF Init, TypeOK, Wire
<1>2. TypeOK /\ [Next]_vars => TypeOK'
  <2> SUFFICES ASSUME TypeOK, [Next]_vars PROVE TypeOK'
    OBVIOUS
  <2>1. CASE UNCHANGED vars
    BY <2>1 DEF vars, TypeOK
  <2>2. ASSUME NEW p \in Proc, Request(p) PROVE TypeOK'
    BY <2>2, CreateTaskType, UpdateTaskType, DeleteTaskType, QueueTaskType,
       MuteTaskType, UnmuteTaskType, MarkTaskAsDoneType DEF Request
  <2>3. ASSUME NEW p \in Proc, Proceed(p) PROVE TypeOK'
    <3>1. CASE \/ SyncChildTasks(p) \/ DeleteChildren(p) \/ NextChild(p)
               \/ DoneChildren(p) \/ MuteChildren(p) \/ PublishSchedule(p)
               \/ RescheduleTask(p) \/ RescheduleCronTasks(p)
      BY <3>1, SyncChildTasksType, DeleteChildrenType, NextChildType, DoneChildrenType,
         MuteChildrenType, PublishScheduleType, RescheduleTaskType,
         RescheduleCronTasksType
    <3>2. CASE \/ WriteRow(p) \/ UpdateTaskWithTx(p) \/ DeleteTaskWithTx(p)
               \/ DeleteChildTasksWithTx(p) \/ CommitTx(p) \/ InsertChild(p)
               \/ Send(p) \/ DeadlockDetected(p)
      BY <3>2, WriteRowType, UpdateTaskWithTxType, DeleteTaskWithTxType,
         DeleteChildTasksWithTxType, CommitTxType, InsertChildType, SendType,
         DeadlockDetectedType
    <3> QED
      BY <2>3, <3>1, <3>2 DEF Proceed
  <2>4. ASSUME NEW p \in Proc, StatementFails(p) PROVE TypeOK'
    BY <2>4, StatementFailsType
  <2>5. CASE RunScheduledRescheduling \/ Crash \/ Tick
    BY <2>5, RunScheduledReschedulingType, CrashType, TickType
  <2> QED
    BY <2>1, <2>2, <2>3, <2>4, <2>5 DEF Next
<1> QED
  BY <1>1, <1>2, PTL DEF Spec

-----------------------------------------------------------------------------
(* Transactions agree on who holds which row, and hold only live ones.     *)

(* What most steps do to the table and to the transactions: nothing.       *)
LEMMA StayLocked ==
  ASSUME LocksAgree, UNCHANGED <<rows, held>> PROVE LocksAgree'
BY DEF LocksAgree, Live

(* Giving up a transaction only releases rows.                             *)
LEMMA AbortLocks ==
  ASSUME TypeOK, LocksAgree, NEW p \in Proc, Abort(p), UNCHANGED rows
  PROVE  LocksAgree'
BY DEF Abort, LocksAgree, Live, TypeOK

(* A new row is nobody's: it was absent, and only live rows are held.      *)
LEMMA NewRowLocks ==
  ASSUME TypeOK, LocksAgree, NEW row, Free # {}, rows' = [rows EXCEPT ![NewId] = row],
         UNCHANGED held
  PROVE  LocksAgree'
<1>1. NewId \in Task /\ rows[NewId].db = "absent"
  BY FreeType
<1>2. \A p \in Proc : NewId \notin held[p]
  BY <1>1 DEF LocksAgree, Live
<1>3. \A p \in Proc : \A t \in held[p] : rows'[t] = rows[t]
  BY <1>1, <1>2 DEF TypeOK
<1> QED
  BY <1>3 DEF LocksAgree, Live

(* A write through the pool leaves what others hold alone.                 *)
LEMMA WriteRowLocks ==
  ASSUME TypeOK, LocksAgree, NEW p \in Proc, WriteRow(p) PROVE LocksAgree'
<1>1. \A q \in Proc : Next1(p).t \notin held[q]
  BY DEF WriteRow
<1>2. \A q \in Proc : \A t \in held[q] : rows'[t] = rows[t]
  BY <1>1 DEF WriteRow, TypeOK
<1> QED
  BY <1>2 DEF WriteRow, LocksAgree, Live

(* A transaction takes a row only when nobody else holds it and it is      *)
(* live.                                                                   *)
LEMMA StageLocks ==
  ASSUME TypeOK, LocksAgree, NEW p \in Proc, NEW S \in SUBSET Task, NEW new,
         \A t \in S : View(p, t).db = "live", Stage(p, S, new)
  PROVE  LocksAgree'
<1>1. \A t \in S : \A q \in Proc \ {p} : t \notin held[q]
  BY DEF Stage, LockedByOther
<1>2. \A t \in S : Live(rows, t)
  BY DEF View, LocksAgree, Live
<1>3. held' = [held EXCEPT ![p] = held[p] \cup S] /\ rows' = rows
  BY DEF Stage
<1>4. /\ held'[p] = held[p] \cup S
      /\ \A q \in Proc \ {p} : held'[q] = held[q]
  BY <1>3 DEF TypeOK
<1> QED
  BY <1>1, <1>2, <1>3, <1>4 DEF LocksAgree, Live

(* The statements of a transaction keep locks and table in agreement.      *)
LEMMA TransactionLocks ==
  ASSUME TypeOK, LocksAgree, NEW p \in Proc,
         UpdateTaskWithTx(p) \/ DeleteTaskWithTx(p) \/ DeleteChildTasksWithTx(p)
  PROVE  LocksAgree'
<1> DEFINE one == {t \in {Next1(p).t} : View(p, t).db = "live"}
           kids == {t \in Task : View(p, t).db = "live" /\ View(p, t).parent = Next1(p).t}
<1>1. At(p, "txwrite") \/ At(p, "txdelete") => one \in SUBSET Task
  BY AtType DEF Statements
<1>2. CASE UpdateTaskWithTx(p)
  <2>1. Stage(p, one, [t \in Task |-> Next1(p).row])
    BY <1>2 DEF UpdateTaskWithTx
  <2> QED
    BY <1>1, <1>2, <2>1, StageLocks DEF UpdateTaskWithTx
<1>3. CASE DeleteTaskWithTx(p)
  <2>1. Stage(p, one, [t \in Task |-> softDeleted(View(p, t))])
    BY <1>3 DEF DeleteTaskWithTx
  <2> QED
    BY <1>1, <1>3, <2>1, StageLocks DEF DeleteTaskWithTx
<1>4. CASE DeleteChildTasksWithTx(p)
  <2>1. Stage(p, kids, [t \in Task |-> softDeleted(View(p, t))])
    BY <1>4 DEF DeleteChildTasksWithTx
  <2> QED
    BY <2>1, StageLocks
<1> QED
  BY <1>2, <1>3, <1>4

(* A commit changes only rows that no other transaction holds.             *)
LEMMA CommitLocks ==
  ASSUME TypeOK, LocksAgree, NEW p \in Proc, CommitTx(p) PROVE LocksAgree'
<1>1. /\ held'[p] = {}
      /\ \A q \in Proc \ {p} : held'[q] = held[q]
  BY DEF CommitTx, TypeOK
<1>2. \A q \in Proc \ {p} : \A t \in held[q] : t \in Task /\ t \notin held[p]
  BY DEF LocksAgree, TypeOK
<1>3. \A q \in Proc \ {p} : \A t \in held[q] : rows'[t] = rows[t]
  BY <1>2 DEF CommitTx, View
<1> QED
  BY <1>1, <1>3 DEF LocksAgree, Live

(* A request that begins holds nothing.                                    *)
LEMMA RequestLocks ==
  ASSUME TypeOK, LocksAgree, NEW p \in Proc, Request(p) PROVE LocksAgree'
<1>1. CASE CreateTask(p)
  BY <1>1, NewRowLocks DEF CreateTask, Begin
<1>2. CASE \/ UpdateTask(p) \/ DeleteTask(p) \/ QueueTask(p)
           \/ MuteTask(p) \/ UnmuteTask(p) \/ MarkTaskAsDone(p)
  BY <1>2, StayLocked
     DEF UpdateTask, DeleteTask, QueueTask, MuteTask, UnmuteTask, MarkTaskAsDone, Begin
<1> QED
  BY <1>1, <1>2 DEF Request

(* A read takes no lock.                                                   *)
LEMMA ReadLocks ==
  ASSUME TypeOK, LocksAgree, NEW p \in Proc,
         \/ SyncChildTasks(p) \/ DeleteChildren(p) \/ NextChild(p) \/ DoneChildren(p)
         \/ MuteChildren(p) \/ PublishSchedule(p)
         \/ RescheduleTask(p) \/ RescheduleCronTasks(p)
  PROVE  LocksAgree'
<1>1. \/ UNCHANGED <<rows, held>>
      \/ Fail(p)
  BY DEF SyncChildTasks, DeleteChildren, NextChild, DoneChildren, MuteChildren,
         PublishSchedule, RescheduleTask, RescheduleCronTasks, Read
<1> QED
  BY <1>1, StayLocked, AbortLocks DEF Fail

(* Every step keeps locks and table in agreement.                          *)
LEMMA NextLocks ==
  ASSUME TypeOK, LocksAgree, [Next]_vars PROVE LocksAgree'
<1>1. CASE UNCHANGED vars
  BY <1>1, StayLocked DEF vars
<1>2. ASSUME NEW p \in Proc, Proceed(p) PROVE LocksAgree'
  <2>1. CASE InsertChild(p)
    BY <2>1, NewRowLocks DEF InsertChild
  <2>2. CASE Send(p)
    <3>1. UNCHANGED <<rows, held>> \/ (Abort(p) /\ UNCHANGED rows)
      BY <2>2 DEF Send, Read
    <3> QED
      BY <3>1, StayLocked, AbortLocks
  <2>3. CASE DeadlockDetected(p)
    BY <2>3, AbortLocks DEF DeadlockDetected
  <2> QED
    BY <1>2, <2>1, <2>2, <2>3, ReadLocks, WriteRowLocks, TransactionLocks, CommitLocks
       DEF Proceed
<1>3. ASSUME NEW p \in Proc, StatementFails(p) PROVE LocksAgree'
  <2>1. UNCHANGED <<rows, held>> \/ (Abort(p) /\ UNCHANGED rows)
    BY <1>3 DEF StatementFails
  <2> QED
    BY <2>1, StayLocked, AbortLocks
<1>4. CASE RunScheduledRescheduling
  BY <1>4, StayLocked DEF RunScheduledRescheduling
<1>5. CASE Crash
  BY <1>5 DEF Crash, LocksAgree
<1>6. CASE Tick
  BY <1>6, StayLocked DEF Tick
<1> QED
  BY <1>1, <1>2, <1>3, <1>4, <1>5, <1>6, RequestLocks DEF Next

(* Transactions never overlap, whatever runs at the same time.             *)
THEOREM TransactionsAgree == Spec => []LocksAgree
<1>1. Init => LocksAgree
  BY DEF Init, LocksAgree
<1>2. TypeOK /\ LocksAgree /\ [Next]_vars => LocksAgree'
  BY NextLocks
<1> QED
  BY <1>1, <1>2, TypeCorrect, PTL DEF Spec

-----------------------------------------------------------------------------
(* Deleted rows stay as they are.                                          *)

Frozen == \A t \in Task : rows[t].db = "gone" => rows'[t] = rows[t]

(* A commit brings no row that is deleted in the table.                    *)
LEMMA CommitFrozen ==
  ASSUME TypeOK, LocksAgree, NEW p \in Proc, CommitTx(p) PROVE Frozen
<1> SUFFICES ASSUME NEW t \in Task, rows[t].db = "gone" PROVE rows'[t] = rows[t]
  BY DEF Frozen
<1>1. t \notin held[p]
  BY DEF LocksAgree, Live
<1> QED
  BY <1>1 DEF CommitTx, View

(* No step changes a deleted row.                                          *)
LEMMA NextFrozen ==
  ASSUME TypeOK, LocksAgree, [Next]_vars PROVE Frozen
<1>1. CASE UNCHANGED rows
  BY <1>1 DEF Frozen
<1>2. ASSUME Free # {}, NEW row, rows' = [rows EXCEPT ![NewId] = row] PROVE Frozen
  BY <1>2, FreeType DEF Frozen, TypeOK
<1>3. ASSUME NEW p \in Proc, WriteRow(p) PROVE Frozen
  BY <1>3 DEF WriteRow, Live, Frozen, TypeOK
<1>4. ASSUME NEW p \in Proc, Request(p) PROVE Frozen
  <2>1. CASE CreateTask(p)
    BY <1>2, <2>1 DEF CreateTask
  <2>2. CASE UNCHANGED rows
    BY <1>1, <2>2
  <2> QED
    BY <1>4, <2>1, <2>2
       DEF Request, UpdateTask, DeleteTask, QueueTask, MuteTask, UnmuteTask, MarkTaskAsDone
<1>5. ASSUME NEW p \in Proc, Proceed(p) PROVE Frozen
  <2>1. CASE InsertChild(p)
    BY <1>2, <2>1 DEF InsertChild
  <2>2. CASE \/ SyncChildTasks(p) \/ DeleteChildren(p) \/ NextChild(p)
             \/ DoneChildren(p) \/ MuteChildren(p) \/ PublishSchedule(p)
             \/ RescheduleTask(p) \/ RescheduleCronTasks(p)
    BY <1>1, <2>2
       DEF SyncChildTasks, DeleteChildren, NextChild, DoneChildren, MuteChildren,
           PublishSchedule, RescheduleTask, RescheduleCronTasks, Read, Fail
  <2>3. CASE UpdateTaskWithTx(p) \/ DeleteTaskWithTx(p) \/ DeleteChildTasksWithTx(p)
    BY <1>1, <2>3
       DEF UpdateTaskWithTx, DeleteTaskWithTx, DeleteChildTasksWithTx, Stage
  <2>4. CASE Send(p) \/ DeadlockDetected(p)
    BY <1>1, <2>4 DEF Send, Read, DeadlockDetected
  <2> QED
    BY <1>3, <1>5, <2>1, <2>2, <2>3, <2>4, CommitFrozen DEF Proceed
<1>6. CASE (\E p \in Proc : StatementFails(p)) \/ RunScheduledRescheduling \/ Crash \/ Tick
           \/ UNCHANGED vars
  BY <1>1, <1>6 DEF StatementFails, RunScheduledRescheduling, Crash, Tick, vars
<1> QED
  BY <1>4, <1>5, <1>6 DEF Next

(* No handler, however old its view of the table, changes a deleted row.   *)
THEOREM DeletedRowsFrozen == Spec => DeletedFrozen
<1>1. TypeOK /\ LocksAgree /\ [Next]_vars => [Frozen]_vars
  BY NextFrozen
<1> QED
  BY <1>1, TypeCorrect, TransactionsAgree, PTL DEF Spec, DeletedFrozen, Frozen

-----------------------------------------------------------------------------
(* Requests served one after another, with every fault: what is over is    *)
(* not left in the worker.                                                 *)

(* A handler has a list of statements left, so that the invariant is about *)
(* every such list.  Its parts are stated of a list f, the table r, the    *)
(* rows h that the transaction holds, what it wrote there d, and the       *)
(* messages w, so that they can be used before and after a step.           *)

(* Requests and the job run one after another.                             *)
OneAtATime == MaxInFlight = 1

(* Deleted or completed, or not there yet.                                 *)
Over(row) == row.db # "live" \/ row.status = "done"

(* The worker has no reminder of t.                                        *)
Silent(w, t) == ~ (w[t] >= 0)

(* The commit will bring the end of t.                                     *)
Ending(h, d, t) == t \in h /\ Over(d[t])

(* Statements that lead to a schedule_task about a task they name.         *)
Arms(s) ==
  \/ /\ s.msg \in {"schedule", "resched"}
     /\ s.do \notin {"insert", "spawn", "commit", "reschedulecron"}
  \/ s.do \in {"resched", "reschedule", "sync"}

(* Statements that end a task, or the children of one.                     *)
Ends(s) == s.do = "txdelete" \/ (s.do = "txwrite" /\ s.row.status = "done")
EndsChildren(s) == s.do \in {"txdeletechildren", "deleteChildren", "doneChildren", "sync"}

(* Statements of a transaction, and those that end it.                     *)
Opens(s)   == s.do \in {"txwrite", "txdelete", "txdeletechildren", "deleteChildren"}
Closes(s)  == s.do \in {"commit", "sync"}
Barrier(s) == s.do \in {"commit", "sync", "doneChildren"}

(* Statements that go on with writes through the pool.                     *)
Pool(s) == s.do \in {"muteChildren", "unmuteChildren", "reschedulecron"}

(* A delete_task about t whose failure undoes the transaction.             *)
Disarms(s, t) == s.do = "publish" /\ s.msg = "delete" /\ s.t = t /\ "msg" \in s.must

(* A statement fits the table: what it writes is live and keeps its        *)
(* parent, what it arms is not over and not about to be, what it ends it   *)
(* disarms.                                                                *)
StepFits(s, r, h, d) ==
  /\ Closes(s) \/ Opens(s) => "row" \in s.must
  /\ Opens(s) => s.msg \in {"none", "delete"}
  /\ s.do = "sync" => \A t \in Task : ~ Ending(h, d, t)
  /\ s.do \in {"write", "txwrite", "resched", "reschedule", "publishMoved", "sync"} =>
       r[s.t].db # "absent" /\ s.row.db = "live" /\ s.row.parent = r[s.t].parent
  /\ Arms(s) => ~ Over(r[s.t]) /\ ~ Ending(h, d, s.t) /\ s.row.status # "done"
  /\ Ends(s) => s.msg = "delete" /\ "msg" \in s.must
  /\ Pool(s) => h = {}
  /\ s.do \in {"write", "publishMoved"} /\ s.row.status = "done" => r[s.t].status = "done"
  /\ s.do \in {"insert", "spawn"} => r[s.t].db # "absent"
  /\ s.do = "insert" => s.row.db = "live" /\ s.row.parent = s.t /\ s.row.status # "done"

(* Only the statement whose turn it is knows all the children, or may      *)
(* write a row that is done.                                               *)
LaterFits(s) ==
  /\ s.do # "txdeletechildren"
  /\ ~ (s.do \in {"write", "publishMoved"} /\ s.row.status = "done")

(* What a comes before: nothing is armed that a has ended.                 *)
PairFits(a, b, r) ==
  /\ Arms(b) => /\ Ends(a) => a.t # b.t
                /\ EndsChildren(a) => r[b.t].parent # a.t
  /\ Pool(b) => ~ Opens(a) /\ ~ EndsChildren(a)
  /\ b.do = "sync" => ~ Ends(a) /\ ~ EndsChildren(a)

(* A delete_task about t comes before the commit.                          *)
WillDisarm(f, t) ==
  \E j \in DOMAIN f : Disarms(f[j], t) /\ \A k \in DOMAIN f : k < j => ~ Barrier(f[k])

(* The whole list fits: statement by statement, pair by pair, every        *)
(* transaction is committed, and what it ends is silent or will be.        *)
PlanFits(f, r, h, d, w) ==
  /\ \A i \in DOMAIN f : StepFits(f[i], r, h, d) /\ (i # 1 => LaterFits(f[i]))
  /\ \A i, k \in DOMAIN f : k < i => PairFits(f[k], f[i], r)
  /\ \A i \in DOMAIN f : Opens(f[i]) => \E j \in DOMAIN f : i < j /\ Closes(f[j])
  /\ h # {} => \E j \in DOMAIN f : Closes(f[j])
  /\ 1 \in DOMAIN f /\ f[1].do = "txdeletechildren" =>
       \A c \in Task : r[c].db = "live" /\ r[c].parent = f[1].t => WillDisarm(f, c)
  /\ \A t \in Task : Ending(h, d, t) => Silent(w, t) \/ WillDisarm(f, t)
  /\ \A t \in h : d[t].parent = r[t].parent /\ d[t].db # "absent"

(* At most one handler is at work.                                         *)
OneInFlight == \A p, q \in Proc : ~ Idle(p) /\ ~ Idle(q) => p = q

(* The statements left to every handler fit.                               *)
Plans == \A p \in Proc : PlanFits(plan[p], rows, held[p], dirty[p], wire)

(* The property itself, of the committed table.                            *)
OverIsSilent == \A t \in Task : Over(rows[t]) => Silent(wire, t)

(* No task is its own parent.                                              *)
NoOwnParent == \A t \in Task : rows[t].parent # t

(* The inductive invariant.                                                *)
SeriesInv == OneInFlight /\ Plans /\ OverIsSilent /\ NoOwnParent

-----------------------------------------------------------------------------
(* Lists of statements.                                                    *)

(* A list whose first statement is replaced: where each statement of the   *)
(* new list comes from, and where the old ones go.                         *)
LEMMA ListParts ==
  ASSUME NEW f \in Seq(Step), f # <<>>, NEW a \in Seq(Step), NEW g, g = a \o Tail(f)
  PROVE  /\ g \in Seq(Step) /\ Len(a) \in Nat /\ DOMAIN a = 1..Len(a)
         /\ DOMAIN f = 1..Len(f) /\ Len(f) \in Nat
         /\ \A i \in DOMAIN g : \/ i \in DOMAIN a /\ g[i] = a[i]
                                \/ /\ i - Len(a) + 1 \in DOMAIN f /\ i > Len(a)
                                   /\ g[i] = f[i - Len(a) + 1]
         /\ \A j \in DOMAIN f : j # 1 =>
              /\ j - 1 + Len(a) \in DOMAIN g /\ j - 1 + Len(a) > Len(a)
              /\ g[j - 1 + Len(a)] = f[j]
         /\ \A i \in DOMAIN a : i \in DOMAIN g /\ g[i] = a[i]
<1>1. /\ Tail(f) \in Seq(Step) /\ Len(Tail(f)) = Len(f) - 1
      /\ \A i \in 1..Len(Tail(f)) : Tail(f)[i] = f[i + 1]
  BY HeadTailProperties
<1>2. /\ DOMAIN f = 1..Len(f) /\ Len(f) \in Nat /\ Len(f) > 0
      /\ DOMAIN a = 1..Len(a) /\ Len(a) \in Nat
  BY LenProperties, EmptySeq
<1>3. /\ g \in Seq(Step) /\ Len(g) = Len(a) + Len(f) - 1
      /\ \A i \in 1..Len(g) : g[i] = IF i <= Len(a) THEN a[i] ELSE Tail(f)[i - Len(a)]
  BY <1>1, <1>2, ConcatProperties
<1>4. DOMAIN g = 1..(Len(a) + Len(f) - 1)
  BY <1>3, LenProperties
<1>5. ASSUME NEW i \in DOMAIN g, i > Len(a)
      PROVE  i - Len(a) + 1 \in DOMAIN f /\ g[i] = f[i - Len(a) + 1]
  <2>1. i - Len(a) \in 1..Len(Tail(f))
    BY <1>1, <1>2, <1>4, <1>5
  <2> QED
    BY <1>1, <1>2, <1>3, <1>4, <1>5, <2>1
<1>6. ASSUME NEW i \in DOMAIN a PROVE i \in DOMAIN g /\ g[i] = a[i]
  BY <1>2, <1>3, <1>4
<1>7. ASSUME NEW j \in DOMAIN f, j # 1
      PROVE  /\ j - 1 + Len(a) \in DOMAIN g /\ j - 1 + Len(a) > Len(a)
             /\ g[j - 1 + Len(a)] = f[j]
  <2>1. j - 1 + Len(a) \in DOMAIN g /\ j - 1 + Len(a) > Len(a)
    BY <1>2, <1>4, <1>7
  <2> QED
    BY <1>2, <1>5, <2>1
<1>8. ASSUME NEW i \in DOMAIN g
      PROVE  \/ i \in DOMAIN a /\ g[i] = a[i]
             \/ i - Len(a) + 1 \in DOMAIN f /\ i > Len(a) /\ g[i] = f[i - Len(a) + 1]
  <2>1. CASE i > Len(a)
    BY <1>5, <2>1
  <2>2. CASE ~ (i > Len(a))
    <3>1. i \in DOMAIN a
      BY <1>2, <1>4, <2>2
    <3> QED
      BY <1>6, <3>1
  <2> QED
    BY <2>1, <2>2
<1>9. g \in Seq(Step)
  BY <1>3
<1> QED
  BY <1>2, <1>6, <1>7, <1>8, <1>9, Zenon

(* A delete_task about t is among the statements after the first.          *)
LaterDisarms(f, t) ==
  \E j \in DOMAIN f : /\ j # 1 /\ Disarms(f[j], t)
                      /\ \A k \in DOMAIN f : k # 1 /\ k < j => ~ Barrier(f[k])

(* The statements that follow the first still fit, and those of a, that    *)
(* replace it, do.                                                         *)
Replaces(a, f, r, h, d, w) ==
  /\ \A i \in DOMAIN a : StepFits(a[i], r, h, d) /\ (i # 1 => LaterFits(a[i]))
  /\ \A j \in DOMAIN f : j # 1 => StepFits(f[j], r, h, d) /\ LaterFits(f[j])
  /\ \A i, k \in DOMAIN a : k < i => PairFits(a[k], a[i], r)
  /\ \A i \in DOMAIN a : \A j \in DOMAIN f : j # 1 => PairFits(a[i], f[j], r)
  /\ \A j, k \in DOMAIN f : k < j /\ k # 1 => PairFits(f[k], f[j], r)
  /\ \A i \in DOMAIN a : Opens(a[i]) =>
       \/ \E j \in DOMAIN a : i < j /\ Closes(a[j])
       \/ \E j \in DOMAIN f : j # 1 /\ Closes(f[j])
  /\ \A i \in DOMAIN f : Opens(f[i]) => \E j \in DOMAIN f : i < j /\ Closes(f[j])
  /\ h # {} => \/ \E j \in DOMAIN a : Closes(a[j])
               \/ \E j \in DOMAIN f : j # 1 /\ Closes(f[j])
  /\ 1 \in DOMAIN a /\ a[1].do = "txdeletechildren" =>
       \A c \in Task : r[c].db = "live" /\ r[c].parent = a[1].t => WillDisarm(a, c)
  /\ \A t \in Task : Ending(h, d, t) =>
       \/ Silent(w, t)
       \/ WillDisarm(a, t)
       \/ /\ \A i \in DOMAIN a : ~ Barrier(a[i])
          /\ LaterDisarms(f, t)
  /\ \A t \in h : d[t].parent = r[t].parent /\ d[t].db # "absent"

(* A list whose first statement is replaced by fitting statements fits.    *)
LEMMA PlanGoesOn ==
  ASSUME NEW f \in Seq(Step), f # <<>>, NEW a \in Seq(Step), NEW g, g = a \o Tail(f),
         NEW r, NEW h, NEW d, NEW w, Replaces(a, f, r, h, d, w)
  PROVE  PlanFits(g, r, h, d, w)
<1>0. /\ g \in Seq(Step) /\ Len(a) \in Nat /\ DOMAIN a = 1..Len(a)
      /\ DOMAIN f = 1..Len(f) /\ Len(f) \in Nat
      /\ \A i \in DOMAIN g : \/ i \in DOMAIN a /\ g[i] = a[i]
                             \/ /\ i - Len(a) + 1 \in DOMAIN f /\ i > Len(a)
                                /\ g[i] = f[i - Len(a) + 1]
      /\ \A j \in DOMAIN f : j # 1 =>
           /\ j - 1 + Len(a) \in DOMAIN g /\ j - 1 + Len(a) > Len(a)
           /\ g[j - 1 + Len(a)] = f[j]
      /\ \A i \in DOMAIN a : i \in DOMAIN g /\ g[i] = a[i]
  BY ListParts
<1> DEFINE n == Len(a)
<1>1. /\ g \in Seq(Step) /\ n \in Nat /\ DOMAIN a = 1..n
      /\ DOMAIN f = 1..Len(f) /\ Len(f) \in Nat
      /\ \A i \in DOMAIN g : \/ i \in DOMAIN a /\ g[i] = a[i]
                             \/ /\ i - n + 1 \in DOMAIN f /\ i > n
                                /\ g[i] = f[i - n + 1]
      /\ \A j \in DOMAIN f : j # 1 => /\ j - 1 + n \in DOMAIN g /\ j - 1 + n > n
                                      /\ g[j - 1 + n] = f[j]
      /\ \A i \in DOMAIN a : i \in DOMAIN g /\ g[i] = a[i]
  BY <1>0
<1>2. DOMAIN g = 1..Len(g) /\ Len(g) \in Nat
  BY <1>1, LenProperties
<1> HIDE DEF n
<1>3. ASSUME NEW i \in DOMAIN g
      PROVE  \/ i \in DOMAIN a /\ g[i] = a[i] /\ i <= n
             \/ \E j \in DOMAIN f : j # 1 /\ j = i - n + 1 /\ g[i] = f[j] /\ i > n
  BY <1>1, <1>2
<1>4. ASSUME NEW i \in DOMAIN g
      PROVE  StepFits(g[i], r, h, d) /\ (i # 1 => LaterFits(g[i]))
  BY <1>3 DEF Replaces
<1>5. ASSUME NEW i \in DOMAIN g, NEW k \in DOMAIN g, k < i PROVE PairFits(g[k], g[i], r)
  <2>1. CASE i \in DOMAIN a /\ g[i] = a[i] /\ i <= n
    <3>1. k \in DOMAIN a /\ g[k] = a[k]
      BY <1>1, <1>2, <1>5, <2>1
    <3> QED
      BY <1>5, <2>1, <3>1 DEF Replaces
  <2>2. ASSUME NEW j \in DOMAIN f, j # 1, j = i - n + 1, g[i] = f[j], i > n
        PROVE  PairFits(g[k], g[i], r)
    <3>1. CASE k \in DOMAIN a /\ g[k] = a[k]
      BY <2>2, <3>1 DEF Replaces
    <3>2. ASSUME NEW m \in DOMAIN f, m # 1, m = k - n + 1, g[k] = f[m]
          PROVE  PairFits(g[k], g[i], r)
      <4>1. m < j
        BY <1>1, <1>2, <1>5, <2>2, <3>2
      <4> QED
        BY <2>2, <3>2, <4>1 DEF Replaces
    <3> QED
      BY <1>3, <3>1, <3>2
  <2> QED
    BY <1>3, <2>1, <2>2
<1>6. (\E j \in DOMAIN f : j # 1 /\ Closes(f[j])) => \E j \in DOMAIN g : j > n /\ Closes(g[j])
  BY <1>1
<1>7. ASSUME NEW i \in DOMAIN g, Opens(g[i]) PROVE \E j \in DOMAIN g : i < j /\ Closes(g[j])
  <2>1. CASE i \in DOMAIN a /\ g[i] = a[i] /\ i <= n
    <3>1. CASE \E j \in DOMAIN a : i < j /\ Closes(a[j])
      BY <1>1, <3>1
    <3>2. CASE \E j \in DOMAIN f : j # 1 /\ Closes(f[j])
      <4>1. PICK j \in DOMAIN g : j > n /\ Closes(g[j])
        BY <1>6, <3>2
      <4>2. i < j
        BY <1>1, <1>2, <2>1, <4>1
      <4> QED
        BY <4>1, <4>2
    <3> QED
      BY <1>7, <2>1, <3>1, <3>2 DEF Replaces
  <2>2. ASSUME NEW j \in DOMAIN f, j # 1, j = i - n + 1, g[i] = f[j], i > n
        PROVE  \E m \in DOMAIN g : i < m /\ Closes(g[m])
    <3>1. PICK m \in DOMAIN f : j < m /\ Closes(f[m])
      BY <1>7, <2>2 DEF Replaces
    <3>2. m # 1 /\ i < m - 1 + n
      BY <1>1, <1>2, <2>2, <3>1
    <3> QED
      BY <1>1, <3>1, <3>2
  <2> QED
    BY <1>3, <2>1, <2>2
<1>8. ASSUME h # {} PROVE \E j \in DOMAIN g : Closes(g[j])
  BY <1>1, <1>6, <1>8 DEF Replaces
<1>9. ASSUME NEW t, WillDisarm(a, t) PROVE WillDisarm(g, t)
  <2>1. PICK j \in DOMAIN a : /\ Disarms(a[j], t)
                              /\ \A k \in DOMAIN a : k < j => ~ Barrier(a[k])
    BY <1>9 DEF WillDisarm
  <2>2. ASSUME NEW k \in DOMAIN g, k < j PROVE ~ Barrier(g[k])
    BY <1>1, <1>2, <2>1, <2>2
  <2> QED
    BY <1>1, <2>1, <2>2 DEF WillDisarm
<1>10. ASSUME NEW t, LaterDisarms(f, t), \A i \in DOMAIN a : ~ Barrier(a[i])
       PROVE  WillDisarm(g, t)
  <2>1. PICK j \in DOMAIN f : /\ j # 1 /\ Disarms(f[j], t)
                              /\ \A k \in DOMAIN f : k # 1 /\ k < j => ~ Barrier(f[k])
    BY <1>10 DEF LaterDisarms
  <2>2. ASSUME NEW k \in DOMAIN g, k < j - 1 + n PROVE ~ Barrier(g[k])
    <3>1. ASSUME NEW m \in DOMAIN f, m # 1, m = k - n + 1, g[k] = f[m] PROVE ~ Barrier(g[k])
      <4>1. m < j
        BY <1>1, <1>2, <2>2, <3>1
      <4> QED
        BY <2>1, <3>1, <4>1
    <3> QED
      BY <1>3, <1>10, <3>1
  <2> QED
    BY <1>1, <2>1, <2>2 DEF WillDisarm
<1>11. ASSUME 1 \in DOMAIN g, g[1].do = "txdeletechildren",
              NEW c \in Task, r[c].db = "live", r[c].parent = g[1].t
       PROVE  WillDisarm(g, c)
  <2>1. 1 \in DOMAIN a /\ g[1] = a[1]
    <3>1. ASSUME NEW j \in DOMAIN f, j # 1, g[1] = f[j] PROVE FALSE
      BY <1>11, <3>1 DEF LaterFits, Replaces
    <3> QED
      BY <1>3, <1>11, <3>1
  <2> QED
    BY <1>9, <1>11, <2>1 DEF Replaces
<1>12. ASSUME NEW t \in Task, Ending(h, d, t) PROVE Silent(w, t) \/ WillDisarm(g, t)
  BY <1>9, <1>10, <1>12 DEF Replaces
<1> QED
  BY <1>4, <1>5, <1>7, <1>8, <1>11, <1>12 DEF PlanFits, Replaces

(* Nothing is left: everything fits.                                       *)
LEMMA IdleFits ==
  ASSUME NEW f, f = <<>>, NEW r, NEW h, h = {}, NEW d, NEW w
  PROVE  PlanFits(f, r, h, d, w)
<1>1. DOMAIN f = {}
  OBVIOUS
<1> QED
  BY <1>1 DEF PlanFits, Ending

(* What is asked of a step of the table and the transaction, so that the   *)
(* statements after the first still fit.                                   *)
Respects(f, r, r2, h2, d2) ==
  /\ \A t \in Task : r[t].db # "absent" => r2[t].db # "absent" /\ r2[t].parent = r[t].parent
  /\ \A j \in DOMAIN f : j # 1 /\ Arms(f[j]) => /\ ~ Over(r2[f[j].t])
                                                /\ ~ Ending(h2, d2, f[j].t)
  /\ \A j \in DOMAIN f : j # 1 /\ Pool(f[j]) => h2 = {}
  /\ \A j \in DOMAIN f : j # 1 /\ f[j].do = "sync" => \A t \in Task : ~ Ending(h2, d2, t)

(* A step that respects the statements after the first leaves them         *)
(* fitting.                                                                *)
LEMMA LaterStay ==
  ASSUME NEW f \in Seq(Step), NEW r, NEW h, NEW d, NEW w, PlanFits(f, r, h, d, w),
         NEW r2, NEW h2, NEW d2, Respects(f, r, r2, h2, d2)
  PROVE  /\ \A j \in DOMAIN f : j # 1 => StepFits(f[j], r2, h2, d2) /\ LaterFits(f[j])
         /\ \A j, k \in DOMAIN f : k < j /\ k # 1 => PairFits(f[k], f[j], r2)
         /\ \A i \in DOMAIN f : Opens(f[i]) => \E j \in DOMAIN f : i < j /\ Closes(f[j])
<1>0. /\ DOMAIN f = 1..Len(f) /\ Len(f) \in Nat /\ \A j \in DOMAIN f : f[j] \in Step
  BY LenProperties, ElementOfSeq
<1>1. ASSUME NEW s \in Step,
             Arms(s) \/ s.do \in {"write", "txwrite", "resched", "reschedule", "publishMoved",
                                  "sync", "insert", "spawn"}
      PROVE  s.t \in Task
  BY <1>1 DEF Step, Fields, Statements, Arms
<1>2. ASSUME NEW j \in DOMAIN f, j # 1
      PROVE  StepFits(f[j], r2, h2, d2) /\ LaterFits(f[j])
  <2>1. StepFits(f[j], r, h, d) /\ LaterFits(f[j])
    BY <1>2 DEF PlanFits
  <2>2. f[j].do \in {"write", "publishMoved"} => f[j].row.status # "done"
    BY <2>1 DEF LaterFits
  <2>3. f[j] \in Step
    BY <1>0
  <2>4. Arms(f[j]) => ~ Over(r2[f[j].t]) /\ ~ Ending(h2, d2, f[j].t)
    BY <1>2 DEF Respects
  <2>5. Pool(f[j]) => h2 = {}
    BY <1>2 DEF Respects
  <2>6. f[j].t \in Task /\ r[f[j].t].db # "absent" =>
          r2[f[j].t].db # "absent" /\ r2[f[j].t].parent = r[f[j].t].parent
    BY DEF Respects
  <2>7. f[j].do = "sync" => \A t \in Task : ~ Ending(h2, d2, t)
    BY <1>2 DEF Respects
  <2> QED
    BY <1>1, <2>1, <2>2, <2>3, <2>4, <2>5, <2>6, <2>7 DEF StepFits
<1>3. ASSUME NEW j \in DOMAIN f, NEW k \in DOMAIN f, k < j, k # 1
      PROVE  PairFits(f[k], f[j], r2)
  <2>1. PairFits(f[k], f[j], r) /\ j # 1
    BY <1>0, <1>3 DEF PlanFits
  <2>2. Arms(f[j]) => f[j].t \in Task /\ r[f[j].t].db # "absent"
    BY <1>0, <1>1 DEF PlanFits, StepFits, Over
  <2>3. Arms(f[j]) => r2[f[j].t].parent = r[f[j].t].parent
    BY <2>2 DEF Respects
  <2> QED
    BY <2>1, <2>3 DEF PairFits
<1>4. \A i \in DOMAIN f : Opens(f[i]) => \E j \in DOMAIN f : i < j /\ Closes(f[j])
  BY DEF PlanFits
<1> QED
  BY <1>2, <1>3, <1>4

(* The statements of a fit the table, the transaction and what follows.    *)
Leads(a, f, r, h, d) ==
  /\ \A i \in DOMAIN a : StepFits(a[i], r, h, d) /\ (i # 1 => LaterFits(a[i]))
  /\ \A i, k \in DOMAIN a : k < i => PairFits(a[k], a[i], r)
  /\ \A i \in DOMAIN a : \A j \in DOMAIN f : j # 1 => PairFits(a[i], f[j], r)
  /\ \A i \in DOMAIN a : Opens(a[i]) =>
       \/ \E j \in DOMAIN a : i < j /\ Closes(a[j])
       \/ \E j \in DOMAIN f : j # 1 /\ Closes(f[j])
  /\ 1 \in DOMAIN a /\ a[1].do = "txdeletechildren" =>
       \A c \in Task : r[c].db = "live" /\ r[c].parent = a[1].t => WillDisarm(a, c)

(* What a transaction holds will be committed, and what it ends disarmed.  *)
Keeps(a, f, r, h, d, w) ==
  /\ h # {} => \/ \E j \in DOMAIN a : Closes(a[j])
               \/ \E j \in DOMAIN f : j # 1 /\ Closes(f[j])
  /\ \A t \in Task : Ending(h, d, t) =>
       \/ Silent(w, t)
       \/ WillDisarm(a, t)
       \/ /\ \A i \in DOMAIN a : ~ Barrier(a[i])
          /\ LaterDisarms(f, t)
  /\ \A t \in h : d[t].parent = r[t].parent /\ d[t].db # "absent"

(* A step of the handler: what it laid out and what was left fit together. *)
LEMMA StepFitsOn ==
  ASSUME NEW f \in Seq(Step), f # <<>>, NEW a \in Seq(Step), NEW g, g = a \o Tail(f),
         NEW r, NEW h, NEW d, NEW w, PlanFits(f, r, h, d, w),
         NEW r2, NEW h2, NEW d2, NEW w2, Respects(f, r, r2, h2, d2),
         Leads(a, f, r2, h2, d2), Keeps(a, f, r2, h2, d2, w2)
  PROVE  PlanFits(g, r2, h2, d2, w2)
<1>1. /\ \A j \in DOMAIN f : j # 1 => StepFits(f[j], r2, h2, d2) /\ LaterFits(f[j])
      /\ \A j, k \in DOMAIN f : k < j /\ k # 1 => PairFits(f[k], f[j], r2)
      /\ \A i \in DOMAIN f : Opens(f[i]) => \E j \in DOMAIN f : i < j /\ Closes(f[j])
  BY LaterStay
<1>2. Replaces(a, f, r2, h2, d2, w2)
  BY <1>1 DEF Replaces, Leads, Keeps
<1> QED
  BY <1>2, PlanGoesOn

(* The table as it is respects the statements.                             *)
LEMMA SameRespects ==
  ASSUME NEW f, NEW r, NEW h, NEW d, NEW w, PlanFits(f, r, h, d, w)
  PROVE  Respects(f, r, r, h, d)
BY DEF PlanFits, StepFits, Respects

(* A statement that neither closes the transaction nor disarms a task      *)
(* leaves the transaction as it was.                                       *)
LEMMA PassingKeeps ==
  ASSUME NEW f \in Seq(Step), f # <<>>, NEW a, NEW r, NEW h, NEW d, NEW w,
         PlanFits(f, r, h, d, w), ~ Closes(f[1]), \A i \in DOMAIN a : ~ Barrier(a[i]),
         NEW r2, \A t \in h : r2[t].parent = r[t].parent, NEW w2,
         \A t \in Task :
           Ending(h, d, t) /\ (Silent(w, t) \/ Disarms(f[1], t)) => Silent(w2, t)
  PROVE  Keeps(a, f, r2, h, d, w2)
<1>1. DOMAIN f = 1..Len(f) /\ Len(f) \in Nat
  BY LenProperties
<1>2. h # {} => \E j \in DOMAIN f : j # 1 /\ Closes(f[j])
  BY DEF PlanFits
<1>3. ASSUME NEW t \in Task, Ending(h, d, t) PROVE Silent(w2, t) \/ LaterDisarms(f, t)
  <2>1. Silent(w, t) \/ WillDisarm(f, t)
    BY <1>3 DEF PlanFits
  <2>2. ASSUME NEW j \in DOMAIN f, Disarms(f[j], t),
               \A k \in DOMAIN f : k < j => ~ Barrier(f[k])
        PROVE  Silent(w2, t) \/ LaterDisarms(f, t)
    <3>1. CASE j = 1
      BY <1>3, <2>2, <3>1
    <3>2. CASE j # 1
      BY <2>2, <3>2 DEF LaterDisarms
    <3> QED
      BY <3>1, <3>2
  <2> QED
    BY <1>3, <2>1, <2>2 DEF WillDisarm
<1>4. \A t \in h : d[t].parent = r2[t].parent /\ d[t].db # "absent"
  BY DEF PlanFits
<1> QED
  BY <1>2, <1>3, <1>4 DEF Keeps

(* Before a barrier, what the transaction ends has been disarmed.          *)
LEMMA BarrierSilent ==
  ASSUME NEW f \in Seq(Step), f # <<>>, NEW r, NEW h, NEW d, NEW w,
         PlanFits(f, r, h, d, w), Barrier(f[1]), NEW t \in Task, Ending(h, d, t)
  PROVE  Silent(w, t)
<1>1. DOMAIN f = 1..Len(f) /\ Len(f) \in Nat /\ Len(f) > 0
  BY LenProperties, EmptySeq
<1>2. ASSUME NEW j \in DOMAIN f, Disarms(f[j], t),
             \A k \in DOMAIN f : k < j => ~ Barrier(f[k])
      PROVE  FALSE
  <2>1. CASE j = 1
    BY <1>2, <2>1 DEF Disarms, Barrier
  <2>2. CASE j # 1
    BY <1>1, <1>2, <2>2
  <2> QED
    BY <2>1, <2>2
<1>3. Silent(w, t) \/ WillDisarm(f, t)
  BY DEF PlanFits
<1> QED
  BY <1>2, <1>3 DEF WillDisarm

(* A read at a barrier lays out a commit.                                  *)
LEMMA BarrierKeeps ==
  ASSUME NEW f \in Seq(Step), f # <<>>, NEW a, NEW r, NEW h, NEW d, NEW w,
         PlanFits(f, r, h, d, w), Barrier(f[1]), \E j \in DOMAIN a : Closes(a[j])
  PROVE  Keeps(a, f, r, h, d, w)
<1>1. \A t \in h : d[t].parent = r[t].parent /\ d[t].db # "absent"
  BY DEF PlanFits
<1> QED
  BY <1>1, BarrierSilent DEF Keeps

-----------------------------------------------------------------------------
(* One handler goes on while the others are idle.                          *)

(* The statements of p fit.                                                *)
LEMMA AtPlan ==
  ASSUME TypeOK, SeriesInv, NEW p \in Proc
  PROVE  /\ plan[p] \in Seq(Step)
         /\ PlanFits(plan[p], rows, held[p], dirty[p], wire)
         /\ ~Idle(p) => plan[p] # <<>> /\ 1 \in DOMAIN plan[p] /\ plan[p][1] = Next1(p)
<1>1. plan[p] \in Seq(Step)
  BY DEF TypeOK
<1>2. PlanFits(plan[p], rows, held[p], dirty[p], wire)
  BY DEF SeriesInv, Plans
<1>3. ASSUME ~Idle(p) PROVE 1 \in DOMAIN plan[p] /\ plan[p][1] = Next1(p)
  <2>1. Len(plan[p]) \in Nat /\ Len(plan[p]) > 0 /\ DOMAIN plan[p] = 1..Len(plan[p])
    BY <1>1, <1>3, LenProperties, EmptySeq DEF Idle
  <2> QED
    BY <1>1, <2>1 DEF Next1
<1> QED
  BY <1>1, <1>2, <1>3 DEF Idle

(* If p alone is at work and its statements fit, every list fits: the      *)
(* others have none.                                                       *)
LEMMA OneMoves ==
  ASSUME TypeOK, SeriesInv, NEW p \in Proc, \A q \in Proc : ~Idle(q) => q = p,
         NEW f, plan' = [plan EXCEPT ![p] = f],
         \A q \in Proc \ {p} : held'[q] = held[q],
         PlanFits(f, rows', held'[p], dirty'[p], wire')
  PROVE  OneInFlight' /\ Plans'
<1>1. plan'[p] = f /\ \A q \in Proc \ {p} : plan'[q] = <<>>
  BY DEF TypeOK, Idle
<1>2. ASSUME NEW q \in Proc \ {p} PROVE held'[q] = {}
  <2>1. DOMAIN plan[q] = {}
    BY <1>2 DEF Idle
  <2> QED
    BY <1>2, <2>1, AtPlan DEF PlanFits
<1>3. ASSUME NEW q \in Proc
      PROVE  PlanFits(plan'[q], rows', held'[q], dirty'[q], wire')
  <2>1. CASE q = p
    BY <1>1, <2>1
  <2>2. CASE q # p
    BY <1>1, <1>2, <2>2, IdleFits
  <2> QED
    BY <2>1, <2>2
<1>4. Plans'
  BY <1>3 DEF Plans
<1>5. OneInFlight'
  BY <1>1 DEF OneInFlight, Idle
<1> QED
  BY <1>4, <1>5

(* A read lays out statements and changes nothing else.                    *)
LEMMA ReadsOn ==
  ASSUME TypeOK, SeriesInv, NEW p \in Proc, ~Idle(p), NEW a \in Seq(Step), Read(p, a),
         Leads(a, plan[p], rows, held[p], dirty[p]),
         Keeps(a, plan[p], rows, held[p], dirty[p], wire)
  PROVE  SeriesInv'
<1>1. /\ plan[p] \in Seq(Step) /\ plan[p] # <<>>
      /\ PlanFits(plan[p], rows, held[p], dirty[p], wire)
  BY AtPlan
<1>2. Respects(plan[p], rows, rows, held[p], dirty[p])
  BY <1>1, SameRespects
<1>3. PlanFits(a \o Tail(plan[p]), rows, held[p], dirty[p], wire)
  BY <1>1, <1>2, StepFitsOn
<1>4. plan' = [plan EXCEPT ![p] = a \o Tail(plan[p])] /\ UNCHANGED <<rows, wire, held, dirty>>
  BY DEF Read, Continue
<1>5. \A q \in Proc : ~Idle(q) => q = p
  BY DEF SeriesInv, OneInFlight
<1>6. OneInFlight' /\ Plans'
  BY <1>3, <1>4, <1>5, OneMoves
<1> QED
  BY <1>4, <1>6 DEF SeriesInv, OverIsSilent, NoOwnParent

(* The read is none of a transaction's last statement.                     *)
LEMMA PassingReads ==
  ASSUME TypeOK, SeriesInv, NEW p \in Proc, ~Idle(p), NEW a \in Seq(Step), Read(p, a),
         Leads(a, plan[p], rows, held[p], dirty[p]),
         \A i \in DOMAIN a : ~ Barrier(a[i]),
         ~ Closes(Next1(p)), \A t \in Task : ~ Disarms(Next1(p), t)
  PROVE  SeriesInv'
<1>1. /\ plan[p] \in Seq(Step) /\ plan[p] # <<>>
      /\ PlanFits(plan[p], rows, held[p], dirty[p], wire)
      /\ plan[p][1] = Next1(p)
  BY AtPlan
<1>2. Keeps(a, plan[p], rows, held[p], dirty[p], wire)
  BY <1>1, PassingKeeps
<1> QED
  BY <1>2, ReadsOn

(* Nothing is laid out.                                                    *)
LEMMA EmptyLeads ==
  ASSUME NEW f, NEW r, NEW h, NEW d PROVE Leads(<<>>, f, r, h, d)
<1>1. DOMAIN <<>> = {}
  OBVIOUS
<1> QED
  BY <1>1 DEF Leads

(* A read after which there is nothing more to do.                         *)
LEMMA EmptyReads ==
  ASSUME TypeOK, SeriesInv, NEW p \in Proc, ~Idle(p), Read(p, <<>>),
         ~ Closes(Next1(p)), \A t \in Task : ~ Disarms(Next1(p), t)
  PROVE  SeriesInv'
<1>1. <<>> \in Seq(Step) /\ \A i \in DOMAIN <<>> : FALSE
  BY EmptyPlanType
<1> QED
  BY <1>1, EmptyLeads, PassingReads

(* One statement that neither ends nor opens anything is laid out.         *)
LEMMA OneLeads ==
  ASSUME NEW s, NEW f, NEW r, NEW h, NEW d, StepFits(s, r, h, d),
         ~ Ends(s), ~ EndsChildren(s), ~ Opens(s)
  PROVE  /\ Leads(<<s>>, f, r, h, d)
         /\ DOMAIN <<s>> = {1} /\ <<s>>[1] = s
<1>1. DOMAIN <<s>> = {1} /\ <<s>>[1] = s
  OBVIOUS
<1>2. s.do # "txdeletechildren"
  BY DEF Opens
<1>3. \A j \in DOMAIN f : PairFits(s, f[j], r)
  BY DEF PairFits
<1> HIDE DEF PairFits
<1>4. \A i \in {1} : <<s>>[i] = s
  BY <1>1
<1> QED
  BY <1>1, <1>2, <1>3, <1>4 DEF Leads

(* A read that lays out one statement that opens and ends nothing.         *)
LEMMA OneReads ==
  ASSUME TypeOK, SeriesInv, NEW p \in Proc, ~Idle(p), NEW s \in Step, Read(p, <<s>>),
         StepFits(s, rows, held[p], dirty[p]),
         ~ Ends(s), ~ EndsChildren(s), ~ Opens(s), ~ Barrier(s),
         ~ Closes(Next1(p)), \A t \in Task : ~ Disarms(Next1(p), t)
  PROVE  SeriesInv'
<1>1. <<s>> \in Seq(Step)
  BY SingletonType
<1>2. Leads(<<s>>, plan[p], rows, held[p], dirty[p]) /\ \A i \in DOMAIN <<s>> : ~ Barrier(<<s>>[i])
  BY OneLeads
<1> QED
  BY <1>1, <1>2, PassingReads

-----------------------------------------------------------------------------
(* A handler that gives up, or is stopped, leaves nothing behind.          *)

(* A handler that answers with an error rolls its transaction back.        *)
LEMMA AbortFits ==
  ASSUME TypeOK, SeriesInv, NEW p \in Proc, ~Idle(p), Abort(p), UNCHANGED <<rows, wire>>
  PROVE  SeriesInv'
<1>1. plan' = [plan EXCEPT ![p] = <<>>] /\ held' = [held EXCEPT ![p] = {}]
  BY DEF Abort
<1>2. held'[p] = {} /\ \A q \in Proc \ {p} : held'[q] = held[q]
  BY <1>1 DEF TypeOK
<1>3. PlanFits(<<>>, rows', held'[p], dirty'[p], wire')
  BY <1>2, IdleFits
<1>4. \A q \in Proc : ~Idle(q) => q = p
  BY DEF SeriesInv, OneInFlight
<1>5. OneInFlight' /\ Plans'
  BY <1>1, <1>2, <1>3, <1>4, OneMoves
<1> QED
  BY <1>5 DEF SeriesInv, OverIsSilent, NoOwnParent

(* A crash rolls every transaction back.                                   *)
LEMMA CrashFits == ASSUME SeriesInv, Crash PROVE SeriesInv'
<1>1. /\ \A p \in Proc : plan'[p] = <<>> /\ held'[p] = {}
      /\ UNCHANGED <<rows, wire>>
  BY DEF Crash
<1>2. \A p \in Proc : PlanFits(plan'[p], rows', held'[p], dirty'[p], wire')
  BY <1>1, IdleFits
<1>3. OneInFlight' /\ Plans'
  BY <1>1, <1>2 DEF OneInFlight, Plans, Idle
<1> QED
  BY <1>1, <1>3 DEF SeriesInv, OverIsSilent, NoOwnParent

-----------------------------------------------------------------------------
(* Later reads keep the statements fit.                                    *)

(* The statement whose turn it is fits, and comes before the others.       *)
LEMMA HeadFits ==
  ASSUME TypeOK, SeriesInv, NEW p \in Proc, ~Idle(p)
  PROVE  /\ Next1(p) \in Step /\ Next1(p).row \in Row
         /\ StepFits(Next1(p), rows, held[p], dirty[p])
         /\ \A j \in DOMAIN plan[p] : j # 1 => PairFits(Next1(p), plan[p][j], rows)
         /\ Opens(Next1(p)) => \E j \in DOMAIN plan[p] : j # 1 /\ Closes(plan[p][j])
<1>1. /\ plan[p] \in Seq(Step) /\ plan[p] # <<>>
      /\ PlanFits(plan[p], rows, held[p], dirty[p], wire)
      /\ 1 \in DOMAIN plan[p] /\ plan[p][1] = Next1(p)
  BY AtPlan
<1>2. DOMAIN plan[p] = 1..Len(plan[p]) /\ Len(plan[p]) \in Nat
  BY <1>1, LenProperties
<1>3. \A j \in DOMAIN plan[p] : j # 1 => 1 < j
  BY <1>2
<1>4. Next1(p) \in Step /\ Next1(p).row \in Row
  BY HeadType DEF Step, Fields
<1> QED
  BY <1>1, <1>3, <1>4 DEF PlanFits

(* A row of the table, live.                                               *)
LEMMA LiveRow ==
  ASSUME TypeOK, NEW t \in Task, Live(rows, t)
  PROVE  rows[t] \in Row /\ rows[t].db = "live"
BY RowType DEF Live

(* The next child of a series is to be inserted as a pending row of its    *)
(* parent.                                                                 *)
LEMMA NextChildFits == ASSUME TypeOK, SeriesInv, NEW p \in Proc, NextChild(p) PROVE SeriesInv'
<1> DEFINE q == Next1(p).t
           row == childOf(rows[q], q, nextRecurrenceAfter(now), "scheduled")
           s == Do("insert", q, row, "schedule", {})
<1>1. /\ ~Idle(p) /\ Next1(p).do = "nextChild" /\ q \in Task
      /\ ~ Closes(Next1(p)) /\ \A t \in Task : ~ Disarms(Next1(p), t)
  BY AtType DEF NextChild, At, Statements, Closes, Disarms
<1>2. CASE Read(p, <<>>)
  BY <1>1, <1>2, EmptyReads
<1>3. CASE Read(p, <<s>>) /\ Live(rows, q)
  <2>1. /\ s.do = "insert" /\ s.t = q /\ s.row = row /\ s.msg = "schedule"
        /\ row.db = "live" /\ row.parent = q /\ row.status = "scheduled"
    BY DEF Do, childOf
  <2>2. s \in Step
    <3>1. row \in Row
      BY <1>1, RowType, ChildType, NextRecurrenceType DEF TypeOK, Status
    <3> QED
      BY <1>1, <3>1, DoType DEF Statements
  <2>3. rows[q].db # "absent"
    BY <1>3 DEF Live
  <2> HIDE DEF s, row
  <2>4. StepFits(s, rows, held[p], dirty[p])
    BY <2>1, <2>3 DEF StepFits, Arms, Ends, EndsChildren, Opens, Closes, Pool
  <2>5. ~ Ends(s) /\ ~ EndsChildren(s) /\ ~ Opens(s) /\ ~ Barrier(s)
    BY <2>1 DEF Ends, EndsChildren, Opens, Barrier
  <2> QED
    BY <1>1, <1>3, <2>2, <2>4, <2>5, OneReads
<1> QED
  BY <1>2, <1>3 DEF NextChild

(* The job reschedules a task that is not over, or passes it over.         *)
LEMMA RescheduleTaskFits ==
  ASSUME TypeOK, SeriesInv, NEW p \in Proc, RescheduleTask(p) PROVE SeriesInv'
<1> DEFINE head == Next1(p)
<1>1. /\ ~Idle(p) /\ head.do = "reschedule" /\ head.t \in Task
      /\ ~ Closes(head) /\ \A t \in Task : ~ Disarms(head, t)
  BY AtType DEF RescheduleTask, At, Statements, Closes, Disarms
<1>2. /\ rows[head.t].db # "absent" /\ head.row.db = "live"
      /\ head.row.parent = rows[head.t].parent
      /\ ~ Over(rows[head.t]) /\ ~ Ending(held[p], dirty[p], head.t)
  BY <1>1, HeadFits DEF StepFits, Arms
<1>3. CASE Read(p, <<>>)
  BY <1>1, <1>3, EmptyReads
<1>4. ASSUME NEW n \in Time,
             NEW row, row = [head.row EXCEPT !.status = "rescheduled", !.start = n],
             Read(p, <<Do("publishMoved", head.t, row, "schedule", {})>>)
      PROVE  SeriesInv'
  <2> DEFINE s == Do("publishMoved", head.t, row, "schedule", {})
  <2>0. head.row \in Row
    BY <1>1, HeadFits
  <2>1. row \in Row /\ row.db = head.row.db /\ row.parent = head.row.parent
        /\ row.status = "rescheduled"
    BY <1>4, <2>0 DEF Row, Status
  <2>2. s.do = "publishMoved" /\ s.t = head.t /\ s.row = row /\ s.msg = "schedule"
    BY DEF Do
  <2>3. s \in Step
    BY <1>1, <2>1, DoType DEF Statements
  <2> HIDE DEF s, head
  <2>4. StepFits(s, rows, held[p], dirty[p])
    BY <1>2, <2>1, <2>2 DEF StepFits, Arms, Ends, EndsChildren, Opens, Closes, Pool
  <2>5. ~ Ends(s) /\ ~ EndsChildren(s) /\ ~ Opens(s) /\ ~ Barrier(s)
    BY <2>2 DEF Ends, EndsChildren, Opens, Barrier
  <2>6. Read(p, <<s>>)
    BY <1>4 DEF s
  <2> QED
    BY <1>1, <2>3, <2>4, <2>5, <2>6, OneReads DEF head
<1>5. addDaysUntilAfter(head.row.start, now) \in Time /\ nextRecurrenceAfter(now) \in Time
  BY <1>1, HeadFits, AddDaysType, NextRecurrenceType DEF Row, Time, TypeOK
<1> QED
  BY <1>3, <1>4, <1>5 DEF RescheduleTask

(* A statement that fails is passed over, when the handler may go on.      *)
LEMMA StatementFailsFits ==
  ASSUME TypeOK, SeriesInv, NEW p \in Proc, StatementFails(p) PROVE SeriesInv'
<1>1. ~Idle(p) /\ Next1(p).do \notin {"publish", "publishMoved"} /\ UNCHANGED <<rows, wire>>
  BY DEF StatementFails
<1>2. CASE Abort(p)
  BY <1>1, <1>2, AbortFits
<1>3. CASE "row" \notin Next1(p).must /\ Continue(p, <<>>) /\ UNCHANGED <<held, dirty>>
  <2>1. ~ Closes(Next1(p)) /\ \A t \in Task : ~ Disarms(Next1(p), t)
    BY <1>1, <1>3, HeadFits DEF StepFits, Disarms
  <2>2. /\ plan[p] \in Seq(Step) /\ plan[p] # <<>>
        /\ PlanFits(plan[p], rows, held[p], dirty[p], wire)
        /\ plan[p][1] = Next1(p)
    BY <1>1, AtPlan
  <2>3. <<>> \in Seq(Step) /\ \A i \in DOMAIN <<>> : FALSE
    BY EmptyPlanType
  <2>4. Keeps(<<>>, plan[p], rows, held[p], dirty[p], wire)
    BY <2>1, <2>2, <2>3, PassingKeeps
  <2>5. PlanFits(<<>> \o Tail(plan[p]), rows, held[p], dirty[p], wire)
    BY <2>2, <2>3, <2>4, EmptyLeads, SameRespects, StepFitsOn
  <2>6. plan' = [plan EXCEPT ![p] = <<>> \o Tail(plan[p])]
    BY <1>3 DEF Continue
  <2>7. \A q \in Proc : ~Idle(q) => q = p
    BY <1>1 DEF SeriesInv, OneInFlight
  <2>8. OneInFlight' /\ Plans'
    BY <1>1, <1>3, <2>5, <2>6, <2>7, OneMoves
  <2> QED
    BY <1>1, <2>8 DEF SeriesInv, OverIsSilent, NoOwnParent
<1> QED
  BY <1>2, <1>3 DEF StatementFails

(* One list of statements after another.                                   *)
Joined(x, y, g) ==
  /\ \A i \in DOMAIN x : i \in DOMAIN g /\ g[i] = x[i]
  /\ \A j \in DOMAIN y : \E i \in DOMAIN g : /\ g[i] = y[j] /\ (i # 1 \/ x = <<>>)
                                           /\ \A k \in DOMAIN x : k < i
  /\ \A i \in DOMAIN g : \/ i \in DOMAIN x /\ g[i] = x[i]
                         \/ /\ \E j \in DOMAIN y : g[i] = y[j]
                            /\ i # 1 \/ x = <<>>
                            /\ \A k \in DOMAIN x : k < i

(* The statements of two lists put together, in their order.               *)
LEMMA ConcatParts ==
  ASSUME NEW x \in Seq(Step), NEW y \in Seq(Step), NEW g, g = x \o y
  PROVE  g \in Seq(Step) /\ Joined(x, y, g)
<1>1. /\ DOMAIN x = 1..Len(x) /\ Len(x) \in Nat /\ (Len(x) = 0 => x = <<>>)
      /\ DOMAIN y = 1..Len(y) /\ Len(y) \in Nat
  BY LenProperties, EmptySeq
<1>2. /\ g \in Seq(Step) /\ Len(g) = Len(x) + Len(y)
      /\ \A i \in 1..Len(g) : g[i] = IF i <= Len(x) THEN x[i] ELSE y[i - Len(x)]
  BY <1>1, ConcatProperties
<1>3. DOMAIN g = 1..(Len(x) + Len(y))
  BY <1>2, LenProperties
<1>4. \A i \in DOMAIN x : i \in DOMAIN g /\ g[i] = x[i]
  BY <1>1, <1>2, <1>3
<1>5. ASSUME NEW j \in DOMAIN y
      PROVE  /\ j + Len(x) \in DOMAIN g /\ g[j + Len(x)] = y[j]
             /\ j + Len(x) # 1 \/ x = <<>>
             /\ \A i \in DOMAIN x : i < j + Len(x)
  <2>1. j + Len(x) \in DOMAIN g /\ j + Len(x) > Len(x)
    BY <1>1, <1>3, <1>5
  <2>2. g[j + Len(x)] = y[j + Len(x) - Len(x)] /\ j + Len(x) - Len(x) = j
    BY <1>1, <1>2, <1>3, <1>5, <2>1
  <2>3. j + Len(x) # 1 \/ x = <<>>
    BY <1>1, <1>5
  <2>4. \A i \in DOMAIN x : i < j + Len(x)
    BY <1>1, <2>1
  <2> QED
    BY <2>1, <2>2, <2>3, <2>4
<1>6. ASSUME NEW i \in DOMAIN g, i \notin DOMAIN x
      PROVE  /\ \E j \in DOMAIN y : g[i] = y[j]
             /\ i # 1 \/ x = <<>>
             /\ \A k \in DOMAIN x : k < i
  <2>1. i - Len(x) \in DOMAIN y /\ g[i] = y[i - Len(x)] /\ i - Len(x) + Len(x) = i
    BY <1>1, <1>2, <1>3, <1>6
  <2> QED
    BY <1>1, <1>3, <1>6, <2>1
<1>7. \A j \in DOMAIN y : \E i \in DOMAIN g : /\ g[i] = y[j] /\ (i # 1 \/ x = <<>>)
                                            /\ \A k \in DOMAIN x : k < i
  BY <1>5
<1> QED
  BY <1>2, <1>4, <1>6, <1>7 DEF Joined

(* Statements that neither end nor open anything are laid out.             *)
LEMMA PlainLeads ==
  ASSUME NEW a, NEW f, NEW r, NEW h, NEW d,
         \A i \in DOMAIN a : /\ StepFits(a[i], r, h, d) /\ LaterFits(a[i])
                             /\ ~ Ends(a[i]) /\ ~ EndsChildren(a[i]) /\ ~ Opens(a[i])
  PROVE  Leads(a, f, r, h, d)
<1>1. \A i \in DOMAIN a : a[i].do # "txdeletechildren"
  BY DEF Opens
<1>2. \A i \in DOMAIN a : \A s : PairFits(a[i], s, r)
  BY DEF PairFits
<1> QED
  BY <1>1, <1>2 DEF Leads

(* Writes of unfinished rows, as the table has them or moved, through the  *)
(* pool.                                                                   *)
LEMMA WritesRead ==
  ASSUME TypeOK, SeriesInv, NEW p \in Proc, ~Idle(p), Pool(Next1(p)),
         NEW a \in Seq(Step), Read(p, a),
         \A i \in DOMAIN a :
           /\ a[i].do = "write" /\ a[i].t \in Task /\ a[i].row.db = "live"
           /\ a[i].row.parent = rows[a[i].t].parent /\ a[i].row.status # "done"
           /\ ~ Over(rows[a[i].t])
  PROVE  SeriesInv'
<1>1. ~ Closes(Next1(p)) /\ \A t \in Task : ~ Disarms(Next1(p), t)
  BY DEF Pool, Closes, Disarms
<1>2. held[p] = {}
  BY HeadFits DEF StepFits
<1>3. ASSUME NEW i \in DOMAIN a
      PROVE  /\ StepFits(a[i], rows, held[p], dirty[p]) /\ LaterFits(a[i])
             /\ ~ Ends(a[i]) /\ ~ EndsChildren(a[i]) /\ ~ Opens(a[i]) /\ ~ Barrier(a[i])
  <2>1. ~ Ending(held[p], dirty[p], a[i].t)
    BY <1>2 DEF Ending
  <2>2. rows[a[i].t].db # "absent"
    BY <1>3 DEF Over
  <2> QED
    BY <1>3, <2>1, <2>2
       DEF StepFits, LaterFits, Ends, EndsChildren, Opens, Closes, Barrier, Pool
<1>4. Leads(a, plan[p], rows, held[p], dirty[p])
  BY <1>3, PlainLeads
<1> QED
  BY <1>1, <1>3, <1>4, PassingReads

(* Muting a parent writes its unfinished children, and arms none that is   *)
(* over.                                                                   *)
LEMMA MuteChildrenFits ==
  ASSUME TypeOK, SeriesInv, NEW p \in Proc, MuteChildren(p) PROVE SeriesInv'
<1> DEFINE S == {c \in GetChildTasksByParentID(rows, Next1(p).t) : Unfinished(rows[c])}
           mute == Next1(p).do = "muteChildren"
           each(order) == [i \in DOMAIN order |->
                             Do("write", order[i], [rows[order[i]] EXCEPT !.muted = mute],
                                IF mute THEN "delete" ELSE "resched", {})]
<1>1. PICK order \in SetToSeqs(S) : Read(p, each(order))
  BY DEF MuteChildren
<1>2. S \in SUBSET Task
  BY DEF GetChildTasksByParentID
<1>3. ASSUME NEW c \in S
      PROVE  c \in Task /\ rows[c] \in Row /\ rows[c].db = "live" /\ rows[c].status # "done"
  BY <1>3, RowType DEF GetChildTasksByParentID, Live, Unfinished
<1>4. mute \in BOOLEAN /\ (IF mute THEN "delete" ELSE "resched") \in {"delete", "resched"}
  OBVIOUS
<1>5. ASSUME NEW i \in DOMAIN order
      PROVE  /\ each(order)[i] \in Step /\ each(order)[i].do = "write"
             /\ each(order)[i].t \in Task
             /\ each(order)[i].row.db = "live"
             /\ each(order)[i].row.parent = rows[each(order)[i].t].parent
             /\ each(order)[i].row.status # "done"
             /\ ~ Over(rows[each(order)[i].t])
  <2> DEFINE row == [rows[order[i]] EXCEPT !.muted = mute]
             msg == IF mute THEN "delete" ELSE "resched"
  <2>1. order[i] \in S
    BY <1>2, <1>5, OrderType
  <2>2. each(order)[i] = Do("write", order[i], row, msg, {})
    BY <1>5
  <2> HIDE DEF each, mute, S
  <2>3. /\ row \in Row /\ row.db = "live" /\ row.status # "done"
        /\ row.parent = rows[order[i]].parent
    BY <1>3, <1>4, <2>1 DEF Row
  <2>4. msg \in {"none", "delete", "schedule", "resched"}
    BY <1>4
  <2> HIDE DEF row, msg
  <2>5. each(order)[i] \in Step
    BY <1>3, <2>1, <2>2, <2>3, <2>4, DoType DEF Statements
  <2>6. /\ each(order)[i].do = "write" /\ each(order)[i].t = order[i]
        /\ each(order)[i].row = row
    BY <2>2 DEF Do
  <2> QED
    BY <1>3, <2>1, <2>3, <2>5, <2>6 DEF Over
<1>6. each(order) \in Seq(Step)
  BY <1>2, <1>5, ForEachType
<1>7. ~Idle(p) /\ Pool(Next1(p))
  BY DEF MuteChildren, At, Pool
<1>8. DOMAIN each(order) = DOMAIN order
  OBVIOUS
<1> HIDE DEF each, S
<1> QED
  BY <1>1, <1>5, <1>6, <1>7, <1>8, WritesRead

(* The job moves recurring tasks that are not over.                        *)
LEMMA RescheduleCronTasksFits ==
  ASSUME TypeOK, SeriesInv, NEW p \in Proc, RescheduleCronTasks(p) PROVE SeriesInv'
<1> DEFINE S == GetTasksWithCronNeedingRescheduling(rows, now)
           next == nextRecurrenceAfter(now)
           each(order) == [i \in DOMAIN order |->
                             Do("write", order[i], [rows[order[i]] EXCEPT !.start = next],
                                "none", {})]
<1>1. PICK order \in SetToSeqs(S) : Read(p, each(order))
  BY DEF RescheduleCronTasks
<1>2. S \in SUBSET Task
  BY DEF GetTasksWithCronNeedingRescheduling
<1>3. ASSUME NEW c \in S
      PROVE  c \in Task /\ rows[c] \in Row /\ rows[c].db = "live" /\ rows[c].status # "done"
  BY <1>3, RowType DEF GetTasksWithCronNeedingRescheduling, Live
<1>4. next \in Nat
  BY NextRecurrenceType DEF TypeOK
<1>5. ASSUME NEW i \in DOMAIN order
      PROVE  /\ each(order)[i] \in Step /\ each(order)[i].do = "write"
             /\ each(order)[i].t \in Task
             /\ each(order)[i].row.db = "live"
             /\ each(order)[i].row.parent = rows[each(order)[i].t].parent
             /\ each(order)[i].row.status # "done"
             /\ ~ Over(rows[each(order)[i].t])
  <2> DEFINE row == [rows[order[i]] EXCEPT !.start = next]
  <2>1. order[i] \in S
    BY <1>2, <1>5, OrderType
  <2>2. each(order)[i] = Do("write", order[i], row, "none", {})
    BY <1>5
  <2> HIDE DEF each, S, next
  <2>3. /\ row \in Row /\ row.db = "live" /\ row.status # "done"
        /\ row.parent = rows[order[i]].parent
    BY <1>3, <1>4, <2>1 DEF Row, Time
  <2> HIDE DEF row
  <2>5. each(order)[i] \in Step
    BY <1>3, <2>1, <2>2, <2>3, DoType DEF Statements
  <2>6. /\ each(order)[i].do = "write" /\ each(order)[i].t = order[i]
        /\ each(order)[i].row = row
    BY <2>2 DEF Do
  <2> QED
    BY <1>3, <2>1, <2>3, <2>5, <2>6 DEF Over
<1>6. each(order) \in Seq(Step)
  BY <1>2, <1>5, ForEachType
<1>7. ~Idle(p) /\ Pool(Next1(p))
  BY DEF RescheduleCronTasks, At, Pool
<1>8. DOMAIN each(order) = DOMAIN order
  OBVIOUS
<1> HIDE DEF each, S
<1> QED
  BY <1>1, <1>5, <1>6, <1>7, <1>8, WritesRead

(* Statements that differ in a start_date fit alike.                       *)
Alike(s, s2) ==
  /\ s2.do = s.do /\ s2.t = s.t /\ s2.msg = s.msg /\ s2.must = s.must
  /\ s2.row.db = s.row.db /\ s2.row.parent = s.row.parent /\ s2.row.status = s.row.status

(* Lists alike but for start_date fit alike.                               *)
LEMMA AlikeFits ==
  ASSUME NEW f, NEW g, DOMAIN g = DOMAIN f, \A i \in DOMAIN f : Alike(f[i], g[i]),
         NEW r, NEW h, NEW d, NEW w, PlanFits(f, r, h, d, w)
  PROVE  PlanFits(g, r, h, d, w)
<1>1. ASSUME NEW i \in DOMAIN f
      PROVE  /\ g[i].do = f[i].do /\ g[i].t = f[i].t
             /\ Closes(g[i]) = Closes(f[i]) /\ Opens(g[i]) = Opens(f[i])
             /\ Barrier(g[i]) = Barrier(f[i])
             /\ \A t : Disarms(f[i], t) => Disarms(g[i], t)
  BY <1>1 DEF Alike, Closes, Opens, Barrier, Disarms
<1>2. ASSUME NEW i \in DOMAIN f PROVE StepFits(g[i], r, h, d) /\ (i # 1 => LaterFits(g[i]))
  <2>1. StepFits(f[i], r, h, d) /\ (i # 1 => LaterFits(f[i])) /\ Alike(f[i], g[i])
    BY <1>2 DEF PlanFits
  <2>2. StepFits(g[i], r, h, d)
    BY <2>1 DEF StepFits, Alike, Closes, Opens, Arms, Ends, Pool
  <2>3. i # 1 => LaterFits(g[i])
    BY <2>1 DEF LaterFits, Alike
  <2> QED
    BY <2>2, <2>3
<1>3. ASSUME NEW i \in DOMAIN f, NEW k \in DOMAIN f, k < i PROVE PairFits(g[k], g[i], r)
  <2>1. PairFits(f[k], f[i], r) /\ Alike(f[i], g[i]) /\ Alike(f[k], g[k])
    BY <1>3 DEF PlanFits
  <2> QED
    BY <2>1 DEF PairFits, Alike, Arms, Ends, EndsChildren, Pool, Opens
<1>4. ASSUME NEW t, WillDisarm(f, t) PROVE WillDisarm(g, t)
  BY <1>1, <1>4 DEF WillDisarm
<1>5. /\ \A i \in DOMAIN g : Opens(g[i]) => \E j \in DOMAIN g : i < j /\ Closes(g[j])
      /\ h # {} => \E j \in DOMAIN g : Closes(g[j])
  BY <1>1 DEF PlanFits
<1>6. 1 \in DOMAIN g /\ g[1].do = "txdeletechildren" =>
        \A c \in Task : r[c].db = "live" /\ r[c].parent = g[1].t => WillDisarm(g, c)
  BY <1>1, <1>4 DEF PlanFits
<1>7. \A t \in Task : Ending(h, d, t) => Silent(w, t) \/ WillDisarm(g, t)
  BY <1>4 DEF PlanFits
<1>8. \A t \in h : d[t].parent = r[t].parent /\ d[t].db # "absent"
  BY DEF PlanFits
<1> QED
  BY <1>2, <1>3, <1>5, <1>6, <1>7, <1>8 DEF PlanFits

(* A statement whose row starts at another time is alike.                  *)
LEMMA MovedAlike ==
  ASSUME NEW s \in Step, NEW n \in Nat PROVE Alike(s, [s EXCEPT !.row.start = n]) /\ Alike(s, s)
<1>1. s.row \in Row
  BY DEF Step, Fields
<1>2. [s EXCEPT !.row.start = n] = [s EXCEPT !.row = [s.row EXCEPT !.start = n]]
  OBVIOUS
<1>3. \A row \in Row : LET u == [s EXCEPT !.row = row] IN
        u.do = s.do /\ u.t = s.t /\ u.msg = s.msg /\ u.must = s.must /\ u.row = row
  BY DEF Step, Fields
<1>4. [s.row EXCEPT !.start = n] \in Row
  BY <1>1 DEF Row, Time
<1>5. LET row == [s.row EXCEPT !.start = n] IN
        row.db = s.row.db /\ row.parent = s.row.parent /\ row.status = s.row.status
  BY <1>1 DEF Row
<1> QED
  BY <1>2, <1>3, <1>4, <1>5 DEF Alike

(* A schedule_task is about a task that is not over, its start moved or    *)
(* not.                                                                    *)
LEMMA PublishScheduleFits ==
  ASSUME TypeOK, SeriesInv, NEW p \in Proc, PublishSchedule(p) PROVE SeriesInv'
<1> DEFINE s     == Next1(p)
           q     == s.row.parent
           above == IF q = NoTask THEN Absent ELSE rows[q]
           next  == nextExecutableStartDate(s.row, above, now)
           new   == [s.row EXCEPT !.start = next]
           tail  == Tail(plan[p])
           moved(i) == IF tail[i].t = s.t THEN [tail[i] EXCEPT !.row.start = next]
                       ELSE tail[i]
           rest  == [i \in DOMAIN tail |-> moved(i)]
           write == Do("write", s.t, new, "schedule", {})
           sent  == Publish(s.t, s.row, "schedule", {})
<1>1. /\ ~Idle(p) /\ s.do = "resched" /\ s.t \in Task /\ tail \in Seq(Step)
      /\ s.row \in Row
      /\ ~ Closes(s) /\ \A t \in Task : ~ Disarms(s, t)
  BY AtType DEF PublishSchedule, At, Statements, Closes, Disarms
<1>2. /\ rows[s.t].db # "absent" /\ s.row.db = "live" /\ s.row.parent = rows[s.t].parent
      /\ ~ Over(rows[s.t]) /\ ~ Ending(held[p], dirty[p], s.t) /\ s.row.status # "done"
  BY <1>1, HeadFits DEF StepFits, Arms
<1>3. CASE Read(p, <<>>)
  BY <1>1, <1>3, EmptyReads
<1>4. CASE Read(p, <<sent>>)
  <2>1. sent.do = "publish" /\ sent.t = s.t /\ sent.row = s.row /\ sent.msg = "schedule"
    BY DEF Publish, Do
  <2>2. sent \in Step
    BY <1>1, DoType DEF Statements, Publish
  <2> HIDE DEF sent, s
  <2>3. StepFits(sent, rows, held[p], dirty[p])
    BY <1>2, <2>1 DEF StepFits, Arms, Ends, EndsChildren, Opens, Closes, Pool
  <2>4. ~ Ends(sent) /\ ~ EndsChildren(sent) /\ ~ Opens(sent) /\ ~ Barrier(sent)
    BY <2>1 DEF Ends, EndsChildren, Opens, Barrier
  <2> QED
    BY <1>1, <1>4, <2>2, <2>3, <2>4, OneReads DEF s
<1>5. CASE /\ plan' = [plan EXCEPT ![p] = <<write>> \o rest]
           /\ UNCHANGED <<rows, wire, now, held, dirty, budget>>
  <2>1. above \in Row
    BY <1>1, AbsentType, RowType DEF Row
  <2>2. next \in Nat
    BY <1>1, <2>1, NextExecutableType DEF TypeOK
  <2> HIDE DEF next
  <2>3. new \in Row /\ new.db = s.row.db /\ new.parent = s.row.parent
        /\ new.status = s.row.status
    BY <1>1, <2>2 DEF Row, Time
  <2>4. write.do = "write" /\ write.t = s.t /\ write.row = new /\ write.msg = "schedule"
    BY DEF Do
  <2>5. write \in Step
    BY <1>1, <2>3, DoType DEF Statements
  <2> HIDE DEF s, new, write
  <2>6. StepFits(write, rows, held[p], dirty[p])
    BY <1>2, <2>3, <2>4 DEF StepFits, Arms, Ends, EndsChildren, Opens, Closes, Pool
  <2>7. ~ Ends(write) /\ ~ EndsChildren(write) /\ ~ Opens(write) /\ ~ Barrier(write)
    BY <2>4 DEF Ends, EndsChildren, Opens, Barrier
  <2>8. /\ plan[p] \in Seq(Step) /\ plan[p] # <<>>
        /\ PlanFits(plan[p], rows, held[p], dirty[p], wire) /\ plan[p][1] = s
    BY <1>1, AtPlan DEF s
  <2>9. /\ <<write>> \in Seq(Step) /\ Leads(<<write>>, plan[p], rows, held[p], dirty[p])
        /\ \A i \in DOMAIN <<write>> : ~ Barrier(<<write>>[i])
    BY <2>5, <2>6, <2>7, SingletonType, OneLeads
  <2>10. Keeps(<<write>>, plan[p], rows, held[p], dirty[p], wire)
    BY <1>1, <2>8, <2>9, PassingKeeps
  <2>11. PlanFits(<<write>> \o tail, rows, held[p], dirty[p], wire)
    <3>1. Respects(plan[p], rows, rows, held[p], dirty[p])
      BY <2>8, SameRespects
    <3> DEFINE one == <<write>>
    <3>2. one \in Seq(Step) /\ Leads(one, plan[p], rows, held[p], dirty[p])
      BY <2>9
    <3>3. Keeps(one, plan[p], rows, held[p], dirty[p], wire)
      BY <2>10
    <3> HIDE DEF one
    <3>4. PlanFits(one \o Tail(plan[p]), rows, held[p], dirty[p], wire)
      BY <2>8, <3>1, <3>2, <3>3, StepFitsOn
    <3> QED
      BY <3>4 DEF one
  <2> HIDE DEF tail
  <2>12. DOMAIN tail = 1..Len(tail) /\ Len(tail) \in Nat
    BY <1>1, LenProperties
  <2>13. \A i \in 1..Len(tail) : tail[i] \in Step
    BY <1>1, ElementOfSeq
  <2>14. \A i \in 1..Len(tail) : moved(i) \in Step /\ Alike(tail[i], moved(i))
    BY <2>2, <2>13, StepRowType, MovedAlike
  <2> HIDE DEF moved
  <2>15. rest \in Seq(Step) /\ Len(rest) = Len(tail) /\ \A i \in 1..Len(tail) : rest[i] = moved(i)
    <3>1. rest \in [1..Len(tail) -> Step]
      BY <2>12, <2>14
    <3>2. rest \in Seq(Step) /\ DOMAIN rest = 1..Len(tail)
      BY <2>12, <3>1, ComprehensionType
    <3>3. Len(rest) = Len(tail)
      BY <2>12, <3>2, LenProperties
    <3> QED
      BY <2>12, <3>2, <3>3
  <2>16. \A i \in 1..Len(tail) : Alike(tail[i], rest[i])
    BY <2>14, <2>15
  <2> HIDE DEF rest
  <2> DEFINE f == <<write>> \o tail
             g == <<write>> \o rest
  <2>17. f \in Seq(Step) /\ g \in Seq(Step)
    BY <1>1, <2>9, <2>15, ConcatType
  <2>18. /\ DOMAIN f = 1..(1 + Len(tail)) /\ DOMAIN g = 1..(1 + Len(tail))
         /\ f[1] = write /\ g[1] = write
         /\ \A i \in 1..(1 + Len(tail)) : i # 1 => f[i] = tail[i - 1] /\ g[i] = rest[i - 1]
    BY <1>1, <2>5, <2>12, <2>15
  <2>19. \A i \in DOMAIN f : Alike(f[i], g[i])
    <3> SUFFICES ASSUME NEW i \in DOMAIN f PROVE Alike(f[i], g[i])
      OBVIOUS
    <3>1. CASE i = 1
      BY <2>5, <2>18, <3>1, MovedAlike
    <3>2. CASE i # 1
      <4>1. i - 1 \in 1..Len(tail)
        BY <2>12, <2>18, <3>2
      <4> QED
        BY <2>16, <2>18, <3>2, <4>1
    <3> QED
      BY <3>1, <3>2
  <2>20. PlanFits(g, rows, held[p], dirty[p], wire)
    BY <2>11, <2>18, <2>19, AlikeFits
  <2>21. \A t \in Proc : ~Idle(t) => t = p
    BY <1>1 DEF SeriesInv, OneInFlight
  <2>22. OneInFlight' /\ Plans'
    BY <1>5, <2>20, <2>21, OneMoves
  <2> QED
    BY <1>5, <2>22 DEF SeriesInv, OverIsSilent, NoOwnParent
<1> QED
  BY <1>3, <1>4, <1>5 DEF PublishSchedule

(* A sequence of a set's elements, each once, has them all.                *)
LEMMA OrderAll ==
  ASSUME NEW S \in SUBSET Task, NEW order \in SetToSeqs(S), NEW c \in S
  PROVE  \E i \in DOMAIN order : order[i] = c
<1>1. IsFiniteSet(S)
  <2>1. IsFiniteSet(Task)
    BY RowsAssumption, FS_Interval DEF Task
  <2> QED
    BY <2>1, FS_Subset
<1> DEFINE n == Cardinality(S)
           T == {order[i] : i \in 1..n}
<1>2. n \in Nat
  BY <1>1, FS_CardinalityType
<1>3. /\ order \in [1..n -> S]
      /\ \A i, j \in 1..n : i # j => order[i] # order[j]
  BY DEF SetToSeqs
<1> HIDE DEF n
<1>4. order \in Bijection(1..n, T)
  <2>1. order \in [1..n -> T]
    BY <1>3
  <2>2. order \in Injection(1..n, T)
    BY <1>3, <2>1 DEF Injection, IsInjective
  <2>3. order \in Surjection(1..n, T)
    BY <1>3, <2>1 DEF Surjection
  <2> QED
    BY <2>2, <2>3 DEF Bijection
<1>5. Cardinality(T) = n
  BY <1>2, <1>4, FS_CountingElements DEF ExistsBijection
<1>6. T \subseteq S
  BY <1>3
<1>7. T = S
  BY <1>1, <1>5, <1>6, FS_Subset DEF n
<1> QED
  BY <1>3, <1>7

(* Statements about the children of the task whose children the handler is *)
(* at, before the statements that follow.                                  *)
LEMMA FamilyPairs ==
  ASSUME TypeOK, SeriesInv, NEW p \in Proc, ~Idle(p), EndsChildren(Next1(p)),
         NEW s, Ends(s) => rows[s.t].parent = Next1(p).t, EndsChildren(s) => s.t = Next1(p).t
  PROVE  \A j \in DOMAIN plan[p] : j # 1 => PairFits(s, plan[p][j], rows)
BY HeadFits DEF PairFits

(* The commit fits.                                                        *)
LEMMA CommitStepFits ==
  ASSUME NEW r, NEW h, NEW d
  PROVE  /\ Commit.do = "commit" /\ StepFits(Commit, r, h, d) /\ LaterFits(Commit)
         /\ ~ Ends(Commit) /\ ~ EndsChildren(Commit) /\ ~ Opens(Commit) /\ Closes(Commit)
         /\ ~ Arms(Commit) /\ ~ Pool(Commit)
BY DEF Commit, Do, StepFits, LaterFits, Ends, EndsChildren, Opens, Closes, Arms, Pool

(* A list with one statement more at its end.                              *)
LEMMA LastParts ==
  ASSUME NEW e \in Seq(Step), NEW s \in Step
  PROVE  /\ e \o <<s>> \in Seq(Step)
         /\ \A i \in DOMAIN (e \o <<s>>) : \/ i \in DOMAIN e /\ (e \o <<s>>)[i] = e[i]
                                          \/ (e \o <<s>>)[i] = s
         /\ \E j \in DOMAIN (e \o <<s>>) : /\ (e \o <<s>>)[j] = s
                                           /\ \A i \in DOMAIN e : i < j
<1> DEFINE one == <<s>>
<1>1. one \in Seq(Step) /\ DOMAIN one = {1} /\ one[1] = s
  OBVIOUS
<1> HIDE DEF one
<1> DEFINE g == e \o one
<1>2. g = e \o one
  OBVIOUS
<1> HIDE DEF g
<1>3. g \in Seq(Step) /\ Joined(e, one, g)
  BY <1>1, <1>2, ConcatParts
<1>4. \A i \in DOMAIN g : (i \in DOMAIN e /\ g[i] = e[i]) \/ g[i] = s
  BY <1>1, <1>3 DEF Joined
<1>5. \E j \in DOMAIN g : g[j] = s /\ \A i \in DOMAIN e : i < j
  BY <1>1, <1>3 DEF Joined
<1> QED
  BY <1>3, <1>4, <1>5 DEF g, one

(* Completing a parent completes its children with a delete_task for each  *)
(* before the commit.                                                      *)
LEMMA DoneChildrenFits ==
  ASSUME TypeOK, SeriesInv, NEW p \in Proc, DoneChildren(p) PROVE SeriesInv'
<1> DEFINE S == {c \in GetChildTasksByParentID(rows, Next1(p).t) : Unfinished(rows[c])}
           each(order) == [i \in DOMAIN order |->
                             Do("txwrite", order[i], [rows[order[i]] EXCEPT !.status = "done"],
                                "delete", {"row", "msg"})]
<1>1. PICK order \in SetToSeqs(S) : Read(p, each(order) \o <<Commit>>)
  BY DEF DoneChildren
<1>2. S \in SUBSET Task
  BY DEF GetChildTasksByParentID
<1>3. ASSUME NEW c \in S
      PROVE  /\ c \in Task /\ rows[c] \in Row /\ rows[c].db = "live"
             /\ rows[c].parent = Next1(p).t
  BY <1>3, RowType DEF GetChildTasksByParentID, Live
<1> DEFINE e == each(order)
           a == e \o <<Commit>>
<1>4. ASSUME NEW i \in DOMAIN order
      PROVE  /\ e[i] \in Step /\ e[i].do = "txwrite" /\ e[i].t \in Task
             /\ e[i].row.db = "live" /\ e[i].row.parent = rows[e[i].t].parent
             /\ e[i].row.status = "done" /\ rows[e[i].t].db = "live"
             /\ rows[e[i].t].parent = Next1(p).t
             /\ e[i].msg = "delete" /\ e[i].must = {"row", "msg"}
  <2> DEFINE row == [rows[order[i]] EXCEPT !.status = "done"]
  <2>1. order[i] \in S
    BY <1>2, <1>4, OrderType
  <2>2. e[i] = Do("txwrite", order[i], row, "delete", {"row", "msg"})
    BY <1>4
  <2> HIDE DEF each, S, e
  <2>3. /\ row \in Row /\ row.db = "live" /\ row.status = "done"
        /\ row.parent = rows[order[i]].parent
    BY <1>3, <2>1 DEF Row, Status
  <2> HIDE DEF row
  <2>5. e[i] \in Step
    BY <1>3, <2>1, <2>2, <2>3, DoType DEF Statements
  <2>6. /\ e[i].do = "txwrite" /\ e[i].t = order[i] /\ e[i].row = row
        /\ e[i].msg = "delete" /\ e[i].must = {"row", "msg"}
    BY <2>2 DEF Do
  <2> QED
    BY <1>3, <2>1, <2>3, <2>5, <2>6
<1>5. e \in Seq(Step)
  BY <1>2, <1>4, ForEachType
<1>6. ~Idle(p) /\ EndsChildren(Next1(p)) /\ Barrier(Next1(p))
  BY DEF DoneChildren, At, EndsChildren, Barrier
<1>7. DOMAIN e = DOMAIN order
  OBVIOUS
<1> HIDE DEF each, S, e
<1>8. <<Commit>> \in Seq(Step) /\ DOMAIN <<Commit>> = {1} /\ <<Commit>>[1] = Commit
  BY CommitType
<1>9. /\ a \in Seq(Step)
      /\ \A i \in DOMAIN a : (i \in DOMAIN e /\ a[i] = e[i]) \/ a[i] = Commit
      /\ \E j \in DOMAIN a : a[j] = Commit /\ \A i \in DOMAIN e : i < j
  BY <1>5, CommitType, LastParts
<1> HIDE DEF a
<1>10. ASSUME NEW i \in DOMAIN a
       PROVE  /\ StepFits(a[i], rows, held[p], dirty[p]) /\ LaterFits(a[i])
              /\ ~ EndsChildren(a[i]) /\ (Ends(a[i]) => rows[a[i].t].parent = Next1(p).t)
              /\ ~ Arms(a[i]) /\ ~ Pool(a[i]) /\ a[i].do # "sync"
              /\ a[i].do # "txdeletechildren"
              /\ Opens(a[i]) => i \in DOMAIN e
  <2>1. CASE i \in DOMAIN e /\ a[i] = e[i]
    <3>1. /\ e[i].do = "txwrite" /\ e[i].t \in Task
          /\ e[i].row.db = "live" /\ e[i].row.parent = rows[e[i].t].parent
          /\ rows[e[i].t].db = "live" /\ rows[e[i].t].parent = Next1(p).t
          /\ e[i].msg = "delete" /\ e[i].must = {"row", "msg"}
      BY <1>4, <1>7, <2>1
    <3>2. StepFits(e[i], rows, held[p], dirty[p])
      BY <3>1 DEF StepFits, Ends, Opens, Closes, Arms, Pool
    <3>3. /\ LaterFits(e[i]) /\ ~ EndsChildren(e[i]) /\ ~ Arms(e[i]) /\ ~ Pool(e[i])
          /\ e[i].do # "sync" /\ e[i].do # "txdeletechildren"
      BY <3>1 DEF LaterFits, EndsChildren, Arms, Pool
    <3> QED
      BY <2>1, <3>1, <3>2, <3>3
  <2>2. CASE a[i] = Commit
    BY <2>2, CommitStepFits
  <2> QED
    BY <1>9, <2>1, <2>2
<1>11. Leads(a, plan[p], rows, held[p], dirty[p])
  <2>1. \A i, k \in DOMAIN a : PairFits(a[k], a[i], rows)
    BY <1>10 DEF PairFits
  <2>2. \A i \in DOMAIN a : \A j \in DOMAIN plan[p] : j # 1 => PairFits(a[i], plan[p][j], rows)
    BY <1>6, <1>10, FamilyPairs
  <2>3. \A i \in DOMAIN a : Opens(a[i]) => \E j \in DOMAIN a : i < j /\ Closes(a[j])
    BY <1>9, <1>10, CommitStepFits
  <2>4. \A i \in DOMAIN a : StepFits(a[i], rows, held[p], dirty[p]) /\ LaterFits(a[i])
    BY <1>10
  <2>5. ~ (1 \in DOMAIN a /\ a[1].do = "txdeletechildren")
    BY <1>10
  <2> QED
    BY <2>1, <2>2, <2>3, <2>4, <2>5 DEF Leads
<1>12. Keeps(a, plan[p], rows, held[p], dirty[p], wire)
  <2>1. \E j \in DOMAIN a : Closes(a[j])
    BY <1>9, CommitStepFits
  <2> QED
    BY <1>6, <2>1, AtPlan, BarrierKeeps
<1>13. Read(p, a)
  BY <1>1 DEF a, e
<1> QED
  BY <1>6, <1>9, <1>11, <1>12, <1>13, ReadsOn

(* A statement that only takes a task out of the worker.                   *)
Quiet(s) == /\ s.do = "publish" /\ s.msg = "delete"

(* Such a statement fits wherever it comes.                                *)
LEMMA QuietFits ==
  ASSUME NEW s, Quiet(s), NEW r, NEW h, NEW d
  PROVE  /\ StepFits(s, r, h, d) /\ LaterFits(s)
         /\ ~ Ends(s) /\ ~ EndsChildren(s) /\ ~ Opens(s) /\ ~ Barrier(s)
         /\ ~ Arms(s) /\ ~ Pool(s) /\ s.do # "sync" /\ s.do # "txdeletechildren"
BY DEF Quiet, StepFits, LaterFits, Ends, EndsChildren, Opens, Barrier, Closes, Arms, Pool

(* The statement that ends the children of a task.                         *)
LEMMA ChildrenGoFits ==
  ASSUME NEW s, s.do = "txdeletechildren", s.msg = "none", s.must = {"row"},
         NEW r, NEW h, NEW d
  PROVE  /\ StepFits(s, r, h, d) /\ ~ Ends(s) /\ ~ Barrier(s)
         /\ ~ Arms(s) /\ ~ Pool(s) /\ s.do # "sync"
BY DEF StepFits, Ends, Opens, Barrier, Closes, Arms, Pool

(* Deleting a series lays out the end of its children and a delete_task    *)
(* for each of them.                                                       *)
LEMMA DeleteChildrenFits ==
  ASSUME TypeOK, SeriesInv, NEW p \in Proc, DeleteChildren(p) PROVE SeriesInv'
<1> DEFINE s     == Next1(p)
           kids  == GetChildTasksByParentID(rows, s.t)
           first == Do("txdeletechildren", s.t, s.row, "none", {"row"})
           head  == IF kids = {} THEN <<>> ELSE <<first>>
           each(order) == [i \in DOMAIN order |->
                             Publish(order[i], rows[order[i]], "delete", {"msg"})]
<1>1. /\ ~Idle(p) /\ s.do = "deleteChildren" /\ s.t \in Task /\ s.row \in Row
      /\ EndsChildren(s) /\ Opens(s)
      /\ ~ Closes(s) /\ \A t \in Task : ~ Disarms(s, t)
  BY AtType DEF DeleteChildren, At, Statements, Closes, Disarms, EndsChildren, Opens
<1>2. CASE Fail(p)
  BY <1>1, <1>2, AbortFits DEF Fail
<1>3. ASSUME NEW order \in SetToSeqs(kids), Read(p, head \o each(order))
      PROVE  SeriesInv'
  <2>1. kids \in SUBSET Task
    BY DEF GetChildTasksByParentID
  <2>2. /\ head \in Seq(Step)
        /\ \A i \in DOMAIN head : i = 1 /\ head[i] = first
    <3>1. first \in Step
      BY <1>1, DoType DEF Statements
    <3> HIDE DEF first
    <3>2. CASE kids = {}
      BY <3>2, EmptyPlanType
    <3>3. CASE kids # {}
      BY <3>1, <3>3, SingletonType
    <3> QED
      BY <3>2, <3>3
  <2> DEFINE e == each(order)
             a == head \o e
  <2>3. ASSUME NEW i \in DOMAIN order
        PROVE  e[i] \in Step /\ Quiet(e[i]) /\ e[i].t = order[i] /\ e[i].must = {"msg"}
    <3>1. order[i] \in Task
      BY <2>1, <2>3, OrderType
    <3>2. e[i] = Publish(order[i], rows[order[i]], "delete", {"msg"})
      BY <2>3
    <3> HIDE DEF e
    <3> QED
      BY <3>1, <3>2, RowType, DoType DEF Publish, Do, Statements, Quiet
  <2>4. e \in Seq(Step)
    BY <2>1, <2>3, ForEachType
  <2>5. DOMAIN e = DOMAIN order
    OBVIOUS
  <2>6. /\ first.do = "txdeletechildren" /\ first.t = s.t
        /\ first.msg = "none" /\ first.must = {"row"}
    BY DEF Do
  <2>7. \A c \in Task : rows[c].db = "live" /\ rows[c].parent = s.t => c \in kids
    BY DEF GetChildTasksByParentID, Live
  <2>8. a = head \o e /\ Read(p, a)
    BY <1>3
  <2> HIDE DEF each, e, head, first, s, kids, a
  <2>9. a \in Seq(Step) /\ Joined(head, e, a)
    BY <2>2, <2>4, <2>8, ConcatParts
  <2>10. ASSUME NEW i \in DOMAIN a
         PROVE  \/ i = 1 /\ a[i] = first
                \/ Quiet(a[i])
    BY <2>2, <2>3, <2>5, <2>9 DEF Joined
  <2>11. ASSUME NEW i \in DOMAIN a
         PROVE  /\ StepFits(a[i], rows, held[p], dirty[p]) /\ (i # 1 => LaterFits(a[i]))
                /\ ~ Ends(a[i]) /\ (EndsChildren(a[i]) => a[i].t = s.t) /\ ~ Barrier(a[i])
                /\ ~ Arms(a[i]) /\ ~ Pool(a[i]) /\ a[i].do # "sync"
    BY <2>6, <2>10, QuietFits, ChildrenGoFits
  <2>12. Leads(a, plan[p], rows, held[p], dirty[p])
    <3>1. \A i, k \in DOMAIN a : PairFits(a[k], a[i], rows)
      BY <2>11 DEF PairFits
    <3>2. \A i \in DOMAIN a : \A j \in DOMAIN plan[p] : j # 1 => PairFits(a[i], plan[p][j], rows)
      BY <1>1, <2>11, FamilyPairs DEF s
    <3>3. \E j \in DOMAIN plan[p] : j # 1 /\ Closes(plan[p][j])
      BY <1>1, HeadFits DEF s
    <3>4. ASSUME 1 \in DOMAIN a, a[1].do = "txdeletechildren",
                 NEW c \in Task, rows[c].db = "live", rows[c].parent = a[1].t
          PROVE  WillDisarm(a, c)
      <4>1. a[1] = first
        BY <2>10, <3>4, QuietFits
      <4>2. c \in kids
        BY <2>6, <2>7, <3>4, <4>1
      <4>3. PICK i \in DOMAIN order : order[i] = c
        BY <2>1, <4>2, OrderAll
      <4>4. Disarms(e[i], c)
        BY <2>3, <4>3 DEF Disarms, Quiet
      <4>5. PICK m \in DOMAIN a : a[m] = e[i]
        BY <2>5, <2>9 DEF Joined
      <4> QED
        BY <2>11, <4>4, <4>5 DEF WillDisarm
    <3> QED
      BY <2>11, <3>1, <3>2, <3>3, <3>4 DEF Leads
  <2> QED
    BY <1>1, <2>8, <2>9, <2>11, <2>12, PassingReads DEF s
<1> QED
  BY <1>2, <1>3 DEF DeleteChildren

(* A child made to follow its parent is the same task, and stays what it   *)
(* was.                                                                    *)
LEMMA SyncedKeeps ==
  ASSUME TypeOK, NEW q \in Task, NEW c \in Row, NEW new \in Row, NEW why,
         NEW k, k = syncedChild(q, c, new, why)
  PROVE  k \in Row /\ k.db = c.db /\ k.parent = c.parent /\ k.status = c.status
<1> DEFINE moved == {"rule", "start"} \cap why # {} /\ (new.rule \/ "start" \in why)
           muted == IF "muteGiven" \in why THEN new.muted ELSE c.muted
           start == IF ~moved THEN c.start
                    ELSE IF new.rule THEN nextRecurrenceAfter(now) ELSE new.start
           child == [c EXCEPT !.muted = muted, !.start = start]
           unmuted == "muteToggled" \in why /\ ~new.muted
           next == nextExecutableStartDate(child, rows[q], now)
<1>1. muted \in BOOLEAN /\ start \in Nat
  BY NextRecurrenceType DEF TypeOK, Row, Time
<1>2. child \in Row /\ child.db = c.db /\ child.parent = c.parent /\ child.status = c.status
  <2> HIDE DEF muted, start
  <2> QED
    BY <1>1 DEF Row, Time
<1>3. next \in Nat
  <2> HIDE DEF child
  <2> QED
    BY <1>2, RowType, NextExecutableType DEF TypeOK
<1>4. LET later == [child EXCEPT !.start = next] IN
        /\ later \in Row /\ later.db = c.db /\ later.parent = c.parent
        /\ later.status = c.status
  <2> HIDE DEF child, next
  <2> QED
    BY <1>2, <1>3 DEF Row, Time
<1>5. k = IF Overdue(child, now) /\ (moved \/ unmuted) /\ Live(rows, q) /\ next # 0
            THEN [child EXCEPT !.start = next] ELSE child
  BY DEF syncedChild
<1> HIDE DEF child, next, moved, unmuted
<1> QED
  BY <1>2, <1>4, <1>5

(* What a synchronisation of the children of q lays out.                   *)
SyncStep(s, q, r, h, d) ==
  /\ StepFits(s, r, h, d) /\ ~ Pool(s) /\ s.do # "sync"
  /\ Ends(s) => r[s.t].parent = q
  /\ EndsChildren(s) => s.t = q

SyncPair(a, b, r) ==
  Arms(b) => /\ Ends(a) => a.t # b.t
             /\ EndsChildren(a) => r[b.t].parent # a.t

SyncList(a, q, r, h, d) ==
  /\ \A i \in DOMAIN a : SyncStep(a[i], q, r, h, d) /\ (i # 1 => LaterFits(a[i]))
  /\ \A i, k \in DOMAIN a : SyncPair(a[k], a[i], r)
  /\ \E j \in DOMAIN a : Closes(a[j]) /\ \A i \in DOMAIN a : Opens(a[i]) => i < j
  /\ 1 \in DOMAIN a /\ a[1].do = "txdeletechildren" =>
       \A c \in Task : r[c].db = "live" /\ r[c].parent = a[1].t => WillDisarm(a, c)

(* A synchronisation that lays out such a list keeps the statements fit.   *)
LEMMA SyncReads ==
  ASSUME TypeOK, SeriesInv, NEW p \in Proc, At(p, "sync"), NEW a \in Seq(Step), Read(p, a),
         SyncList(a, Next1(p).t, rows, held[p], dirty[p])
  PROVE  SeriesInv'
<1>1. ~Idle(p) /\ EndsChildren(Next1(p)) /\ Barrier(Next1(p))
  BY DEF At, EndsChildren, Barrier
<1>2. \A i, k \in DOMAIN a : PairFits(a[k], a[i], rows)
  BY DEF SyncList, SyncStep, SyncPair, PairFits
<1>3. \A i \in DOMAIN a : \A j \in DOMAIN plan[p] : j # 1 => PairFits(a[i], plan[p][j], rows)
  BY <1>1, FamilyPairs DEF SyncList, SyncStep
<1>4. Leads(a, plan[p], rows, held[p], dirty[p])
  BY <1>2, <1>3 DEF Leads, SyncList, SyncStep
<1>5. \E j \in DOMAIN a : Closes(a[j])
  BY DEF SyncList
<1>6. Keeps(a, plan[p], rows, held[p], dirty[p], wire)
  BY <1>1, <1>5, AtPlan, BarrierKeeps
<1> QED
  BY <1>1, <1>4, <1>6, ReadsOn

(* The statements of a synchronisation.                                    *)
LEMMA SyncSteps ==
  ASSUME NEW q \in Task, NEW r, NEW h, NEW d, NEW s
  PROVE  /\ Quiet(s) => /\ SyncStep(s, q, r, h, d) /\ LaterFits(s)
                        /\ ~ Ends(s) /\ ~ EndsChildren(s) /\ ~ Arms(s) /\ ~ Opens(s)
         /\ s = Commit => /\ SyncStep(s, q, r, h, d) /\ LaterFits(s)
                          /\ ~ Ends(s) /\ ~ EndsChildren(s) /\ ~ Arms(s) /\ ~ Opens(s)
                          /\ Closes(s)
<1>1. ASSUME Quiet(s)
      PROVE  /\ SyncStep(s, q, r, h, d) /\ LaterFits(s)
             /\ ~ Ends(s) /\ ~ EndsChildren(s) /\ ~ Arms(s) /\ ~ Opens(s)
  BY <1>1, QuietFits DEF SyncStep
<1>2. ASSUME s = Commit
      PROVE  /\ SyncStep(s, q, r, h, d) /\ LaterFits(s)
             /\ ~ Ends(s) /\ ~ EndsChildren(s) /\ ~ Arms(s) /\ ~ Opens(s) /\ Closes(s)
  BY <1>2, CommitStepFits DEF SyncStep
<1> QED
  BY <1>1, <1>2

(* Case 2: the rule removed.                                               *)
LEMMA SyncRuleRemoved ==
  ASSUME TypeOK, SeriesInv, NEW p \in Proc, At(p, "sync"), NEW S \in SUBSET Task,
         \A c \in S : rows[c].db = "live" /\ rows[c].parent = Next1(p).t,
         NEW order \in SetToSeqs(S),
         NEW delete, delete = [i \in DOMAIN order |->
                                 Do("txdelete", order[i], rows[order[i]], "delete",
                                    {"row", "msg"})],
         NEW quiet \in Seq(Step), \A i \in DOMAIN quiet : Quiet(quiet[i]),
         Read(p, delete \o quiet \o <<Commit>>)
  PROVE  SeriesInv'
<1> DEFINE q == Next1(p).t
<1>1. q \in Task
  BY AtType DEF Statements
<1>2. ASSUME NEW i \in DOMAIN order
      PROVE  /\ delete[i] \in Step /\ delete[i].do = "txdelete"
             /\ delete[i].t \in S /\ delete[i].msg = "delete"
             /\ delete[i].must = {"row", "msg"}
  <2>1. order[i] \in S
    BY <1>2, OrderType
  <2>2. delete[i] = Do("txdelete", order[i], rows[order[i]], "delete", {"row", "msg"})
    BY <1>2
  <2> QED
    BY <2>1, <2>2, RowType, DoType DEF Do, Statements
<1>3. delete \in Seq(Step) /\ DOMAIN delete = DOMAIN order
  BY <1>2, ForEachType
<1> DEFINE y == delete \o quiet
<1>4. y \in Seq(Step) /\ Joined(delete, quiet, y)
  BY <1>3, ConcatParts
<1> HIDE DEF y
<1> DEFINE a == y \o <<Commit>>
<1>5. /\ a \in Seq(Step)
      /\ \A i \in DOMAIN a : (i \in DOMAIN y /\ a[i] = y[i]) \/ a[i] = Commit
      /\ \E j \in DOMAIN a : a[j] = Commit /\ \A i \in DOMAIN y : i < j
  BY <1>4, CommitType, LastParts
<1>6. Read(p, a)
  BY DEF y
<1> HIDE DEF a, q
<1>7. ASSUME NEW i \in DOMAIN a
      PROVE  /\ SyncStep(a[i], q, rows, held[p], dirty[p]) /\ LaterFits(a[i])
             /\ ~ EndsChildren(a[i]) /\ ~ Arms(a[i]) /\ a[i].do # "txdeletechildren"
             /\ Opens(a[i]) => i \in DOMAIN y
  <2>1. CASE i \in DOMAIN y /\ a[i] = y[i]
    <3>1. Quiet(a[i]) \/ \E j \in DOMAIN order : a[i] = delete[j]
      BY <1>3, <1>4, <2>1 DEF Joined
    <3>2. ASSUME NEW j \in DOMAIN order, a[i] = delete[j]
          PROVE  /\ SyncStep(a[i], q, rows, held[p], dirty[p]) /\ LaterFits(a[i])
                 /\ ~ EndsChildren(a[i]) /\ ~ Arms(a[i]) /\ a[i].do # "txdeletechildren"
      <4>1. /\ a[i].do = "txdelete" /\ rows[a[i].t].parent = q
            /\ a[i].msg = "delete" /\ a[i].must = {"row", "msg"}
        BY <1>2, <3>2 DEF q
      <4>2. StepFits(a[i], rows, held[p], dirty[p])
        BY <4>1 DEF StepFits, Ends, Opens, Closes, Arms, Pool
      <4> QED
        BY <4>1, <4>2 DEF SyncStep, LaterFits, EndsChildren, Arms, Pool
    <3> QED
      BY <1>1, <2>1, <3>1, <3>2, SyncSteps, QuietFits DEF q
  <2>2. CASE a[i] = Commit
    BY <1>1, <2>2, SyncSteps, CommitStepFits DEF q
  <2> QED
    BY <1>5, <2>1, <2>2
<1>8. \E j \in DOMAIN a : Closes(a[j]) /\ \A i \in DOMAIN a : Opens(a[i]) => i < j
  BY <1>5, <1>7, CommitStepFits
<1>9. SyncList(a, q, rows, held[p], dirty[p])
  BY <1>7, <1>8 DEF SyncList, SyncPair
<1> QED
  BY <1>5, <1>6, <1>9, SyncReads DEF q

(* Case 1: the confirmation removed.                                       *)
LEMMA SyncConfRemoved ==
  ASSUME TypeOK, SeriesInv, NEW p \in Proc, At(p, "sync"),
         NEW kids, kids = GetChildTasksByParentID(rows, Next1(p).t),
         NEW order \in SetToSeqs(kids),
         NEW first, first = Do("txdeletechildren", Next1(p).t, Next1(p).row, "none", {"row"}),
         NEW front \in Seq(Step), \A i \in DOMAIN front : i = 1 /\ front[i] = first,
         NEW forget, forget = [i \in DOMAIN order |->
                                 Publish(order[i], rows[order[i]], "delete", {"msg"})],
         NEW direct, direct = Do("resched", Next1(p).t, Next1(p).row, "resched", {}),
         NEW quiet \in Seq(Step), \A i \in DOMAIN quiet : Quiet(quiet[i]),
         Read(p, front \o forget \o <<direct>> \o quiet \o <<Commit>>)
  PROVE  SeriesInv'
<1> DEFINE q == Next1(p).t
<1>1. /\ q \in Task /\ ~Idle(p) /\ Next1(p).do = "sync" /\ Next1(p).row \in Row
      /\ kids \in SUBSET Task
  BY AtType DEF Statements, At, GetChildTasksByParentID
<1>2. ASSUME NEW i \in DOMAIN order
      PROVE  /\ forget[i] \in Step /\ Quiet(forget[i]) /\ forget[i].t = order[i]
             /\ forget[i].must = {"msg"}
  <2>1. order[i] \in Task
    BY <1>1, <1>2, OrderType
  <2>2. forget[i] = Publish(order[i], rows[order[i]], "delete", {"msg"})
    BY <1>2
  <2> QED
    BY <2>1, <2>2, RowType, DoType DEF Publish, Do, Statements, Quiet
<1>3. forget \in Seq(Step) /\ DOMAIN forget = DOMAIN order
  BY <1>1, <1>2, ForEachType
<1>4. /\ first.do = "txdeletechildren" /\ first.t = q
      /\ first.msg = "none" /\ first.must = {"row"}
      /\ direct.do = "resched" /\ direct.t = q /\ direct.row = Next1(p).row
      /\ direct.msg = "resched" /\ direct.must = {}
  BY DEF Do
<1>5. direct \in Step
  BY <1>1, DoType DEF Statements
<1>6. <<direct>> \in Seq(Step) /\ \A i \in DOMAIN <<direct>> : <<direct>>[i] = direct
  BY <1>5, SingletonType
<1> DEFINE y1 == front \o forget
<1>7. y1 \in Seq(Step) /\ Joined(front, forget, y1)
  BY <1>3, ConcatParts
<1> HIDE DEF y1
<1> DEFINE y2 == y1 \o <<direct>>
<1>8. y2 \in Seq(Step) /\ Joined(y1, <<direct>>, y2)
  BY <1>6, <1>7, ConcatParts
<1> HIDE DEF y2
<1> DEFINE y3 == y2 \o quiet
<1>9. y3 \in Seq(Step) /\ Joined(y2, quiet, y3)
  BY <1>8, ConcatParts
<1> HIDE DEF y3
<1> DEFINE one == <<Commit>>
<1>10. one \in Seq(Step) /\ \A i \in DOMAIN one : one[i] = Commit
  BY CommitType
<1>11. 1 \in DOMAIN one
  OBVIOUS
<1> HIDE DEF one
<1> DEFINE a == y3 \o one
<1>12. a \in Seq(Step) /\ Joined(y3, one, a)
  BY <1>9, <1>10, ConcatParts
<1>13. Read(p, a)
  BY DEF y1, y2, y3, one
<1> HIDE DEF a, q
<1>14. ASSUME NEW i \in DOMAIN y3
       PROVE  (i = 1 /\ y3[i] = first) \/ Quiet(y3[i]) \/ y3[i] = direct
  <2>1. Quiet(y3[i]) \/ (i \in DOMAIN y2 /\ y3[i] = y2[i])
    BY <1>9 DEF Joined
  <2>2. i \in DOMAIN y2 => \/ i \in DOMAIN y1 /\ y2[i] = y1[i]
                           \/ y2[i] = direct
    BY <1>6, <1>8 DEF Joined
  <2>3. i \in DOMAIN y1 => (i = 1 /\ y1[i] = first) \/ Quiet(y1[i])
    BY <1>2, <1>3, <1>7 DEF Joined
  <2> QED
    BY <2>1, <2>2, <2>3
<1>15. ASSUME NEW i \in DOMAIN a
       PROVE  \/ /\ i \in DOMAIN y3 /\ a[i] = y3[i]
                 /\ (i = 1 /\ a[i] = first) \/ Quiet(a[i]) \/ a[i] = direct
              \/ a[i] = Commit /\ \A k \in DOMAIN y3 : k < i
  BY <1>10, <1>12, <1>14 DEF Joined
<1>16. /\ rows[q].db # "absent" /\ Next1(p).row.db = "live"
       /\ Next1(p).row.parent = rows[q].parent /\ ~ Over(rows[q])
       /\ ~ Ending(held[p], dirty[p], q) /\ Next1(p).row.status # "done"
  BY <1>1, HeadFits DEF StepFits, Arms, q
<1>17. /\ StepFits(direct, rows, held[p], dirty[p]) /\ LaterFits(direct) /\ ~ Ends(direct)
       /\ ~ EndsChildren(direct) /\ ~ Opens(direct) /\ ~ Pool(direct) /\ ~ Barrier(direct)
       /\ direct.do # "sync" /\ direct.do # "txdeletechildren"
  BY <1>4, <1>16
     DEF StepFits, LaterFits, Ends, EndsChildren, Opens, Closes, Arms, Pool, Barrier
<1>18. /\ StepFits(first, rows, held[p], dirty[p]) /\ ~ Ends(first) /\ ~ Arms(first)
       /\ ~ Pool(first) /\ ~ Barrier(first) /\ first.do # "sync"
  BY <1>4, ChildrenGoFits
<1>19. ASSUME NEW i \in DOMAIN a
       PROVE  /\ SyncStep(a[i], q, rows, held[p], dirty[p]) /\ (i # 1 => LaterFits(a[i]))
              /\ ~ Ends(a[i]) /\ (EndsChildren(a[i]) => a[i].t = q)
              /\ Arms(a[i]) => a[i].t = q
              /\ Opens(a[i]) => i \in DOMAIN y3
              /\ Barrier(a[i]) => \A k \in DOMAIN y3 : k < i
              /\ a[i].do = "txdeletechildren" => a[i] = first
  <2>1. CASE a[i] = Commit /\ \A k \in DOMAIN y3 : k < i
    BY <1>1, <2>1, SyncSteps, CommitStepFits DEF q
  <2>2. CASE i \in DOMAIN y3 /\ Quiet(a[i])
    BY <1>1, <2>2, SyncSteps, QuietFits DEF q
  <2>3. CASE i \in DOMAIN y3 /\ a[i] = direct
    BY <1>4, <1>17, <2>3 DEF SyncStep
  <2>4. CASE i \in DOMAIN y3 /\ i = 1 /\ a[i] = first
    BY <1>4, <1>18, <2>4 DEF SyncStep
  <2> QED
    BY <1>15, <2>1, <2>2, <2>3, <2>4
<1>20. \A i, k \in DOMAIN a : SyncPair(a[k], a[i], rows)
  <2>1. rows[q].parent # q
    BY <1>1 DEF q, SeriesInv, NoOwnParent
  <2> QED
    BY <1>19, <2>1 DEF SyncPair
<1>21. \E j \in DOMAIN a : Closes(a[j]) /\ \A i \in DOMAIN a : Opens(a[i]) => i < j
  <2>1. PICK j \in DOMAIN a : a[j] = Commit /\ \A i \in DOMAIN y3 : i < j
    BY <1>10, <1>11, <1>12 DEF Joined
  <2> QED
    BY <1>19, <2>1, CommitStepFits
<1>22. ASSUME 1 \in DOMAIN a, a[1].do = "txdeletechildren",
              NEW c \in Task, rows[c].db = "live", rows[c].parent = a[1].t
       PROVE  WillDisarm(a, c)
  <2>1. c \in kids
    BY <1>4, <1>19, <1>22 DEF q, GetChildTasksByParentID, Live
  <2>2. PICK i \in DOMAIN order : order[i] = c
    BY <1>1, <2>1, OrderAll
  <2>3. Disarms(forget[i], c)
    BY <1>2, <2>2 DEF Disarms, Quiet
  <2>4. PICK m \in DOMAIN y1 : y1[m] = forget[i]
    BY <1>3, <1>7 DEF Joined
  <2>5. m \in DOMAIN y3 /\ m \in DOMAIN a /\ a[m] = forget[i]
    <3>1. m \in DOMAIN y2 /\ y2[m] = forget[i]
      BY <1>8, <2>4 DEF Joined
    <3>2. m \in DOMAIN y3 /\ y3[m] = forget[i]
      BY <1>9, <3>1 DEF Joined
    <3> QED
      BY <1>12, <3>2 DEF Joined
  <2>6. DOMAIN a = 1..Len(a) /\ Len(a) \in Nat
    BY <1>12, LenProperties
  <2>7. \A k \in DOMAIN a : k < m => ~ Barrier(a[k])
    BY <1>19, <2>5, <2>6
  <2> QED
    BY <2>3, <2>5, <2>7 DEF WillDisarm
<1>23. SyncList(a, q, rows, held[p], dirty[p])
  BY <1>19, <1>20, <1>21, <1>22 DEF SyncList
<1> QED
  BY <1>12, <1>13, <1>23, SyncReads DEF q

(* Case 4: the children follow.                                            *)
FollowParts(p, S, order, child, mute, writes, tx, msg, messages, last) ==
  /\ \A c \in S : /\ rows[c].db = "live" /\ rows[c].parent = Next1(p).t
                  /\ rows[c].status # "done"
  /\ \A i \in DOMAIN order :
       child[i] = syncedChild(Next1(p).t, rows[order[i]], Next1(p).row, Next1(p).why)
  /\ \/ writes = <<>>
     \/ writes = [i \in DOMAIN order |-> Do("txwrite", order[i], child[i], mute, {"row"})]
  /\ \A i \in DOMAIN tx : Quiet(tx[i]) \/ tx[i] = Commit
  /\ \E j \in DOMAIN tx : tx[j] = Commit
  /\ \A i \in DOMAIN order : msg[i] \in {"schedule", "none"}
  /\ messages = [i \in DOMAIN order |-> Publish(order[i], child[i], msg[i], {})]
  /\ \A i \in DOMAIN last : Quiet(last[i])

(* Otherwise: the children follow their parent.                            *)
LEMMA SyncFollow ==
  ASSUME TypeOK, SeriesInv, NEW p \in Proc, At(p, "sync"), NEW S \in SUBSET Task,
         NEW order \in SetToSeqs(S), NEW child, NEW mute \in {"delete", "none"},
         NEW writes, NEW tx \in Seq(Step), NEW msg, NEW messages, NEW last \in Seq(Step),
         FollowParts(p, S, order, child, mute, writes, tx, msg, messages, last),
         Read(p, writes \o tx \o messages \o last)
  PROVE  SeriesInv'
<1>0. /\ \A c \in S : /\ rows[c].db = "live" /\ rows[c].parent = Next1(p).t
                      /\ rows[c].status # "done"
      /\ \A i \in DOMAIN order :
           child[i] = syncedChild(Next1(p).t, rows[order[i]], Next1(p).row, Next1(p).why)
      /\ \/ writes = <<>>
         \/ writes = [i \in DOMAIN order |->
                        Do("txwrite", order[i], child[i], mute, {"row"})]
      /\ \A i \in DOMAIN tx : Quiet(tx[i]) \/ tx[i] = Commit
      /\ \E j \in DOMAIN tx : tx[j] = Commit
      /\ \A i \in DOMAIN order : msg[i] \in {"schedule", "none"}
      /\ messages = [i \in DOMAIN order |-> Publish(order[i], child[i], msg[i], {})]
      /\ \A i \in DOMAIN last : Quiet(last[i])
  BY DEF FollowParts
<1> DEFINE q == Next1(p).t
<1>1. q \in Task /\ ~Idle(p) /\ Next1(p).do = "sync" /\ Next1(p).row \in Row
  BY AtType DEF Statements, At
<1>2. ASSUME NEW i \in DOMAIN order
      PROVE  /\ order[i] \in S /\ child[i] \in Row /\ child[i].db = "live"
             /\ child[i].parent = q /\ child[i].status # "done"
  <2>1. order[i] \in S /\ rows[order[i]] \in Row
    BY <1>0, <1>2, OrderType, RowType
  <2> QED
    BY <1>0, <1>1, <1>2, <2>1, SyncedKeeps
<1>3. \A t \in Task : ~ Ending(held[p], dirty[p], t)
  BY <1>1, HeadFits DEF StepFits
<1> DEFINE Fits(s) == /\ SyncStep(s, q, rows, held[p], dirty[p]) /\ LaterFits(s)
                      /\ ~ Ends(s) /\ ~ EndsChildren(s)
<1>4. ASSUME NEW i \in DOMAIN order,
             NEW s, s = Do("txwrite", order[i], child[i], mute, {"row"})
      PROVE  s \in Step /\ Fits(s)
  <2>1. /\ s.do = "txwrite" /\ s.t = order[i] /\ s.row = child[i] /\ s.msg = mute
        /\ s.must = {"row"}
    BY <1>4 DEF Do
  <2>2. s \in Step
    BY <1>2, <1>4, DoType DEF Statements
  <2>3. rows[s.t].db = "live" /\ rows[s.t].parent = q
    BY <1>0, <1>2, <2>1 DEF q
  <2>4. StepFits(s, rows, held[p], dirty[p])
    BY <1>2, <2>1, <2>3 DEF StepFits, Ends, Opens, Closes, Arms, Pool
  <2>5. LaterFits(s) /\ ~ Ends(s) /\ ~ EndsChildren(s) /\ ~ Pool(s) /\ s.do # "sync"
    BY <1>2, <2>1 DEF LaterFits, Ends, EndsChildren, Pool
  <2> QED
    BY <2>2, <2>4, <2>5 DEF SyncStep
<1>5. ASSUME NEW i \in DOMAIN order,
             NEW s, s = Publish(order[i], child[i], msg[i], {})
      PROVE  s \in Step /\ Fits(s) /\ ~ Opens(s)
  <2>1. /\ s.do = "publish" /\ s.t = order[i] /\ s.row = child[i] /\ s.msg = msg[i]
        /\ s.must = {}
    BY <1>5 DEF Publish, Do
  <2>2. s \in Step
    <3>1. msg[i] \in {"none", "delete", "schedule", "resched"} /\ order[i] \in Task
      BY <1>0, <1>2, <1>5
    <3> QED
      BY <1>2, <1>5, <3>1, DoType DEF Publish, Statements
  <2>3. ~ Over(rows[s.t]) /\ ~ Ending(held[p], dirty[p], s.t)
    BY <1>0, <1>2, <1>3, <2>1 DEF Over
  <2>4. StepFits(s, rows, held[p], dirty[p])
    BY <1>2, <2>1, <2>3 DEF StepFits, Ends, Opens, Closes, Arms, Pool
  <2>5. /\ LaterFits(s) /\ ~ Ends(s) /\ ~ EndsChildren(s) /\ ~ Pool(s) /\ s.do # "sync"
        /\ ~ Opens(s)
    BY <2>1 DEF LaterFits, Ends, EndsChildren, Pool, Opens
  <2> QED
    BY <2>2, <2>4, <2>5 DEF SyncStep
<1>6. ASSUME NEW s, Quiet(s) \/ s = Commit PROVE Fits(s) /\ ~ Opens(s)
  BY <1>1, <1>6, SyncSteps
<1>7. Commit.do = "commit" /\ Closes(Commit)
  BY CommitStepFits
<1> HIDE DEF Fits
<1>8. writes \in Seq(Step) /\ \A i \in DOMAIN writes : Fits(writes[i])
  <2>1. CASE writes = <<>>
    BY <2>1, EmptyPlanType
  <2>2. CASE writes = [i \in DOMAIN order |->
                         Do("txwrite", order[i], child[i], mute, {"row"})]
    <3>1. \A i \in DOMAIN order : writes[i] \in Step /\ Fits(writes[i])
      BY <1>4, <2>2
    <3>2. writes \in Seq(Step)
      BY <2>2, <3>1, ForEachType
    <3> QED
      BY <2>2, <3>1, <3>2
  <2> QED
    BY <1>0, <2>1, <2>2
<1>9. /\ messages \in Seq(Step)
      /\ \A i \in DOMAIN messages : Fits(messages[i]) /\ ~ Opens(messages[i])
  <2>1. \A i \in DOMAIN order : /\ messages[i] \in Step /\ Fits(messages[i])
                                /\ ~ Opens(messages[i])
    BY <1>0, <1>5
  <2>2. messages \in Seq(Step)
    BY <1>0, <2>1, ForEachType
  <2> QED
    BY <1>0, <2>1, <2>2
<1> DEFINE y1 == writes \o tx
<1>10. y1 \in Seq(Step) /\ Joined(writes, tx, y1)
  BY <1>8, ConcatParts
<1> HIDE DEF y1
<1> DEFINE y2 == y1 \o messages
<1>11. y2 \in Seq(Step) /\ Joined(y1, messages, y2)
  BY <1>9, <1>10, ConcatParts
<1> HIDE DEF y2
<1> DEFINE a == y2 \o last
<1>12. a \in Seq(Step) /\ Joined(y2, last, a)
  BY <1>11, ConcatParts
<1>13. Read(p, a)
  BY DEF y1, y2
<1> HIDE DEF a, q
<1>14. ASSUME NEW i \in DOMAIN a
       PROVE  Fits(a[i]) /\ (Opens(a[i]) => i \in DOMAIN writes)
  <2>1. (Fits(a[i]) /\ ~ Opens(a[i])) \/ (i \in DOMAIN y2 /\ a[i] = y2[i])
    BY <1>0, <1>6, <1>12 DEF Joined
  <2>2. i \in DOMAIN y2 => \/ Fits(y2[i]) /\ ~ Opens(y2[i])
                           \/ i \in DOMAIN y1 /\ y2[i] = y1[i]
    BY <1>9, <1>11 DEF Joined
  <2>3. i \in DOMAIN y1 => \/ Fits(y1[i]) /\ ~ Opens(y1[i])
                           \/ i \in DOMAIN writes /\ Fits(y1[i])
    BY <1>0, <1>6, <1>8, <1>10 DEF Joined
  <2> QED
    BY <2>1, <2>2, <2>3
<1>15. \E j \in DOMAIN a : Closes(a[j]) /\ \A i \in DOMAIN a : Opens(a[i]) => i < j
  <2>1. PICK j \in DOMAIN y1 : y1[j] = Commit /\ \A i \in DOMAIN writes : i < j
    BY <1>0, <1>10 DEF Joined
  <2>2. j \in DOMAIN a /\ a[j] = Commit
    BY <1>11, <1>12, <2>1 DEF Joined
  <2> QED
    BY <1>7, <1>14, <2>1, <2>2
<1>16. SyncList(a, q, rows, held[p], dirty[p])
  <2>1. \A i \in DOMAIN a : a[i].do # "txdeletechildren"
    BY <1>14 DEF Fits, LaterFits
  <2> QED
    BY <1>14, <1>15, <2>1 DEF SyncList, SyncPair, Fits
<1> QED
  BY <1>12, <1>13, <1>16, SyncReads DEF q

(* The synchronisation of the children with an updated parent keeps the    *)
(* statements fit.                                                         *)
LEMMA SyncChildTasksFits ==
  ASSUME TypeOK, SeriesInv, NEW p \in Proc, SyncChildTasks(p) PROVE SeriesInv'
<1> DEFINE s    == Next1(p)
           kids == GetChildTasksByParentID(rows, s.t)
           open == {c \in kids : Unfinished(rows[c])}
           left == {c \in kids : rows[c].status # "done"}
           mutes == "muteToggled" \in s.why /\ s.row.muted
           quiet == IF mutes THEN <<Publish(s.t, s.row, "delete", {})>> ELSE <<>>
           first == Do("txdeletechildren", s.t, s.row, "none", {"row"})
           front == IF kids = {} THEN <<>> ELSE <<first>>
           forget(order) == [i \in DOMAIN order |->
                               Publish(order[i], rows[order[i]], "delete", {"msg"})]
           direct == Do("resched", s.t, s.row, "resched", {})
           delete(order) == [i \in DOMAIN order |->
                               Do("txdelete", order[i], rows[order[i]], "delete",
                                  {"row", "msg"})]
           child(order) == [i \in DOMAIN order |->
                              syncedChild(s.t, rows[order[i]], s.row, s.why)]
           mute  == IF mutes THEN "delete" ELSE "none"
           writes(order) == [i \in DOMAIN order |->
                               Do("txwrite", order[i], child(order)[i], mute, {"row"})]
           wr(order) == IF s.why = {} THEN <<>> ELSE writes(order)
           tx == IF kids = {} THEN quiet \o <<Commit>> ELSE <<Commit>>
           msg(order) == [i \in DOMAIN order |->
                            IF republished(child(order)[i], s.row, s.why)
                              THEN "schedule" ELSE "none"]
           messages(order) == [i \in DOMAIN order |->
                                 Publish(order[i], child(order)[i], msg(order)[i], {})]
           last == IF kids = {} THEN <<>> ELSE quiet
<1>1. At(p, "sync")
  BY DEF SyncChildTasks
<1>2. s.row \in Row /\ s.t \in Task /\ ~Idle(p)
  BY <1>1, AtType DEF Statements
<1>3. /\ kids \in SUBSET Task /\ open \in SUBSET Task /\ left \in SUBSET Task
      /\ \A c \in kids : rows[c].db = "live" /\ rows[c].parent = s.t
  BY DEF GetChildTasksByParentID, Live
<1>4. quiet \in Seq(Step) /\ \A i \in DOMAIN quiet : Quiet(quiet[i])
  <2> DEFINE one == Publish(s.t, s.row, "delete", {})
  <2>1. one \in Step /\ Quiet(one)
    BY <1>2, DoType DEF Publish, Do, Statements, Quiet
  <2> HIDE DEF one
  <2>2. <<one>> \in Seq(Step) /\ \A i \in DOMAIN <<one>> : Quiet(<<one>>[i])
    BY <2>1
  <2>3. <<>> \in Seq(Step) /\ \A i \in DOMAIN <<>> : FALSE
    BY EmptyPlanType
  <2>4. quiet = <<one>> \/ quiet = <<>>
    BY DEF one
  <2> QED
    BY <2>2, <2>3, <2>4
<1>5. CASE Fail(p)
  BY <1>2, <1>5, AbortFits DEF Fail
<1>6. ASSUME NEW order \in SetToSeqs(kids),
             Read(p, front \o forget(order) \o <<direct>> \o quiet \o <<Commit>>)
      PROVE  SeriesInv'
  <2>1. front \in Seq(Step) /\ \A i \in DOMAIN front : i = 1 /\ front[i] = first
    <3>1. first \in Step
      BY <1>2, DoType DEF Statements
    <3> HIDE DEF first
    <3>2. CASE kids = {}
      BY <3>2, EmptyPlanType
    <3>3. CASE kids # {}
      BY <3>1, <3>3, SingletonType
    <3> QED
      BY <3>2, <3>3
  <2> HIDE DEF quiet, front
  <2> QED
    BY <1>1, <1>4, <1>6, <2>1, SyncConfRemoved
<1>7. ASSUME NEW order \in SetToSeqs(open), Read(p, delete(order) \o quiet \o <<Commit>>)
      PROVE  SeriesInv'
  <2>1. \A c \in open : rows[c].db = "live" /\ rows[c].parent = s.t
    BY <1>3
  <2> HIDE DEF quiet, open
  <2> QED
    BY <1>1, <1>3, <1>4, <1>7, <2>1, SyncRuleRemoved
<1>8. ASSUME NEW order \in SetToSeqs(left),
             Read(p, wr(order) \o tx \o messages(order) \o last)
      PROVE  SeriesInv'
  <2>1. \A c \in left : /\ rows[c].db = "live" /\ rows[c].parent = s.t
                        /\ rows[c].status # "done"
    BY <1>3
  <2>2. mute \in {"delete", "none"}
    OBVIOUS
  <2>3. /\ tx \in Seq(Step) /\ \A i \in DOMAIN tx : Quiet(tx[i]) \/ tx[i] = Commit
        /\ \E j \in DOMAIN tx : tx[j] = Commit
    <3> HIDE DEF quiet
    <3>1. CASE kids = {}
      <4>1. tx = quiet \o <<Commit>>
        BY <3>1
      <4> HIDE DEF tx
      <4>2. \A i \in DOMAIN tx : (i \in DOMAIN quiet /\ tx[i] = quiet[i]) \/ tx[i] = Commit
        BY <1>4, <4>1, CommitType, LastParts
      <4>3. tx \in Seq(Step) /\ \E j \in DOMAIN tx : tx[j] = Commit
        BY <1>4, <4>1, CommitType, LastParts
      <4> QED
        BY <1>4, <4>2, <4>3
    <3>2. CASE kids # {}
      <4>1. tx = <<Commit>>
        BY <3>2
      <4> HIDE DEF tx
      <4>2. DOMAIN tx = {1} /\ tx[1] = Commit
        BY <4>1
      <4> QED
        BY <4>1, <4>2, CommitType
    <3> QED
      BY <3>1, <3>2
  <2>4. last \in Seq(Step) /\ \A i \in DOMAIN last : Quiet(last[i])
    <3>1. <<>> \in Seq(Step) /\ \A i \in DOMAIN <<>> : FALSE
      BY EmptyPlanType
    <3> HIDE DEF quiet
    <3> QED
      BY <1>4, <3>1
  <2>5. wr(order) = <<>> \/ wr(order) = writes(order)
    OBVIOUS
  <2>6. \A i \in DOMAIN order : msg(order)[i] \in {"schedule", "none"}
    OBVIOUS
  <2>7. \A i \in DOMAIN order :
          child(order)[i] = syncedChild(s.t, rows[order[i]], s.row, s.why)
    OBVIOUS
  <2>8. wr(order) = [i \in DOMAIN order |->
                       Do("txwrite", order[i], child(order)[i], mute, {"row"})]
        \/ wr(order) = <<>>
    BY <2>5
  <2>9. messages(order) = [i \in DOMAIN order |->
                             Publish(order[i], child(order)[i], msg(order)[i], {})]
    OBVIOUS
  <2> HIDE DEF quiet, left, tx, last, wr, writes, msg, messages, child, mute
  <2>10. FollowParts(p, left, order, child(order), mute, wr(order), tx, msg(order),
                     messages(order), last)
    BY <2>1, <2>3, <2>4, <2>6, <2>7, <2>8, <2>9 DEF FollowParts
  <2> QED
    BY <1>1, <1>3, <1>8, <2>2, <2>3, <2>4, <2>10, SyncFollow
<1>9. ASSUME NEW order \in SetToSeqs(left)
      PROVE  messages(order) =
               [i \in DOMAIN order |->
                  Publish(order[i], child(order)[i],
                          IF republished(child(order)[i], s.row, s.why)
                            THEN "schedule" ELSE "none", {})]
  OBVIOUS
<1>10. \/ Fail(p)
       \/ \E order \in SetToSeqs(kids) :
            Read(p, front \o forget(order) \o <<direct>> \o quiet \o <<Commit>>)
       \/ \E order \in SetToSeqs(open) : Read(p, delete(order) \o quiet \o <<Commit>>)
       \/ \E order \in SetToSeqs(left) :
            Read(p, wr(order) \o tx
                    \o [i \in DOMAIN order |->
                          Publish(order[i], child(order)[i],
                                  IF republished(child(order)[i], s.row, s.why)
                                    THEN "schedule" ELSE "none", {})]
                    \o last)
  BY Zenon DEF SyncChildTasks
<1>11. ASSUME NEW order \in SetToSeqs(left),
              Read(p, wr(order) \o tx
                      \o [i \in DOMAIN order |->
                            Publish(order[i], child(order)[i],
                                    IF republished(child(order)[i], s.row, s.why)
                                      THEN "schedule" ELSE "none", {})]
                      \o last)
       PROVE  SeriesInv'
  <2>1. Read(p, wr(order) \o tx \o messages(order) \o last)
    <3>1. messages(order) =
            [i \in DOMAIN order |->
               Publish(order[i], child(order)[i],
                       IF republished(child(order)[i], s.row, s.why)
                         THEN "schedule" ELSE "none", {})]
      BY <1>9
    <3> HIDE DEF messages, wr, tx, child, last
    <3> QED
      BY <1>11, <3>1, Zenon
  <2> QED
    BY <1>8, <2>1
<1> QED
  BY <1>5, <1>6, <1>7, <1>10, <1>11

-----------------------------------------------------------------------------
(* Statements keep the ones that follow fit.                               *)

(* The only handler at work takes a step.                                  *)
LEMMA StepsOn ==
  ASSUME TypeOK, SeriesInv, NEW p \in Proc, ~Idle(p), NEW a \in Seq(Step), Continue(p, a),
         \A q \in Proc \ {p} : held'[q] = held[q],
         NEW r2, r2 = rows', NEW h2, h2 = held'[p], NEW d2, d2 = dirty'[p],
         NEW w2, w2 = wire',
         Respects(plan[p], rows, r2, h2, d2), Leads(a, plan[p], r2, h2, d2),
         Keeps(a, plan[p], r2, h2, d2, w2)
  PROVE  OneInFlight' /\ Plans'
<1>1. /\ plan[p] \in Seq(Step) /\ plan[p] # <<>>
      /\ PlanFits(plan[p], rows, held[p], dirty[p], wire)
  BY AtPlan
<1>2. PlanFits(a \o Tail(plan[p]), r2, h2, d2, w2)
  BY <1>1, StepFitsOn
<1>3. \A q \in Proc : ~Idle(q) => q = p
  BY DEF SeriesInv, OneInFlight
<1> QED
  BY <1>2, <1>3, OneMoves DEF Continue

(* What follows a row statement carries its task, row and message.         *)
LEMMA AfterParts ==
  ASSUME NEW s \in Fields(Statements, Task), NEW a, a = After(s)
  PROVE  /\ a \in Seq(Step)
         /\ \A i \in DOMAIN a :
              /\ i = 1 /\ s.msg # "none" /\ a[i].t = s.t /\ a[i].row = s.row
              /\ a[i].msg = s.msg /\ a[i].must = s.must
              /\ \/ a[i].do = "resched" /\ s.msg = "resched"
                 \/ a[i].do = "publish" /\ s.msg # "resched"
         /\ s.msg \notin {"none", "resched"} => 1 \in DOMAIN a
<1>1. a \in Seq(Step)
  BY AfterType
<1>2. CASE s.msg = "none"
  <2>1. a = <<>> /\ \A i \in DOMAIN <<>> : FALSE
    BY <1>2, EmptyPlanType DEF After
  <2> QED
    BY <1>1, <1>2, <2>1
<1>3. ASSUME NEW do, s.msg # "none", a = <<[s EXCEPT !.do = do]>>,
             \/ do = "resched" /\ s.msg = "resched"
             \/ do = "publish" /\ s.msg # "resched"
      PROVE  /\ \A i \in DOMAIN a :
                  /\ i = 1 /\ s.msg # "none" /\ a[i].t = s.t /\ a[i].row = s.row
                  /\ a[i].msg = s.msg /\ a[i].must = s.must
                  /\ \/ a[i].do = "resched" /\ s.msg = "resched"
                     \/ a[i].do = "publish" /\ s.msg # "resched"
             /\ 1 \in DOMAIN a
  <2> DEFINE u == [s EXCEPT !.do = do]
  <2>1. /\ u.do = do /\ u.t = s.t /\ u.row = s.row /\ u.msg = s.msg /\ u.must = s.must
    BY DEF Fields
  <2>2. DOMAIN a = {1} /\ a[1] = u
    BY <1>3
  <2> HIDE DEF u
  <2> QED
    BY <1>3, <2>1, <2>2
<1>4. CASE s.msg = "resched"
  <2>1. a = <<[s EXCEPT !.do = "resched"]>>
    BY <1>4 DEF After
  <2> QED
    BY <1>1, <1>3, <1>4, <2>1
<1>5. CASE s.msg \notin {"none", "resched"}
  <2>1. a = <<[s EXCEPT !.do = "publish"]>>
    BY <1>5 DEF After
  <2> QED
    BY <1>1, <1>3, <1>5, <2>1
<1> QED
  BY <1>2, <1>4, <1>5

(* The message that follows a row statement fits once the statement has    *)
(* run.                                                                    *)
LEMMA AfterLeads ==
  ASSUME NEW s \in Fields(Statements, Task), NEW f, NEW r, NEW h, NEW d,
         s.msg \in {"schedule", "resched"} =>
           /\ ~ Over(r[s.t]) /\ ~ Ending(h, d, s.t) /\ s.row.status # "done"
           /\ s.row.db = "live" /\ s.row.parent = r[s.t].parent
  PROVE  /\ Leads(After(s), f, r, h, d)
         /\ \A i \in DOMAIN After(s) : ~ Barrier(After(s)[i])
<1> DEFINE a == After(s)
<1>1. \A i \in DOMAIN a :
        /\ a[i].t = s.t /\ a[i].row = s.row /\ a[i].msg = s.msg
        /\ \/ a[i].do = "resched" /\ s.msg = "resched"
           \/ a[i].do = "publish" /\ s.msg # "resched"
  BY AfterParts
<1> HIDE DEF a
<1>2. ASSUME NEW i \in DOMAIN a
      PROVE  /\ StepFits(a[i], r, h, d) /\ LaterFits(a[i]) /\ ~ Barrier(a[i])
             /\ ~ Ends(a[i]) /\ ~ EndsChildren(a[i]) /\ ~ Opens(a[i])
  <2>1. ~ Over(r[s.t]) => r[s.t].db # "absent"
    BY DEF Over
  <2> QED
    BY <1>1, <1>2, <2>1
       DEF StepFits, LaterFits, Barrier, Ends, EndsChildren, Opens, Closes, Arms, Pool
<1>3. Leads(a, f, r, h, d)
  BY <1>2, PlainLeads
<1> QED
  BY <1>2, <1>3 DEF a

(* A write through the pool brings no end the table does not have.         *)
LEMMA WriteRowFits ==
  ASSUME TypeOK, SeriesInv, NEW p \in Proc, WriteRow(p) PROVE SeriesInv'
<1> DEFINE s == Next1(p)
<1>1. /\ ~Idle(p) /\ s.do = "write" /\ s.t \in Task /\ s \in Fields(Statements, Task)
      /\ s.row \in Row /\ ~ Closes(s) /\ \A t \in Task : ~ Disarms(s, t)
  BY AtType DEF WriteRow, At, Statements, Closes, Disarms
<1>2. /\ rows[s.t].db # "absent" /\ s.row.db = "live" /\ s.row.parent = rows[s.t].parent
      /\ (s.row.status = "done" => rows[s.t].status = "done")
      /\ s.msg \in {"schedule", "resched"} =>
           ~ Over(rows[s.t]) /\ ~ Ending(held[p], dirty[p], s.t) /\ s.row.status # "done"
  BY <1>1, HeadFits DEF StepFits, Arms
<1>3. /\ rows' = IF Live(rows, s.t) THEN [rows EXCEPT ![s.t] = s.row] ELSE rows
      /\ Continue(p, After(s)) /\ UNCHANGED <<wire, held, dirty>>
  BY DEF WriteRow
<1>4. PICK r2 : r2 = rows'
  OBVIOUS
<1>5. /\ \A t \in Task : t # s.t => r2[t] = rows[t]
      /\ r2[s.t] = rows[s.t] \/ (r2[s.t] = s.row /\ rows[s.t].db = "live")
  BY <1>1, <1>3, <1>4 DEF TypeOK, Live
<1> HIDE DEF s
<1>6. \A t \in Task : /\ r2[t].parent = rows[t].parent
                      /\ rows[t].db # "absent" => r2[t].db # "absent"
                      /\ Over(r2[t]) => Over(rows[t])
  BY <1>1, <1>2, <1>5 DEF Over
<1>7. PICK h2, d2, w2 : h2 = held[p] /\ d2 = dirty[p] /\ w2 = wire
  OBVIOUS
<1>8. /\ plan[p] \in Seq(Step) /\ plan[p] # <<>> /\ plan[p][1] = s
      /\ PlanFits(plan[p], rows, h2, d2, wire)
  BY <1>1, <1>7, AtPlan DEF s
<1>9. Respects(plan[p], rows, r2, h2, d2)
  <2>1. Respects(plan[p], rows, rows, h2, d2)
    BY <1>8, SameRespects
  <2>2. \A j \in DOMAIN plan[p] : j # 1 /\ Arms(plan[p][j]) => plan[p][j].t \in Task
    <3>1. \A j \in DOMAIN plan[p] : plan[p][j] \in Step
      BY <1>8, ElementOfSeq, LenProperties
    <3> QED
      BY <3>1 DEF Arms, Step, Fields, Statements
  <2> QED
    BY <1>6, <2>1, <2>2 DEF Respects
<1>10. Leads(After(s), plan[p], r2, h2, d2) /\ \A i \in DOMAIN After(s) : ~ Barrier(After(s)[i])
  <2>1. s.msg \in {"schedule", "resched"} =>
           /\ ~ Over(r2[s.t]) /\ ~ Ending(h2, d2, s.t) /\ s.row.status # "done"
           /\ s.row.db = "live" /\ s.row.parent = r2[s.t].parent
    BY <1>1, <1>2, <1>6, <1>7
  <2> QED
    BY <1>1, <2>1, AfterLeads
<1>11. Keeps(After(s), plan[p], r2, h2, d2, wire)
  <2>1. \A t \in h2 : r2[t].parent = rows[t].parent
    BY <1>6, <1>7 DEF TypeOK
  <2> QED
    BY <1>1, <1>8, <1>10, <2>1, PassingKeeps
<1>12. After(s) \in Seq(Step)
  BY <1>1, AfterType
<1>13. OneInFlight' /\ Plans'
  BY <1>1, <1>3, <1>4, <1>7, <1>9, <1>10, <1>11, <1>12, StepsOn
<1>14. OverIsSilent'
  BY <1>3, <1>4, <1>6 DEF SeriesInv, OverIsSilent
<1>15. NoOwnParent'
  BY <1>4, <1>6 DEF SeriesInv, NoOwnParent
<1> QED
  BY <1>13, <1>14, <1>15 DEF SeriesInv

(* A transaction sees each task with its parent.                           *)
LEMMA ViewParent ==
  ASSUME TypeOK, LocksAgree, SeriesInv, NEW p \in Proc, NEW t \in Task
  PROVE  /\ View(p, t).parent = rows[t].parent
         /\ View(p, t).db = "live" => rows[t].db = "live"
<1>1. \A u \in held[p] : dirty[p][u].parent = rows[u].parent
  BY AtPlan DEF PlanFits
<1> QED
  BY <1>1 DEF View, LocksAgree, Live

(* What a statement of a transaction stages: the rows S, which become new. *)
Staged(s, S, new, f, r, w) ==
  /\ \A t \in S : new[t].parent = r[t].parent /\ new[t].db # "absent"
  /\ \A t \in S : Over(new[t]) =>
       \/ Ends(s) /\ s.t = t
       \/ EndsChildren(s) /\ r[t].parent = s.t /\ LaterDisarms(f, t)

(* What a statement stages is disarmed before the commit.                  *)
LEMMA StageFits ==
  ASSUME TypeOK, LocksAgree, SeriesInv, NEW p \in Proc, ~Idle(p),
         Next1(p) \in Fields(Statements, Task), Opens(Next1(p)), Next1(p).t \in Task,
         NEW S \in SUBSET Task, NEW new, Stage(p, S, new),
         Staged(Next1(p), S, new, plan[p], rows, wire)
  PROVE  SeriesInv'
<1> DEFINE s == Next1(p)
           a == After(s)
<1>1. /\ plan[p] \in Seq(Step) /\ plan[p] # <<>> /\ plan[p][1] = s
      /\ PlanFits(plan[p], rows, held[p], dirty[p], wire)
      /\ StepFits(s, rows, held[p], dirty[p])
      /\ \A j \in DOMAIN plan[p] : j # 1 => PairFits(s, plan[p][j], rows)
      /\ \E j \in DOMAIN plan[p] : j # 1 /\ Closes(plan[p][j])
  BY AtPlan, HeadFits
<1>2. /\ held' = [held EXCEPT ![p] = held[p] \cup S]
      /\ dirty' = [dirty EXCEPT ![p] = [t \in Task |-> IF t \in S THEN new[t]
                                                      ELSE dirty[p][t]]]
      /\ Continue(p, a) /\ UNCHANGED <<rows, wire>>
  BY DEF Stage
<1>3. PICK h2, d2 : h2 = held'[p] /\ d2 = dirty'[p]
  OBVIOUS
<1>4. /\ h2 = held[p] \cup S
      /\ \A t \in Task : d2[t] = IF t \in S THEN new[t] ELSE dirty[p][t]
      /\ \A q \in Proc \ {p} : held'[q] = held[q]
  BY <1>2, <1>3 DEF TypeOK
<1>5. \A t \in Task : /\ t \in S => d2[t] = new[t]
                      /\ t \notin S => (t \in h2 <=> t \in held[p]) /\ d2[t] = dirty[p][t]
  BY <1>4
<1>6. ASSUME NEW t \in Task, Ending(h2, d2, t)
      PROVE  \/ Ending(held[p], dirty[p], t) /\ t \notin S
             \/ t \in S /\ Over(new[t])
  BY <1>5, <1>6 DEF Ending
<1> HIDE DEF s, a
<1>7. s.msg \in {"none", "delete"} /\ (Ends(s) => s.msg = "delete" /\ "msg" \in s.must)
  BY <1>1 DEF StepFits, s
<1>8. \A j \in DOMAIN plan[p] : plan[p][j] \in Step
  BY <1>1, ElementOfSeq, LenProperties
<1>9. \A j \in DOMAIN plan[p] : Arms(plan[p][j]) => plan[p][j].t \in Task
  BY <1>8 DEF Arms, Step, Fields, Statements
<1>10. /\ \A t \in S : new[t].parent = rows[t].parent /\ new[t].db # "absent"
       /\ \A t \in S : Over(new[t]) =>
            \/ Ends(s) /\ s.t = t
            \/ EndsChildren(s) /\ rows[t].parent = s.t /\ LaterDisarms(plan[p], t)
  BY DEF Staged, s
<1>11. Respects(plan[p], rows, rows, h2, d2)
  <2>1. Respects(plan[p], rows, rows, held[p], dirty[p])
    BY <1>1, SameRespects
  <2>2. ASSUME NEW j \in DOMAIN plan[p], j # 1, Arms(plan[p][j]), Ending(h2, d2, plan[p][j].t)
        PROVE  FALSE
    <3>1. PairFits(s, plan[p][j], rows) /\ plan[p][j].t \in Task
      BY <1>1, <1>9, <2>2
    <3>2. ~ Ending(held[p], dirty[p], plan[p][j].t)
      BY <2>1, <2>2 DEF Respects
    <3>3. plan[p][j].t \in S /\ Over(new[plan[p][j].t])
      BY <1>6, <2>2, <3>1, <3>2
    <3> QED
      BY <1>10, <2>2, <3>1, <3>3 DEF PairFits
  <2>3. ASSUME NEW j \in DOMAIN plan[p], j # 1, Pool(plan[p][j]) PROVE FALSE
    BY <1>1, <2>3 DEF PairFits, s
  <2>4. ASSUME NEW j \in DOMAIN plan[p], j # 1, plan[p][j].do = "sync",
               NEW t \in Task, Ending(h2, d2, t)
        PROVE  FALSE
    <3>1. ~ Ends(s) /\ ~ EndsChildren(s)
      BY <1>1, <2>4 DEF PairFits
    <3>2. ~ Ending(held[p], dirty[p], t)
      BY <2>1, <2>4 DEF Respects
    <3> QED
      BY <1>6, <1>10, <2>4, <3>1, <3>2
  <2>5. \A j \in DOMAIN plan[p] : j # 1 /\ Arms(plan[p][j]) => ~ Over(rows[plan[p][j].t])
    BY <2>1 DEF Respects
  <2> QED
    BY <2>2, <2>3, <2>4, <2>5 DEF Respects
<1>12. s \in Fields(Statements, Task)
  BY DEF s
<1>13. Leads(a, plan[p], rows, h2, d2) /\ \A i \in DOMAIN a : ~ Barrier(a[i])
  BY <1>7, <1>12, AfterLeads DEF a
<1>14. Keeps(a, plan[p], rows, h2, d2, wire)
  <2>1. ASSUME NEW t \in Task, Ending(h2, d2, t)
        PROVE  Silent(wire, t) \/ WillDisarm(a, t) \/ LaterDisarms(plan[p], t)
    <3>1. CASE Ending(held[p], dirty[p], t)
      <4>1. Silent(wire, t) \/ WillDisarm(plan[p], t)
        BY <1>1, <3>1 DEF PlanFits
      <4>2. \A u \in Task : ~ Disarms(plan[p][1], u)
        BY <1>1 DEF Disarms, Opens, s
      <4>3. WillDisarm(plan[p], t) => LaterDisarms(plan[p], t)
        BY <4>2 DEF WillDisarm, LaterDisarms
      <4> QED
        BY <4>1, <4>3
    <3>2. CASE t \in S /\ Ends(s) /\ s.t = t
      <4>1. s.msg = "delete" /\ "msg" \in s.must
        BY <1>7, <3>2
      <4>2. 1 \in DOMAIN a
        BY <1>12, <4>1, AfterParts DEF a
      <4>3. /\ a[1].do = "publish" /\ a[1].msg = "delete" /\ a[1].t = t
            /\ "msg" \in a[1].must
        BY <1>12, <3>2, <4>1, <4>2, AfterParts DEF a
      <4> QED
        BY <1>13, <4>2, <4>3 DEF WillDisarm, Disarms
    <3> QED
      BY <1>6, <1>10, <2>1, <3>1, <3>2
  <2>2. \E j \in DOMAIN plan[p] : j # 1 /\ Closes(plan[p][j])
    BY <1>1
  <2>3. \A t \in h2 : d2[t].parent = rows[t].parent /\ d2[t].db # "absent"
    <3>1. \A t \in held[p] : dirty[p][t].parent = rows[t].parent /\ dirty[p][t].db # "absent"
      BY <1>1 DEF PlanFits
    <3>2. h2 \subseteq Task
      BY <1>4 DEF TypeOK
    <3> QED
      BY <1>5, <1>10, <3>1, <3>2
  <2> QED
    BY <1>13, <2>1, <2>2, <2>3 DEF Keeps
<1>15. a \in Seq(Step)
  BY <1>12, AfterType DEF a
<1>16. OneInFlight' /\ Plans'
  <2>1. PICK r2, w2 : r2 = rows' /\ w2 = wire' /\ r2 = rows /\ w2 = wire
    BY <1>2
  <2> QED
    BY <1>2, <1>3, <1>4, <1>11, <1>13, <1>14, <1>15, <2>1, StepsOn
<1> QED
  BY <1>2, <1>16 DEF SeriesInv, OverIsSilent, NoOwnParent

(* A row written in the transaction: if it is done, its delete_task        *)
(* follows.                                                                *)
LEMMA UpdateTaskWithTxFits ==
  ASSUME TypeOK, LocksAgree, SeriesInv, NEW p \in Proc, UpdateTaskWithTx(p)
  PROVE  SeriesInv'
<1> DEFINE s == Next1(p)
           S == {t \in {s.t} : View(p, t).db = "live"}
           new == [t \in Task |-> s.row]
<1>1. /\ ~Idle(p) /\ s.do = "txwrite" /\ s.t \in Task /\ s \in Fields(Statements, Task)
      /\ Opens(s)
  BY AtType DEF UpdateTaskWithTx, At, Statements, Opens
<1>2. /\ s.row.db = "live" /\ s.row.parent = rows[s.t].parent
  BY <1>1, HeadFits DEF StepFits
<1>3. S \in SUBSET Task /\ Stage(p, S, new)
  BY <1>1 DEF UpdateTaskWithTx
<1>4. \A t \in S : t = s.t /\ new[t] = s.row
  BY <1>1
<1> HIDE DEF S, new, s
<1>5. s.row.status = "done" => Ends(s)
  BY <1>1 DEF Ends
<1>6. Staged(s, S, new, plan[p], rows, wire)
  BY <1>2, <1>4, <1>5 DEF Staged, Over
<1> QED
  BY <1>1, <1>3, <1>6, StageFits DEF s

(* A row deleted in the transaction: its delete_task follows.              *)
LEMMA DeleteTaskWithTxFits ==
  ASSUME TypeOK, LocksAgree, SeriesInv, NEW p \in Proc, DeleteTaskWithTx(p)
  PROVE  SeriesInv'
<1> DEFINE s == Next1(p)
           S == {t \in {s.t} : View(p, t).db = "live"}
           new == [t \in Task |-> softDeleted(View(p, t))]
<1>1. /\ ~Idle(p) /\ s.do = "txdelete" /\ s.t \in Task /\ s \in Fields(Statements, Task)
      /\ Opens(s) /\ Ends(s)
  BY AtType DEF DeleteTaskWithTx, At, Statements, Opens, Ends
<1>2. S \in SUBSET Task /\ Stage(p, S, new)
  BY <1>1 DEF DeleteTaskWithTx
<1>3. ASSUME NEW t \in S
      PROVE  /\ t = s.t /\ t \in Task /\ new[t].parent = rows[t].parent
             /\ new[t].db = "gone"
  <2>1. t = s.t /\ t \in Task /\ new[t] = softDeleted(View(p, t))
    BY <1>1, <1>3
  <2>2. View(p, t) \in Row /\ View(p, t).parent = rows[t].parent
    BY <2>1, ViewType, ViewParent
  <2> HIDE DEF new
  <2> QED
    BY <2>1, <2>2 DEF softDeleted, Row
<1> HIDE DEF S, new, s
<1>4. Staged(s, S, new, plan[p], rows, wire)
  BY <1>1, <1>3 DEF Staged, Over
<1> QED
  BY <1>1, <1>2, <1>4, StageFits DEF s

(* The children deleted in the transaction: the delete_task of each is     *)
(* still to come.                                                          *)
LEMMA DeleteChildTasksWithTxFits ==
  ASSUME TypeOK, LocksAgree, SeriesInv, NEW p \in Proc, DeleteChildTasksWithTx(p)
  PROVE  SeriesInv'
<1> DEFINE s == Next1(p)
           S == {t \in Task : View(p, t).db = "live" /\ View(p, t).parent = s.t}
           new == [t \in Task |-> softDeleted(View(p, t))]
<1>1. /\ ~Idle(p) /\ s.do = "txdeletechildren" /\ s.t \in Task
      /\ s \in Fields(Statements, Task) /\ Opens(s) /\ EndsChildren(s)
  BY AtType DEF DeleteChildTasksWithTx, At, Statements, Opens, EndsChildren
<1>2. S \in SUBSET Task /\ Stage(p, S, new)
  BY <1>1 DEF DeleteChildTasksWithTx
<1>3. /\ plan[p] \in Seq(Step) /\ 1 \in DOMAIN plan[p] /\ plan[p][1] = s
      /\ \A c \in Task : rows[c].db = "live" /\ rows[c].parent = s.t => WillDisarm(plan[p], c)
  BY <1>1, AtPlan DEF PlanFits
<1>4. ASSUME NEW t \in S
      PROVE  /\ t \in Task /\ new[t].parent = rows[t].parent /\ new[t].db = "gone"
             /\ rows[t].parent = s.t /\ LaterDisarms(plan[p], t)
  <2>1. /\ t \in Task /\ new[t] = softDeleted(View(p, t))
        /\ View(p, t).db = "live" /\ View(p, t).parent = s.t
    BY <1>4
  <2>2. /\ View(p, t) \in Row /\ View(p, t).parent = rows[t].parent
        /\ rows[t].db = "live"
    BY <2>1, ViewType, ViewParent
  <2> HIDE DEF new, s
  <2>3. new[t].parent = rows[t].parent /\ new[t].db = "gone"
    BY <2>1, <2>2 DEF softDeleted, Row
  <2>4. WillDisarm(plan[p], t)
    BY <1>3, <2>1, <2>2
  <2>5. ~ Disarms(plan[p][1], t)
    BY <1>1, <1>3 DEF Disarms
  <2>6. LaterDisarms(plan[p], t)
    BY <2>4, <2>5 DEF WillDisarm, LaterDisarms
  <2> QED
    BY <2>1, <2>2, <2>3, <2>6
<1> HIDE DEF S, new, s
<1>5. Staged(s, S, new, plan[p], rows, wire)
  BY <1>1, <1>4 DEF Staged
<1> QED
  BY <1>1, <1>2, <1>5, StageFits DEF s

(* The commit brings the ends, all of them disarmed.                       *)
LEMMA CommitTxFits ==
  ASSUME TypeOK, LocksAgree, SeriesInv, NEW p \in Proc, CommitTx(p)
  PROVE  SeriesInv'
<1> DEFINE s == Next1(p)
<1>1. ~Idle(p) /\ s.do = "commit" /\ Barrier(s)
  BY DEF CommitTx, At, Barrier
<1>2. /\ plan[p] \in Seq(Step) /\ plan[p] # <<>> /\ plan[p][1] = s
      /\ PlanFits(plan[p], rows, held[p], dirty[p], wire)
  BY <1>1, AtPlan
<1>3. PICK r2, h2, d2 : r2 = rows' /\ h2 = held'[p] /\ d2 = dirty'[p]
  OBVIOUS
<1>4. /\ h2 = {} /\ \A q \in Proc \ {p} : held'[q] = held[q]
      /\ Continue(p, <<>>) /\ UNCHANGED wire
  BY <1>3 DEF CommitTx, TypeOK
<1>5. \A t \in Task : \/ t \notin held[p] /\ r2[t] = rows[t]
                      \/ t \in held[p] /\ r2[t] = dirty[p][t]
  BY <1>3 DEF CommitTx, View
<1>6. \A t \in Task : /\ r2[t].parent = rows[t].parent
                      /\ rows[t].db # "absent" => r2[t].db # "absent"
                      /\ Over(r2[t]) => Over(rows[t]) \/ Ending(held[p], dirty[p], t)
  BY <1>2, <1>5 DEF PlanFits, Ending
<1> HIDE DEF s
<1>7. \A j \in DOMAIN plan[p] : Arms(plan[p][j]) => plan[p][j].t \in Task
  <2>1. \A j \in DOMAIN plan[p] : plan[p][j] \in Step
    BY <1>2, ElementOfSeq, LenProperties
  <2> QED
    BY <2>1 DEF Arms, Step, Fields, Statements
<1>8. Respects(plan[p], rows, r2, h2, d2)
  <2>1. Respects(plan[p], rows, rows, held[p], dirty[p])
    BY <1>2, SameRespects
  <2> QED
    BY <1>4, <1>6, <1>7, <2>1 DEF Respects, Ending
<1>9. Keeps(<<>>, plan[p], r2, h2, d2, wire)
  BY <1>4 DEF Keeps, Ending
<1>10. OneInFlight' /\ Plans'
  <2>1. <<>> \in Seq(Step) /\ Leads(<<>>, plan[p], r2, h2, d2)
    BY EmptyPlanType, EmptyLeads
  <2> QED
    BY <1>1, <1>3, <1>4, <1>8, <1>9, <2>1, StepsOn
<1>11. OverIsSilent'
  <2>1. \A t \in Task : Over(r2[t]) => Silent(wire, t)
    BY <1>1, <1>2, <1>6, BarrierSilent DEF SeriesInv, OverIsSilent
  <2> QED
    BY <1>3, <1>4, <2>1 DEF OverIsSilent
<1>12. NoOwnParent'
  BY <1>3, <1>6 DEF SeriesInv, NoOwnParent
<1> QED
  BY <1>10, <1>11, <1>12 DEF SeriesInv

(* A new child is not over, and is nobody's yet.                           *)
LEMMA InsertChildFits ==
  ASSUME TypeOK, LocksAgree, SeriesInv, NEW p \in Proc, InsertChild(p)
  PROVE  SeriesInv'
<1> DEFINE s   == Next1(p)
           id  == NewId
           row == IF s.do = "insert" THEN s.row
                  ELSE childOf(s.row, s.t, nextRecurrenceAfter(now), "scheduled")
           u   == [s EXCEPT !.t = id, !.row = row]
<1>1. /\ ~Idle(p) /\ s.do \in {"insert", "spawn"} /\ s.t \in Task
      /\ s \in Fields(Statements, Task) /\ s.row \in Row
  BY AtType DEF InsertChild, At, Statements
<1>2. /\ rows[s.t].db # "absent"
      /\ s.do = "insert" => s.row.db = "live" /\ s.row.parent = s.t /\ s.row.status # "done"
  BY <1>1, HeadFits DEF StepFits
<1>3. id \in Task /\ rows[id].db = "absent"
  BY FreeType DEF InsertChild
<1>4. row \in Row /\ row.db = "live" /\ row.parent = s.t /\ row.status # "done"
  <2>1. CASE s.do = "insert"
    BY <1>1, <1>2, <2>1
  <2>2. CASE s.do # "insert"
    <3> DEFINE c == childOf(s.row, s.t, nextRecurrenceAfter(now), "scheduled")
    <3>1. c \in Row
      BY <1>1, ChildType, NextRecurrenceType DEF TypeOK, Status
    <3>2. c.db = "live" /\ c.parent = s.t /\ c.status = "scheduled"
      BY DEF childOf
    <3>3. row = c
      BY <2>2
    <3> HIDE DEF c, row
    <3> QED
      BY <3>1, <3>2, <3>3
  <2> QED
    BY <2>1, <2>2
<1>5. /\ rows' = [rows EXCEPT ![id] = row] /\ Continue(p, After(u))
      /\ UNCHANGED <<wire, held, dirty>>
  BY DEF InsertChild
<1> HIDE DEF s, row, id
<1>6. /\ u \in Fields(Statements, Task) /\ u.t = id /\ u.row = row /\ u.msg = s.msg
  BY <1>1, <1>3, <1>4 DEF Fields
<1> HIDE DEF u
<1>7. PICK r2, h2, d2 : r2 = rows' /\ h2 = held[p] /\ d2 = dirty[p]
  OBVIOUS
<1>8. r2[id] = row /\ \A t \in Task : t # id => r2[t] = rows[t]
  BY <1>3, <1>5, <1>7 DEF TypeOK
<1>9. /\ plan[p] \in Seq(Step) /\ plan[p] # <<>> /\ plan[p][1] = s
      /\ PlanFits(plan[p], rows, h2, d2, wire)
  BY <1>1, <1>7, AtPlan DEF s
<1>10. id \notin h2
  BY <1>3, <1>7 DEF LocksAgree, Live
<1>11. \A j \in DOMAIN plan[p] : Arms(plan[p][j]) => plan[p][j].t \in Task
  <2>1. \A j \in DOMAIN plan[p] : plan[p][j] \in Step
    BY <1>9, ElementOfSeq, LenProperties
  <2> QED
    BY <2>1 DEF Arms, Step, Fields, Statements
<1>12. Respects(plan[p], rows, r2, h2, d2)
  <2>1. Respects(plan[p], rows, rows, h2, d2)
    BY <1>9, SameRespects
  <2>2. \A t \in Task : Over(r2[t]) => Over(rows[t])
    BY <1>3, <1>8 DEF Over
  <2>3. \A t \in Task : rows[t].db # "absent" => r2[t] = rows[t]
    BY <1>3, <1>8
  <2> QED
    BY <1>11, <2>1, <2>2, <2>3 DEF Respects
<1>13. Leads(After(u), plan[p], r2, h2, d2) /\ \A i \in DOMAIN After(u) : ~ Barrier(After(u)[i])
  <2>1. /\ ~ Over(r2[u.t]) /\ ~ Ending(h2, d2, u.t) /\ u.row.status # "done"
        /\ u.row.db = "live" /\ u.row.parent = r2[u.t].parent
    BY <1>4, <1>6, <1>8, <1>10 DEF Over, Ending
  <2> QED
    BY <1>6, <2>1, AfterLeads
<1>14. Keeps(After(u), plan[p], r2, h2, d2, wire)
  <2>1. \A t \in h2 : r2[t].parent = rows[t].parent
    BY <1>7, <1>8, <1>10 DEF TypeOK
  <2>2. ~ Closes(s) /\ \A t \in Task : ~ Disarms(s, t)
    BY <1>1 DEF Closes, Disarms
  <2> QED
    BY <1>9, <1>13, <2>1, <2>2, PassingKeeps
<1>15. After(u) \in Seq(Step)
  BY <1>6, AfterType
<1>16. OneInFlight' /\ Plans'
  BY <1>1, <1>5, <1>7, <1>12, <1>13, <1>14, <1>15, StepsOn
<1>17. OverIsSilent'
  <2>1. \A t \in Task : Over(r2[t]) => Over(rows[t])
    BY <1>3, <1>8 DEF Over
  <2> QED
    BY <1>5, <1>7, <2>1 DEF SeriesInv, OverIsSilent
<1>18. NoOwnParent'
  <2>1. \A t \in Task : r2[t].parent # t
    BY <1>2, <1>3, <1>4, <1>8 DEF SeriesInv, NoOwnParent
  <2> QED
    BY <1>7, <2>1 DEF NoOwnParent
<1> QED
  BY <1>16, <1>17, <1>18 DEF SeriesInv

(* A message about a task, sent or not.                                    *)
LEMMA MessageFits ==
  ASSUME TypeOK, SeriesInv, NEW p \in Proc, ~Idle(p),
         Next1(p).do \in {"publish", "publishMoved"}, Next1(p).t \in Task,
         NEW a \in Seq(Step), Continue(p, a), UNCHANGED <<rows, held, dirty>>,
         Leads(a, plan[p], rows, held[p], dirty[p]), \A i \in DOMAIN a : ~ Barrier(a[i]),
         NEW n, wire' = [wire EXCEPT ![Next1(p).t] = n],
         n >= 0 => Arms(Next1(p)) \/ n = wire[Next1(p).t],
         \A t \in Task : Disarms(Next1(p), t) => ~ (n >= 0)
  PROVE  SeriesInv'
<1> DEFINE s == Next1(p)
<1>1. /\ plan[p] \in Seq(Step) /\ plan[p] # <<>> /\ plan[p][1] = s
      /\ PlanFits(plan[p], rows, held[p], dirty[p], wire)
      /\ StepFits(s, rows, held[p], dirty[p])
  BY AtPlan, HeadFits
<1>2. PICK w2 : w2 = wire'
  OBVIOUS
<1>3. w2[s.t] = n /\ \A t \in Task : t # s.t => w2[t] = wire[t]
  BY <1>2 DEF TypeOK
<1> HIDE DEF s
<1>4. Arms(s) => ~ Over(rows[s.t]) /\ ~ Ending(held[p], dirty[p], s.t)
  BY <1>1 DEF StepFits
<1>5. ASSUME NEW t \in Task, ~ (t = s.t /\ Arms(s)), Silent(wire, t) \/ Disarms(s, t)
      PROVE  Silent(w2, t)
  <2>1. CASE t # s.t
    <3>1. ~ Disarms(s, t)
      BY <2>1 DEF Disarms
    <3> QED
      BY <1>3, <1>5, <2>1, <3>1 DEF Silent
  <2>2. CASE t = s.t
    BY <1>3, <1>5, <2>2 DEF Silent, s
  <2> QED
    BY <2>1, <2>2
<1>6. Keeps(a, plan[p], rows, held[p], dirty[p], w2)
  <2>1. ~ Closes(plan[p][1])
    BY <1>1 DEF Closes, s
  <2>2. \A t \in Task : Ending(held[p], dirty[p], t) /\ (Silent(wire, t) \/ Disarms(plan[p][1], t))
                          => Silent(w2, t)
    BY <1>1, <1>4, <1>5
  <2> QED
    BY <1>1, <2>1, <2>2, PassingKeeps
<1>7. Respects(plan[p], rows, rows, held[p], dirty[p])
  BY <1>1, SameRespects
<1>8. OneInFlight' /\ Plans'
  <2>1. PICK r2, h2, d2 : /\ r2 = rows' /\ h2 = held'[p] /\ d2 = dirty'[p]
                          /\ r2 = rows /\ h2 = held[p] /\ d2 = dirty[p]
    OBVIOUS
  <2>2. \A q \in Proc \ {p} : held'[q] = held[q]
    OBVIOUS
  <2> QED
    BY <1>2, <1>6, <1>7, <2>1, <2>2, StepsOn
<1>9. OverIsSilent'
  <2>1. \A t \in Task : Over(rows[t]) => Silent(w2, t)
    BY <1>4, <1>5 DEF SeriesInv, OverIsSilent
  <2> QED
    BY <1>2, <2>1 DEF OverIsSilent
<1>10. NoOwnParent'
  BY DEF SeriesInv, NoOwnParent
<1> QED
  BY <1>8, <1>9, <1>10 DEF SeriesInv

(* A handler that gives up once its message was sent.                      *)
LEMMA GivenUpFits ==
  ASSUME TypeOK, SeriesInv, NEW p \in Proc, ~Idle(p), Abort(p), UNCHANGED rows,
         NEW t \in Task, NEW n, wire' = [wire EXCEPT ![t] = n],
         n >= 0 => ~ Over(rows[t])
  PROVE  SeriesInv'
<1>1. plan' = [plan EXCEPT ![p] = <<>>] /\ held' = [held EXCEPT ![p] = {}]
  BY DEF Abort
<1>2. held'[p] = {} /\ \A q \in Proc \ {p} : held'[q] = held[q]
  BY <1>1 DEF TypeOK
<1>3. PlanFits(<<>>, rows', held'[p], dirty'[p], wire')
  BY <1>2, IdleFits
<1>4. \A q \in Proc : ~Idle(q) => q = p
  BY DEF SeriesInv, OneInFlight
<1>5. OneInFlight' /\ Plans'
  BY <1>1, <1>2, <1>3, <1>4, OneMoves
<1>6. PICK w2 : w2 = wire'
  OBVIOUS
<1>7. w2[t] = n /\ \A u \in Task : u # t => w2[u] = wire[u]
  BY <1>6 DEF TypeOK
<1>8. \A u \in Task : Over(rows[u]) => Silent(w2, u)
  BY <1>7 DEF SeriesInv, OverIsSilent, Silent
<1>9. OverIsSilent'
  BY <1>6, <1>8 DEF OverIsSilent
<1> QED
  BY <1>5, <1>9 DEF SeriesInv, NoOwnParent

(* A message arms only a task that is not over; a delete_task disarms, or  *)
(* its failure undoes the transaction.                                     *)
LEMMA SendFits == ASSUME TypeOK, SeriesInv, NEW p \in Proc, Send(p) PROVE SeriesInv'
<1> DEFINE s       == Next1(p)
           quiet   == s.msg = "none" \/ (s.msg = "schedule" /\ s.row.muted)
           message == IF s.msg = "delete" THEN Deleted ELSE s.row.start
           write   == Do("write", s.t, s.row, "none", {})
           after   == IF s.do = "publish" THEN <<>> ELSE <<write>>
<1>1. /\ ~Idle(p) /\ s.do \in {"publish", "publishMoved"} /\ s.t \in Task
      /\ s \in Fields(Statements, Task) /\ s.row \in Row /\ ~ Closes(s)
      /\ s.msg \in {"none", "delete", "schedule", "resched"}
  BY AtType DEF Send, At, Statements, Closes, Fields
<1>2. /\ s.do = "publishMoved" =>
           /\ rows[s.t].db # "absent" /\ s.row.db = "live" /\ s.row.parent = rows[s.t].parent
           /\ s.row.status = "done" => rows[s.t].status = "done"
      /\ Arms(s) => ~ Over(rows[s.t])
  BY <1>1, HeadFits DEF StepFits
<1>3. /\ ~ quiet /\ message >= 0 => Arms(s)
      /\ \A t \in Task : Disarms(s, t) => ~ quiet /\ message = Deleted
  BY <1>1 DEF Arms, Disarms, Deleted
<1>4. ~ (Deleted >= 0)
  BY DEF Deleted
<1>5. /\ write \in Step /\ write.do = "write" /\ write.t = s.t /\ write.row = s.row
      /\ write.msg = "none"
  BY <1>1, DoType DEF Do, Statements
<1> HIDE DEF write
<1>6. StepFits(write, rows, held[p], dirty[p]) \/ s.do = "publish"
  BY <1>1, <1>2, <1>5 DEF StepFits, Closes, Opens, Arms, Ends, Pool
<1>7. ~ Ends(write) /\ ~ EndsChildren(write) /\ ~ Opens(write) /\ ~ Barrier(write)
  BY <1>5 DEF Ends, EndsChildren, Opens, Barrier
<1>8. /\ after \in Seq(Step) /\ Leads(after, plan[p], rows, held[p], dirty[p])
      /\ \A i \in DOMAIN after : ~ Barrier(after[i])
  <2>1. CASE s.do = "publish"
    <3>1. after = <<>> /\ DOMAIN <<>> = {}
      BY <2>1
    <3> QED
      BY <3>1, EmptyPlanType, EmptyLeads
  <2>2. CASE s.do # "publish"
    <3>1. after = <<write>>
      BY <2>2
    <3>2. <<write>> \in Seq(Step)
      BY <1>5, SingletonType
    <3>3. /\ Leads(<<write>>, plan[p], rows, held[p], dirty[p])
          /\ \A i \in DOMAIN <<write>> : ~ Barrier(<<write>>[i])
      BY <1>6, <1>7, <2>2, OneLeads
    <3> HIDE DEF after
    <3> QED
      BY <3>1, <3>2, <3>3
  <2> QED
    BY <2>1, <2>2
<1>9. /\ <<>> \in Seq(Step) /\ Leads(<<>>, plan[p], rows, held[p], dirty[p])
      /\ \A i \in DOMAIN <<>> : ~ Barrier(<<>>[i])
  <2>1. DOMAIN <<>> = {}
    OBVIOUS
  <2> QED
    BY <2>1, EmptyPlanType, EmptyLeads
<1> HIDE DEF s, message, after
<1>10. CASE quiet /\ Read(p, after)
  BY <1>1, <1>3, <1>8, <1>10, PassingReads DEF s
<1>11. CASE /\ ~quiet /\ wire' = [wire EXCEPT ![s.t] = message]
            /\ Continue(p, after) /\ UNCHANGED <<rows, held, dirty>>
  BY <1>1, <1>3, <1>4, <1>8, <1>11, MessageFits DEF s
<1>12. CASE Abort(p) /\ UNCHANGED <<rows, wire>>
  BY <1>1, <1>12, AbortFits
<1>13. CASE ~quiet /\ Abort(p) /\ UNCHANGED rows /\ wire' = [wire EXCEPT ![s.t] = message]
  BY <1>1, <1>2, <1>3, <1>13, GivenUpFits
<1>14. CASE /\ "msg" \notin s.must /\ Continue(p, <<>>) /\ UNCHANGED <<rows, held, dirty>>
            /\ UNCHANGED wire
  <2>1. wire' = [wire EXCEPT ![s.t] = wire[s.t]]
    BY <1>1, <1>14 DEF TypeOK
  <2>2. \A t \in Task : ~ Disarms(s, t)
    BY <1>14 DEF Disarms
  <2> QED
    BY <1>1, <1>9, <1>14, <2>1, <2>2, MessageFits DEF s
<1>15. CASE /\ ~quiet /\ "msg" \notin s.must /\ Continue(p, <<>>)
            /\ UNCHANGED <<rows, held, dirty>> /\ wire' = [wire EXCEPT ![s.t] = message]
  <2>2. \A t \in Task : ~ Disarms(s, t)
    BY <1>15 DEF Disarms
  <2> QED
    BY <1>1, <1>3, <1>9, <1>15, <2>2, MessageFits DEF s
<1> QED
  BY <1>10, <1>11, <1>12, <1>13, <1>14, <1>15 DEF Send, Read, s, message, after, write

-----------------------------------------------------------------------------
(* New requests.  A handler that begins holds nothing.                     *)

(* A list that a handler which holds nothing may begin with.               *)
Fresh(f, r, d) ==
  /\ \A i \in DOMAIN f : /\ StepFits(f[i], r, {}, d) /\ f[i].do # "txdeletechildren"
                         /\ i # 1 => LaterFits(f[i])
  /\ \A i, k \in DOMAIN f : k < i => PairFits(f[k], f[i], r)
  /\ \A i \in DOMAIN f : Opens(f[i]) => \E j \in DOMAIN f : i < j /\ Closes(f[j])

(* A handler that begins while the others are idle, with a fresh list.     *)
LEMMA FreshFits ==
  ASSUME TypeOK, SeriesInv, OneAtATime, NEW p \in Proc, Idle(p),
         Cardinality(InFlight) < MaxInFlight,
         NEW f, plan' = [plan EXCEPT ![p] = f], UNCHANGED <<wire, held, dirty>>,
         NEW r2, r2 = rows', Fresh(f, r2, dirty[p]),
         \A t \in Task : r2[t].parent # t /\ (Over(r2[t]) => Over(rows[t]))
  PROVE  SeriesInv'
<1>1. IsFiniteSet(Proc)
  BY ServiceAssumption, FS_AddElement DEF Proc
<1>2. InFlight = {}
  <2>1. IsFiniteSet(InFlight)
    BY <1>1, FS_Subset DEF InFlight
  <2>2. Cardinality(InFlight) = 0
    BY <2>1, FS_CardinalityType DEF OneAtATime
  <2> QED
    BY <2>1, <2>2, FS_EmptySet
<1>3. \A q \in Proc : ~Idle(q) => q = p
  BY <1>2 DEF InFlight
<1>4. held[p] = {}
  <2>1. DOMAIN plan[p] = {}
    BY DEF Idle
  <2> QED
    BY <2>1, AtPlan DEF PlanFits
<1>5. PlanFits(f, r2, {}, dirty[p], wire)
  BY DEF PlanFits, Fresh, Ending
<1>6. OneInFlight' /\ Plans'
  <2>1. PlanFits(f, rows', held'[p], dirty'[p], wire')
    BY <1>4, <1>5
  <2> QED
    BY <1>3, <2>1, OneMoves
<1>7. OverIsSilent'
  <2>1. \A t \in Task : Over(r2[t]) => Silent(wire, t)
    BY DEF SeriesInv, OverIsSilent
  <2> QED
    BY <2>1 DEF OverIsSilent
<1>8. NoOwnParent'
  BY DEF NoOwnParent
<1> QED
  BY <1>6, <1>7, <1>8 DEF SeriesInv

(* A request that begins by reading only.                                  *)
LEMMA BeginFits ==
  ASSUME TypeOK, SeriesInv, OneAtATime, NEW p \in Proc, NEW op, NEW f, Begin(p, op, f),
         UNCHANGED rows, Fresh(f, rows, dirty[p])
  PROVE  SeriesInv'
<1>1. \A t \in Task : rows[t].parent # t
  BY DEF SeriesInv, NoOwnParent
<1>2. PICK r2 : r2 = rows' /\ r2 = rows
  OBVIOUS
<1> QED
  BY <1>1, <1>2, FreshFits DEF Begin

(* Statements that end and open nothing.                                   *)
LEMMA PlainFresh ==
  ASSUME NEW f, NEW r, NEW d,
         \A i \in DOMAIN f : /\ StepFits(f[i], r, {}, d) /\ (i # 1 => LaterFits(f[i]))
                             /\ ~ Ends(f[i]) /\ ~ EndsChildren(f[i]) /\ ~ Opens(f[i])
  PROVE  Fresh(f, r, d)
<1>1. \A i \in DOMAIN f : f[i].do # "txdeletechildren"
  BY DEF Opens
<1>2. \A i \in DOMAIN f : \A s : PairFits(f[i], s, r)
  BY DEF PairFits
<1> QED
  BY <1>1, <1>2 DEF Fresh

(* Statements that arm nothing.                                            *)
LEMMA SilentFresh ==
  ASSUME NEW f, NEW r, NEW d,
         \A i \in DOMAIN f : /\ StepFits(f[i], r, {}, d) /\ LaterFits(f[i])
                             /\ ~ Arms(f[i]) /\ ~ Pool(f[i]) /\ f[i].do # "sync",
         \A i \in DOMAIN f : Opens(f[i]) => \E j \in DOMAIN f : i < j /\ Closes(f[j])
  PROVE  Fresh(f, r, d)
<1>1. \A i \in DOMAIN f : \A s : PairFits(s, f[i], r)
  BY DEF PairFits
<1>2. \A i \in DOMAIN f : f[i].do # "txdeletechildren"
  BY DEF LaterFits
<1> QED
  BY <1>1, <1>2 DEF Fresh

(* A request that has nothing more to do.                                  *)
LEMMA EmptyFresh == ASSUME NEW r, NEW d PROVE Fresh(<<>>, r, d)
<1>1. DOMAIN <<>> = {}
  OBVIOUS
<1> QED
  BY <1>1 DEF Fresh

(* A request that has one statement to run.                                *)
LEMMA OneFresh ==
  ASSUME NEW s, NEW r, NEW d, StepFits(s, r, {}, d), ~ Opens(s)
  PROVE  Fresh(<<s>>, r, d)
<1> DEFINE f == <<s>>
<1>1. DOMAIN f = {1} /\ f[1] = s
  OBVIOUS
<1> HIDE DEF f
<1>2. s.do # "txdeletechildren"
  BY DEF Opens
<1>3. \A i, k \in DOMAIN f : ~ (k < i)
  BY <1>1
<1>4. Fresh(f, r, d)
  BY <1>1, <1>2, <1>3 DEF Fresh
<1> QED
  BY <1>4 DEF f

(* A created task is live, and nothing is armed.                           *)
LEMMA CreateTaskFits ==
  ASSUME TypeOK, SeriesInv, OneAtATime, NEW p \in Proc, CreateTask(p) PROVE SeriesInv'
<1> DEFINE id == NewId
<1>1. PICK row \in CreateRequests :
        /\ Free # {}
        /\ rows' = [rows EXCEPT ![id] = row]
        /\ Begin(p, "create",
                 IF isRecurrenceParentWithConfirmation(row)
                   THEN <<Do("insert", id, childOf(row, id, row.start, "pending"),
                             "none", {})>>
                   ELSE <<>>)
  BY DEF CreateTask
<1>2. row \in Row /\ row.db = "live" /\ row.parent = NoTask
  BY ServiceAssumption
<1>3. id \in Task /\ rows[id].db = "absent"
  BY <1>1, FreeType
<1> HIDE DEF id
<1>4. PICK r2 : r2 = rows'
  OBVIOUS
<1>5. r2[id] = row /\ \A t \in Task : t # id => r2[t] = rows[t]
  BY <1>1, <1>3, <1>4 DEF TypeOK
<1>6. \A t \in Task : r2[t].parent # t /\ (Over(r2[t]) => Over(rows[t]))
  <2>1. NoTask # id
    BY <1>3, RowsAssumption DEF NoTask, Task
  <2> QED
    BY <1>2, <1>3, <1>5, <2>1 DEF SeriesInv, NoOwnParent, Over
<1> DEFINE s == Do("insert", id, childOf(row, id, row.start, "pending"), "none", {})
<1>7. /\ s.do = "insert" /\ s.t = id /\ s.msg = "none" /\ s.row.db = "live"
      /\ s.row.parent = id /\ s.row.status = "pending"
  BY DEF Do, childOf
<1> HIDE DEF s
<1>8. Fresh(<<s>>, r2, dirty[p])
  <2>1. StepFits(s, r2, {}, dirty[p]) /\ ~ Opens(s)
    BY <1>2, <1>5, <1>7 DEF StepFits, Arms, Ends, Opens, Closes, Pool
  <2> QED
    BY <2>1, OneFresh
<1>9. PICK f : f = (IF isRecurrenceParentWithConfirmation(row) THEN <<s>> ELSE <<>>)
  OBVIOUS
<1>10. Fresh(f, r2, dirty[p])
  BY <1>8, <1>9, EmptyFresh
<1>11. Begin(p, "create", f)
  BY <1>1, <1>9 DEF s
<1> QED
  BY <1>4, <1>6, <1>10, <1>11, FreshFits DEF Begin

(* A client may queue a message only about a task that is not over.        *)
LEMMA QueueTaskFits ==
  ASSUME TypeOK, SeriesInv, OneAtATime, NEW p \in Proc, QueueTask(p) PROVE SeriesInv'
<1>1. PICK t \in Task, msg \in {"schedule", "delete"} :
        /\ GetTaskByID(rows, t)
        /\ Begin(p, "queue", <<Publish(t, rows[t], msg, {"msg"})>>)
        /\ UNCHANGED rows
  BY DEF QueueTask
<1> DEFINE s == Publish(t, rows[t], msg, {"msg"})
<1>2. s.do = "publish" /\ s.t = t /\ s.row = rows[t] /\ s.msg = msg
  BY DEF Publish, Do
<1>3. ~ Over(rows[t]) /\ rows[t].status # "done"
  BY <1>1 DEF GetTaskByID, Live, Over
<1>4. Begin(p, "queue", <<s>>) /\ UNCHANGED rows
  BY <1>1
<1> HIDE DEF s
<1>5. StepFits(s, rows, {}, dirty[p]) /\ ~ Opens(s)
  BY <1>2, <1>3 DEF StepFits, Arms, Ends, Opens, Closes, Pool, Ending
<1> QED
  BY <1>4, <1>5, OneFresh, BeginFits

(* A deletion ends the children and the task, then commits.                *)
LEMMA DeleteTaskFits ==
  ASSUME TypeOK, SeriesInv, OneAtATime, NEW p \in Proc, DeleteTask(p) PROVE SeriesInv'
<1>1. PICK t \in Task :
        /\ Begin(p, "delete",
                 (IF rows[t].rule
                    THEN <<Do("deleteChildren", t, rows[t], "none", {"row"})>> ELSE <<>>)
                 \o <<Do("txdelete", t, rows[t], "delete", {"row", "msg"}), Commit>>)
        /\ UNCHANGED rows
  BY DEF DeleteTask
<1> DEFINE c == Do("deleteChildren", t, rows[t], "none", {"row"})
           e == Do("txdelete", t, rows[t], "delete", {"row", "msg"})
           x == IF rows[t].rule THEN <<c>> ELSE <<>>
           y == <<e, Commit>>
           f == x \o y
<1>2. /\ c \in Step /\ c.do = "deleteChildren" /\ c.msg = "none" /\ "row" \in c.must
      /\ e \in Step /\ e.do = "txdelete" /\ e.msg = "delete" /\ e.must = {"row", "msg"}
  BY RowType, DoType DEF Do, Statements
<1> HIDE DEF c, e
<1>3. Commit \in Step
  BY CommitType
<1>4. /\ y \in Seq(Step) /\ DOMAIN y = 1..2 /\ y[1] = e /\ y[2] = Commit
  BY <1>2, <1>3
<1>5. x \in Seq(Step) /\ \A i \in DOMAIN x : x[i] = c
  <2>1. <<c>> \in Seq(Step) /\ DOMAIN <<c>> = {1} /\ <<c>>[1] = c
    BY <1>2, SingletonType
  <2>2. <<>> \in Seq(Step) /\ DOMAIN <<>> = {}
    BY EmptyPlanType
  <2> QED
    BY <2>1, <2>2
<1> HIDE DEF x
<1>6. /\ Len(x) \in Nat /\ DOMAIN x = 1..Len(x) /\ Len(y) = 2
  BY <1>4, <1>5, LenProperties
<1> HIDE DEF y
<1>7. /\ DOMAIN f = 1..(Len(x) + 2)
      /\ \A i \in DOMAIN f : f[i] = IF i <= Len(x) THEN x[i] ELSE y[i - Len(x)]
  <2>1. /\ f \in Seq(Step) /\ Len(f) = Len(x) + Len(y)
        /\ \A i \in 1..Len(f) : f[i] = IF i <= Len(x) THEN x[i] ELSE y[i - Len(x)]
    BY <1>4, <1>5, ConcatProperties
  <2> QED
    BY <1>6, <2>1, LenProperties
<1>8. Begin(p, "delete", f) /\ UNCHANGED rows
  BY <1>1 DEF x, y, c, e
<1> HIDE DEF f
<1>9. Len(x) + 2 \in DOMAIN f /\ f[Len(x) + 2] = Commit
  BY <1>4, <1>6, <1>7
<1>10. ASSUME NEW i \in DOMAIN f PROVE f[i] = c \/ f[i] = e \/ (f[i] = Commit /\ i = Len(x) + 2)
  <2>1. CASE i <= Len(x)
    BY <1>5, <1>6, <1>7, <1>10, <2>1
  <2>2. CASE ~ (i <= Len(x))
    <3>1. i = Len(x) + 1 \/ i = Len(x) + 2
      BY <1>6, <1>7, <2>2
    <3> QED
      BY <1>4, <1>6, <1>7, <2>2, <3>1
  <2> QED
    BY <2>1, <2>2
<1>11. \A s \in {c, e} : /\ StepFits(s, rows, {}, dirty[p]) /\ LaterFits(s) /\ ~ Arms(s)
                         /\ ~ Pool(s) /\ s.do # "sync"
  BY <1>2 DEF StepFits, LaterFits, Arms, Ends, Opens, Closes, Pool
<1>12. \A i \in DOMAIN f : /\ StepFits(f[i], rows, {}, dirty[p]) /\ LaterFits(f[i])
                           /\ ~ Arms(f[i]) /\ ~ Pool(f[i]) /\ f[i].do # "sync"
  BY <1>10, <1>11, CommitStepFits
<1>13. \A i \in DOMAIN f : Opens(f[i]) => i < Len(x) + 2
  <2>1. ASSUME NEW i \in DOMAIN f, Opens(f[i]) PROVE i < Len(x) + 2
    <3>1. f[i] # Commit
      BY <2>1, CommitStepFits
    <3>2. i # Len(x) + 2
      BY <1>9, <3>1
    <3> QED
      BY <1>6, <1>7, <3>2
  <2> QED
    BY <2>1
<1>14. Fresh(f, rows, dirty[p])
  <2>1. Closes(f[Len(x) + 2])
    BY <1>9, CommitStepFits
  <2> QED
    BY <1>9, <1>12, <1>13, <2>1, SilentFresh
<1> QED
  BY <1>8, <1>14, BeginFits

(* Muting writes the row and takes it out of the worker.                   *)
LEMMA MuteTaskFits ==
  ASSUME TypeOK, SeriesInv, OneAtATime, NEW p \in Proc, MuteTask(p) PROVE SeriesInv'
<1>1. PICK t \in Task :
        /\ Live(rows, t)
        /\ LET new == [rows[t] EXCEPT !.muted = TRUE] IN
             Begin(p, "mute",
               <<Do("write", t, new, "none", {"row"})>>
               \o (IF isRecurrenceParentWithConfirmation(new)
                     THEN <<Do("muteChildren", t, new, "none", {})>> ELSE <<>>)
               \o <<Publish(t, new, "delete", {})>>)
        /\ UNCHANGED rows
  BY DEF MuteTask
<1>2. PICK new : new = [rows[t] EXCEPT !.muted = TRUE]
  OBVIOUS
<1>3. new \in Row /\ new.db = "live" /\ new.parent = rows[t].parent /\ new.status = rows[t].status
  BY <1>1, <1>2, LiveRow DEF Row
<1> DEFINE w == Do("write", t, new, "none", {"row"})
           m == Do("muteChildren", t, new, "none", {})
           u == Publish(t, new, "delete", {})
           x == IF isRecurrenceParentWithConfirmation(new) THEN <<m>> ELSE <<>>
           f == <<w>> \o x \o <<u>>
<1>4. /\ w \in Step /\ w.do = "write" /\ w.t = t /\ w.row = new /\ w.msg = "none"
      /\ m \in Step /\ m.do = "muteChildren" /\ m.msg = "none"
      /\ u \in Step /\ u.do = "publish" /\ u.msg = "delete"
  BY <1>3, DoType DEF Do, Publish, Statements
<1> HIDE DEF w, m, u
<1>5. x \in Seq(Step) /\ \A i \in DOMAIN x : x[i] = m
  <2>1. <<m>> \in Seq(Step) /\ DOMAIN <<m>> = {1} /\ <<m>>[1] = m
    BY <1>4, SingletonType
  <2>2. <<>> \in Seq(Step) /\ DOMAIN <<>> = {}
    BY EmptyPlanType
  <2> QED
    BY <2>1, <2>2
<1> HIDE DEF x
<1> DEFINE o == <<w>>
           g == o \o x
<1>6. o \in Seq(Step) /\ DOMAIN o = {1} /\ o[1] = w /\ o # <<>>
  BY <1>4, SingletonType
<1>7. f = g \o <<u>> /\ Begin(p, "mute", f) /\ UNCHANGED rows
  BY <1>1, <1>2 DEF x, w, m, u
<1> HIDE DEF f, o
<1>8. g \in Seq(Step) /\ Joined(o, x, g)
  BY <1>5, <1>6, ConcatParts
<1>9. \A i \in DOMAIN g : g[i] = w \/ (g[i] = m /\ i # 1)
  BY <1>5, <1>6, <1>8 DEF Joined
<1>10. 1 \in DOMAIN g
  BY <1>6, <1>8 DEF Joined
<1> HIDE DEF g
<1>11. ASSUME NEW i \in DOMAIN f PROVE (f[i] = w /\ i = 1) \/ f[i] = m \/ f[i] = u
  <2>1. \A j \in DOMAIN g : g[j] = w => j = 1
    <3>1. \A j \in DOMAIN g : j # 1 => g[j] = m
      BY <1>5, <1>6, <1>8 DEF Joined
    <3>2. m # w
      BY <1>4
    <3> QED
      BY <3>1, <3>2
  <2>2. (i \in DOMAIN g /\ f[i] = g[i]) \/ f[i] = u
    BY <1>4, <1>7, <1>8, <1>11, LastParts
  <2> QED
    BY <1>9, <2>1, <2>2
<1>12. rows[t].db # "absent"
  BY <1>1 DEF Live
<1>13. \A s \in {w, m, u} : /\ StepFits(s, rows, {}, dirty[p])
                            /\ ~ Ends(s) /\ ~ EndsChildren(s) /\ ~ Opens(s)
  BY <1>3, <1>4, <1>12 DEF StepFits, Arms, Ends, EndsChildren, Opens, Closes, Pool
<1>14. LaterFits(m) /\ LaterFits(u)
  BY <1>4 DEF LaterFits
<1>15. Fresh(f, rows, dirty[p])
  BY <1>11, <1>13, <1>14, PlainFresh
<1> QED
  BY <1>7, <1>15, BeginFits

(* The job begins with overdue tasks, none of them over.                   *)
LEMMA RunScheduledReschedulingFits ==
  ASSUME TypeOK, SeriesInv, OneAtATime, RunScheduledRescheduling PROVE SeriesInv'
<1> DEFINE due == GetTasksNeedingRescheduling(rows, now)
           each(order) == [i \in DOMAIN order |->
                             Do("reschedule", order[i], rows[order[i]], "none", {})]
           last == Do("reschedulecron", NoTask, Absent, "none", {})
<1>1. PICK order \in SetToSeqs(due) :
        plan' = [plan EXCEPT ![Cron] = each(order) \o <<last>>]
  BY DEF RunScheduledRescheduling
<1>2. due \in SUBSET Task
  BY DEF GetTasksNeedingRescheduling
<1>3. ASSUME NEW c \in due
      PROVE  c \in Task /\ rows[c] \in Row /\ rows[c].db = "live" /\ rows[c].status # "done"
  BY <1>3, RowType DEF GetTasksNeedingRescheduling, Live
<1> DEFINE e == each(order)
           f == e \o <<last>>
<1>4. ASSUME NEW i \in DOMAIN order
      PROVE  /\ e[i] \in Step /\ e[i].do = "reschedule" /\ e[i].t \in Task
             /\ e[i].row = rows[e[i].t] /\ e[i].msg = "none"
             /\ rows[e[i].t].db = "live" /\ rows[e[i].t].status # "done"
  <2>1. order[i] \in due
    BY <1>2, <1>4, OrderType
  <2>2. e[i] = Do("reschedule", order[i], rows[order[i]], "none", {})
    BY <1>4
  <2> HIDE DEF each, due, e
  <2>3. e[i] \in Step
    BY <1>3, <2>1, <2>2, DoType DEF Statements
  <2>4. e[i].do = "reschedule" /\ e[i].t = order[i] /\ e[i].row = rows[order[i]] /\ e[i].msg = "none"
    BY <2>2 DEF Do
  <2> QED
    BY <1>3, <2>1, <2>3, <2>4
<1>5. e \in Seq(Step)
  BY <1>2, <1>4, ForEachType
<1>6. DOMAIN e = DOMAIN order
  OBVIOUS
<1>7. last \in Step /\ last.do = "reschedulecron" /\ last.msg = "none"
  BY AbsentType DEF Do, Step, Fields
<1>8. plan' = [plan EXCEPT ![Cron] = f]
  BY <1>1
<1> HIDE DEF each, due, e, last
<1>9. \A i \in DOMAIN f : (i \in DOMAIN e /\ f[i] = e[i]) \/ f[i] = last
  BY <1>5, <1>7, LastParts
<1> HIDE DEF f
<1>10. ASSUME NEW s,
              \/ s = last
              \/ /\ s.do = "reschedule" /\ s.row = rows[s.t] /\ s.msg = "none"
                 /\ rows[s.t].db = "live" /\ rows[s.t].status # "done"
       PROVE  /\ StepFits(s, rows, {}, dirty[Cron]) /\ LaterFits(s)
              /\ ~ Ends(s) /\ ~ EndsChildren(s) /\ ~ Opens(s)
  BY <1>7, <1>10 DEF StepFits, LaterFits, Arms, Ends, EndsChildren, Opens, Closes, Pool,
                     Over, Ending
<1>11. Fresh(f, rows, dirty[Cron])
  <2>1. \A i \in DOMAIN f : \/ f[i] = last
                            \/ /\ f[i].do = "reschedule" /\ f[i].row = rows[f[i].t]
                               /\ f[i].msg = "none"
                               /\ rows[f[i].t].db = "live" /\ rows[f[i].t].status # "done"
    BY <1>4, <1>6, <1>9
  <2> QED
    BY <1>10, <2>1, PlainFresh
<1>12. \A t \in Task : rows[t].parent # t
  BY DEF SeriesInv, NoOwnParent
<1>13. PICK r2 : r2 = rows' /\ r2 = rows
  BY DEF RunScheduledRescheduling
<1>14. /\ Cron \in Proc /\ Idle(Cron) /\ Cardinality(InFlight) < MaxInFlight
       /\ UNCHANGED <<wire, held, dirty>>
  BY DEF RunScheduledRescheduling, Proc
<1> QED
  BY <1>8, <1>11, <1>12, <1>13, <1>14, FreshFits

(* A completion ends the task before the commit; the series goes on after  *)
(* it.                                                                     *)
LEMMA MarkTaskAsDoneFits ==
  ASSUME TypeOK, SeriesInv, OneAtATime, NEW p \in Proc, MarkTaskAsDone(p) PROVE SeriesInv'
<1>1. PICK t \in Task :
        /\ Live(rows, t)
        /\ LET new == [rows[t] EXCEPT !.status = "done"] IN
             Begin(p, "done",
               <<Do("txwrite", t, new, "delete", {"row", "msg"}), Commit>>
               \o (IF new.parent # NoTask
                     THEN <<Do("nextChild", new.parent, new, "none", {})>> ELSE <<>>)
               \o (IF new.rule
                     THEN <<Do("doneChildren", t, new, "none", {})>> ELSE <<>>))
        /\ UNCHANGED rows
  BY DEF MarkTaskAsDone
<1>2. PICK new : new = [rows[t] EXCEPT !.status = "done"]
  OBVIOUS
<1>3. new \in Row /\ new.db = "live" /\ new.parent = rows[t].parent /\ new.status = "done"
  BY <1>1, <1>2, LiveRow DEF Row, Status
<1> DEFINE w == Do("txwrite", t, new, "delete", {"row", "msg"})
           n == Do("nextChild", new.parent, new, "none", {})
           c == Do("doneChildren", t, new, "none", {})
           x == IF new.parent # NoTask THEN <<n>> ELSE <<>>
           y == IF new.rule THEN <<c>> ELSE <<>>
           o == <<w, Commit>>
           g == o \o x
           f == g \o y
<1>4. /\ w \in Step /\ w.do = "txwrite" /\ w.t = t /\ w.row = new /\ w.msg = "delete"
      /\ w.must = {"row", "msg"}
      /\ new.parent # NoTask => n \in Step /\ n.do = "nextChild" /\ n.msg = "none"
      /\ c \in Step /\ c.do = "doneChildren" /\ c.msg = "none"
      /\ Commit \in Step
  <2>1. new.parent \in Task \cup {NoTask}
    BY <1>3 DEF Row
  <2> QED
    BY <1>3, <2>1, DoType, CommitType DEF Do, Statements
<1>5. n.do = "nextChild" /\ n.msg = "none"
  BY DEF Do
<1> HIDE DEF w, n, c
<1>6. x \in Seq(Step) /\ \A i \in DOMAIN x : x[i] = n
  <2>1. CASE new.parent # NoTask
    <3>1. <<n>> \in Seq(Step) /\ DOMAIN <<n>> = {1} /\ <<n>>[1] = n
      BY <1>4, <2>1, SingletonType
    <3> QED
      BY <2>1, <3>1
  <2>2. CASE new.parent = NoTask
    BY <2>2, EmptyPlanType
  <2> QED
    BY <2>1, <2>2
<1>7. y \in Seq(Step) /\ \A i \in DOMAIN y : y[i] = c
  <2>1. <<c>> \in Seq(Step) /\ DOMAIN <<c>> = {1} /\ <<c>>[1] = c
    BY <1>4, SingletonType
  <2>2. <<>> \in Seq(Step) /\ DOMAIN <<>> = {}
    BY EmptyPlanType
  <2> QED
    BY <2>1, <2>2
<1>8. o \in Seq(Step) /\ DOMAIN o = {1, 2} /\ o[1] = w /\ o[2] = Commit
  BY <1>4
<1>9. Begin(p, "done", f) /\ UNCHANGED rows
  BY <1>1, <1>2 DEF w, n, c
<1> HIDE DEF x, y, o
<1>10. g \in Seq(Step) /\ Joined(o, x, g)
  BY <1>6, <1>8, ConcatParts
<1> HIDE DEF g
<1>11. f \in Seq(Step) /\ Joined(g, y, f)
  BY <1>7, <1>10, ConcatParts DEF f
<1> HIDE DEF f
<1>12. ASSUME NEW i \in DOMAIN f
       PROVE  (f[i] = w /\ i = 1) \/ f[i] = Commit \/ f[i] = n \/ f[i] = c
  <2>1. \A j \in DOMAIN g : (g[j] = w /\ j = 1) \/ g[j] = Commit \/ g[j] = n
    BY <1>6, <1>8, <1>10 DEF Joined
  <2>2. (i \in DOMAIN g /\ f[i] = g[i]) \/ f[i] = c
    BY <1>7, <1>11 DEF Joined
  <2> QED
    BY <2>1, <2>2
<1>13. 2 \in DOMAIN f /\ f[2] = Commit
  BY <1>8, <1>10, <1>11 DEF Joined
<1>14. rows[t].db # "absent"
  BY <1>1 DEF Live
<1>15. \A s \in {w, n, c} : /\ StepFits(s, rows, {}, dirty[p]) /\ LaterFits(s) /\ ~ Arms(s)
                            /\ ~ Pool(s) /\ s.do # "sync"
  BY <1>3, <1>4, <1>5, <1>14
     DEF StepFits, LaterFits, Arms, Ends, EndsChildren, Opens, Closes, Pool
<1>16. ~ Opens(n) /\ ~ Opens(c) /\ ~ Opens(Commit) /\ Closes(Commit)
  BY <1>4, <1>5, CommitStepFits DEF Opens
<1>17. \A i \in DOMAIN f : /\ StepFits(f[i], rows, {}, dirty[p]) /\ LaterFits(f[i])
                           /\ ~ Arms(f[i]) /\ ~ Pool(f[i]) /\ f[i].do # "sync"
  BY <1>12, <1>15, CommitStepFits
<1>18. \A i \in DOMAIN f : Opens(f[i]) => i < 2
  BY <1>12, <1>16
<1>19. Fresh(f, rows, dirty[p])
  BY <1>13, <1>16, <1>17, <1>18, SilentFresh
<1> QED
  BY <1>9, <1>19, BeginFits

(* What an update leaves of the row.                                       *)
LEMMA UpdatedRow ==
  ASSUME NEW old \in Row, NEW u \in Put, u.status # "done",
         NEW new, new = applyUpdate(old, u)
  PROVE  /\ new \in Row /\ new.db = old.db /\ new.parent = old.parent
         /\ old.status # "done" => new.status # "done"
<1>1. new \in Row
  BY UpdatedType
<1> DEFINE st == IF u.status = "keep" THEN old.status ELSE u.status
           sd == IF u.start = -1 THEN old.start ELSE u.start
           ru == IF u.rule = "keep" THEN old.rule ELSE u.rule = "set"
           co == IF u.conf = "keep" THEN old.conf ELSE u.conf = "on"
           mu == IF u.muted = "keep" THEN old.muted ELSE u.muted = "on"
<1>2. new = [old EXCEPT !.status = st, !.start = sd, !.rule = ru, !.conf = co, !.muted = mu]
  BY DEF applyUpdate
<1>3. old.status # "done" => st # "done"
  OBVIOUS
<1> HIDE DEF st, sd, ru, co, mu
<1>4. new.db = old.db /\ new.parent = old.parent /\ new.status = st
  BY <1>2 DEF Row
<1> QED
  BY <1>1, <1>3, <1>4

(* The messages of an update are of two kinds.                             *)
LEMMA OwnParts ==
  ASSUME NEW t \in Task, NEW old \in Row, NEW new \in Row, NEW u \in Put,
         NEW own, own = ownMessages(t, old, new, u)
  PROVE  /\ own \in Seq(Step)
         /\ \A i \in DOMAIN own : own[i] \in {Publish(t, new, "delete", {}),
                                              Do("resched", t, new, "resched", {})}
<1> DEFINE d == Publish(t, new, "delete", {})
           r == Do("resched", t, new, "resched", {})
           E == {d, r}
           why == changesOf(old, new, u)
           toDeleted == old.status # new.status /\ new.status = "deleted"
           toScheduled == old.status # new.status /\ new.status = "scheduled"
           first == IF toDeleted THEN <<d>>
                    ELSE IF toScheduled \/ {"meta", "start", "rule"} \cap why # {}
                      THEN <<r>>
                      ELSE <<>>
           second == IF "muteToggled" \notin why THEN <<>>
                     ELSE IF new.muted THEN <<d>> ELSE <<r>>
<1>1. own = first \o second
  BY DEF ownMessages
<1>2. own \in Seq(Step)
  BY OwnMessagesType
<1>3. first \in Seq(E) /\ second \in Seq(E)
  <2> HIDE DEF d, r, why
  <2>1. <<d>> \in Seq(E) /\ <<r>> \in Seq(E) /\ <<>> \in Seq(E)
    OBVIOUS
  <2> HIDE DEF E
  <2> QED
    BY <2>1
<1> HIDE DEF first, second, E
<1>4. own \in Seq(E)
  BY <1>1, <1>3, ConcatProperties
<1>5. \A i \in DOMAIN own : own[i] \in E
  BY <1>4, ElementOfSeq, LenProperties
<1> QED
  BY <1>2, <1>5 DEF E

(* An update in a transaction: the row and its messages, the children, and *)
(* what follows the commit.                                                *)
LEMMA SyncFresh ==
  ASSUME NEW pre \in Seq(Step), NEW s \in Step, NEW post \in Seq(Step),
         NEW f, f = pre \o <<s>> \o post, NEW r, NEW d,
         s.do = "sync", StepFits(s, r, {}, d),
         \A i \in DOMAIN pre :
           /\ StepFits(pre[i], r, {}, d) /\ LaterFits(pre[i])
           /\ ~ Ends(pre[i]) /\ ~ EndsChildren(pre[i]) /\ ~ Pool(pre[i]),
         \A i \in DOMAIN post :
           /\ StepFits(post[i], r, {}, d) /\ LaterFits(post[i]) /\ ~ Opens(post[i])
           /\ ~ Arms(post[i]) /\ ~ Pool(post[i]) /\ post[i].do # "sync"
  PROVE  Fresh(f, r, d)
<1> DEFINE n == Len(pre)
           m == Len(post)
           one == <<s>>
           g == pre \o one
<1>1. one \in Seq(Step) /\ Len(one) = 1 /\ one[1] = s
  OBVIOUS
<1>2. /\ n \in Nat /\ DOMAIN pre = 1..n /\ m \in Nat /\ DOMAIN post = 1..m
  BY LenProperties
<1> HIDE DEF one
<1>3. /\ g \in Seq(Step) /\ Len(g) = n + 1
      /\ \A i \in 1..Len(g) : g[i] = IF i <= n THEN pre[i] ELSE one[i - n]
  <2>1. /\ pre \o one \in Seq(Step) /\ Len(pre \o one) = Len(pre) + Len(one)
        /\ \A i \in 1..Len(pre) + Len(one) :
             (pre \o one)[i] = IF i <= Len(pre) THEN pre[i] ELSE one[i - Len(pre)]
    BY <1>1, ConcatProperties
  <2> HIDE DEF n
  <2>2. n = Len(pre)
    BY DEF n
  <2> HIDE DEF g
  <2>3. g = pre \o one
    BY DEF g
  <2> QED
    BY <1>1, <1>2, <2>1, <2>2, <2>3
<1>4. f = g \o post
  BY DEF one
<1> HIDE DEF g
<1>5. /\ f \in Seq(Step) /\ Len(f) = n + 1 + m
      /\ \A i \in 1..Len(f) : f[i] = IF i <= n + 1 THEN g[i] ELSE post[i - (n + 1)]
  BY <1>3, <1>4, ConcatProperties
<1> HIDE DEF n, m
<1>6. DOMAIN f = 1..(n + 1 + m)
  BY <1>5, LenProperties
<1>7. ASSUME NEW i \in DOMAIN f
      PROVE  /\ i <= n => i \in DOMAIN pre /\ f[i] = pre[i]
             /\ i = n + 1 => f[i] = s
             /\ i > n + 1 => i - (n + 1) \in DOMAIN post /\ f[i] = post[i - (n + 1)]
  <2>1. CASE i <= n
    BY <1>2, <1>3, <1>5, <1>6, <1>7, <2>1
  <2>2. CASE i = n + 1
    <3>1. f[i] = g[n + 1] /\ g[n + 1] = one[1]
      BY <1>2, <1>3, <1>5, <1>6, <1>7, <2>2
    <3> QED
      BY <1>1, <1>2, <2>2, <3>1
  <2>3. CASE i > n + 1
    BY <1>2, <1>5, <1>6, <1>7, <2>3
  <2> QED
    BY <1>2, <1>6, <1>7, <2>1, <2>2, <2>3
<1>8. ASSUME NEW i \in DOMAIN f PROVE i <= n \/ i = n + 1 \/ i > n + 1
  <2>1. i \in Nat /\ n \in Nat
    BY <1>2, <1>6, <1>8
  <2> QED
    BY <2>1
<1>9. LaterFits(s) /\ s.do # "txdeletechildren" /\ ~ Opens(s) /\ ~ Pool(s) /\ Closes(s)
  BY DEF LaterFits, Opens, Pool, Closes
<1>10. ASSUME NEW i \in DOMAIN f
       PROVE  StepFits(f[i], r, {}, d) /\ LaterFits(f[i]) /\ f[i].do # "txdeletechildren"
  <2>1. CASE i <= n
    BY <1>7, <2>1 DEF LaterFits
  <2>2. CASE i = n + 1
    BY <1>7, <1>9, <2>2
  <2>3. CASE i > n + 1
    BY <1>7, <2>3 DEF LaterFits
  <2> QED
    BY <1>8, <2>1, <2>2, <2>3
<1>11. ASSUME NEW i \in DOMAIN f, NEW k \in DOMAIN f, k < i PROVE PairFits(f[k], f[i], r)
  <2>1. CASE i > n + 1
    <3>1. ~ Arms(f[i]) /\ ~ Pool(f[i]) /\ f[i].do # "sync"
      BY <1>7, <2>1
    <3> QED
      BY <3>1 DEF PairFits
  <2>2. CASE ~ (i > n + 1)
    <3>1. k <= n
      BY <1>2, <1>6, <1>11, <2>2
    <3>2. ~ Ends(f[k]) /\ ~ EndsChildren(f[k])
      BY <1>7, <3>1
    <3>3. ~ Pool(f[i])
      <4>1. CASE i <= n
        BY <1>7, <4>1
      <4>2. CASE i = n + 1
        BY <1>7, <1>9, <4>2
      <4> QED
        BY <1>8, <2>2, <4>1, <4>2
    <3> QED
      BY <3>2, <3>3 DEF PairFits
  <2> QED
    BY <2>1, <2>2
<1>12. ASSUME NEW i \in DOMAIN f, Opens(f[i]) PROVE \E j \in DOMAIN f : i < j /\ Closes(f[j])
  <2>1. i <= n
    <3>1. CASE i = n + 1
      BY <1>7, <1>9, <1>12, <3>1
    <3>2. CASE i > n + 1
      BY <1>7, <1>12, <3>2
    <3> QED
      BY <1>8, <3>1, <3>2
  <2>2. n + 1 \in DOMAIN f /\ i < n + 1
    BY <1>2, <1>6, <2>1
  <2> QED
    BY <1>7, <1>9, <2>2
<1> QED
  BY <1>10, <1>11, <1>12 DEF Fresh

(* An update that sets no task done fits.                                  *)
LEMMA UpdatePlanFresh ==
  ASSUME NEW r \in [Task -> Row], NEW d, NEW t \in Task, NEW u \in Put, u.status # "done",
         NEW old, old = r[t], GetTaskByID(r, t), NEW new, new = applyUpdate(old, u)
  PROVE  Fresh(updatePlan(t, old, new, u), r, d)
<1> DEFINE why       == changesOf(old, new, u)
           isParent  == isRecurrenceParentWithConfirmation(new)
           wasParent == isRecurrenceParentWithConfirmation(old)
           own       == IF isParent THEN <<>> ELSE ownMessages(t, old, new, u)
           sync      == [Do("sync", t, new, "none", {"row"}) EXCEPT !.why = why]
           spawn     == Do("spawn", t, new, "schedule", {})
           del       == Publish(t, new, "delete", {})
           res       == Do("resched", t, new, "resched", {})
           w         == Do("write", t, new, "none", {"row"})
           x         == Do("txwrite", t, new, "none", {"row"})
           post      == IF isParent /\ ~old.conf THEN <<del, spawn>> ELSE <<>>
<1>1. /\ old \in Row /\ old.db = "live" /\ old.status # "done" /\ ~ Over(old)
      /\ old.db # "absent"
  BY DEF GetTaskByID, Live, Over
<1>2. new \in Row /\ new.db = "live" /\ new.parent = old.parent /\ new.status # "done"
  BY <1>1, UpdatedRow
<1>3. /\ del \in Step /\ del.do = "publish" /\ del.t = t /\ del.row = new /\ del.msg = "delete"
      /\ res \in Step /\ res.do = "resched" /\ res.t = t /\ res.row = new
      /\ res.msg = "resched"
      /\ w \in Step /\ w.do = "write" /\ w.t = t /\ w.row = new /\ w.msg = "none"
      /\ x \in Step /\ x.do = "txwrite" /\ x.t = t /\ x.row = new /\ x.msg = "none"
      /\ "row" \in x.must
      /\ spawn \in Step /\ spawn.do = "spawn" /\ spawn.t = t
  BY <1>2, DoType DEF Do, Publish, Statements
<1>4. /\ sync \in Step /\ sync.do = "sync" /\ sync.t = t /\ sync.row = new
      /\ sync.msg = "none" /\ "row" \in sync.must
  <2>1. why \in SUBSET Changes
    BY DEF changesOf
  <2> HIDE DEF why
  <2> QED
    BY <1>2, <2>1 DEF Do, Step, Fields, Statements
<1>5. own \in Seq(Step) /\ \A i \in DOMAIN own : own[i] \in {del, res}
  <2>1. CASE isParent
    BY <2>1, EmptyPlanType
  <2>2. CASE ~ isParent
    <3>1. own = ownMessages(t, old, new, u)
      BY <2>2
    <3> QED
      BY <1>1, <1>2, <3>1, OwnParts
  <2> QED
    BY <2>1, <2>2
<1>6. updatePlan(t, old, new, u) =
        IF ~isParent /\ ~wasParent THEN <<w>> \o own
        ELSE <<x>> \o own \o <<sync>> \o post
  BY DEF updatePlan
<1> HIDE DEF why, isParent, wasParent, own, sync, spawn, del, res, w, x
<1>7. \A s \in {del, res, w, x, sync, spawn} : StepFits(s, r, {}, d) /\ LaterFits(s)
  <2>1. \A s \in {del, res, w, x, sync, spawn} :
          ~ Ending({}, d, s.t) /\ \A c \in Task : ~ Ending({}, d, c)
    BY DEF Ending
  <2>2. StepFits(del, r, {}, d) /\ LaterFits(del)
    BY <1>3 DEF StepFits, LaterFits, Arms, Ends, Opens, Closes, Pool
  <2>3. StepFits(res, r, {}, d) /\ LaterFits(res)
    BY <1>1, <1>2, <1>3, <2>1 DEF StepFits, LaterFits, Arms, Ends, Opens, Closes, Pool
  <2>4. StepFits(w, r, {}, d) /\ LaterFits(w)
    BY <1>1, <1>2, <1>3, <2>1 DEF StepFits, LaterFits, Arms, Ends, Opens, Closes, Pool
  <2>5. StepFits(x, r, {}, d) /\ LaterFits(x)
    BY <1>1, <1>2, <1>3, <2>1 DEF StepFits, LaterFits, Arms, Ends, Opens, Closes, Pool
  <2>6. StepFits(sync, r, {}, d) /\ LaterFits(sync)
    BY <1>1, <1>2, <1>4, <2>1 DEF StepFits, LaterFits, Arms, Ends, Opens, Closes, Pool
  <2>7. StepFits(spawn, r, {}, d) /\ LaterFits(spawn)
    BY <1>1, <1>2, <1>3, <2>1 DEF StepFits, LaterFits, Arms, Ends, Opens, Closes, Pool
  <2> QED
    BY <2>2, <2>3, <2>4, <2>5, <2>6, <2>7
<1>8. \A s \in {del, res, w, x} : ~ Ends(s) /\ ~ EndsChildren(s) /\ ~ Pool(s)
  BY <1>2, <1>3 DEF Ends, EndsChildren, Pool
<1>9. \A s \in {del, res, w} : ~ Opens(s)
  BY <1>3 DEF Opens
<1>10. \A s \in {del, spawn} : ~ Opens(s) /\ ~ Arms(s) /\ ~ Pool(s) /\ s.do # "sync"
  BY <1>3 DEF Opens, Arms, Pool
<1>11. ASSUME NEW s \in Step, NEW g, g = <<s>> \o own
       PROVE  g \in Seq(Step) /\ \A i \in DOMAIN g : g[i] \in {s, del, res}
  <2> DEFINE o == <<s>>
  <2>1. o \in Seq(Step) /\ DOMAIN o = {1} /\ o[1] = s
    BY SingletonType
  <2>2. g = o \o own
    BY <1>11
  <2> HIDE DEF o
  <2>3. g \in Seq(Step) /\ Joined(o, own, g)
    BY <1>5, <2>1, <2>2, ConcatParts
  <2> QED
    BY <1>5, <2>1, <2>3 DEF Joined
<1>12. Fresh(<<w>> \o own, r, d)
  <2> DEFINE g == <<w>> \o own
  <2>1. \A i \in DOMAIN g : g[i] \in {w, del, res}
    BY <1>3, <1>11
  <2> HIDE DEF g
  <2>2. Fresh(g, r, d)
    BY <1>7, <1>8, <1>9, <2>1, PlainFresh
  <2> QED
    BY <2>2 DEF g
<1>13. Fresh(<<x>> \o own \o <<sync>> \o post, r, d)
  <2> DEFINE pre == <<x>> \o own
             f == pre \o <<sync>> \o post
  <2>1. pre \in Seq(Step) /\ \A i \in DOMAIN pre : pre[i] \in {x, del, res}
    BY <1>3, <1>11
  <2>2. post \in Seq(Step) /\ \A i \in DOMAIN post : post[i] \in {del, spawn}
    <3>1. /\ <<del, spawn>> \in Seq(Step)
          /\ \A i \in DOMAIN <<del, spawn>> : <<del, spawn>>[i] \in {del, spawn}
      BY <1>3
    <3>2. <<>> \in Seq(Step) /\ DOMAIN <<>> = {}
      BY EmptyPlanType
    <3> QED
      BY <3>1, <3>2
  <2>3. f = pre \o <<sync>> \o post
    OBVIOUS
  <2> HIDE DEF pre, post, f
  <2>4. \A i \in DOMAIN pre :
          /\ StepFits(pre[i], r, {}, d) /\ LaterFits(pre[i])
          /\ ~ Ends(pre[i]) /\ ~ EndsChildren(pre[i]) /\ ~ Pool(pre[i])
    BY <1>7, <1>8, <2>1
  <2>5. \A i \in DOMAIN post :
          /\ StepFits(post[i], r, {}, d) /\ LaterFits(post[i]) /\ ~ Opens(post[i])
          /\ ~ Arms(post[i]) /\ ~ Pool(post[i]) /\ post[i].do # "sync"
    BY <1>7, <1>10, <2>2
  <2>6. StepFits(sync, r, {}, d) /\ sync \in Step /\ sync.do = "sync"
    BY <1>4, <1>7
  <2>7. pre \in Seq(Step) /\ post \in Seq(Step)
    BY <2>1, <2>2
  <2>8. Fresh(f, r, d)
    BY <2>3, <2>4, <2>5, <2>6, <2>7, SyncFresh
  <2> QED
    BY <2>8 DEF f, pre
<1> QED
  BY <1>6, <1>12, <1>13

(* An update that sets no task done fits.                                  *)
LEMMA UpdateTaskFits ==
  ASSUME TypeOK, SeriesInv, OneAtATime, \A u \in PutRequests : u.status # "done",
         NEW p \in Proc, UpdateTask(p)
  PROVE  SeriesInv'
<1>1. PICK t \in Task, u \in PutRequests :
        /\ GetTaskByID(rows, t)
        /\ Begin(p, "update", updatePlan(t, rows[t], applyUpdate(rows[t], u), u))
        /\ UNCHANGED rows
  BY DEF UpdateTask
<1>2. u \in Put /\ u.status # "done" /\ rows \in [Task -> Row]
  BY ServiceAssumption DEF TypeOK
<1>3. Fresh(updatePlan(t, rows[t], applyUpdate(rows[t], u), u), rows, dirty[p])
  BY <1>1, <1>2, UpdatePlanFresh
<1> QED
  BY <1>1, <1>3, BeginFits

-----------------------------------------------------------------------------
(* What is over is not armed.                                              *)

(* No handler has begun, and every row is absent.                          *)
LEMMA InitSeries == Init => SeriesInv
<1> SUFFICES ASSUME Init PROVE SeriesInv
  OBVIOUS
<1>1. \A p \in Proc : plan[p] = <<>> /\ held[p] = {}
  BY DEF Init
<1>2. \A p \in Proc : PlanFits(plan[p], rows, held[p], dirty[p], wire)
  BY <1>1, IdleFits
<1>3. OneInFlight /\ Plans
  BY <1>1, <1>2 DEF OneInFlight, Plans, Idle
<1>4. OverIsSilent
  BY DEF Init, OverIsSilent, Silent, NoMsg
<1>5. NoOwnParent
  <2>1. \A t \in Task : t # 0
    BY RowsAssumption DEF Task
  <2> QED
    BY <2>1 DEF Init, NoOwnParent, Absent, NoTask
<1> QED
  BY <1>3, <1>4, <1>5 DEF SeriesInv

(* A handler that waits for a row is at a statement.                       *)
LEMMA DeadlockDetectedFits ==
  ASSUME TypeOK, SeriesInv, NEW p \in Proc, DeadlockDetected(p) PROVE SeriesInv'
<1>1. PICK q \in Proc : WaitsFor(p, q)
  BY DEF DeadlockDetected
<1>2. ~Idle(p)
  BY <1>1 DEF WaitsFor, Wanted, At
<1>3. Abort(p) /\ UNCHANGED <<rows, wire>>
  BY DEF DeadlockDetected
<1> QED
  BY <1>2, <1>3, AbortFits

(* Every step keeps the statements fit.                                    *)
LEMMA NextSeries ==
  ASSUME OneAtATime, "unmute" \notin Ops, \A u \in PutRequests : u.status # "done"
  PROVE  TypeOK /\ LocksAgree /\ SeriesInv /\ [Next]_vars => SeriesInv'
<1> SUFFICES ASSUME TypeOK, LocksAgree, SeriesInv, [Next]_vars PROVE SeriesInv'
  OBVIOUS
<1>1. ASSUME UNCHANGED <<rows, wire, plan, held, dirty>> PROVE SeriesInv'
  <2>1. Plans'
    BY <1>1 DEF SeriesInv, Plans
  <2>2. OneInFlight' /\ OverIsSilent' /\ NoOwnParent'
    BY <1>1 DEF SeriesInv, OneInFlight, Idle, OverIsSilent, NoOwnParent
  <2> QED
    BY <2>1, <2>2 DEF SeriesInv
<1>2. ASSUME NEW p \in Proc, Request(p) PROVE SeriesInv'
  <2>1. ~ UnmuteTask(p)
    BY DEF UnmuteTask, Begin
  <2> QED
    BY <1>2, <2>1, CreateTaskFits, UpdateTaskFits, DeleteTaskFits, QueueTaskFits,
       MuteTaskFits, MarkTaskAsDoneFits DEF Request
<1>3. ASSUME NEW p \in Proc, Proceed(p) PROVE SeriesInv'
  BY <1>3, SyncChildTasksFits, DeleteChildrenFits, NextChildFits, DoneChildrenFits,
     MuteChildrenFits, PublishScheduleFits, RescheduleTaskFits, RescheduleCronTasksFits,
     WriteRowFits, UpdateTaskWithTxFits, DeleteTaskWithTxFits, DeleteChildTasksWithTxFits,
     CommitTxFits, InsertChildFits, SendFits, DeadlockDetectedFits DEF Proceed
<1>4. ASSUME NEW p \in Proc, StatementFails(p) PROVE SeriesInv'
  BY <1>4, StatementFailsFits
<1>5. CASE RunScheduledRescheduling
  BY <1>5, RunScheduledReschedulingFits
<1>6. CASE Crash
  BY <1>6, CrashFits
<1>7. CASE Tick
  BY <1>1, <1>7 DEF Tick
<1>8. CASE UNCHANGED vars
  BY <1>1, <1>8 DEF vars
<1> QED
  BY <1>2, <1>3, <1>4, <1>5, <1>6, <1>7, <1>8 DEF Next

(* Requests served one after another, with failing statements and messages *)
(* and crashes, never leave a reminder in the worker for a task that was   *)
(* deleted or completed.  (Unmuting a completed task, and an update that   *)
(* sets the status done itself, are the two requests that do: they publish *)
(* without asking.)                                                        *)
THEOREM FinishedNotArmedCorrect ==
  ASSUME OneAtATime, "unmute" \notin Ops, \A u \in PutRequests : u.status # "done"
  PROVE  Spec => []FinishedNotArmed
<1>1. SeriesInv => FinishedNotArmed
  BY DEF SeriesInv, OverIsSilent, Over, Silent, FinishedNotArmed, Armed
<1>2. Spec => []TypeOK /\ []LocksAgree
  BY TypeCorrect, TransactionsAgree, PTL
<1>3. TypeOK /\ LocksAgree /\ SeriesInv /\ [Next]_vars => SeriesInv'
  BY NextSeries
<1> QED
  BY <1>1, <1>2, <1>3, InitSeries, PTL DEF Spec
=============================================================================
