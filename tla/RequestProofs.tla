---------------------------- MODULE RequestProofs ----------------------------
(***************************************************************************)
(* What requests that run beside each other do to each other: who is told  *)
(* that a row was deleted, which limits are passed and by how much, what   *)
(* is left of a group, a note and a user that other requests refer to,     *)
(* what becomes of the digests of a user and of what the worker was told,  *)
(* and what a list shows.                                                  *)
(*                                                                         *)
(* Every invariant here says of one request, or of a row and the request   *)
(* it comes from, what holds from a statement on.  It is shown in three    *)
(* parts: the request's own next statement, a statement of another one,    *)
(* and a request that arrives.                                             *)
(***************************************************************************)
EXTENDS ApiProofs

Acts(r) == Step(r) \/ Fault(r)

(* A statement or a message that fails leaves everything where it was.     *)
Breaks(r) ==
  /\ db' = db /\ armed' = armed /\ told' = told
  /\ \/ req'[r].out = "internal" /\ req'[r].hit = "fault"
     \/ req[r].pc = "touch" /\ Ends(r, "ok")
     \/ /\ A(r).op = "DeleteUser" /\ req[r].pc \in {"remove", "name"}
        /\ req'[r].pc \in {"remove", "name"} /\ req'[r].out = "pending" /\ req'[r].hit = "fault"
     \/ /\ A(r).op # "DeleteUser" /\ req[r].pc = "publish" /\ req'[r].pc = "touch"
        /\ req'[r].out = "pending" /\ req'[r].hit = "fault"
     \/ /\ A(r).op = "CreateBacklogsBatch" /\ req[r].pc = "lines" /\ req'[r].pc = "lines"
        /\ req'[r].out = "pending" /\ req'[r].hit = "fault"

LEMMA FaultBreaks ==
  ASSUME Base, NEW r \in Log, Fault(r)
  PROVE  Breaks(r)
<1>1. req[r] \in Request /\ req \in Seq(Request) /\ r \in DOMAIN req
  BY InLog, LenProperties DEF Base, ApiTypeOK, Log
<1>2. ASSUME req' = [req EXCEPT ![r] = [Finish(@, "internal") EXCEPT !.hit = "fault"]]
      PROVE  req'[r].out = "internal" /\ req'[r].hit = "fault"
  <2> DEFINE f == Finish(req[r], "internal")
             q == [f EXCEPT !.hit = "fault"]
  <2>1. f \in Request /\ f.out = "internal"
    BY <1>1, FinishFields DEF Outcome
  <2> HIDE DEF f
  <2>2. q.out = "internal" /\ q.hit = "fault"
    BY <2>1 DEF Request
  <2>3. req' = [req EXCEPT ![r] = q]
    BY <1>2 DEF f
  <2> HIDE DEF q
  <2> QED
    BY <1>1, <2>2, <2>3
<1>3. CASE StatementFails(r)
  BY <1>2, <1>3 DEF StatementFails, Fails, Breaks
<1>4. CASE DeletePublishFails(r)
  BY <1>2, <1>4 DEF DeletePublishFails, Fails, Breaks
<1>5. CASE TouchFails(r)
  BY <1>5, EndsOf DEF TouchFails, Fails, Breaks, Outcome
<1>6. CASE DeleteTaskFails(r)
  <2>1. A(r).op = "DeleteUser" /\ req[r].pc \in {"remove", "name"} /\ req[r].out = "pending"
        /\ db' = db /\ armed' = armed /\ told' = told
    BY <1>6 DEF DeleteTaskFails, At, Fails
  <2>2. CASE \E t \in req[r].ids :
               req' = [req EXCEPT ![r].pc = "name", ![r].item = t, ![r].ids = @ \ {t},
                                  ![r].hit = "fault"]
    <3>1. PICK t \in req[r].ids :
                 req' = [req EXCEPT ![r].pc = "name", ![r].item = t, ![r].ids = @ \ {t},
                                    ![r].hit = "fault"]
      BY <2>2
    <3>2. req'[r] = [req[r] EXCEPT !.pc = "name", !.item = t, !.ids = @ \ {t}, !.hit = "fault"]
      BY <1>1, <3>1
    <3>3. req'[r].pc = "name" /\ req'[r].out = req[r].out /\ req'[r].hit = "fault"
      BY <1>1, <3>2 DEF Request
    <3> QED
      BY <2>1, <3>3 DEF Breaks
  <2>3. CASE req' = [req EXCEPT ![r].pc = "remove", ![r].hit = "fault"]
    <3>1. req'[r] = [req[r] EXCEPT !.pc = "remove", !.hit = "fault"]
      BY <1>1, <2>3
    <3>2. req'[r].pc = "remove" /\ req'[r].out = req[r].out /\ req'[r].hit = "fault"
      BY <1>1, <3>1 DEF Request
    <3> QED
      BY <2>1, <3>2 DEF Breaks
  <2> QED
    BY <1>6, <2>2, <2>3 DEF DeleteTaskFails
<1>7. CASE TellFails(r)
  <2>1. /\ A(r).op # "DeleteUser" /\ req[r].pc = "publish" /\ req[r].out = "pending"
        /\ UNCHANGED <<db, armed, told, scene>>
        /\ req' = [req EXCEPT ![r].pc = "touch", ![r].hit = "fault"]
    BY <1>7 DEF TellFails, InFlight
  <2>2. req'[r] = [req[r] EXCEPT !.pc = "touch", !.hit = "fault"]
    BY <1>1, <2>1
  <2>3. req'[r].pc = "touch" /\ req'[r].out = req[r].out /\ req'[r].hit = "fault"
    BY <1>1, <2>2 DEF Request
  <2> QED
    BY <2>1, <2>3 DEF Breaks
<1>8. CASE BatchLineFails(r)
  <2>1. /\ A(r).op = "CreateBacklogsBatch" /\ req[r].pc = "lines" /\ req[r].out = "pending"
        /\ UNCHANGED <<db, armed, told, scene>>
        /\ req' = [req EXCEPT ![r].total = @ - 1, ![r].hit = "fault"]
    BY <1>8 DEF BatchLineFails, At
  <2>2. req'[r] = [req[r] EXCEPT !.total = @ - 1, !.hit = "fault"]
    BY <1>1, <2>1
  <2>3. req'[r].pc = "lines" /\ req'[r].out = req[r].out /\ req'[r].hit = "fault"
    BY <1>1, <2>1, <2>2 DEF Request
  <2> QED
    BY <2>1, <2>3 DEF Breaks
<1> QED
  BY <1>3, <1>4, <1>5, <1>6, <1>7, <1>8 DEF Fault
-----------------------------------------------------------------------------
(* A step of a request is a step of what it asks for.                      *)
StepOf(r) ==
  \/ A(r).op = "CreateUser" /\ CreateUser(r)
  \/ A(r).op = "UpdateUser" /\ UpdateUser(r)
  \/ A(r).op = "DeleteUser" /\ DeleteUser(r)
  \/ A(r).op = "CreateMessenger" /\ CreateMessenger(r)
  \/ A(r).op = "CreateMessengerRelatedUser" /\ CreateMessengerRelatedUser(r)
  \/ A(r).op = "CreateTaskGroup" /\ CreateTaskGroup(r)
  \/ A(r).op = "UpdateTaskGroup" /\ UpdateTaskGroup(r)
  \/ A(r).op = "DeleteTaskGroup" /\ DeleteTaskGroup(r)
  \/ A(r).op = "CreateBinding" /\ CreateBinding(r)
  \/ A(r).op = "DeleteBinding" /\ DeleteBinding(r)
  \/ A(r).op = "CreateDigestSettings" /\ CreateDigestSettings(r)
  \/ A(r).op = "UpdateDigestSettings" /\ UpdateDigestSettings(r)
  \/ A(r).op = "DeleteDigestSettings" /\ DeleteDigestSettings(r)
  \/ A(r).op = "CreateBacklog" /\ CreateBacklog(r)
  \/ A(r).op = "CreateBacklogsBatch" /\ CreateBacklogsBatch(r)
  \/ A(r).op = "UpdateBacklog" /\ UpdateBacklog(r)
  \/ A(r).op = "DeleteBacklog" /\ DeleteBacklog(r)
  \/ A(r).op = "CreateTarget" /\ CreateTarget(r)
  \/ A(r).op = "UpdateTarget" /\ UpdateTarget(r)
  \/ A(r).op = "DeleteTarget" /\ DeleteTarget(r)
  \/ A(r).op = "CreateTask" /\ CreateTask(r)
  \/ A(r).op = "QueueTask" /\ QueueTask(r)
  \/ A(r).op \in Lists /\ (GetAllUsers(r) \/ GetAllMessengers(r) \/ GetAllMessengerRelatedUsers(r)
       \/ GetAllTaskGroups(r) \/ GetAllDigestSettings(r) \/ GetAllBacklogs(r) \/ GetAllTargets(r))
  \/ A(r).op \in Views

LEMMA StepIsOf ==
  ASSUME NEW r, Step(r)
  PROVE  StepOf(r)
<1>1. CASE UserStep(r)
  BY <1>1 DEF UserStep, StepOf, CreateUser, GetUser, UpdateUser, DeleteUser, DeletesTask,
              GetAllUsers, GetRecentUserActivity, At, Lists, Views
<1>2. CASE MessengerStep(r)
  BY <1>2 DEF MessengerStep, StepOf, CreateMessenger, Replies, GetMessenger,
              GetMessengerIDByName, CreateMessengerRelatedUser, GetMessengerRelatedUser, GetUserID,
              GetAllMessengers, GetAllMessengerRelatedUsers, At, Lists, Views
<1>3. CASE GroupStep(r)
  BY <1>3 DEF GroupStep, StepOf, CreateTaskGroup, GetTaskGroupByID, GetAllTaskGroups,
              UpdateTaskGroup, DeleteTaskGroup, CreateBinding, ListBindings, DeleteBinding,
              Replies, At, Lists, Views
<1>4. CASE DigestStep(r)
  BY <1>4 DEF DigestStep, StepOf, CreateDigestSettings, GetDigestSettings, UpdateDigestSettings,
              DeleteDigestSettings, GetAllDigestSettings, GetDigest, At, Lists, Views
<1>5. CASE NoteStep(r)
  BY <1>5 DEF NoteStep, StepOf, CreateBacklog, CreateBacklogsBatch, ChecksOwner, ReadsTitle,
              BatchLine, GetBacklogByID, GetAllBacklogs, UpdateBacklog, DeleteBacklog,
              CreateTarget, GetTargetByID, GetAllTargets, UpdateTarget, DeleteTarget,
              At, Lists, Views
<1>6. CASE CreateTask(r)
  BY <1>6 DEF CreateTask, StepOf, ChecksOwner, At
<1>7. CASE QueueTask(r)
  BY <1>7 DEF QueueTask, StepOf, At
<1> QED
  BY <1>1, <1>2, <1>3, <1>4, <1>5, <1>6, <1>7 DEF Step

LEMMA ActsMoved ==
  ASSUME Inv, NEW r \in Log, Acts(r)
  PROVE  Moved(r)
BY StepMoved, FaultMoved DEF Inv, Acts

LEMMA NextActs ==
  ASSUME Next
  PROVE  \/ \E a \in Sc.asks : Arrive(a)
         \/ \E r \in Log : Acts(r)
BY DEF Next, Acts

(* A step of a request, what it does to the tables and to the log.         *)
LEMMA ActsEffect ==
  ASSUME Inv, NEW r \in Log, Acts(r)
  PROVE  /\ Base /\ Moved(r) /\ Effect(r, TablesOf(A(r).op)) /\ Turn(r) /\ req[r].out = "pending"
         /\ req' \in Seq(Request) /\ Len(req') = Len(req) /\ Log' = Log
         /\ \A s \in Log : s # r => req'[s] = req[s]
         /\ \A s \in Log : req'[s].ask = req[s].ask
<1>1. Base /\ Moved(r)
  BY ActsMoved DEF Inv
<1>2. Effect(r, TablesOf(A(r).op))
  BY <1>1 DEF Moved, Does
<1>3. Turn(r) /\ req[r].out = "pending"
  BY <1>2 DEF Effect
<1> QED
  BY <1>1, <1>2, <1>3, LogMoved

(* The log after a request arrived.                                        *)
LEMMA ArriveEffect ==
  ASSUME Inv, NEW a \in Sc.asks, Arrive(a)
  PROVE  /\ Log' = Log \cup {Len(req) + 1} /\ Len(req) + 1 \notin Log /\ Len(req) \in Nat
         /\ \A s \in Log : req'[s] = req[s]
         /\ UNCHANGED db /\ armed' = armed /\ told' = told /\ scene' = scene
<1>1. Base
  BY DEF Inv
<1>2. Len(req') = Len(req) + 1 /\ Len(req) \in Nat /\ \A s \in Log : req'[s] = req[s]
  BY <1>1, ArriveLog
<1>3. UNCHANGED db /\ armed' = armed /\ told' = told /\ scene' = scene
  BY DEF Arrive
<1> QED
  BY <1>2, <1>3 DEF Log

(* Whether a request was answered before another one began is settled when *)
(* the other one begins.                                                   *)
LEMMA BeforeFixed ==
  ASSUME Inv, NEW r \in Log, Acts(r), NEW p \in Log \cup {0}, NEW s \in Log \cup {0}
  PROVE  Before(p, s)' <=> Before(p, s)
<1>1. CASE p = 0
  BY <1>1 DEF Before
<1>2. CASE p \in Log /\ p # r
  BY <1>2, ActsEffect DEF Before
<1>3. CASE p = r
  <2>1. req[r].out = "pending" /\ Turn(r) /\ s <= Len(req) /\ s \in Nat /\ Len(req) \in Nat
        /\ r # 0
    BY ActsEffect, InLog DEF Inv
  <2> QED
    BY <1>3, <2>1 DEF Before, Turn
<1> QED
  BY <1>1, <1>2, <1>3

LEMMA BeforeArrived ==
  ASSUME Inv, NEW a \in Sc.asks, Arrive(a), NEW p \in Log \cup {0}, NEW s
  PROVE  Before(p, s)' <=> Before(p, s)
BY ArriveEffect DEF Before
-----------------------------------------------------------------------------
(* Of the requests that delete a row one is answered: the row says which.  *)
Deleters == {"DeleteTaskGroup", "DeleteBacklog", "DeleteTarget", "DeleteBinding"}

Deleted(q) == IF q.out = "pending" THEN q.pc \in {"touch", "end"} ELSE q.out = "ok"

DeleteOK(r) ==
  A(r).op \in Deleters /\ Deleted(req[r])
  => LET row == db[TableOf(A(r).op)][A(r).id]
     IN  A(r).id \in Id /\ row.st = "gone" /\ row.end = r

(* What the next statement of a deletion does.                             *)
DeletesNow(r) ==
  Deleted(req'[r]) =>
    \/ Deleted(req[r])
    \/ LET t == TableOf(A(r).op)
       IN  A(r).id \in Live(t) /\ db' = [db EXCEPT ![t][A(r).id] = Dead(@, r)]

LEMMA DeletesRow ==
  ASSUME Base, NEW r \in Log, req[r].out = "pending", A(r).op \in Deleters,
         NEW pc \in {"touch", "end"}, Deletes(r, TableOf(A(r).op), pc)
  PROVE  DeletesNow(r)
<1> DEFINE t == TableOf(A(r).op)
<1>1. t \in Table /\ A(r).op \in Removals /\ pc \in Pc
  BY DEF Deleters, TableOf, Table, Removals, Pc
<1> HIDE DEF t
<1>2. Deletes(r, t, pc)
  BY DEF t
<1>3. \/ A(r).id \in Live(t) /\ Goes(r, pc) /\ db' = [db EXCEPT ![t][A(r).id] = Dead(@, r)]
      \/ Ends(r, "notfound")
  BY <1>1, <1>2, DeletesOf
<1> QED
  BY <1>3 DEF DeletesNow, Deleted, Ends, t

LEMMA DeletionOwn ==
  ASSUME Inv, NEW r \in Log, Acts(r), A(r).op \in Deleters
  PROVE  DeletesNow(r)
<1>1. Base /\ req[r].out = "pending"
  BY ActsEffect
<1>2. ASSUME NEW u, Touch(r, u)
      PROVE  DeletesNow(r)
  BY <1>2 DEF Touch, DeletesNow, Deleted
<1>3. ASSUME NEW t \in Table, NEW pc \in Pc \ {"touch", "end"}, Reads(r, t, pc)
      PROVE  DeletesNow(r)
  BY <1>1, <1>3, TookOf DEF Took, Ends, DeletesNow, Deleted
<1>4. CASE Fault(r)
  <2>1. req[r].pc # "publish"
    BY <1>1 DEF Inv, HeldOK, Keyed, Rewriters, Deleters, Place
  <2> QED
    BY <1>1, <1>4, <2>1, FaultBreaks DEF Breaks, DeletesNow, Deleted, Deleters
<1>5. CASE A(r).op = "DeleteTaskGroup" /\ DeleteTaskGroup(r)
  <2>1. CASE Reads(r, "groups", "bindings")
    BY <1>3, <2>1 DEF Table, Pc
  <2>2. CASE Requires(r, BindingsOfGroup(A(r).id) = {}, "conflict", "delete")
    <3>1. Goes(r, "delete") \/ Ends(r, "conflict")
      BY <1>1, <2>2, RequiresOf DEF Pc, Outcome
    <3> QED
      BY <3>1 DEF Goes, Ends, DeletesNow, Deleted
  <2>3. CASE Deletes(r, "groups", "touch")
    BY <1>1, <1>5, <2>3, DeletesRow DEF TableOf
  <2> QED
    BY <1>2, <1>5, <2>1, <2>2, <2>3 DEF DeleteTaskGroup, GetGroup, DeleteGroupRow
<1>6. CASE A(r).op = "DeleteBacklog" /\ DeleteBacklog(r)
  <2>1. CASE Reads(r, "backlogs", "delete")
    BY <1>3, <2>1 DEF Table, Pc
  <2>2. CASE Deletes(r, "backlogs", "touch")
    BY <1>1, <1>6, <2>2, DeletesRow DEF TableOf
  <2> QED
    BY <1>2, <1>6, <2>1, <2>2 DEF DeleteBacklog, DeleteBacklogRow
<1>7. CASE A(r).op = "DeleteTarget" /\ DeleteTarget(r)
  <2>1. CASE Reads(r, "targets", "delete")
    BY <1>3, <2>1 DEF Table, Pc
  <2>2. CASE Deletes(r, "targets", "touch")
    BY <1>1, <1>7, <2>2, DeletesRow DEF TableOf
  <2> QED
    BY <1>2, <1>7, <2>1, <2>2 DEF DeleteTarget, DeleteTargetRow
<1>8. CASE A(r).op = "DeleteBinding" /\ DeleteBinding(r)
  <2>1. CASE Requires(r, A(r).id \in BindingsOfUser(A(r).user), "notfound", "read")
    <3>1. Goes(r, "read") \/ Ends(r, "notfound")
      BY <1>1, <2>1, RequiresOf DEF Pc, Outcome
    <3> QED
      BY <3>1 DEF Goes, Ends, DeletesNow, Deleted
  <2>2. CASE Reads(r, "bindings", "delete")
    BY <1>3, <2>2 DEF Table, Pc
  <2>3. CASE Deletes(r, "bindings", "end")
    BY <1>1, <1>8, <2>3, DeletesRow DEF TableOf
  <2>4. CASE Replies(r, "DeleteBinding")
    BY <2>4 DEF Replies, At, DeletesNow, Deleted
  <2> QED
    BY <1>8, <2>1, <2>2, <2>3, <2>4 DEF DeleteBinding, SoftDeleteBinding
<1> QED
  BY <1>4, <1>5, <1>6, <1>7, <1>8, StepIsOf DEF Acts, StepOf, Deleters, Lists, Views

(* A row that is gone stays as it is.                                      *)
LEMMA GoneKept ==
  ASSUME Inv, NEW r \in Log, Acts(r), NEW t \in Table, NEW i \in Id, db[t][i].st = "gone"
  PROVE  db'[t][i] = db[t][i]
<1>1. PICK T : T = TablesOf(A(r).op)
  OBVIOUS
<1>2. Base /\ Effect(r, T)
  BY <1>1, ActsEffect
<1>3. db[t][i] \in Row /\ db'[t][i] \in Row /\ RowStep(r, t, db[t][i], db'[t][i])
  BY <1>2, RowsMoved DEF Effect
<1> QED
  BY <1>3, RowKept

DeleteInv == Inv /\ \A r \in Log : DeleteOK(r)

LEMMA DeleteActs ==
  ASSUME DeleteInv, NEW r \in Log, Acts(r)
  PROVE  \A s \in Log : DeleteOK(s)'
<1>1. Inv /\ Base /\ db \in [Table -> [Id -> Row]]
  BY DEF DeleteInv, Inv, Base, ApiTypeOK
<1>2. A(r)' = A(r)
  BY <1>1, ActsEffect DEF A
<1>3. ASSUME NEW op \in Deleters
      PROVE  TableOf(op) \in Table
  BY DEF Deleters, TableOf, Table
<1>4. ASSUME NEW s \in Log, DeleteOK(s), A(s)' = A(s), Deleted(req'[s]) => Deleted(req[s])
      PROVE  DeleteOK(s)'
  BY <1>1, <1>3, <1>4, GoneKept DEF DeleteOK
<1>5. DeleteOK(r)'
  <2> SUFFICES ASSUME A(r).op \in Deleters, Deleted(req'[r]), ~ Deleted(req[r])
               PROVE  DeleteOK(r)'
    BY <1>2, <1>4 DEF DeleteInv, DeleteOK
  <2>1. PICK t \in Table : t = TableOf(A(r).op)
    BY <1>3
  <2>2. A(r).id \in Live(t) /\ db' = [db EXCEPT ![t][A(r).id] = Dead(@, r)]
    BY <1>1, <2>1, DeletionOwn DEF DeletesNow
  <2>3. A(r).id \in Id /\ db[t][A(r).id] \in Row
    BY <1>1, <2>2 DEF Live
  <2>4. db'[t][A(r).id] = Dead(db[t][A(r).id], r)
    BY <1>1, <2>2, <2>3
  <2>5. db'[t][A(r).id].st = "gone" /\ db'[t][A(r).id].end = r
    BY <2>3, <2>4 DEF Dead, Row
  <2> QED
    BY <1>2, <2>1, <2>3, <2>5 DEF DeleteOK
<1>6. ASSUME NEW s \in Log, s # r
      PROVE  DeleteOK(s)'
  BY <1>1, <1>4, <1>6, ActsEffect DEF A, DeleteInv
<1> QED
  BY <1>5, <1>6

LEMMA DeleteArrive ==
  ASSUME DeleteInv, NEW a \in Sc.asks, Arrive(a)
  PROVE  \A s \in Log' : DeleteOK(s)'
<1>1. Inv /\ Base
  BY DEF DeleteInv, Inv
<1>2. PICK n : n = Len(req) + 1
  OBVIOUS
<1>3. /\ Log' = Log \cup {n} /\ \A s \in Log : req'[s] = req[s]
      /\ UNCHANGED db
  BY <1>1, <1>2, ArriveEffect
<1>4. ~ Deleted(req'[n])
  BY <1>1, <1>2, ArriveLog DEF Deleted
<1> QED
  BY <1>3, <1>4 DEF DeleteOK, A, DeleteInv

(* Of the requests that delete the same row at the same time only one is   *)
(* told 204: the row is gone, and names the request that removed it.       *)
THEOREM OneDeleteAnsweredCorrect == Spec => []OneDeleteAnswered
<1>1. Init => DeleteInv
  <2> SUFFICES ASSUME Init PROVE DeleteInv
    OBVIOUS
  <2>1. Log = {}
    BY DEF Init, Log
  <2> QED
    BY <2>1, InitInv DEF DeleteInv
<1>2. DeleteInv /\ [Next]_vars => DeleteInv'
  <2> SUFFICES ASSUME DeleteInv, [Next]_vars PROVE DeleteInv'
    OBVIOUS
  <2>1. Inv'
    BY InvStep DEF DeleteInv
  <2>2. CASE \E a \in Sc.asks : Arrive(a)
    BY <2>1, <2>2, DeleteArrive DEF DeleteInv
  <2>3. ASSUME NEW r \in Log, Acts(r)
        PROVE  DeleteInv'
    <3>1. Log' = Log
      BY <2>3, ActsEffect DEF DeleteInv
    <3> QED
      BY <2>1, <2>3, <3>1, DeleteActs DEF DeleteInv
  <2>4. CASE UNCHANGED vars
    <3>1. db' = db /\ req' = req
      BY <2>4 DEF vars
    <3> QED
      BY <2>1, <3>1 DEF DeleteInv, DeleteOK, Log, A
  <2> QED
    BY <2>2, <2>3, <2>4, NextActs
<1>3. DeleteInv => OneDeleteAnswered
  <2> SUFFICES ASSUME DeleteInv, NEW op \in Deleters, NEW p \in Log, NEW r \in Log,
                      Answered(p, op), Answered(r, op), A(p).id = A(r).id
               PROVE  p = r
    BY DEF OneDeleteAnswered, Deleters
  <2>1. DeleteOK(p) /\ DeleteOK(r) /\ Deleted(req[p]) /\ Deleted(req[r])
    BY DEF DeleteInv, Answered, Deleted
  <2>2. A(p).op = op /\ A(r).op = op
    BY DEF Answered
  <2> QED
    BY <2>1, <2>2 DEF DeleteOK
<1> QED
  BY <1>1, <1>2, <1>3, PTL DEF Spec
-----------------------------------------------------------------------------
(* Where a live row and a row that is gone come from.                      *)
LEMMA LiveRow ==
  ASSUME Inv, NEW r \in Log, Acts(r), NEW t \in Table, NEW i \in Id, db'[t][i].st = "live"
  PROVE  \/ db[t][i].st = "live" /\ SameRow(t, db[t][i], db'[t][i])
         \/ /\ db[t][i].st = "none" /\ db'[t][i].by = r /\ db'[t][i].mark = r
            /\ A(r).op \in Creations /\ Writes(A(r).op, t) /\ Owned(r, t, db'[t][i])
<1>1. PICK T : T = TablesOf(A(r).op)
  OBVIOUS
<1>2. Base /\ Effect(r, T)
  BY <1>1, ActsEffect
<1>3. db[t][i] \in Row /\ db'[t][i] \in Row /\ RowStep(r, t, db[t][i], db'[t][i])
  BY <1>2, RowsMoved DEF Effect
<1>4. CASE db'[t][i] = db[t][i] \/ Seen(t, db[t][i], db'[t][i])
  BY <1>4 DEF Seen, SameRow
<1>5. CASE ~ (db'[t][i] = db[t][i] \/ Seen(t, db[t][i], db'[t][i]))
  <2>1. Writes(A(r).op, t)
    BY <1>1, <1>2, <1>5 DEF Effect, TablesOf
  <2>2. db'[t][i] # Dead(db[t][i], r)
    BY <1>3 DEF Dead, Row
  <2> QED
    BY <1>3, <1>5, <2>1, <2>2 DEF RowStep
<1> QED
  BY <1>4, <1>5

LEMMA GoneRow ==
  ASSUME Inv, NEW r \in Log, Acts(r), NEW t \in Table, NEW i \in Id, db'[t][i].st = "gone"
  PROVE  \/ db'[t][i] = db[t][i]
         \/ /\ db[t][i].st = "live" /\ A(r).op \in Removals /\ Writes(A(r).op, t)
            /\ SameRow(t, db[t][i], db'[t][i])
            /\ db'[t][i].end = r /\ db'[t][i].done = db[t][i].done
            /\ db'[t][i].mark = db[t][i].mark
<1>1. PICK T : T = TablesOf(A(r).op)
  OBVIOUS
<1>2. Base /\ Effect(r, T)
  BY <1>1, ActsEffect
<1>3. db[t][i] \in Row /\ db'[t][i] \in Row /\ RowStep(r, t, db[t][i], db'[t][i])
  BY <1>2, RowsMoved DEF Effect
<1>4. CASE db'[t][i] # db[t][i]
  <2>1. A(r).op \in Removals /\ db[t][i].st = "live" /\ db'[t][i] = Dead(db[t][i], r)
    BY <1>3, <1>4 DEF RowStep, Seen
  <2>2. Writes(A(r).op, t)
    BY <1>1, <1>2, <1>4 DEF Effect, TablesOf, Seen
  <2> QED
    BY <1>3, <2>1, <2>2 DEF Dead, Row, SameRow
<1> QED
  BY <1>4
-----------------------------------------------------------------------------
(* A group is deleted after its bindings were counted.                     *)
UseChecked(r) ==
  At(r, "DeleteTaskGroup", "delete") =>
    \A b \in Live("bindings") :
      db["bindings"][b].ref = A(r).id => ~ Before(db["bindings"][b].by, r)

UseInv == Inv /\ GroupInUseStays /\ \A r \in Log : UseChecked(r)

LEMMA GroupDeletion ==
  ASSUME Inv, NEW r \in Log, Acts(r), A(r).op = "DeleteTaskGroup"
  PROVE  /\ db'["groups"] = db["groups"] \/ At(r, "DeleteTaskGroup", "delete")
         /\ \A g \in Id : db'["groups"][g] = db["groups"][g] \/ g = A(r).id
         /\ At(r, "DeleteTaskGroup", "delete")' => BindingsOfGroup(A(r).id) = {}
<1>1. Base /\ req[r].out = "pending" /\ A(r)' = A(r) /\ db \in [Table -> [Id -> Row]]
  BY ActsEffect DEF A, Base, ApiTypeOK
<1>2. CASE Fault(r)
  <2>1. req[r].pc # "publish"
    BY <1>1 DEF Inv, HeldOK, Keyed, Place, Rewriters
  <2> QED
    BY <1>1, <1>2, <2>1, FaultBreaks DEF Breaks, At, Ends
<1>3. CASE DeleteTaskGroup(r)
  <2>1. CASE Reads(r, "groups", "bindings")
    <3>1. Took(r, "groups", "bindings") \/ Ends(r, "notfound")
      BY <1>1, <2>1, TookOf DEF Table, Pc
    <3> QED
      BY <2>1, <3>1 DEF Took, Ends, At, Reads, Quiet
  <2>2. CASE Requires(r, BindingsOfGroup(A(r).id) = {}, "conflict", "delete")
    <3>1. \/ BindingsOfGroup(A(r).id) = {} /\ Goes(r, "delete")
          \/ Ends(r, "conflict")
      BY <1>1, <2>2, RequiresOf DEF Pc, Outcome
    <3> QED
      BY <2>2, <3>1 DEF Goes, Ends, At, Requires, Quiet
  <2>3. CASE At(r, "DeleteTaskGroup", "delete") /\ Deletes(r, "groups", "touch")
    <3>1. \/ /\ A(r).id \in Live("groups") /\ Goes(r, "touch")
             /\ db' = [db EXCEPT !["groups"][A(r).id] = Dead(@, r)]
          \/ db' = db /\ Ends(r, "notfound")
      BY <1>1, <2>3, DeletesOf DEF Table, Pc, Removals
    <3> QED
      BY <1>1, <2>3, <3>1 DEF Goes, Ends, At, Table
  <2>4. ASSUME NEW u, Touch(r, u)
        PROVE  /\ db'["groups"] = db["groups"]
               /\ ~ At(r, "DeleteTaskGroup", "delete")'
    <3>1. Ends(r, "ok")
      BY <1>1, <2>4, TouchOf
    <3> QED
      BY <1>1, <2>4, <3>1 DEF Ends, At, Touch, Table
  <2> QED
    BY <1>3, <2>1, <2>2, <2>3, <2>4 DEF DeleteTaskGroup, GetGroup, DeleteGroupRow
<1> QED
  BY <1>2, <1>3, StepIsOf DEF Acts, StepOf, Lists, Views

(* A binding made by a request that is answered was there before the step. *)
LEMMA BindingKept ==
  ASSUME Inv, NEW r \in Log, Acts(r), NEW b \in Id, db'["bindings"][b].st = "live",
         NEW p, p = db'["bindings"][b].by, NEW s \in Log, Before(p, s)'
  PROVE  /\ b \in Live("bindings") /\ db["bindings"][b].ref = db'["bindings"][b].ref
         /\ db["bindings"][b].by = p /\ Before(p, s)
<1>1. Base /\ "bindings" \in Table /\ req[r].out = "pending"
  BY ActsEffect DEF Table
<1>2. s \in Log \cup {0} /\ r \in Log \cup {0} /\ r # 0
  BY <1>1, InLog
<1>3. CASE /\ db["bindings"][b].st = "live"
           /\ SameRow("bindings", db["bindings"][b], db'["bindings"][b])
  <2>1. db["bindings"][b].by = p /\ p \in Log \cup {0}
    BY <1>1, <1>3, LenProperties DEF Base, Log, ApiTypeOK, SameRow
  <2>2. Before(p, s)
    BY <1>2, <2>1, BeforeFixed
  <2> QED
    BY <1>3, <2>1, <2>2 DEF SameRow, Live
<1>4. CASE db'["bindings"][b].by = r
  <2>1. ~ Before(r, s)
    BY <1>1, <1>2 DEF Before
  <2> QED
    BY <1>2, <1>4, <2>1, BeforeFixed
<1> QED
  BY <1>1, <1>3, <1>4, LiveRow

LEMMA UseActs ==
  ASSUME UseInv, NEW r \in Log, Acts(r)
  PROVE  UseInv'
<1>1. Inv /\ Base /\ Inv' /\ Log' = Log /\ A(r)' = A(r) /\ "groups" \in Table
      /\ "bindings" \in Table
  BY ActsEffect, MovedInv DEF A, UseInv, Table
<1>2. ASSUME NEW b \in Id, NEW g \in Id, NEW p, NEW e, db'["bindings"][b].st = "live",
             db'["bindings"][b].ref = g, db'["groups"][g].st = "gone",
             p = db'["bindings"][b].by, e = db'["groups"][g].end, Before(p, e)'
      PROVE  FALSE
  <2>1. CASE db'["groups"][g] = db["groups"][g]
    <3>1. e \in Log \cup {0}
      BY <1>1, <1>2, <2>1, LenProperties DEF Base, Log, ApiTypeOK
    <3>2. CASE e \in Log
      <4>1. b \in Live("bindings") /\ db["bindings"][b].ref = g
            /\ db["bindings"][b].by = p /\ Before(p, e)
        BY <1>1, <1>2, <3>2, BindingKept
      <4> QED
        BY <1>2, <2>1, <4>1 DEF UseInv, GroupInUseStays, NoId, Id
    <3>3. CASE e = 0
      <4>1. p \in 0..Len(req) /\ Len(req) \in Nat
        <5>1. p \in 0..Len(req')
          BY <1>1, <1>2 DEF Inv, Base
        <5> QED
          BY <1>1, <5>1, ActsEffect, LenProperties DEF Base, ApiTypeOK
      <4>2. p = 0
        <5>1. CASE p \in Log
          <6>1. EndOK(p)'
            BY <1>1, <5>1 DEF Inv, Base
          <6>2. (req'[p].out # "pending" /\ req'[p].ended < 0) \/ p = 0
            BY <1>2, <3>3 DEF Before
          <6> QED
            BY <1>1, <4>1, <5>1, <6>1, <6>2, ActsEffect DEF EndOK, Log
        <5> QED
          BY <4>1, <5>1 DEF Log
      <4>3. b \in Live("bindings") /\ db["bindings"][b].ref = g /\ db["bindings"][b].by = 0
        <5>1. r # 0
          BY <1>1, InLog
        <5>2. CASE /\ db["bindings"][b].st = "live"
                   /\ SameRow("bindings", db["bindings"][b], db'["bindings"][b])
          BY <1>2, <4>2, <5>2 DEF SameRow, Live
        <5>3. CASE db'["bindings"][b].by = r
          BY <1>2, <4>2, <5>1, <5>3
        <5> QED
          BY <1>1, <1>2, <5>2, <5>3, LiveRow
      <4> QED
        BY <1>2, <2>1, <4>3 DEF UseInv, GroupInUseStays, NoId, Id, Before
    <3> QED
      BY <3>1, <3>2, <3>3
  <2>2. CASE db'["groups"][g] # db["groups"][g]
    <3>1. A(r).op \in Removals /\ Writes(A(r).op, "groups") /\ e = r
      BY <1>1, <1>2, <2>2, GoneRow
    <3>2. A(r).op = "DeleteTaskGroup"
      BY <3>1 DEF Removals, Writes, DigestOps
    <3>3. At(r, "DeleteTaskGroup", "delete") /\ g = A(r).id
      BY <1>1, <2>2, <3>2, GroupDeletion
    <3>4. b \in Live("bindings") /\ db["bindings"][b].ref = g
          /\ db["bindings"][b].by = p /\ Before(p, r)
      BY <1>1, <1>2, <3>1, BindingKept
    <3> QED
      BY <3>3, <3>4 DEF UseInv, UseChecked
  <2> QED
    BY <2>1, <2>2
<1>3. GroupInUseStays'
  <2> SUFFICES ASSUME NEW b, b \in Id, db'["bindings"][b].st = "live",
                      NEW p, p = db'["bindings"][b].by,
                      NEW g, g = db'["bindings"][b].ref, g # NoId, db'["groups"][g].st = "gone",
                      NEW e, e = db'["groups"][g].end, Before(p, e)'
               PROVE  FALSE
    BY DEF GroupInUseStays, Before, Live
  <2>1. g \in Id
    BY <1>1 DEF Inv, Base, ApiTypeOK, Row, AnyId, NoId
  <2> QED
    BY <1>2, <2>1
<1>4. ASSUME NEW s \in Log
      PROVE  UseChecked(s)'
  <2> SUFFICES ASSUME At(s, "DeleteTaskGroup", "delete")', NEW b, b \in Id,
                      db'["bindings"][b].st = "live", db'["bindings"][b].ref = req'[s].ask.id,
                      NEW p, p = db'["bindings"][b].by, Before(p, s)'
               PROVE  FALSE
    BY DEF UseChecked, Live, Before, A
  <2>1. req'[s].ask = A(s) /\ A(s).op = "DeleteTaskGroup"
    BY <1>1, ActsEffect DEF A, At
  <2>2. b \in Live("bindings") /\ db["bindings"][b].ref = A(s).id
        /\ db["bindings"][b].by = p /\ Before(p, s)
    BY <1>1, <2>1, BindingKept
  <2>3. CASE s = r
    BY <1>1, <2>1, <2>2, <2>3, GroupDeletion DEF BindingsOfGroup
  <2>4. CASE s # r
    <3>1. At(s, "DeleteTaskGroup", "delete")
      BY <1>1, <2>1, <2>4, ActsEffect DEF At, A
    <3> QED
      BY <2>2, <3>1 DEF UseInv, UseChecked
  <2> QED
    BY <2>3, <2>4
<1> QED
  BY <1>1, <1>3, <1>4 DEF UseInv

LEMMA UseArrive ==
  ASSUME UseInv, NEW a \in Sc.asks, Arrive(a)
  PROVE  UseInv'
<1>1. Inv /\ Base /\ Inv'
  BY ArriveInv DEF UseInv, Inv
<1>2. PICK n : n = Len(req) + 1
  OBVIOUS
<1>3. /\ Log' = Log \cup {n} /\ \A s \in Log : req'[s] = req[s]
      /\ db' = db
  BY <1>1, <1>2, ArriveEffect
<1>4. ~ At(n, "DeleteTaskGroup", "delete")'
  BY <1>1, <1>2, ArriveLog DEF At
<1>5. \A b \in Id : db["bindings"][b].by \in Log \cup {0}
  BY <1>1, LenProperties DEF Base, Log, ApiTypeOK, Table
<1>6. \A b \in Id : \A s : Before(db["bindings"][b].by, s)' <=> Before(db["bindings"][b].by, s)
  BY <1>1, <1>3, <1>5 DEF Before
<1>7. GroupInUseStays'
  BY <1>3, <1>6 DEF UseInv, GroupInUseStays, Live
<1>8. ASSUME NEW s \in Log
      PROVE  UseChecked(s)'
  BY <1>3, <1>6 DEF UseInv, UseChecked, Live, At, A
<1> QED
  BY <1>1, <1>3, <1>4, <1>7, <1>8 DEF UseInv, UseChecked

(* A group that a binding refers to is deleted only by a request that      *)
(* began before the request for the binding was answered.                  *)
THEOREM GroupInUseStaysCorrect == Spec => []GroupInUseStays
<1>1. Init => UseInv
  <2> SUFFICES ASSUME Init PROVE UseInv
    OBVIOUS
  <2>1. Log = {} /\ Inv
    BY InitInv DEF Init, Log
  <2>2. scene \in DOMAIN Scenario /\ db = Scenario[scene].start
    BY DEF Init
  <2>3. Fresh(db)
    BY <2>2, SceneTypes
  <2>4. \A g \in Id : db["groups"][g].st # "gone"
    BY <2>3 DEF Fresh, Table
  <2>5. \A b \in Id : db["bindings"][b].ref \in AnyId
    BY <2>1 DEF Inv, Base, ApiTypeOK, Table, Row
  <2>6. GroupInUseStays
    BY <2>4, <2>5 DEF GroupInUseStays, Live, AnyId
  <2> QED
    BY <2>1, <2>6 DEF UseInv
<1>2. UseInv /\ [Next]_vars => UseInv'
  <2> SUFFICES ASSUME UseInv, [Next]_vars PROVE UseInv'
    OBVIOUS
  <2>1. CASE UNCHANGED vars
    <3>1. db' = db /\ req' = req /\ Inv'
      BY <2>1, StutterInv DEF vars, UseInv
    <3> QED
      BY <3>1 DEF UseInv, GroupInUseStays, UseChecked, Live, Before, Log, A, At
  <2> QED
    BY <2>1, NextActs, UseActs, UseArrive
<1>3. UseInv => GroupInUseStays
  BY DEF UseInv
<1> QED
  BY <1>1, <1>2, <1>3, PTL DEF Spec
-----------------------------------------------------------------------------
(* A row was inserted, and r goes on at pc.                                *)
Adds(r, t, row, pc, i) ==
  /\ i \in Id /\ db[t][i].st = "none"
  /\ db'[t][i] = [row EXCEPT !.st = "live", !.by = r, !.mark = r]
  /\ \A u \in Table, j \in Id : u # t \/ j # i => db'[u][j] = db[u][j]
  /\ req'[r].pc = pc /\ req'[r].out = "pending" /\ req'[r].made = req[r].made \cup {i}
  /\ req'[r].hit = req[r].hit /\ req'[r].ids = req[r].ids /\ req'[r].copy = req[r].copy
  /\ req'[r].item = req[r].item

LEMMA InsertedAdds ==
  ASSUME Base, NEW r \in Log, req[r].out = "pending", NEW t \in Table, NEW pc \in Pc,
         NEW row \in Row, NEW i, Inserted(r, t, row, pc, i)
  PROVE  Adds(r, t, row, pc, i)
<1>1. req[r] \in Request /\ db \in [Table -> [Id -> Row]]
  BY InLog DEF Base, ApiTypeOK
<1>2. i \in Id /\ db[t][i].st = "none"
  BY DEF Inserted
<1>3. /\ req'[r].pc = pc /\ req'[r].out = "pending" /\ req'[r].made = req[r].made \cup {i}
      /\ req'[r].hit = req[r].hit /\ req'[r].ids = req[r].ids /\ req'[r].copy = req[r].copy
      /\ req'[r].item = req[r].item
  BY <1>1 DEF Inserted, Request
<1> DEFINE new == [row EXCEPT !.st = "live", !.by = r, !.mark = r]
<1>4. db' = [db EXCEPT ![t][i] = new]
  BY DEF Inserted
<1> HIDE DEF new
<1>5. db'[t][i] = new /\ \A u \in Table, j \in Id : u # t \/ j # i => db'[u][j] = db[u][j]
  BY <1>1, <1>2, <1>4
<1> QED
  BY <1>2, <1>3, <1>5 DEF Adds, new

(* An insertion a unique index turns down.                                 *)
LEMMA RefusedOf ==
  ASSUME Base, NEW r \in Log, req'[r] = [Finish(req[r], "internal") EXCEPT !.hit = "unique"]
  PROVE  req'[r].out = "internal" /\ req'[r].hit = "unique"
<1> DEFINE f == Finish(req[r], "internal")
<1>1. f \in Request /\ f.out = "internal"
  BY InLog, FinishFields DEF Outcome
<1>2. req'[r] = [f EXCEPT !.hit = "unique"]
  OBVIOUS
<1> HIDE DEF f
<1> QED
  BY <1>1, <1>2 DEF Request

LEMMA InsertsAdds ==
  ASSUME Base, NEW r \in Log, req[r].out = "pending", NEW t \in Table, NEW pc \in Pc,
         A(r).op \in Creations, NEW row \in Row, row.end = 0, Owned(r, t, row),
         NEW taken \in BOOLEAN, Inserts(r, t, row, taken, pc)
  PROVE  \/ taken /\ db' = db /\ req'[r].out = "internal" /\ req'[r].hit = "unique"
         \/ ~ taken /\ \E i \in Id : Adds(r, t, row, pc, i)
<1>1. \/ /\ taken /\ db' = db
         /\ req'[r] = [Finish(req[r], "internal") EXCEPT !.hit = "unique"]
      \/ ~ taken /\ \E i \in Id : Inserted(r, t, row, pc, i)
  BY InsertsEffect
<1> QED
  BY <1>1, RefusedOf, InsertedAdds
-----------------------------------------------------------------------------
(* A user is counted by one statement and inserted by a later one: every   *)
(* request between the two may be one user too many.                       *)
Inserting == {r \in Log : At(r, "CreateUser", "insert")}

LimitInv ==
  /\ Inv
  /\ Cardinality(InFlight) <= Sc.width
  /\ MaxUsers > 0 => Cardinality(Live("users")) + Cardinality(Inserting) < MaxUsers + Sc.width

LEMMA FiniteParts ==
  ASSUME Base
  PROVE  /\ IsFiniteSet(Log) /\ IsFiniteSet(InFlight) /\ IsFiniteSet(Inserting)
         /\ IsFiniteSet(Live("users")) /\ Sc.width \in Nat /\ Sc.width > 0 /\ MaxUsers \in Nat
         /\ Inserting \subseteq InFlight
         /\ Cardinality(InFlight) \in Nat /\ Cardinality(Inserting) \in Nat
         /\ Cardinality(Live("users")) \in Nat
<1>1. Len(req) \in Nat /\ 1 \in Int /\ MaxId \in Nat /\ MaxUsers \in Nat
  BY ApiAssumption, LenProperties DEF Base, ApiTypeOK
<1>2. IsFiniteSet(Log) /\ IsFiniteSet(Id)
  BY <1>1, FS_Interval DEF Log, Id
<1>3. /\ InFlight \in SUBSET Log /\ Inserting \in SUBSET Log /\ Live("users") \in SUBSET Id
      /\ Inserting \subseteq InFlight
  BY DEF InFlight, Inserting, Live, At
<1>4. IsFiniteSet(InFlight) /\ IsFiniteSet(Inserting) /\ IsFiniteSet(Live("users"))
  BY <1>2, <1>3, FS_Subset
<1>5. Sc.width \in Nat /\ Sc.width > 0
  BY SceneTypes DEF Sc, Base, ApiTypeOK, ScenarioType
<1> QED
  BY <1>1, <1>2, <1>3, <1>4, <1>5, FS_CardinalityType

(* The statements of CreateUser.                                           *)
LEMMA UserCreation ==
  ASSUME Inv, NEW r \in Log, Acts(r), A(r).op = "CreateUser"
  PROVE  /\ At(r, "CreateUser", "insert")' =>
              At(r, "CreateUser", "start") /\ db' = db /\ ~ LimitReached
         /\ \/ \A u \in Id : db'["users"][u].st = "live" => db["users"][u].st = "live"
            \/ /\ At(r, "CreateUser", "insert") /\ ~ At(r, "CreateUser", "insert")'
               /\ \E i \in Id : \A u \in Id : db'["users"][u].st = "live" =>
                                  u = i \/ db["users"][u].st = "live"
<1>1. Base /\ req[r].out = "pending" /\ A(r)' = A(r) /\ "users" \in Table
  BY ActsEffect DEF A, Table
<1>2. CASE Fault(r)
  BY <1>1, <1>2, FaultBreaks DEF Breaks, At, Ends
<1>3. CASE At(r, "CreateUser", "start") /\ Quiet /\ (Answer(r, "internal") \/ Answer(r, "conflict"))
  <2>1. Ends(r, "internal") \/ Ends(r, "conflict")
    BY <1>1, <1>3, EndsOf DEF Outcome
  <2> QED
    BY <1>3, <2>1 DEF Ends, At, Quiet
<1>4. CASE At(r, "CreateUser", "start") /\ Quiet /\ ~ LimitReached
  BY <1>4 DEF Quiet
<1>5. CASE At(r, "CreateUser", "insert") /\ InsertUser(r)
  <2>1. NoRow \in Row /\ NoRow.end = 0 /\ "touch" \in Pc /\ A(r).op \in Creations
        /\ Owned(r, "users", NoRow) /\ FALSE \in BOOLEAN
    BY <1>1 DEF NoRow, Row, AnyId, Pc, Creations, Owned
  <2>2. Inserts(r, "users", NoRow, FALSE, "touch")
    BY <1>5 DEF InsertUser
  <2>3. PICK i \in Id : Adds(r, "users", NoRow, "touch", i)
    BY <1>1, <2>1, <2>2, InsertsAdds
  <2>4. \A u \in Id : db'["users"][u].st = "live" => u = i \/ db["users"][u].st = "live"
    BY <1>1, <2>3 DEF Adds
  <2>5. ~ At(r, "CreateUser", "insert")'
    BY <2>3 DEF Adds, At
  <2> QED
    BY <1>5, <2>4, <2>5
<1>6. ASSUME NEW u, Touch(r, u)
      PROVE  ~ At(r, "CreateUser", "insert")' /\ req[r].pc = "touch"
  BY <1>1, <1>6, TouchOf DEF At, Ends
<1>7. CASE \E u \in req[r].made : Touch(r, u)
  <2>1. \A u \in Id : db'["users"][u].st = "live" => db["users"][u].st = "live"
    <3>1. PICK v : Touch(r, v)
      BY <1>7
    <3>2. \A u \in Id : RowStep(r, "users", db["users"][u], db'["users"][u])
      BY <1>1, ActsEffect DEF Effect
    <3> SUFFICES ASSUME NEW u \in Id, db'["users"][u].st = "live"
                 PROVE  db["users"][u].st = "live"
      OBVIOUS
    <3>3. db' = db \/ db' = [db EXCEPT !["users"][v].key = LatestOf(@, req[r].stamp)]
      BY <3>1 DEF Touch
    <3>4. db \in [Table -> [Id -> Row]]
      BY <1>1 DEF Base, ApiTypeOK
    <3>5. CASE db' = [db EXCEPT !["users"][v].key = LatestOf(@, req[r].stamp)] /\ u = v
      <4>1. db'["users"][u] = [db["users"][u] EXCEPT !.key = LatestOf(@, req[r].stamp)]
        BY <1>1, <3>4, <3>5
      <4> QED
        BY <1>1, <3>4, <4>1 DEF Row
    <3>6. CASE db' = [db EXCEPT !["users"][v].key = LatestOf(@, req[r].stamp)] /\ u # v
      <4>1. db'["users"][u] = db["users"][u]
        BY <1>1, <3>4, <3>6
      <4> QED
        BY <4>1
    <3> QED
      BY <3>3, <3>5, <3>6
  <2> QED
    BY <1>6, <1>7, <2>1
<1>8. CASE CreateUser(r)
  <2>1. CASE At(r, "CreateUser", "start") /\ Quiet
    <3>1. Answer(r, "internal") \/ Answer(r, "conflict") \/ ~ LimitReached
      BY <1>8, <2>1 DEF CreateUser, At, Touch
    <3> QED
      BY <1>3, <1>4, <2>1, <3>1
  <2> QED
    BY <1>5, <1>7, <1>8, <2>1 DEF CreateUser
<1> QED
  BY <1>2, <1>8, StepIsOf DEF Acts, StepOf, Lists, Views

LEMMA FlightActs ==
  ASSUME Inv, NEW r \in Log, Acts(r)
  PROVE  InFlight' \subseteq InFlight
<1>1. Log' = Log /\ req[r].out = "pending" /\ \A s \in Log : s # r => req'[s] = req[s]
  BY ActsEffect
<1> QED
  BY <1>1 DEF InFlight

LEMMA LimitActs ==
  ASSUME LimitInv, NEW r \in Log, Acts(r)
  PROVE  LimitInv'
<1>1. Inv /\ Base /\ Inv' /\ Base' /\ Log' = Log /\ "users" \in Table
  BY ActsEffect, MovedInv DEF LimitInv, Table, Inv
<1>2. Sc' = Sc
  <2>1. scene' = scene
    BY <1>1, ActsEffect DEF Effect, Around
  <2> QED
    BY <2>1 DEF Sc
<1>3. Cardinality(InFlight') <= Cardinality(InFlight)
  BY <1>1, FlightActs, FiniteParts, FS_Subset
<1>4. /\ Cardinality(InFlight) \in Nat /\ Cardinality(Inserting) \in Nat
      /\ Cardinality(Live("users")) \in Nat /\ Sc.width \in Nat /\ MaxUsers \in Nat
      /\ IsFiniteSet(Inserting) /\ IsFiniteSet(Live("users"))
  BY <1>1, FiniteParts
<1>5. /\ Cardinality(InFlight') \in Nat /\ Cardinality(Inserting') \in Nat
      /\ Cardinality(Live("users")') \in Nat /\ IsFiniteSet(Inserting')
      /\ Cardinality(Inserting') <= Cardinality(InFlight')
  <2>1. IsFiniteSet(Log') /\ IsFiniteSet(Id)
    BY <1>1, ApiAssumption, FiniteParts, FS_Interval DEF Id
  <2>2. InFlight' \in SUBSET Log' /\ Inserting' \in SUBSET InFlight' /\ Live("users")' \in SUBSET Id
    BY DEF InFlight, Inserting, Live, At
  <2>3. IsFiniteSet(InFlight') /\ IsFiniteSet(Live("users")')
    BY <2>1, <2>2, FS_Subset
  <2>4. IsFiniteSet(Inserting') /\ Cardinality(Inserting') <= Cardinality(InFlight')
    BY <2>2, <2>3, FS_Subset
  <2> QED
    BY <2>3, <2>4, FS_CardinalityType
<1>6. \A s \in Log : s # r => (s \in Inserting' <=> s \in Inserting)
  BY <1>1, ActsEffect DEF Inserting, At, A
<1>7. ASSUME MaxUsers > 0
      PROVE  Cardinality(Live("users")') + Cardinality(Inserting') < MaxUsers + Sc.width
  <2>1. CASE A(r).op # "CreateUser"
    <3>1. \A u \in Id : db'["users"][u].st = "live" => db["users"][u].st = "live"
      BY <1>1, <2>1, LiveRow DEF Writes, Creations, DigestOps
    <3>2. Live("users")' \in SUBSET Live("users")
      BY <3>1 DEF Live
    <3>3. Cardinality(Live("users")') <= Cardinality(Live("users"))
      BY <1>4, <3>2, FS_Subset
    <3>4. r \notin Inserting /\ r \notin Inserting'
      BY <1>1, <2>1, ActsEffect DEF Inserting, At, A
    <3>5. Inserting' = Inserting
      BY <1>1, <1>6, <3>4 DEF Inserting
    <3> QED
      BY <1>4, <1>5, <1>7, <3>3, <3>5 DEF LimitInv
  <2>2. CASE A(r).op = "CreateUser" /\ At(r, "CreateUser", "insert")'
    <3>1. db' = db /\ ~ LimitReached
      BY <1>1, <2>2, UserCreation
    <3>2. Cardinality(Live("users")') < MaxUsers
      BY <1>4, <1>7, <3>1 DEF LimitReached, CountActiveUsers, Live
    <3> QED
      BY <1>3, <1>4, <1>5, <3>2 DEF LimitInv
  <2>3. CASE A(r).op = "CreateUser" /\ ~ At(r, "CreateUser", "insert")'
    <3>1. r \notin Inserting'
      BY <2>3 DEF Inserting
    <3>2. Inserting' = Inserting \ {r}
      BY <1>1, <1>6, <3>1 DEF Inserting
    <3>3. Cardinality(Inserting') = IF r \in Inserting THEN Cardinality(Inserting) - 1
                                    ELSE Cardinality(Inserting)
      BY <1>4, <3>2, FS_RemoveElement
    <3>4. CASE \A u \in Id : db'["users"][u].st = "live" => db["users"][u].st = "live"
      <4>1. Live("users")' \in SUBSET Live("users")
        BY <3>4 DEF Live
      <4>2. Cardinality(Live("users")') <= Cardinality(Live("users"))
        BY <1>4, <4>1, FS_Subset
      <4> QED
        BY <1>4, <1>5, <1>7, <3>3, <4>2 DEF LimitInv
    <3>5. ASSUME At(r, "CreateUser", "insert"), NEW i \in Id,
                 \A u \in Id : db'["users"][u].st = "live" => u = i \/ db["users"][u].st = "live"
          PROVE  Cardinality(Live("users")') + Cardinality(Inserting') < MaxUsers + Sc.width
      <4> DEFINE more == Live("users") \cup {i}
      <4>1. IsFiniteSet(more) /\ Cardinality(more) <= Cardinality(Live("users")) + 1
            /\ Cardinality(more) \in Nat
        <5>1. /\ IsFiniteSet(more)
              /\ Cardinality(more) = IF i \in Live("users") THEN Cardinality(Live("users"))
                                    ELSE Cardinality(Live("users")) + 1
          BY <1>4, FS_AddElement
        <5> QED
          BY <1>4, <5>1
      <4>2. Live("users")' \in SUBSET more
        BY <3>5 DEF Live
      <4>3. Cardinality(Live("users")') <= Cardinality(more)
        BY <4>1, <4>2, FS_Subset
      <4>4. r \in Inserting
        BY <3>5 DEF Inserting
      <4> QED
        BY <1>4, <1>5, <1>7, <3>3, <4>1, <4>3, <4>4 DEF LimitInv
    <3> QED
      BY <1>1, <2>3, <3>4, <3>5, UserCreation
  <2> QED
    BY <2>1, <2>2, <2>3
<1> QED
  BY <1>1, <1>2, <1>3, <1>4, <1>5, <1>7 DEF LimitInv

LEMMA LimitArrive ==
  ASSUME LimitInv, NEW a \in Sc.asks, Arrive(a)
  PROVE  LimitInv'
<1>1. Inv /\ Base /\ Inv'
  BY ArriveInv DEF LimitInv, Inv
<1>2. PICK n : n = Len(req) + 1
  OBVIOUS
<1>3. /\ Log' = Log \cup {n} /\ n \notin Log /\ \A s \in Log : req'[s] = req[s]
      /\ db' = db /\ scene' = scene
  BY <1>1, <1>2, ArriveEffect
<1>4. /\ IsFiniteSet(InFlight) /\ Cardinality(InFlight) \in Nat /\ Sc.width \in Nat
      /\ Cardinality(InFlight) < Sc.width
  BY <1>1, FiniteParts DEF Arrive
<1> DEFINE more == InFlight \cup {n}
<1>5. IsFiniteSet(more) /\ Cardinality(more) <= Cardinality(InFlight) + 1 /\ Cardinality(more) \in Nat
  <2>1. /\ IsFiniteSet(more)
        /\ Cardinality(more) = IF n \in InFlight THEN Cardinality(InFlight)
                              ELSE Cardinality(InFlight) + 1
    BY <1>4, FS_AddElement
  <2> QED
    BY <1>4, <2>1
<1>6. InFlight' \in SUBSET more
  BY <1>3 DEF InFlight
<1>7. Cardinality(InFlight') <= Cardinality(more) /\ Cardinality(InFlight') \in Nat
  BY <1>5, <1>6, FS_Subset, FS_CardinalityType
<1>8. Cardinality(InFlight') <= Sc.width
  BY <1>4, <1>5, <1>7
<1>9. ~ At(n, "CreateUser", "insert")'
  BY <1>1, <1>2, ArriveLog DEF At
<1>10. \A s \in Log : At(s, "CreateUser", "insert")' <=> At(s, "CreateUser", "insert")
  BY <1>3 DEF At, A
<1>11. Inserting' = Inserting
  BY <1>3, <1>9, <1>10 DEF Inserting
<1>12. Sc' = Sc /\ Live("users")' = Live("users")
  BY <1>3 DEF Sc, Live
<1> QED
  BY <1>1, <1>8, <1>11, <1>12 DEF LimitInv

(* The limit on users is passed by less than the number of requests that   *)
(* run beside each other.                                                  *)
THEOREM LimitOvershootCorrect == Spec => []LimitOvershoot
<1>1. Init => LimitInv
  <2> SUFFICES ASSUME Init PROVE LimitInv
    OBVIOUS
  <2>1. Log = {} /\ Inv /\ Base
    BY InitInv DEF Init, Log, Inv
  <2>2. scene \in DOMAIN Scenario /\ db = Scenario[scene].start
    BY DEF Init
  <2>3. Fresh(db)
    BY <2>2, SceneTypes
  <2>4. InFlight = {} /\ Inserting = {}
    BY <2>1 DEF InFlight, Inserting
  <2>5. MaxUsers > 0 => Cardinality(Live("users")) <= MaxUsers
    BY <2>3 DEF Fresh, Live
  <2>6. Cardinality(InFlight) = 0 /\ Cardinality(Inserting) = 0
    BY <2>4, FS_EmptySet
  <2> QED
    BY <2>1, <2>5, <2>6, FiniteParts DEF LimitInv
<1>2. LimitInv /\ [Next]_vars => LimitInv'
  <2> SUFFICES ASSUME LimitInv, [Next]_vars PROVE LimitInv'
    OBVIOUS
  <2>1. CASE UNCHANGED vars
    <3>1. db' = db /\ req' = req /\ scene' = scene /\ Inv'
      BY <2>1, StutterInv DEF vars, LimitInv
    <3>2. Log' = Log
      BY <3>1 DEF Log
    <3>3. InFlight' = InFlight /\ Inserting' = Inserting /\ Live("users")' = Live("users") /\ Sc' = Sc
      BY <3>1, <3>2 DEF InFlight, Inserting, Live, Sc, At, A
    <3> QED
      BY <3>1, <3>3 DEF LimitInv
  <2> QED
    BY <2>1, NextActs, LimitActs, LimitArrive
<1>3. LimitInv => LimitOvershoot
  <2> SUFFICES ASSUME LimitInv PROVE LimitOvershoot
    OBVIOUS
  <2>1. Base
    BY DEF LimitInv, Inv
  <2> QED
    BY <2>1, FiniteParts DEF LimitInv, LimitOvershoot
<1> QED
  BY <1>1, <1>2, <1>3, PTL DEF Spec
-----------------------------------------------------------------------------
(* A live row that changed was updated, or its user was seen.              *)
LEMMA ChangedRow ==
  ASSUME Inv, NEW r \in Log, Acts(r), NEW t \in Table, NEW i \in Id,
         db[t][i].st = "live", db'[t][i].st = "live", db'[t][i] # db[t][i]
  PROVE  \/ Seen(t, db[t][i], db'[t][i])
         \/ A(r).op \in Changes /\ Writes(A(r).op, t) /\ db'[t][i].mark = r
<1>1. PICK T : T = TablesOf(A(r).op)
  OBVIOUS
<1>2. Base /\ Effect(r, T)
  BY <1>1, ActsEffect
<1>3. db[t][i] \in Row /\ db'[t][i] \in Row /\ RowStep(r, t, db[t][i], db'[t][i])
  BY <1>2, RowsMoved DEF Effect
<1>4. CASE ~ Seen(t, db[t][i], db'[t][i])
  <2>1. Writes(A(r).op, t)
    BY <1>1, <1>2, <1>4 DEF Effect, TablesOf
  <2>2. db'[t][i] # Dead(db[t][i], r)
    BY <1>3 DEF Dead, Row
  <2> QED
    BY <1>3, <1>4, <2>1, <2>2 DEF RowStep
<1> QED
  BY <1>4

LEMMA OverlapFixed ==
  ASSUME Inv, NEW r \in Log, Acts(r), NEW p \in Log, NEW q \in Log
  PROVE  Overlapped(p, q)' <=> Overlapped(p, q)
<1>1. (Before(p, q)' <=> Before(p, q)) /\ (Before(q, p)' <=> Before(q, p))
  BY BeforeFixed
<1> QED
  BY <1>1 DEF Overlapped
-----------------------------------------------------------------------------
(* A note is completed by the update that says so, and by every one after  *)
(* it, which has the completed note for a copy.                            *)
Past(q) == IF q.out = "pending" THEN q.pc = "touch" ELSE q.out = "ok"

Completes(p) == A(p).op = "UpdateBacklog" /\ A(p).done /\ Past(req[p])

Reopens(p, q) == /\ A(q).op = "UpdateBacklog" /\ A(q).id = A(p).id /\ ~ A(q).done
                 /\ Overlapped(p, q)

StaysCompleted(p) ==
  Completes(p) =>
    LET row == db["backlogs"][A(p).id]
    IN  row.st = "live" /\ ~ row.done => \E q \in Log : Reopens(p, q)

HoldsCompleted(p, r) ==
  /\ Completes(p) /\ Before(p, r) /\ A(r).op = "UpdateBacklog" /\ A(r).id = A(p).id
  /\ req[r].out = "pending" /\ req[r].pc \in {"check", "write"} /\ ~ req[r].copy.done
  => \E q \in Log : Reopens(p, q)

CompletedInv == Inv /\ \A p \in Log : StaysCompleted(p) /\ \A r \in Log : HoldsCompleted(p, r)

(* The statements of UpdateBacklog.                                        *)
LEMMA BacklogUpdate ==
  ASSUME Inv, NEW r \in Log, Acts(r), A(r).op = "UpdateBacklog"
  PROVE  /\ \A i \in Id : db'["backlogs"][i] # db["backlogs"][i] =>
              /\ i = A(r).id /\ req[r].pc = "write"
              /\ db'["backlogs"][i].done = (req[r].copy.done \/ A(r).done)
         /\ req'[r].out = "pending" /\ req'[r].pc \in {"check", "write"} =>
              \/ A(r).id \in Live("backlogs") /\ req'[r].copy = db["backlogs"][A(r).id]
              \/ req[r].pc \in {"check", "write"} /\ req'[r].copy = req[r].copy
         /\ Past(req'[r]) =>
              \/ Past(req[r]) /\ db'["backlogs"] = db["backlogs"]
              \/ A(r).id \in Id /\ db'["backlogs"][A(r).id].st = "live"
                   => db'["backlogs"][A(r).id].done = (req[r].copy.done \/ A(r).done)
<1>1. Base /\ req[r].out = "pending" /\ A(r)' = A(r) /\ "backlogs" \in Table
      /\ db \in [Table -> [Id -> Row]] /\ req[r] \in Request
  BY ActsEffect, InLog DEF A, Table, Base, ApiTypeOK
<1>2. CASE Fault(r)
  <2>1. req[r].pc # "publish"
    BY <1>1 DEF Inv, HeldOK, Keyed, Place, Rewriters
  <2> QED
    BY <1>1, <1>2, <2>1, FaultBreaks DEF Breaks, Ends, Past
<1>3. CASE Reads(r, "backlogs", "check")
  <2>1. Took(r, "backlogs", "check") \/ Ends(r, "notfound")
    BY <1>1, <1>3, TookOf DEF Pc
  <2> QED
    BY <1>3, <2>1 DEF Took, Ends, Past, Reads, Quiet
<1>4. CASE At(r, "UpdateBacklog", "check") /\ Requires(r, ~ A(r).blank, "validation", "write")
  <2>1. Goes(r, "write") \/ Ends(r, "validation")
    BY <1>1, <1>4, RequiresOf DEF Pc, Outcome
  <2> QED
    BY <1>4, <2>1 DEF Goes, Ends, Past, Requires, Quiet, At
<1>5. CASE At(r, "UpdateBacklog", "write") /\ UpdateNoteRow(r, "backlogs")
  <2> DEFINE done == req[r].copy.done \/ A(r).done
             row == [req[r].copy EXCEPT !.done = @ \/ A(r).done]
             new == [row EXCEPT !.mark = r]
  <2>1. row \in Row /\ row.done = done
    BY <1>1, InLog DEF Row, Request, Ask
  <2>2. Updates(r, "backlogs", row, "touch")
    BY <1>5 DEF UpdateNoteRow
  <2> HIDE DEF row
  <2>3. Goes(r, "touch")
    BY <1>1, <2>2, UpdatesOf DEF Pc
  <2>4. db' = IF A(r).id \in Live("backlogs") THEN [db EXCEPT !["backlogs"][A(r).id] = new] ELSE db
    BY <2>2 DEF Updates
  <2>5. new.done = done
    BY <2>1 DEF Row
  <2> HIDE DEF new
  <2>6. \A i \in Id : db'["backlogs"][i] # db["backlogs"][i] => i = A(r).id /\ db'["backlogs"][i] = new
    BY <1>1, <2>4 DEF Live
  <2>7. A(r).id \in Id /\ db'["backlogs"][A(r).id].st = "live" => db'["backlogs"][A(r).id] = new
    BY <1>1, <2>4 DEF Live
  <2> QED
    BY <1>5, <2>3, <2>5, <2>6, <2>7 DEF Goes, At
<1>6. ASSUME NEW u, Touch(r, u)
      PROVE  req[r].pc = "touch" /\ Ends(r, "ok") /\ db'["backlogs"] = db["backlogs"]
  BY <1>1, <1>6, TouchOf DEF Touch, Table
<1>7. CASE UpdateBacklog(r)
  <2>1. CASE \E u : Touch(r, u)
    BY <1>1, <1>6, <2>1 DEF Ends, Past
  <2> QED
    BY <1>3, <1>4, <1>5, <1>7, <2>1 DEF UpdateBacklog, ReadsTitle
<1> QED
  BY <1>2, <1>7, StepIsOf DEF Acts, StepOf, Lists, Views

LEMMA CompletedActs ==
  ASSUME CompletedInv, NEW r \in Log, Acts(r)
  PROVE  CompletedInv'
<1>1. Inv /\ Base /\ Inv' /\ Log' = Log /\ req[r].out = "pending" /\ "backlogs" \in Table
      /\ \A s \in Log : req'[s].ask = req[s].ask /\ (s # r => req'[s] = req[s])
  BY ActsEffect, MovedInv DEF CompletedInv, Table
<1>2. \A s \in Log : A(s)' = A(s)
  BY <1>1 DEF A
<1>3. \A p, q \in Log : Reopens(p, q)' <=> Reopens(p, q)
  BY <1>1, <1>2, OverlapFixed DEF Reopens
<1>4. ASSUME NEW p \in Log, Completes(p)'
      PROVE  A(p).id \in Id /\ (p # r => Completes(p) /\ db["backlogs"][A(p).id].st # "none")
  <2>1. A(p).op = "UpdateBacklog" /\ A(p).op \in Keyed /\ Past(req'[p]) /\ TableOf(A(p).op) = "backlogs"
    BY <1>1, <1>2, <1>4 DEF Completes, Keyed, Rewriters, TableOf
  <2>2. Holds(req'[p])
    BY <2>1 DEF Past, Holds
  <2>3. HeldOK(p)'
    BY <1>1 DEF Inv
  <2>4. A(p).id \in Id
    BY <1>2, <2>1, <2>2, <2>3 DEF HeldOK
  <2>5. CASE p # r
    <3>1. req'[p] = req[p]
      BY <1>1, <2>5
    <3>2. Completes(p) /\ HeldOK(p)
      BY <1>1, <1>2, <1>4, <3>1 DEF Completes, Inv
    <3> QED
      BY <2>1, <2>2, <2>4, <3>1, <3>2 DEF HeldOK
  <2> QED
    BY <2>4, <2>5
<1>5. ASSUME NEW p \in Log
      PROVE  StaysCompleted(p)'
  <2> SUFFICES ASSUME Completes(p)', db'["backlogs"][A(p).id].st = "live",
                      ~ db'["backlogs"][A(p).id].done
               PROVE  \E q \in Log : Reopens(p, q)
    BY <1>1, <1>2, <1>3 DEF StaysCompleted
  <2>1. PICK i \in Id : i = A(p).id
    BY <1>4
  <2>2. CASE p = r
    <3>1. A(r).op = "UpdateBacklog" /\ A(r).done /\ Past(req'[r])
      BY <1>2, <2>2 DEF Completes
    <3>2. CASE Past(req[r]) /\ db'["backlogs"] = db["backlogs"]
      BY <2>2, <3>1, <3>2 DEF CompletedInv, StaysCompleted, Completes
    <3> QED
      BY <1>1, <2>1, <2>2, <3>1, <3>2, BacklogUpdate
  <2>3. CASE p # r /\ db'["backlogs"][i] = db["backlogs"][i]
    BY <1>4, <2>1, <2>3 DEF CompletedInv, StaysCompleted
  <2>4. CASE p # r /\ db'["backlogs"][i] # db["backlogs"][i]
    <3>1. Completes(p) /\ db["backlogs"][i].st # "none"
      BY <1>4, <2>1, <2>4
    <3>2. db["backlogs"][i].st = "live"
      BY <1>1, <2>1, <3>1, LiveRow
    <3>3. A(r).op = "UpdateBacklog"
      BY <1>1, <2>1, <2>4, <3>2, ChangedRow DEF Seen, Changes, Writes, DigestOps
    <3>4. i = A(r).id /\ req[r].pc = "write" /\ ~ req[r].copy.done /\ ~ A(r).done
      BY <1>1, <2>1, <2>4, <3>3, BacklogUpdate
    <3>5. CASE Before(p, r)
      BY <1>1, <2>1, <3>1, <3>3, <3>4, <3>5 DEF CompletedInv, HoldsCompleted
    <3>6. CASE ~ Before(p, r)
      <4>1. ~ Before(r, p)
        BY <1>1, InLog DEF Before
      <4> QED
        BY <2>1, <3>3, <3>4, <3>6, <4>1 DEF Reopens, Overlapped
    <3> QED
      BY <3>5, <3>6
  <2> QED
    BY <2>2, <2>3, <2>4
<1>6. ASSUME NEW p \in Log, NEW s \in Log
      PROVE  HoldsCompleted(p, s)'
  <2> SUFFICES ASSUME Completes(p)', Before(p, s)', A(s).op = "UpdateBacklog", A(s).id = A(p).id,
                      req'[s].out = "pending", req'[s].pc \in {"check", "write"},
                      ~ req'[s].copy.done
               PROVE  \E q \in Log : Reopens(p, q)
    BY <1>1, <1>2, <1>3 DEF HoldsCompleted
  <2>1. Before(p, s)
    BY <1>1, BeforeFixed
  <2>2. p # r
    BY <1>1, <2>1, InLog DEF Before
  <2>3. Completes(p)
    BY <1>4, <2>2
  <2>4. CASE s # r
    BY <1>1, <2>1, <2>3, <2>4 DEF CompletedInv, HoldsCompleted
  <2>5. CASE s = r /\ req[r].pc \in {"check", "write"} /\ req'[r].copy = req[r].copy
    BY <1>1, <2>1, <2>3, <2>5 DEF CompletedInv, HoldsCompleted
  <2>6. CASE s = r /\ A(r).id \in Live("backlogs") /\ req'[r].copy = db["backlogs"][A(r).id]
    BY <2>3, <2>6 DEF CompletedInv, StaysCompleted, Live
  <2> QED
    BY <1>1, <2>4, <2>5, <2>6, BacklogUpdate
<1> QED
  BY <1>1, <1>5, <1>6 DEF CompletedInv

LEMMA CompletedArrive ==
  ASSUME CompletedInv, NEW a \in Sc.asks, Arrive(a)
  PROVE  CompletedInv'
<1>1. Inv /\ Base /\ Inv'
  BY ArriveInv DEF CompletedInv, Inv
<1>2. PICK n : n = Len(req) + 1
  OBVIOUS
<1>3. /\ Log' = Log \cup {n} /\ n \notin Log /\ \A s \in Log : req'[s] = req[s]
      /\ db' = db
  BY <1>1, <1>2, ArriveEffect
<1>4. req'[n].out = "validation" \/ (req'[n].out = "pending" /\ req'[n].pc = "start")
  BY <1>1, <1>2, ArriveLog
<1>5. \A p \in Log : \A s : Before(p, s)' <=> Before(p, s)
  BY <1>1, BeforeArrived
<1>6. \A p \in Log : (Completes(p)' <=> Completes(p)) /\ A(p)' = A(p)
  BY <1>3 DEF Completes, A
<1>7. ~ Completes(n)'
  BY <1>4 DEF Completes, Past
<1>8. \A p, q \in Log : Reopens(p, q)' <=> Reopens(p, q)
  BY <1>5, <1>6 DEF Reopens, Overlapped
<1>9. ASSUME NEW p \in Log
      PROVE  StaysCompleted(p)' /\ \A s \in Log' : HoldsCompleted(p, s)'
  <2>1. StaysCompleted(p)'
    BY <1>3, <1>6, <1>8 DEF CompletedInv, StaysCompleted
  <2>2. \A s \in Log : HoldsCompleted(p, s)'
    BY <1>3, <1>5, <1>6, <1>8 DEF CompletedInv, HoldsCompleted
  <2>3. HoldsCompleted(p, n)'
    BY <1>4 DEF HoldsCompleted
  <2> QED
    BY <1>3, <2>1, <2>2, <2>3
<1>10. StaysCompleted(n)' /\ \A s : HoldsCompleted(n, s)'
  BY <1>7 DEF StaysCompleted, HoldsCompleted
<1> QED
  BY <1>1, <1>3, <1>9, <1>10 DEF CompletedInv

(* A note that was completed is open again only when an update beside the  *)
(* one that completed it wrote an older copy back.                         *)
THEOREM CompletedStaysCorrect == Spec => []CompletedStays
<1>1. Init => CompletedInv
  <2> SUFFICES ASSUME Init PROVE CompletedInv
    OBVIOUS
  <2>1. Log = {} /\ Inv
    BY InitInv DEF Init, Log
  <2> QED
    BY <2>1 DEF CompletedInv
<1>2. CompletedInv /\ [Next]_vars => CompletedInv'
  <2> SUFFICES ASSUME CompletedInv, [Next]_vars PROVE CompletedInv'
    OBVIOUS
  <2>1. CASE UNCHANGED vars
    <3>1. db' = db /\ req' = req /\ Inv'
      BY <2>1, StutterInv DEF vars, CompletedInv
    <3>2. Log' = Log
      BY <3>1 DEF Log
    <3>3. \A p, q : /\ Reopens(p, q)' <=> Reopens(p, q)
                    /\ Completes(p)' <=> Completes(p)
                    /\ Before(p, q)' <=> Before(p, q)
      BY <3>1 DEF Reopens, Completes, Before, Overlapped, A
    <3> QED
      BY <3>1, <3>2, <3>3 DEF CompletedInv, StaysCompleted, HoldsCompleted, A
  <2> QED
    BY <2>1, NextActs, CompletedActs, CompletedArrive
<1>3. CompletedInv => CompletedStays
  <2> SUFFICES ASSUME CompletedInv, NEW i \in Live("backlogs"), NEW p \in Log,
                      Answered(p, "UpdateBacklog"), A(p).id = i, A(p).done,
                      ~ db["backlogs"][i].done
               PROVE  \E q \in Log : /\ A(q).op = "UpdateBacklog" /\ A(q).id = i
                                     /\ ~ A(q).done /\ Overlapped(p, q)
    BY DEF CompletedStays
  <2>1. Completes(p) /\ StaysCompleted(p)
    BY DEF Answered, Completes, Past, CompletedInv
  <2> QED
    BY <2>1 DEF StaysCompleted, Reopens, Live
<1> QED
  BY <1>1, <1>2, <1>3, PTL DEF Spec
-----------------------------------------------------------------------------
(* The deletion of a user, statement by statement.                         *)
DeletionStep(r) ==
  \/ /\ req[r].pc = "start" /\ db' = db /\ armed' = armed
     /\ Took(r, "users", "tasks") \/ Ends(r, "notfound")
  \/ /\ req[r].pc = "tasks" /\ req'[r].pc = "remove" /\ req'[r].out = "pending"
     /\ req'[r].ids = GetTasksByUserID(A(r).id) /\ req'[r].hit = req[r].hit
     /\ db' = db /\ armed' = armed
  \/ /\ req[r].pc = "remove" /\ req[r].ids = {} /\ Goes(r, "chats")
     /\ db' = db /\ armed' = armed
  \/ /\ req[r].pc = "remove" /\ req'[r].pc = "name" /\ req'[r].out = "pending"
     /\ req'[r].hit = req[r].hit /\ req'[r].item \in req[r].ids
     /\ req'[r].ids = req[r].ids \ {req'[r].item}
     /\ db' = DeleteTaskRow(req'[r].item, r) /\ armed' = armed
  \/ /\ req[r].pc = "name" /\ db' = db /\ armed' = armed
     /\ \/ HasMessengerName(req[r].item) /\ Goes(r, "publish")
        \/ ~ HasMessengerName(req[r].item) /\ Goes(r, "remove")
  \/ /\ req[r].pc = "publish" /\ Goes(r, "remove")
     /\ db' = db /\ armed' = armed \ {req[r].item}
  \/ /\ req[r].pc = "chats" /\ Goes(r, "delete") /\ armed' = armed
     /\ \A t \in Table \ {"chats"} : db'[t] = db[t]
     /\ \A c \in Id : db'["chats"][c] = IF c \in Live("chats") /\ db["chats"][c].user = A(r).id
                                        THEN Dead(db["chats"][c], r) ELSE db["chats"][c]
  \/ /\ req[r].pc = "delete" /\ Ends(r, "ok") /\ armed' = armed
     /\ db' = IF HasUser(A(r).id) THEN [db EXCEPT !["users"][A(r).id] = Dead(@, r)] ELSE db

LEMMA UserDeletion ==
  ASSUME Inv, NEW r \in Log, Acts(r), A(r).op = "DeleteUser"
  PROVE  \/ DeletionStep(r) /\ req'[r].hit = req[r].hit
         \/ /\ req'[r].hit = "fault" /\ db' = db /\ armed' = armed
            /\ \/ req'[r].out = "internal"
               \/ /\ req'[r].out = "pending" /\ req[r].pc \in {"remove", "name"}
                  /\ req'[r].pc \in {"remove", "name"}
<1>1. /\ Base /\ req[r].out = "pending" /\ db \in [Table -> [Id -> Row]] /\ req[r] \in Request
      /\ Honest(req[r]) /\ A(r).op \in Removals
  BY ActsEffect, InLog DEF Base, ApiTypeOK, Inv, Removals
<1>2. CASE Fault(r)
  <2>1. req[r].pc # "touch"
    BY <1>1 DEF Inv, HeldOK, Keyed, Place, Rewriters
  <2> QED
    BY <1>1, <1>2, <2>1, FaultBreaks DEF Breaks
<1>3. CASE At(r, "DeleteUser", "start") /\ Reads(r, "users", "tasks")
  <2>1. Took(r, "users", "tasks") \/ Ends(r, "notfound")
    BY <1>1, <1>3, TookOf DEF Table, Pc
  <2> QED
    BY <1>3, <2>1 DEF Took, Ends, Kept, Reads, Quiet, At, DeletionStep
<1>4. CASE ListsTasks(r)
  <2> DEFINE S == GetTasksByUserID(A(r).id)
             q == [req[r] EXCEPT !.pc = "remove", !.ids = S]
  <2>1. req'[r] = q
    BY <1>1, <1>4, TasksToRemove
  <2>2. q.pc = "remove" /\ q.out = "pending" /\ q.ids = S /\ q.hit = req[r].hit
    BY <1>1 DEF Request
  <2> HIDE DEF q
  <2> QED
    BY <1>4, <2>1, <2>2 DEF ListsTasks, Quiet, At, DeletionStep
<1>5. CASE At(r, "DeleteUser", "remove") /\ req[r].ids = {} /\ Go(r, "chats") /\ Quiet
  <2>1. Goes(r, "chats")
    BY <1>1, <1>5, GoesOf DEF Pc
  <2> QED
    BY <1>5, <2>1 DEF Goes, Kept, Quiet, At, DeletionStep
<1>6. ASSUME NEW t \in req[r].ids, TakesTask(r, t)
      PROVE  DeletionStep(r) /\ req'[r].hit = req[r].hit
  <2>1. /\ req'[r].pc = "name" /\ req'[r].item = t /\ req'[r].ids = req[r].ids \ {t}
        /\ req'[r].out = "pending" /\ req'[r].hit = req[r].hit
    BY <1>1, <1>6, RemoveTask
  <2> QED
    BY <1>6, <2>1 DEF TakesTask, Aside, At, DeletionStep
<1>7. CASE /\ At(r, "DeleteUser", "name") /\ Quiet
           /\ Go(r, IF HasMessengerName(req[r].item) THEN "publish" ELSE "remove")
  <2>1. CASE HasMessengerName(req[r].item)
    <3>1. Goes(r, "publish")
      BY <1>1, <1>7, <2>1, GoesOf DEF Pc
    <3> QED
      BY <1>7, <2>1, <3>1 DEF Goes, Kept, Quiet, At, DeletionStep
  <2>2. CASE ~ HasMessengerName(req[r].item)
    <3>1. Goes(r, "remove")
      BY <1>1, <1>7, <2>2, GoesOf DEF Pc
    <3> QED
      BY <1>7, <2>2, <3>1 DEF Goes, Kept, Quiet, At, DeletionStep
  <2> QED
    BY <2>1, <2>2
<1>8. CASE /\ At(r, "DeleteUser", "publish")
           /\ armed' = armed \ {req[r].item} /\ Go(r, "remove")
           /\ UNCHANGED <<db, told, scene, failed>>
  <2>1. Goes(r, "remove")
    BY <1>1, <1>8, GoesOf DEF Pc
  <2> QED
    BY <1>8, <2>1 DEF Goes, Kept, At, DeletionStep
<1>9. CASE TakesChats(r)
  <2> DEFINE q == [req[r] EXCEPT !.pc = "delete", !.wrote = TRUE]
  <2>1. /\ req'[r] = q
        /\ \A c \in Id : db'["chats"][c] = IF c \in Live("chats") /\ db["chats"][c].user = A(r).id
                                           THEN Dead(db["chats"][c], r) ELSE db["chats"][c]
    BY <1>1, <1>9, RemoveChats
  <2>2. /\ q.pc = "delete" /\ q.out = "pending" /\ q.ids = req[r].ids /\ q.copy = req[r].copy
        /\ q.item = req[r].item /\ q.ask = req[r].ask /\ q.made = req[r].made
        /\ q.hit = req[r].hit /\ q.total = req[r].total
    BY <1>1 DEF Request
  <2> HIDE DEF q
  <2>3. Goes(r, "delete") /\ req'[r].hit = req[r].hit
    BY <2>1, <2>2 DEF Goes, Kept
  <2>4. \A t \in Table \ {"chats"} : db'[t] = db[t]
    BY <1>1, <1>9 DEF TakesChats
  <2> QED
    BY <1>9, <2>1, <2>3, <2>4 DEF TakesChats, Aside, At, DeletionStep
<1>10. CASE At(r, "DeleteUser", "delete") /\ DeleteUserRow(r) /\ Answer(r, "ok") /\ Aside
  <2>1. Ends(r, "ok")
    BY <1>1, <1>10, EndsOf DEF Outcome
  <2> QED
    BY <1>10, <2>1 DEF Ends, Kept, Aside, At, DeletionStep, DeleteUserRow
<1>11. CASE DeleteUser(r)
  BY <1>3, <1>4, <1>5, <1>6, <1>7, <1>8, <1>9, <1>10, <1>11, DeleteUserSteps
<1> QED
  BY <1>2, <1>11, StepIsOf DEF Acts, StepOf, Lists, Views
-----------------------------------------------------------------------------
(* What begins after the deletion of a user was answered finds no user.    *)
Makers == {"CreateTaskGroup", "CreateMessengerRelatedUser", "CreateTask", "CreateDigestSettings",
           "CreateBacklog", "CreateBacklogsBatch", "CreateTarget"}

Subject(r) == IF A(r).op = "DeleteUser" THEN A(r).id ELSE A(r).user

(* Past the statement that looks for the user.                             *)
Going(q) == IF q.out = "pending" THEN q.pc # "start" ELSE q.out = "ok"

UserGone(p) ==
  Answered(p, "DeleteUser") => A(p).id \in Id /\ db["users"][A(p).id].st = "gone"

UserThere(r) ==
  A(r).op \in Makers \cup {"DeleteUser"} /\ Going(req[r])
  => \A p \in Deletions(Subject(r)) : ~ Before(p, r)

GoneInv == Inv /\ \A r \in Log : UserGone(r) /\ UserThere(r)

LEMMA OwnerStart ==
  ASSUME Base, NEW r \in Log, req[r].out = "pending", NEW pc \in Pc, Going(req'[r]),
         Requires(r, A(r).user \in Live("users"), "unprocessable", pc)
  PROVE  A(r).user \in Live("users")
<1> DEFINE found == A(r).user \in Live("users")
<1> HIDE DEF found
<1>1. Requires(r, found, "unprocessable", pc)
  BY DEF found
<1>2. found \/ Ends(r, "unprocessable")
  BY <1>1, RequiresOf DEF Outcome
<1> QED
  BY <1>2 DEF found, Ends, Going

LEMMA MakerStart ==
  ASSUME Inv, NEW r \in Log, Acts(r), A(r).op \in Makers \cup {"DeleteUser"}, Going(req'[r]),
         req[r].pc = "start"
  PROVE  Subject(r) \in Live("users")
<1>1. Base /\ req[r].out = "pending"
  BY ActsEffect
<1>2. ~ Answer(r, "validation") /\ ~ Answer(r, "internal")
  <2>1. ASSUME NEW out \in {"validation", "internal"}, Answer(r, out)
        PROVE  FALSE
    <3>1. Ends(r, out)
      BY <1>1, <2>1, EndsOf DEF Outcome
    <3> QED
      BY <2>1, <3>1 DEF Ends, Going
  <2> QED
    BY <2>1
<1>3. ~ Fault(r)
  BY <1>1, FaultBreaks DEF Breaks, Going
<1>4. CASE A(r).op = "DeleteUser"
  BY <1>1, <1>3, <1>4, UserDeletion DEF DeletionStep, Took, Ends, Going, Subject
<1>5. CASE A(r).op \in Makers
  <2>1. Subject(r) = A(r).user
    BY <1>5 DEF Subject, Makers
  <2>2. "insert" \in Pc /\ "messenger" \in Pc /\ "chat" \in Pc
    BY DEF Pc
  <2>3. \E pc \in {"insert", "messenger", "chat"} :
          Requires(r, A(r).user \in Live("users"), "unprocessable", pc)
    <3>1. CASE A(r).op = "CreateTaskGroup" /\ CreateTaskGroup(r)
      BY <1>2, <3>1 DEF CreateTaskGroup, At, Touch
    <3>2. CASE A(r).op = "CreateMessengerRelatedUser" /\ CreateMessengerRelatedUser(r)
      BY <1>2, <3>2 DEF CreateMessengerRelatedUser, At, Touch
    <3>3. CASE A(r).op = "CreateTask" /\ CreateTask(r)
      BY <3>3 DEF CreateTask, ChecksOwner, At, Touch
    <3>4. CASE A(r).op = "CreateDigestSettings" /\ CreateDigestSettings(r)
      BY <3>4 DEF CreateDigestSettings, At, Touch
    <3>5. CASE A(r).op = "CreateBacklog" /\ CreateBacklog(r)
      BY <3>5 DEF CreateBacklog, ChecksOwner, At, Touch
    <3>6. CASE A(r).op = "CreateBacklogsBatch" /\ CreateBacklogsBatch(r)
      BY <3>6 DEF CreateBacklogsBatch, BatchLine, ChecksOwner, At, Touch
    <3>7. CASE A(r).op = "CreateTarget" /\ CreateTarget(r)
      BY <3>7 DEF CreateTarget, ChecksOwner, At, Touch
    <3>8. StepOf(r)
      BY <1>3, StepIsOf DEF Acts
    <3> QED
      BY <1>5, <3>1, <3>2, <3>3, <3>4, <3>5, <3>6, <3>7, <3>8 DEF StepOf, Makers, Lists, Views
  <2>4. PICK pc \in {"insert", "messenger", "chat"} :
          Requires(r, A(r).user \in Live("users"), "unprocessable", pc)
    BY <2>3
  <2>5. pc \in Pc
    BY <2>2, <2>4
  <2> QED
    BY <1>1, <2>1, <2>4, <2>5, OwnerStart
<1> QED
  BY <1>4, <1>5

LEMMA UserGoneActs ==
  ASSUME GoneInv, NEW r \in Log, Acts(r), NEW p \in Log
  PROVE  UserGone(p)'
<1>1. /\ Inv /\ Base /\ Inv' /\ req[r].out = "pending" /\ "users" \in Table /\ db \in [Table -> [Id -> Row]]
      /\ req'[p].ask = req[p].ask /\ (p # r => req'[p] = req[p]) /\ Log' = Log
  BY ActsEffect, MovedInv DEF GoneInv, Table, Base, ApiTypeOK
<1> SUFFICES ASSUME A(p).op = "DeleteUser", req'[p].out = "ok"
             PROVE  A(p).id \in Id /\ db'["users"][A(p).id].st = "gone"
  BY <1>1 DEF UserGone, Answered, A
<1>2. CASE p # r
  BY <1>1, <1>2, GoneKept DEF GoneInv, UserGone, Answered
<1>3. CASE p = r
  <2>1. A(r).id \in Id /\ db["users"][A(r).id].st # "none"
    <3>1. req[r].pc = "delete"
      BY <1>1, <1>3, UserDeletion DEF DeletionStep, Took, Ends, Goes
    <3>2. A(r).op \in Keyed /\ TableOf(A(r).op) = "users" /\ Holds(req[r]) /\ HeldOK(r)
      BY <1>1, <1>3, <3>1 DEF Keyed, TableOf, Holds, Inv
    <3> QED
      BY <3>2 DEF HeldOK
  <2>2. db' = IF HasUser(A(r).id) THEN [db EXCEPT !["users"][A(r).id] = Dead(@, r)] ELSE db
    BY <1>1, <1>3, UserDeletion DEF DeletionStep, Took, Ends, Goes
  <2>3. CASE HasUser(A(r).id)
    <3>1. db'["users"][A(r).id] = Dead(db["users"][A(r).id], r)
      BY <1>1, <2>1, <2>2, <2>3
    <3> QED
      BY <1>1, <1>3, <2>1, <3>1 DEF Dead, Row
  <2>4. CASE ~ HasUser(A(r).id)
    <3>1. db' = db /\ db["users"][A(r).id].st # "live" /\ db["users"][A(r).id] \in Row
      BY <1>1, <2>1, <2>2, <2>4 DEF HasUser, Live
    <3> QED
      BY <1>3, <2>1, <3>1 DEF Row
  <2> QED
    BY <2>3, <2>4
<1> QED
  BY <1>2, <1>3

LEMMA UserThereActs ==
  ASSUME GoneInv, NEW r \in Log, Acts(r), NEW s \in Log
  PROVE  UserThere(s)'
<1>1. /\ Inv /\ Base /\ req[r].out = "pending" /\ Log' = Log
      /\ \A p \in Log : req'[p].ask = req[p].ask /\ (p # r => req'[p] = req[p])
  BY ActsEffect DEF GoneInv
<1>2. \A p \in Log : A(p)' = A(p) /\ (Subject(p)' = Subject(p))
  BY <1>1 DEF A, Subject
<1> SUFFICES ASSUME A(s).op \in Makers \cup {"DeleteUser"}, Going(req'[s]),
                    NEW p \in Log, A(p).op = "DeleteUser", A(p).id = Subject(s),
                    req'[p].out = "ok", Before(p, s)'
             PROVE  FALSE
  BY <1>1, <1>2 DEF UserThere, Deletions, Answered
<1>3. Before(p, s)
  BY <1>1, BeforeFixed
<1>4. p # r /\ Answered(p, "DeleteUser")
  BY <1>1, <1>3, InLog DEF Before, Answered
<1>5. p \in Deletions(Subject(s))
  BY <1>4 DEF Deletions
<1>6. CASE Going(req[s])
  BY <1>3, <1>5, <1>6 DEF GoneInv, UserThere
<1>7. CASE ~ Going(req[s])
  <2>1. s = r /\ req[r].pc = "start"
    BY <1>1, <1>7 DEF Going
  <2>2. Subject(r) \in Live("users")
    BY <1>1, <2>1, MakerStart
  <2> QED
    BY <1>4, <2>1, <2>2 DEF GoneInv, UserGone, Live
<1> QED
  BY <1>6, <1>7

LEMMA GoneArrive ==
  ASSUME GoneInv, NEW a \in Sc.asks, Arrive(a)
  PROVE  GoneInv'
<1>1. Inv /\ Base /\ Inv'
  BY ArriveInv DEF GoneInv, Inv
<1>2. PICK n : n = Len(req) + 1
  OBVIOUS
<1>3. /\ Log' = Log \cup {n} /\ n \notin Log /\ \A s \in Log : req'[s] = req[s]
      /\ db' = db
  BY <1>1, <1>2, ArriveEffect
<1>4. req'[n].out = "validation" \/ (req'[n].out = "pending" /\ req'[n].pc = "start")
  BY <1>1, <1>2, ArriveLog
<1>5. \A p \in Log : \A s : Before(p, s)' <=> Before(p, s)
  BY <1>1, BeforeArrived
<1>6. \A s \in Log : A(s)' = A(s) /\ (Subject(s)' = Subject(s))
                     /\ \A op : Answered(s, op)' <=> Answered(s, op)
  BY <1>3 DEF A, Subject, Answered
<1>7. \A op : ~ Answered(n, op)'
  BY <1>4 DEF Answered
<1>8. \A s \in Log : Deletions(Subject(s))' = Deletions(Subject(s))
  BY <1>3, <1>6, <1>7 DEF Deletions
<1>9. \A s \in Log : UserGone(s)' /\ UserThere(s)'
  BY <1>3, <1>5, <1>6, <1>8 DEF GoneInv, UserGone, UserThere, Deletions
<1>10. UserGone(n)' /\ UserThere(n)'
  BY <1>4, <1>7 DEF UserGone, UserThere, Going
<1> QED
  BY <1>1, <1>3, <1>9, <1>10 DEF GoneInv

LEMMA GoneStep ==
  ASSUME GoneInv, [Next]_vars
  PROVE  GoneInv'
<1>1. ASSUME NEW r \in Log, Acts(r)
      PROVE  GoneInv'
  <2>1. Inv' /\ Log' = Log
    BY <1>1, ActsEffect, MovedInv DEF GoneInv
  <2> QED
    BY <1>1, <2>1, UserGoneActs, UserThereActs DEF GoneInv
<1>2. CASE UNCHANGED vars
  <2>1. db' = db /\ req' = req /\ Inv'
    BY <1>2, StutterInv DEF vars, GoneInv
  <2> QED
    BY <2>1 DEF GoneInv, UserGone, UserThere, Log, A, Answered, Deletions, Subject, Before
<1> QED
  BY <1>1, <1>2, NextActs, GoneArrive

LEMMA GoneInit ==
  ASSUME Init
  PROVE  GoneInv
<1>1. Log = {} /\ Inv
  BY InitInv DEF Init, Log
<1> QED
  BY <1>1 DEF GoneInv
-----------------------------------------------------------------------------
(* What is left with the worker of a user who was deleted.                 *)
Sweeping(q) == q.out = "pending" /\ q.pc \in {"remove", "name", "publish"}
Swept(q)    == IF q.out = "pending" THEN q.pc \in {"chats", "delete"} ELSE q.out = "ok"
Cut(q)      == IF q.out = "pending" THEN q.pc = "delete" ELSE q.out = "ok"

(* The tasks a deletion has before it, the one it is at included.          *)
InHand(q, t) == t \in q.ids \/ (q.pc \in {"name", "publish"} /\ t = q.item)

Deleter(p) == A(p).op = "DeleteUser"
NoSlip     == \A q \in Log : Deleter(q) => req[q].hit = "no"

(* A task the deletion p has to remove: it was there before p began.       *)
Mine(p, t) == /\ db["tasks"][t].user = A(p).id /\ ~ db["tasks"][t].done
              /\ Before(db["tasks"][t].by, p)

(* Its chat was one of the user's, so the worker can be told of it.        *)
Named(p, t) == /\ db["tasks"][t].chat # NoId
               /\ db["chats"][db["tasks"][t].chat].user = A(p).id

(* Another request beside p that had the task or the user.                 *)
Beside(p, t) ==
  \E q \in Log \ {p} :
    /\ Overlapped(q, p)
    /\ \/ A(q).op = "QueueTask" /\ A(q).id = t
       \/ A(q).op = "DeleteUser" /\ A(q).id = A(p).id

HandOK(p) ==
  Deleter(p) /\ req[p].hit = "no" /\ Sweeping(req[p]) =>
    \A t \in Id : InHand(req[p], t) => /\ db["tasks"][t].st # "none"
                                       /\ db["tasks"][t].user = A(p).id

SweepOK(p) ==
  Deleter(p) /\ req[p].hit = "no" /\ (Sweeping(req[p]) \/ Swept(req[p])) =>
    \A t \in Live("tasks") : Mine(p, t) => Sweeping(req[p]) /\ t \in req[p].ids

CutOK(p) ==
  Deleter(p) /\ Cut(req[p]) =>
    \A c \in Live("chats") : db["chats"][c].user = A(p).id => ~ Before(db["chats"][c].by, p)

(* A row of a user that is gone was removed by a deletion of the user.     *)
TaskEnd(t) ==
  LET row == db["tasks"][t]  e == row.end
  IN  row.st = "gone" =>
        /\ e \in Log /\ Deleter(e)
        /\ req[e].hit = "no" => A(e).id = row.user /\ (Sweeping(req[e]) \/ Swept(req[e]))

ChatEnd(c) ==
  LET row == db["chats"][c]  e == row.end
  IN  row.st = "gone" =>
        /\ e \in Log /\ Deleter(e) /\ A(e).id = row.user
        /\ req[e].hit = "no" => Cut(req[e])

(* What is queued was not removed before.                                  *)
QueueOK(q) ==
  A(q).op = "QueueTask" /\ req[q].out = "pending" /\ req[q].pc \in {"messenger", "queue"} =>
    \A p \in Log : /\ Answered(p, "DeleteUser") /\ req[p].hit = "no" /\ Before(p, q)
                   => ~ Mine(p, A(q).id)

(* The chat of a task was there when the task was made.                    *)
ChatWas(t) == db["tasks"][t].chat # NoId => db["chats"][db["tasks"][t].chat].st # "none"

OwnChat(r) ==
  At(r, "CreateTask", "insert") /\ A(r).chat # NoId => db["chats"][A(r).chat].st # "none"

SilentOK(p) ==
  NoSlip /\ Deleter(p) /\ (Sweeping(req[p]) \/ Swept(req[p])) =>
    \A t \in armed : Mine(p, t) /\ Named(p, t)
                     => (Sweeping(req[p]) /\ InHand(req[p], t)) \/ Beside(p, t)

RowsOK == /\ \A i \in Id : TaskEnd(i) /\ ChatEnd(i) /\ ChatWas(i)
          /\ \A t \in armed : db["tasks"][t].st # "none"

SilentInv ==
  /\ GoneInv /\ RowsOK
  /\ \A r \in Log : /\ HandOK(r) /\ SweepOK(r) /\ CutOK(r)
                    /\ QueueOK(r) /\ OwnChat(r) /\ SilentOK(r)

(* What stays of a task and of a chat once it is there.                    *)
Stays(x, y) == /\ y.st # "none" /\ y.user = x.user /\ y.chat = x.chat
               /\ y.by = x.by /\ y.done = x.done

LEMMA RowStays ==
  ASSUME Inv, NEW r \in Log, Acts(r), NEW t \in {"tasks", "chats"}, NEW i \in Id,
         db[t][i].st # "none"
  PROVE  Stays(db[t][i], db'[t][i])
<1>1. PICK T : T = TablesOf(A(r).op)
  OBVIOUS
<1>2. Base /\ Effect(r, T) /\ t \in Table /\ t # "users"
  BY <1>1, ActsEffect DEF Table
<1>3. db[t][i] \in Row /\ db'[t][i] \in Row /\ RowStep(r, t, db[t][i], db'[t][i])
  BY <1>2, RowsMoved DEF Effect
<1>4. CASE db'[t][i] = db[t][i]
  BY <1>4 DEF Stays
<1>5. CASE db'[t][i] # db[t][i]
  <2>1. Writes(A(r).op, t)
    BY <1>1, <1>2, <1>5 DEF Effect, TablesOf, Seen
  <2>2. A(r).op \notin Changes
    BY <2>1 DEF Writes, Changes
  <2>3. db[t][i].st = "live" /\ db'[t][i] = Dead(db[t][i], r)
    BY <1>2, <1>3, <1>5, <2>2 DEF RowStep, Seen
  <2> QED
    BY <1>3, <2>3 DEF Stays, Dead, Row
<1> QED
  BY <1>4, <1>5

LEMMA MineFixed ==
  ASSUME Inv, NEW r \in Log, Acts(r), NEW p \in Log, NEW t \in Id, db["tasks"][t].st # "none"
  PROVE  Mine(p, t)' <=> Mine(p, t)
<1>1. Stays(db["tasks"][t], db'["tasks"][t])
  BY RowStays
<1>2. PICK b : b = db["tasks"][t].by
  OBVIOUS
<1>3. b \in Log \cup {0} /\ A(p)' = A(p)
  BY <1>2, ActsEffect DEF Base, Table, Log, A
<1>4. Before(b, p)' <=> Before(b, p)
  BY <1>3, BeforeFixed
<1> QED
  BY <1>1, <1>2, <1>3, <1>4 DEF Mine, Stays, Before

LEMMA NamedFixed ==
  ASSUME Inv, NEW r \in Log, Acts(r), NEW p \in Log, NEW t \in Id, db["tasks"][t].st # "none",
         ChatWas(t)
  PROVE  Named(p, t)' <=> Named(p, t)
<1>1. Stays(db["tasks"][t], db'["tasks"][t]) /\ A(p)' = A(p)
  BY RowStays, ActsEffect DEF A
<1>2. PICK c : c = db["tasks"][t].chat
  OBVIOUS
<1>3. CASE c = NoId
  BY <1>1, <1>2, <1>3 DEF Named, Stays
<1>4. CASE c # NoId
  <2>1. c \in Id /\ db["chats"][c].st # "none"
    <3>1. db["tasks"][t] \in Row
      BY ActsEffect DEF Base, ApiTypeOK, Table
    <3> QED
      BY <1>2, <1>4, <3>1 DEF ChatWas, Row, AnyId
  <2>2. Stays(db["chats"][c], db'["chats"][c])
    BY <2>1, RowStays
  <2> QED
    BY <1>1, <1>2, <2>2 DEF Named, Stays
<1> QED
  BY <1>3, <1>4

LEMMA BesideKept ==
  ASSUME Inv, NEW r \in Log, Acts(r), NEW p \in Log, NEW t, Beside(p, t)
  PROVE  Beside(p, t)'
<1>1. PICK q \in Log \ {p} :
        /\ Overlapped(q, p)
        /\ \/ A(q).op = "QueueTask" /\ A(q).id = t
           \/ A(q).op = "DeleteUser" /\ A(q).id = A(p).id
  BY DEF Beside
<1>2. Overlapped(q, p)' /\ Log' = Log /\ A(q)' = A(q) /\ A(p)' = A(p)
  BY <1>1, OverlapFixed, ActsEffect DEF A
<1> QED
  BY <1>1, <1>2 DEF Beside

LEMMA HitKept ==
  ASSUME Inv, NEW r \in Log, Acts(r), NEW q \in Log, Deleter(q), req'[q].hit = "no"
  PROVE  req[q].hit = "no"
<1>1. CASE q # r
  BY <1>1, ActsEffect
<1>2. CASE q = r
  BY <1>2, UserDeletion DEF Deleter
<1> QED
  BY <1>1, <1>2

(* One statement of a deletion.                                            *)
LEMMA DeletionHand ==
  ASSUME Inv, NEW r \in Log, Acts(r), Deleter(r), req'[r].hit = "no", NEW t,
         Sweeping(req'[r]), InHand(req'[r], t)
  PROVE  \/ Sweeping(req[r]) /\ InHand(req[r], t)
         \/ req[r].pc = "tasks" /\ t \in GetTasksByUserID(A(r).id)
<1>1. DeletionStep(r) /\ req[r].out = "pending"
  BY UserDeletion, ActsEffect DEF Deleter
<1> QED
  BY <1>1 DEF DeletionStep, Sweeping, InHand, Took, Ends, Goes

LEMMA HandActs ==
  ASSUME Inv, NEW r \in Log, Acts(r), NEW p \in Log, HandOK(p)
  PROVE  HandOK(p)'
<1>1. /\ Base /\ req'[p].ask = req[p].ask /\ (p # r => req'[p] = req[p]) /\ A(p)' = A(p)
      /\ db \in [Table -> [Id -> Row]]
  BY ActsEffect DEF A, Base, ApiTypeOK
<1> SUFFICES ASSUME Deleter(p), req'[p].hit = "no", Sweeping(req'[p]), NEW t \in Id,
                    InHand(req'[p], t)
             PROVE  db'["tasks"][t].st # "none" /\ db'["tasks"][t].user = A(p).id
  BY <1>1 DEF HandOK, Deleter
<1>2. db["tasks"][t].st # "none" /\ db["tasks"][t].user = A(p).id
  <2>1. CASE Sweeping(req[p]) /\ InHand(req[p], t)
    BY <2>1, HitKept DEF HandOK
  <2>2. CASE t \in GetTasksByUserID(A(p).id)
    BY <2>2 DEF GetTasksByUserID, Live
  <2> QED
    BY <1>1, <2>1, <2>2, DeletionHand
<1> QED
  BY <1>2, RowStays DEF Stays

(* A task or a chat that is there now was there before, or belongs to the  *)
(* request at work, which is no deletion and is not answered yet.          *)
LEMMA LiveBefore ==
  ASSUME Inv, NEW r \in Log, Acts(r), NEW t \in {"tasks", "chats"}, NEW i \in Id,
         db'[t][i].st = "live", NEW p \in Log, NEW b, b = db'[t][i].by, Before(b, p)
  PROVE  db[t][i].st = "live" /\ Stays(db[t][i], db'[t][i])
<1>1. t \in Table /\ req[r].out = "pending" /\ r # 0
  BY ActsEffect DEF Table, Log
<1>2. CASE db[t][i].st = "live"
  BY <1>2, RowStays
<1>3. CASE db[t][i].st # "live"
  <2>1. b = r
    BY <1>1, <1>3, LiveRow
  <2> QED
    BY <1>1, <2>1 DEF Before
<1> QED
  BY <1>2, <1>3

LEMMA MineLive ==
  ASSUME Inv, NEW r \in Log, Acts(r), NEW p \in Log, NEW t \in Id,
         db'["tasks"][t].st = "live", Mine(p, t)'
  PROVE  db["tasks"][t].st = "live" /\ Mine(p, t)
<1>1. PICK b : b = db'["tasks"][t].by
  OBVIOUS
<1>2. b \in Log \cup {0}
  <2>1. Inv' /\ Log' = Log
    BY ActsEffect, MovedInv
  <2> QED
    BY <1>1, <2>1 DEF Inv, Base, Table, Log
<1>3. Before(b, p)'
  BY <1>1 DEF Mine, Before
<1>4. Before(b, p)
  BY <1>2, <1>3, BeforeFixed
<1>5. db["tasks"][t].st = "live"
  BY <1>1, <1>4, LiveBefore
<1> QED
  BY <1>5, MineFixed

LEMMA DeletionSweep ==
  ASSUME Inv, NEW r \in Log, Acts(r), Deleter(r), req'[r].hit = "no",
         Sweeping(req'[r]) \/ Swept(req'[r]),
         NEW t \in Id, db'["tasks"][t].st = "live",
         req[r].pc = "tasks" => t \in GetTasksByUserID(A(r).id),
         Sweeping(req[r]) \/ Swept(req[r]) => Sweeping(req[r]) /\ t \in req[r].ids
  PROVE  Sweeping(req'[r]) /\ t \in req'[r].ids
<1>1. DeletionStep(r) /\ req[r].out = "pending" /\ db \in [Table -> [Id -> Row]]
  BY UserDeletion, ActsEffect DEF Deleter, Base, ApiTypeOK
<1>2. ASSUME NEW i \in Id, db' = DeleteTaskRow(i, r)
      PROVE  t # i
  <2>1. CASE i \in Live("tasks")
    <3>1. t = i => db'["tasks"][t] = Dead(db["tasks"][t], r)
      BY <1>1, <1>2, <2>1 DEF DeleteTaskRow, Table
    <3>2. db["tasks"][t] \in Row
      BY <1>1 DEF Table
    <3> QED
      BY <3>1, <3>2 DEF Dead, Row
  <2>2. CASE i \notin Live("tasks")
    BY <1>2, <2>2 DEF DeleteTaskRow, Live
  <2> QED
    BY <2>1, <2>2
<1>3. req[r].ids \subseteq Id
  BY InLog, ActsEffect DEF Request
<1> QED
  BY <1>1, <1>2, <1>3 DEF DeletionStep, Sweeping, Swept, Took, Ends, Goes

LEMMA SweepActs ==
  ASSUME Inv, NEW r \in Log, Acts(r), NEW p \in Log, SweepOK(p)
  PROVE  SweepOK(p)'
<1>1. req'[p].ask = req[p].ask /\ (p # r => req'[p] = req[p]) /\ A(p)' = A(p)
  BY ActsEffect DEF A
<1> SUFFICES ASSUME Deleter(p), req'[p].hit = "no", Sweeping(req'[p]) \/ Swept(req'[p]),
                    NEW t \in Id, db'["tasks"][t].st = "live", Mine(p, t)'
             PROVE  Sweeping(req'[p]) /\ t \in req'[p].ids
  BY <1>1 DEF SweepOK, Deleter, Live
<1>2. t \in Live("tasks") /\ Mine(p, t) /\ req[p].hit = "no"
  BY MineLive, HitKept DEF Live
<1>3. t \in GetTasksByUserID(A(p).id)
  BY <1>2 DEF GetTasksByUserID, Mine
<1>4. Sweeping(req[p]) \/ Swept(req[p]) => Sweeping(req[p]) /\ t \in req[p].ids
  BY <1>2 DEF SweepOK
<1> QED
  BY <1>1, <1>3, <1>4, DeletionSweep

LEMMA CutActs ==
  ASSUME Inv, NEW r \in Log, Acts(r), NEW p \in Log, CutOK(p)
  PROVE  CutOK(p)'
<1>1. /\ req'[p].ask = req[p].ask /\ (p # r => req'[p] = req[p]) /\ A(p)' = A(p)
      /\ req[r].out = "pending" /\ Base
  BY ActsEffect DEF A
<1> SUFFICES ASSUME Deleter(p), Cut(req'[p]), NEW c \in Id, db'["chats"][c].st = "live",
                    db'["chats"][c].user = A(p).id, NEW b, b = db'["chats"][c].by, Before(b, p)'
             PROVE  FALSE
  BY <1>1 DEF CutOK, Deleter, Live, Before
<1>2. b \in Log \cup {0}
  <2>1. Inv' /\ Log' = Log
    BY ActsEffect, MovedInv
  <2> QED
    BY <2>1 DEF Inv, Base, Table, Log
<1>3. Before(b, p)
  BY <1>2, BeforeFixed
<1>4. db["chats"][c].st = "live" /\ db["chats"][c].user = A(p).id /\ db["chats"][c].by = b
  BY <1>3, LiveBefore DEF Stays
<1>5. CASE Cut(req[p])
  BY <1>3, <1>4, <1>5 DEF CutOK, Live
<1>6. CASE ~ Cut(req[p])
  <2>1. p = r
    BY <1>1, <1>6
  <2>2. DeletionStep(r) \/ ~ Cut(req'[r])
    BY <2>1, UserDeletion DEF Deleter, Cut
  <2>3. db'["chats"][c] = Dead(db["chats"][c], r)
    BY <1>1, <1>4, <1>6, <2>1, <2>2 DEF DeletionStep, Cut, Took, Ends, Goes, Live
  <2>4. db["chats"][c] \in Row
    BY <1>1 DEF Base, ApiTypeOK, Table
  <2> QED
    BY <2>3, <2>4 DEF Dead, Row
<1> QED
  BY <1>5, <1>6

LEMMA DeletionOn ==
  ASSUME Inv, NEW r \in Log, Acts(r), NEW q \in Log, Deleter(q), req'[q].hit = "no"
  PROVE  /\ Sweeping(req[q]) \/ Swept(req[q]) => Sweeping(req'[q]) \/ Swept(req'[q])
         /\ Cut(req[q]) => Cut(req'[q])
<1>1. CASE q # r
  BY <1>1, ActsEffect
<1>2. CASE q = r
  <2>1. DeletionStep(r) /\ req[r].out = "pending"
    BY <1>2, UserDeletion, ActsEffect DEF Deleter
  <2> QED
    BY <1>2, <2>1 DEF DeletionStep, Sweeping, Swept, Cut, Took, Ends, Goes
<1> QED
  BY <1>1, <1>2

LEMMA TaskEndActs ==
  ASSUME Inv, NEW r \in Log, Acts(r), HandOK(r), NEW t \in Id, TaskEnd(t)
  PROVE  TaskEnd(t)'
<1>1. /\ Base /\ Log' = Log /\ db \in [Table -> [Id -> Row]] /\ "tasks" \in Table
      /\ \A s \in Log : A(s)' = A(s) /\ (Deleter(s)' <=> Deleter(s))
  BY ActsEffect DEF A, Deleter, Base, ApiTypeOK, Table
<1> SUFFICES ASSUME db'["tasks"][t].st = "gone", NEW e, e = db'["tasks"][t].end
             PROVE  /\ e \in Log /\ Deleter(e)
                    /\ req'[e].hit = "no" => /\ A(e).id = db'["tasks"][t].user
                                             /\ Sweeping(req'[e]) \/ Swept(req'[e])
  BY <1>1 DEF TaskEnd
<1>2. CASE db'["tasks"][t] = db["tasks"][t]
  <2>1. /\ e \in Log /\ Deleter(e)
        /\ req[e].hit = "no" => /\ A(e).id = db["tasks"][t].user
                                /\ Sweeping(req[e]) \/ Swept(req[e])
    BY <1>2 DEF TaskEnd
  <2> QED
    BY <1>2, <2>1, HitKept, DeletionOn
<1>3. CASE db'["tasks"][t] # db["tasks"][t]
  <2>1. e = r /\ A(r).op \in Removals /\ Writes(A(r).op, "tasks") /\ db["tasks"][t].st = "live"
        /\ db'["tasks"][t].user = db["tasks"][t].user
    BY <1>1, <1>3, GoneRow DEF SameRow
  <2>2. Deleter(r)
    BY <2>1 DEF Writes, Removals, Deleter
  <2>3. ASSUME req'[r].hit = "no"
        PROVE  A(r).id = db["tasks"][t].user /\ Sweeping(req'[r])
    <3>1. DeletionStep(r) /\ req[r].out = "pending" /\ req[r].ids \subseteq Id
      BY <2>2, <2>3, UserDeletion, ActsEffect, InLog DEF Deleter, Request
    <3>2. /\ req[r].pc = "remove" /\ req'[r].pc = "name" /\ req'[r].out = "pending"
          /\ req'[r].item \in req[r].ids /\ db' = DeleteTaskRow(req'[r].item, r)
      BY <1>1, <1>3, <3>1 DEF DeletionStep, Table
    <3>3. PICK i \in Id : i = req'[r].item
      BY <3>1, <3>2
    <3>4. t = i
      BY <1>1, <1>3, <3>2, <3>3 DEF DeleteTaskRow
    <3>5. req[r].hit = "no"
      BY <2>2, <2>3, HitKept
    <3>6. Sweeping(req[r]) /\ InHand(req[r], t)
      BY <3>1, <3>2, <3>3, <3>4 DEF Sweeping, InHand
    <3>7. db["tasks"][t].user = A(r).id
      BY <2>2, <3>5, <3>6 DEF HandOK
    <3> QED
      BY <3>2, <3>7 DEF Sweeping
  <2> QED
    BY <2>1, <2>2, <2>3
<1> QED
  BY <1>2, <1>3

LEMMA ChatEndActs ==
  ASSUME Inv, NEW r \in Log, Acts(r), NEW c \in Id, ChatEnd(c)
  PROVE  ChatEnd(c)'
<1>1. /\ Base /\ Log' = Log /\ db \in [Table -> [Id -> Row]] /\ "chats" \in Table
      /\ \A s \in Log : A(s)' = A(s) /\ (Deleter(s)' <=> Deleter(s))
  BY ActsEffect DEF A, Deleter, Base, ApiTypeOK, Table
<1> SUFFICES ASSUME db'["chats"][c].st = "gone", NEW e, e = db'["chats"][c].end
             PROVE  /\ e \in Log /\ Deleter(e) /\ A(e).id = db'["chats"][c].user
                    /\ req'[e].hit = "no" => Cut(req'[e])
  BY <1>1 DEF ChatEnd
<1>2. CASE db'["chats"][c] = db["chats"][c]
  <2>1. /\ e \in Log /\ Deleter(e) /\ A(e).id = db["chats"][c].user
        /\ req[e].hit = "no" => Cut(req[e])
    BY <1>2 DEF ChatEnd
  <2> QED
    BY <1>2, <2>1, HitKept, DeletionOn
<1>3. CASE db'["chats"][c] # db["chats"][c]
  <2>1. e = r /\ A(r).op \in Removals /\ Writes(A(r).op, "chats") /\ db["chats"][c].st = "live"
        /\ db'["chats"][c].user = db["chats"][c].user
    BY <1>1, <1>3, GoneRow DEF SameRow
  <2>2. Deleter(r)
    BY <2>1 DEF Writes, Removals, Deleter
  <2>3. DeletionStep(r)
    BY <1>3, <2>2, UserDeletion DEF Deleter
  <2>4. /\ Goes(r, "delete")
        /\ db'["chats"][c] = IF c \in Live("chats") /\ db["chats"][c].user = A(r).id
                             THEN Dead(db["chats"][c], r) ELSE db["chats"][c]
    BY <1>1, <1>3, <2>3 DEF DeletionStep, DeleteTaskRow, Table
  <2> QED
    BY <1>3, <2>1, <2>2, <2>4 DEF Goes, Cut
<1> QED
  BY <1>2, <1>3

(* What is queued was read, at its first statement, as a task that is there. *)
LEMMA QueueActs ==
  ASSUME Inv, NEW r \in Log, Acts(r), NEW q \in Log, QueueOK(q), \A p \in Log : SweepOK(p)
  PROVE  QueueOK(q)'
<1>1. /\ Base /\ Log' = Log /\ A(q)' = A(q) /\ req[r].out = "pending" /\ (q # r => req'[q] = req[q])
      /\ \A p \in Log : req'[p].ask = req[p].ask /\ (p # r => req'[p] = req[p])
  BY ActsEffect DEF A
<1> SUFFICES ASSUME A(q).op = "QueueTask", req'[q].out = "pending",
                    req'[q].pc \in {"messenger", "queue"}, NEW p \in Log,
                    A(p).op = "DeleteUser", req'[p].out = "ok", req'[p].hit = "no",
                    Before(p, q)', NEW t, t = A(q).id, Mine(p, t)'
             PROVE  FALSE
  BY <1>1 DEF QueueOK, Answered, A, Mine, Before
<1>2. Before(p, q) /\ p # r /\ p \in Deletions(A(p).id) /\ req[p].out = "ok" /\ req[p].hit = "no"
  <2>1. Before(p, q)
    BY <1>1, BeforeFixed
  <2>2. p # r
    BY <1>1, <2>1 DEF Before, Log
  <2> QED
    BY <1>1, <2>1, <2>2 DEF Deletions, Answered
<1>3. A(q).id \in Id /\ db["tasks"][A(q).id].st # "none"
      /\ (q = r /\ req[q].pc = "start" => A(q).id \in Live("tasks"))
  <2>1. CASE req[q].out = "pending" /\ req[q].pc # "start"
    <3>1. HeldOK(q) /\ A(q).op \in Keyed /\ TableOf(A(q).op) = "tasks" /\ Place(A(q).op, req[q].pc)
      BY <2>1 DEF Inv, HeldOK, Keyed, TableOf
    <3>2. Holds(req[q])
      BY <2>1, <3>1 DEF Holds, Place, Rewriters
    <3> QED
      BY <2>1, <3>1, <3>2 DEF HeldOK
  <2>2. CASE q = r /\ req[q].pc = "start"
    <3>1. QueueTask(r)
      <4>1. ~ Fault(r)
        BY <1>1, <2>2, FaultBreaks DEF Breaks
      <4> QED
        BY <2>2, <4>1, StepIsOf DEF Acts, StepOf, Lists, Views
    <3>2. Reads(r, "tasks", "messenger")
      BY <2>2, <3>1 DEF QueueTask, At
    <3>3. Took(r, "tasks", "messenger") \/ Ends(r, "notfound")
      BY <1>1, <3>2, TookOf DEF Table, Pc
    <3> QED
      BY <2>2, <3>3 DEF Took, Ends, Live
  <2> QED
    BY <1>1, <2>1, <2>2
<1>4. Mine(p, t)
  BY <1>3, MineFixed
<1>5. CASE req[q].out = "pending" /\ req[q].pc \in {"messenger", "queue"}
  BY <1>2, <1>4, <1>5 DEF QueueOK, Answered
<1>6. CASE q = r /\ req[q].pc = "start"
  BY <1>2, <1>3, <1>4, <1>6 DEF SweepOK, Deleter, Sweeping, Swept
<1>7. req[q].out = "pending" => Place(A(q).op, req[q].pc)
  BY DEF Inv, HeldOK, Keyed
<1> QED
  BY <1>1, <1>5, <1>6, <1>7 DEF Place, Rewriters

(* A task is made with the chat of the request.                            *)
LEMMA TaskMade ==
  ASSUME Inv, NEW r \in Log, Acts(r), NEW t \in Id, db["tasks"][t].st = "none",
         db'["tasks"][t].st # "none"
  PROVE  At(r, "CreateTask", "insert") /\ db'["tasks"][t].chat = A(r).chat
<1>1. PICK T : T = TablesOf(A(r).op)
  OBVIOUS
<1>2. Base /\ Effect(r, T) /\ "tasks" \in Table /\ req[r].out = "pending"
  BY <1>1, ActsEffect DEF Table
<1>3. RowStep(r, "tasks", db["tasks"][t], db'["tasks"][t])
  BY <1>2 DEF Effect
<1>4. Writes(A(r).op, "tasks") /\ A(r).op \in Creations
  <2>1. A(r).op \in Creations
    BY <1>3 DEF RowStep, Seen
  <2>2. db'["tasks"][t] # db["tasks"][t] /\ ~ Seen("tasks", db["tasks"][t], db'["tasks"][t])
    BY DEF Seen
  <2> QED
    BY <1>1, <1>2, <2>1, <2>2 DEF Effect, TablesOf
<1>5. A(r).op = "CreateTask"
  BY <1>4 DEF Writes, Creations
<1>6. CreateTask(r)
  <2>1. ~ Fault(r)
    BY <1>2, FaultBreaks DEF Breaks
  <2> QED
    BY <1>5, <2>1, StepIsOf DEF Acts, StepOf, Lists, Views
<1> DEFINE row == [NewNote(r) EXCEPT !.done = A(r).done]
<1>7. At(r, "CreateTask", "insert") /\ Inserts(r, "tasks", row, FALSE, "touch")
  <2>1. ~ ChecksOwner(r, "CreateTask", "insert")
    BY DEF ChecksOwner, Requires, Quiet
  <2>2. ~ Touch(r, A(r).user)
    BY <1>2 DEF Touch, Base, ApiTypeOK, Table
  <2> QED
    BY <1>6, <2>1, <2>2 DEF CreateTask
<1>8. row \in Row /\ row.end = 0 /\ row.user = A(r).user /\ row.chat = A(r).chat
  <2>1. A(r) \in Ask
    BY <1>2, InLog DEF A, Request
  <2> QED
    BY <2>1 DEF NewNote, NoRow, Row, Ask, AnyId, NoId
<1> HIDE DEF row
<1>9. PICK taken \in BOOLEAN : taken = FALSE
  OBVIOUS
<1>10. Inserts(r, "tasks", row, taken, "touch")
  BY <1>7, <1>9
<1>11. PICK i \in Id : Adds(r, "tasks", row, "touch", i)
  BY <1>2, <1>4, <1>8, <1>9, <1>10, InsertsAdds DEF Owned, Pc
<1>12. t = i
  BY <1>2, <1>11 DEF Adds
<1> QED
  BY <1>7, <1>8, <1>11, <1>12 DEF Adds, Row

LEMMA ChatStays ==
  ASSUME Inv, NEW r \in Log, Acts(r), NEW c \in AnyId, c # NoId,
         db["chats"][c].st # "none"
  PROVE  db'["chats"][c].st # "none"
<1>1. c \in Id
  BY DEF AnyId
<1> QED
  BY <1>1, RowStays DEF Stays

LEMMA ChatWasActs ==
  ASSUME Inv, NEW r \in Log, Acts(r), OwnChat(r), NEW t \in Id, ChatWas(t)
  PROVE  ChatWas(t)'
<1>1. /\ Base /\ Base' /\ db["tasks"][t] \in Row /\ db'["tasks"][t] \in Row /\ "tasks" \in Table
      /\ A(r) \in Ask
  <2>1. Base /\ A(r) \in Ask
    BY ActsEffect, InLog DEF A, Request
  <2>2. Base'
    BY ActsEffect, MovedInv DEF Inv
  <2> QED
    BY <2>1, <2>2 DEF Base, ApiTypeOK, Table
<1> SUFFICES ASSUME NEW c, c = db'["tasks"][t].chat, c # NoId
             PROVE  db'["chats"][c].st # "none"
  BY DEF ChatWas
<1>2. c \in AnyId
  BY <1>1 DEF Row
<1>3. CASE db["tasks"][t].st # "none"
  <2>1. db["tasks"][t].chat = c
    BY <1>3, RowStays DEF Stays
  <2>2. db["chats"][c].st # "none"
    BY <2>1 DEF ChatWas
  <2> QED
    BY <1>2, <2>2, ChatStays
<1>4. CASE db["tasks"][t].st = "none" /\ db'["tasks"][t].st # "none"
  <2>1. At(r, "CreateTask", "insert") /\ c = A(r).chat
    BY <1>4, TaskMade
  <2>2. db["chats"][c].st # "none"
    BY <2>1 DEF OwnChat
  <2> QED
    BY <1>2, <2>2, ChatStays
<1>5. CASE db'["tasks"][t].st = "none"
  <2>1. db'["tasks"][t] = NoRow
    BY <1>1, <1>5 DEF Base, RowOK
  <2> QED
    BY <2>1 DEF NoRow
<1> QED
  BY <1>3, <1>4, <1>5

LEMMA OwnChatActs ==
  ASSUME Inv, NEW r \in Log, Acts(r), NEW q \in Log, OwnChat(q)
  PROVE  OwnChat(q)'
<1>1. /\ Base /\ A(q)' = A(q) /\ (q # r => req'[q] = req[q]) /\ req[r].out = "pending"
      /\ A(q) \in Ask
  BY ActsEffect, InLog DEF A, Request
<1> SUFFICES ASSUME A(q).op = "CreateTask", req'[q].pc = "insert", req'[q].out = "pending",
                    NEW c \in AnyId, c = A(q).chat, c # NoId
             PROVE  db["chats"][c].st # "none"
  BY <1>1, ChatStays DEF OwnChat, At, A, Ask
<1>2. CASE req[q].pc = "insert" /\ req[q].out = "pending"
  BY <1>2 DEF OwnChat, At
<1>3. CASE ~ (req[q].pc = "insert" /\ req[q].out = "pending")
  <2>1. q = r
    BY <1>1, <1>3
  <2>2. CreateTask(r)
    <3>1. ~ Fault(r)
      BY <1>1, <2>1, FaultBreaks DEF Breaks, Ends
    <3> QED
      BY <2>1, <3>1, StepIsOf DEF Acts, StepOf, Lists, Views
  <2> DEFINE user == A(r).user \in Live("users")
             chat == A(r).chat = NoId \/ HasChat(A(r).chat)
  <2> HIDE DEF user, chat
  <2>3. \/ Requires(r, user, "unprocessable", "chat")
        \/ Requires(r, chat, "unprocessable", "insert")
        \/ Touch(r, A(r).user)
    BY <1>1, <1>3, <2>1, <2>2 DEF CreateTask, ChecksOwner, At, user, chat
  <2>4. ~ Touch(r, A(r).user)
    BY <1>1, <2>1, TouchOf DEF Ends
  <2>5. ~ Requires(r, user, "unprocessable", "chat")
    <3>1. Requires(r, user, "unprocessable", "chat") => Goes(r, "chat") \/ Ends(r, "unprocessable")
      BY <1>1, RequiresOf DEF Pc, Outcome
    <3> QED
      BY <2>1, <3>1 DEF Goes, Ends
  <2>6. chat
    <3>1. Requires(r, chat, "unprocessable", "insert") => chat \/ Ends(r, "unprocessable")
      BY <1>1, RequiresOf DEF Pc, Outcome
    <3> QED
      BY <2>1, <2>3, <2>4, <2>5, <3>1 DEF Ends
  <2> QED
    BY <2>1, <2>6 DEF chat, HasChat, Live
<1> QED
  BY <1>2, <1>3

(* The worker gets a task only from a request that queues it.              *)
LEMMA ArmedBy ==
  ASSUME Inv, NEW r \in Log, Acts(r), NEW t \in armed', t \notin armed
  PROVE  At(r, "QueueTask", "queue") /\ t = A(r).id
<1>1. Base /\ req[r].out = "pending"
  BY ActsEffect
<1>2. A(r).op \in {"QueueTask", "DeleteUser"}
  BY ActsEffect DEF Effect, Around
<1>3. A(r).op # "DeleteUser"
  BY UserDeletion DEF DeletionStep
<1>4. QueueTask(r)
  <2>1. ~ Fault(r)
    BY <1>1, FaultBreaks DEF Breaks
  <2> QED
    BY <1>2, <1>3, <2>1, StepIsOf DEF Acts, StepOf, Lists, Views
<1> QED
  BY <1>4 DEF QueueTask, Reads, Requires, Quiet

LEMMA QueuedThere ==
  ASSUME Inv, NEW r \in Log, At(r, "QueueTask", "queue")
  PROVE  A(r).id \in Id /\ db["tasks"][A(r).id].st # "none"
<1>1. HeldOK(r) /\ A(r).op \in Keyed /\ TableOf(A(r).op) = "tasks"
  BY DEF Inv, At, Keyed, TableOf
<1>2. Holds(req[r])
  BY DEF At, Holds
<1> QED
  BY <1>1, <1>2 DEF HeldOK

LEMMA ArmedThere ==
  ASSUME Inv, NEW r \in Log, Acts(r), \A t \in armed : db["tasks"][t].st # "none"
  PROVE  \A t \in armed' : db'["tasks"][t].st # "none"
<1> SUFFICES ASSUME NEW t \in armed'
             PROVE  db'["tasks"][t].st # "none"
  OBVIOUS
<1>1. t \in Id
  BY ActsEffect DEF Effect, Around
<1>2. db["tasks"][t].st # "none"
  BY ArmedBy, QueuedThere
<1> QED
  BY <1>1, <1>2, RowStays DEF Stays

(* Two deletions of a user that is still there run beside each other.      *)
LEMMA TwoDeletions ==
  ASSUME GoneInv, NEW p \in Log, Deleter(p), req[p].out = "pending", req[p].pc # "start",
         NEW e \in Log, e # p, Deleter(e), A(e).id = A(p).id, req[e].out \in {"pending", "ok"},
         NEW t
  PROVE  Beside(p, t)
<1>1. ~ Before(p, e)
  BY DEF Before, Log
<1>2. ~ Before(e, p)
  <2>1. Subject(p) = A(p).id
    BY DEF Deleter, Subject
  <2>2. req[e].out = "ok" => e \in Deletions(Subject(p))
    BY <2>1 DEF Deletions, Answered, Deleter
  <2>3. UserThere(p)
    BY DEF GoneInv
  <2>4. req[e].out = "ok" => ~ Before(e, p)
    BY <2>2, <2>3 DEF UserThere, Going, Deleter
  <2> QED
    BY <2>4 DEF Before, Log
<1> QED
  BY <1>1, <1>2 DEF Beside, Overlapped, Deleter

(* The deletion p itself: what it had in hand it has still, or it has told *)
(* the worker, or another deletion beside it stands in its way.            *)
LEMMA SilentOwn ==
  ASSUME SilentInv, NEW p \in Log, Acts(p), Deleter(p), NoSlip, req'[p].hit = "no",
         Sweeping(req'[p]) \/ Swept(req'[p]),
         NEW t \in Id, t \in armed, t \in armed', Mine(p, t), Named(p, t)
  PROVE  (Sweeping(req'[p]) /\ InHand(req'[p], t)) \/ Beside(p, t)
<1>1. /\ Inv /\ GoneInv /\ Base /\ req[p].out = "pending" /\ DeletionStep(p) /\ RowsOK
      /\ db \in [Table -> [Id -> Row]]
  BY UserDeletion, ActsEffect DEF SilentInv, GoneInv, Deleter, Base, ApiTypeOK
<1>2. \A e \in Log : Deleter(e) => req[e].hit = "no"
  BY DEF NoSlip
<1>3. CASE Sweeping(req[p]) \/ Swept(req[p])
  <2>1. (Sweeping(req[p]) /\ InHand(req[p], t)) \/ Beside(p, t)
    BY <1>3 DEF SilentInv, SilentOK
  <2>2. CASE Sweeping(req[p]) /\ InHand(req[p], t) /\ ~ (Sweeping(req'[p]) /\ InHand(req'[p], t))
    <3>1. req[p].pc = "name" /\ t = req[p].item /\ ~ HasMessengerName(t)
      BY <1>1, <2>2 DEF DeletionStep, Sweeping, InHand, Goes, Took, Ends
    <3>2. PICK c : c = db["tasks"][t].chat
      OBVIOUS
    <3>3. c \in Id /\ db["chats"][c].st = "gone" /\ db["chats"][c].user = A(p).id
      <4>1. c # NoId /\ db["chats"][c].st # "none" /\ db["chats"][c].user = A(p).id
        BY <1>1, <3>2 DEF Named, RowsOK, ChatWas
      <4>2. c \in Id
        BY <1>1, <3>2, <4>1 DEF Table, Row, AnyId
      <4>3. db["chats"][c] \in Row /\ db["chats"][c].st # "live"
        BY <1>1, <3>1, <3>2, <4>2 DEF Table, HasMessengerName, Live
      <4> QED
        BY <4>1, <4>2, <4>3 DEF Row
    <3>4. PICK e : e = db["chats"][c].end
      OBVIOUS
    <3>5. e \in Log /\ Deleter(e) /\ A(e).id = A(p).id /\ Cut(req[e])
      BY <1>1, <1>2, <3>3, <3>4 DEF RowsOK, ChatEnd
    <3>6. e # p /\ req[e].out \in {"pending", "ok"} /\ req[p].pc # "start"
      BY <1>1, <3>1, <3>5 DEF Cut
    <3> QED
      BY <1>1, <3>5, <3>6, TwoDeletions
  <2> QED
    BY <2>1, <2>2
<1>4. CASE ~ (Sweeping(req[p]) \/ Swept(req[p]))
  <2>1. /\ req[p].pc = "tasks" /\ Sweeping(req'[p]) /\ req'[p].ids = GetTasksByUserID(A(p).id)
    BY <1>1, <1>4 DEF DeletionStep, Sweeping, Swept, Goes, Took, Ends
  <2>2. CASE db["tasks"][t].st = "live"
    BY <2>1, <2>2 DEF GetTasksByUserID, Live, Mine, InHand
  <2>3. CASE db["tasks"][t].st # "live"
    <3>1. db["tasks"][t].st = "gone"
      <4>1. db["tasks"][t].st # "none" /\ db["tasks"][t] \in Row
        BY <1>1 DEF RowsOK, Table
      <4> QED
        BY <2>3, <4>1 DEF Row
    <3>2. PICK e : e = db["tasks"][t].end
      OBVIOUS
    <3>3. e \in Log /\ Deleter(e) /\ A(e).id = A(p).id /\ (Sweeping(req[e]) \/ Swept(req[e]))
      BY <1>1, <1>2, <3>1, <3>2 DEF RowsOK, TaskEnd, Mine
    <3>4. e # p /\ req[e].out \in {"pending", "ok"} /\ req[p].pc # "start"
      BY <1>4, <2>1, <3>3 DEF Sweeping, Swept
    <3> QED
      BY <1>1, <3>3, <3>4, TwoDeletions
  <2> QED
    BY <2>2, <2>3
<1> QED
  BY <1>3, <1>4

LEMMA SilentActs ==
  ASSUME SilentInv, NEW r \in Log, Acts(r), NEW p \in Log
  PROVE  SilentOK(p)'
<1>1. /\ Inv /\ Base /\ req[r].out = "pending" /\ Log' = Log /\ A(p)' = A(p) /\ SilentOK(p)
      /\ (p # r => req'[p] = req[p]) /\ \A q \in Log : A(q)' = A(q) /\ RowsOK
  BY ActsEffect DEF SilentInv, GoneInv, A
<1> SUFFICES ASSUME \A q \in Log : Deleter(q) => req'[q].hit = "no", Deleter(p),
                    Sweeping(req'[p]) \/ Swept(req'[p]), NEW t \in armed',
                    Mine(p, t)', Named(p, t)', ~ Beside(p, t)'
             PROVE  Sweeping(req'[p]) /\ InHand(req'[p], t)
  BY <1>1 DEF SilentOK, NoSlip, Deleter
<1>2. NoSlip
  BY <1>1, HitKept DEF NoSlip
<1>3. t \in Id
  BY <1>1, ActsEffect DEF Effect, Around
<1>4. CASE t \notin armed
  <2>1. At(r, "QueueTask", "queue") /\ t = A(r).id /\ db["tasks"][t].st # "none"
    BY <1>1, <1>4, ArmedBy, QueuedThere
  <2>2. Mine(p, t)
    BY <1>1, <1>3, <2>1, MineFixed
  <2>3. p # r /\ req'[p] = req[p]
    BY <1>1, <2>1 DEF At, Deleter
  <2>4. Before(p, r)
    <3>1. ~ Beside(p, t)
      BY <1>1, BesideKept
    <3>2. ~ Before(r, p)
      BY <1>1 DEF Before, Log
    <3> QED
      BY <2>1, <2>3, <3>1, <3>2 DEF Beside, Overlapped, At
  <2>5. req[p].out = "ok"
    BY <2>3, <2>4 DEF Before, Log, Sweeping, Swept
  <2>6. req[p].hit = "no" /\ Answered(p, "DeleteUser")
    BY <1>2, <2>5 DEF NoSlip, Answered, Deleter
  <2>7. QueueOK(r)
    BY DEF SilentInv
  <2> QED
    BY <2>1, <2>2, <2>4, <2>6, <2>7 DEF QueueOK, At
<1>5. CASE t \in armed
  <2>1. db["tasks"][t].st # "none" /\ ChatWas(t)
    BY <1>1, <1>3, <1>5 DEF SilentInv, RowsOK
  <2>2. Mine(p, t) /\ Named(p, t)
    BY <1>1, <1>3, <2>1, MineFixed, NamedFixed
  <2>3. ~ Beside(p, t)
    BY <1>1, BesideKept
  <2>4. CASE p # r
    BY <1>1, <1>2, <1>5, <2>2, <2>3, <2>4 DEF SilentOK
  <2>5. CASE p = r
    BY <1>2, <1>3, <1>5, <2>2, <2>3, <2>5, SilentOwn
  <2> QED
    BY <2>4, <2>5
<1> QED
  BY <1>4, <1>5

LEMMA SilentArrive ==
  ASSUME SilentInv, NEW a \in Sc.asks, Arrive(a)
  PROVE  SilentInv'
<1>1. GoneInv /\ Inv /\ Base /\ GoneInv' /\ RowsOK
  BY GoneArrive DEF SilentInv, GoneInv, Inv
<1>2. PICK n : n = Len(req) + 1
  OBVIOUS
<1>3. /\ Log' = Log \cup {n} /\ n \notin Log /\ \A s \in Log : req'[s] = req[s]
      /\ db' = db /\ armed' = armed
  BY <1>1, <1>2, ArriveEffect
<1>4. req'[n].out = "validation" \/ (req'[n].out = "pending" /\ req'[n].pc = "start")
  BY <1>1, <1>2, ArriveLog
<1>5. \A p \in Log \cup {0} : \A s : Before(p, s)' <=> Before(p, s)
  BY <1>1, BeforeArrived
<1>6. \A s \in Log : A(s)' = A(s)
  BY <1>3 DEF A
<1>7. ASSUME NEW p \in Log, NEW t \in Id
      PROVE  (Mine(p, t)' <=> Mine(p, t)) /\ (Named(p, t)' <=> Named(p, t))
  <2>1. PICK b : b = db["tasks"][t].by
    OBVIOUS
  <2>2. b \in Log \cup {0}
    BY <1>1, <2>1 DEF Base, Table, Log
  <2>3. Before(b, p)' <=> Before(b, p)
    BY <1>5, <2>2
  <2> QED
    BY <1>3, <1>6, <2>1, <2>3 DEF Mine, Named, Before
<1>8. RowsOK'
  BY <1>1, <1>3, <1>6 DEF RowsOK, TaskEnd, ChatEnd, ChatWas, Deleter
<1>9. ASSUME NEW s \in Log
      PROVE  HandOK(s)' /\ OwnChat(s)'
  BY <1>3, <1>6, <1>9 DEF SilentInv, HandOK, OwnChat, Deleter, At
<1>10. ASSUME NEW s \in Log
       PROVE  SweepOK(s)'
  <2>1. SweepOK(s)
    BY DEF SilentInv
  <2> QED
    BY <1>3, <1>6, <1>7, <2>1 DEF SweepOK, Deleter, Live
<1>11. ASSUME NEW s \in Log
       PROVE  CutOK(s)'
  <2> SUFFICES ASSUME Deleter(s), Cut(req[s]), NEW c \in Live("chats"),
                      db["chats"][c].user = A(s).id, NEW b, b = db["chats"][c].by, Before(b, s)'
               PROVE  FALSE
    BY <1>3, <1>6 DEF CutOK, Deleter, Live, Before
  <2>1. b \in Log \cup {0}
    BY <1>1 DEF Base, Table, Log, Live
  <2>2. Before(b, s)
    BY <1>5, <2>1
  <2> QED
    BY <2>2 DEF SilentInv, CutOK
<1>12. ASSUME NEW s \in Log
       PROVE  QueueOK(s)'
  <2> SUFFICES ASSUME A(s).op = "QueueTask", req[s].out = "pending",
                      req[s].pc \in {"messenger", "queue"}, NEW p \in Log',
                      Answered(p, "DeleteUser")', req'[p].hit = "no", Before(p, s)',
                      NEW t, t = A(s).id, Mine(p, t)'
               PROVE  FALSE
    BY <1>3, <1>6 DEF QueueOK, Mine, Before
  <2>1. p \in Log /\ Answered(p, "DeleteUser") /\ req[p].hit = "no"
    BY <1>3, <1>4, <1>6 DEF Answered
  <2>2. HeldOK(s) /\ Holds(req[s])
    BY <1>1 DEF Inv, Holds
  <2>3. t \in Id
    BY <2>2 DEF HeldOK, Keyed
  <2>4. Before(p, s) /\ Mine(p, t)
    BY <1>5, <1>7, <2>1, <2>3
  <2> QED
    BY <2>1, <2>4 DEF SilentInv, QueueOK
<1>13. ASSUME NEW p \in Log, NEW t, Beside(p, t)
       PROVE  Beside(p, t)'
  <2>1. PICK q \in Log \ {p} :
          /\ Overlapped(q, p)
          /\ \/ A(q).op = "QueueTask" /\ A(q).id = t
             \/ A(q).op = "DeleteUser" /\ A(q).id = A(p).id
    BY <1>13 DEF Beside
  <2>2. Overlapped(q, p)'
    BY <1>5, <2>1 DEF Overlapped
  <2> QED
    BY <1>3, <1>6, <2>1, <2>2 DEF Beside
<1>14. ASSUME NEW s \in Log
       PROVE  SilentOK(s)'
  <2> SUFFICES ASSUME NoSlip', Deleter(s), Sweeping(req[s]) \/ Swept(req[s]), NEW t \in armed,
                      Mine(s, t)', Named(s, t)'
               PROVE  (Sweeping(req[s]) /\ InHand(req[s], t)) \/ Beside(s, t)'
    BY <1>3, <1>6 DEF SilentOK, Deleter
  <2>1. NoSlip
    BY <1>3, <1>6 DEF NoSlip, Deleter
  <2>2. Mine(s, t) /\ Named(s, t)
    BY <1>1, <1>7 DEF Base, ApiTypeOK
  <2>3. (Sweeping(req[s]) /\ InHand(req[s], t)) \/ Beside(s, t)
    BY <2>1, <2>2 DEF SilentInv, SilentOK
  <2> QED
    BY <1>13, <2>3
<1>15. HandOK(n)' /\ SweepOK(n)' /\ CutOK(n)' /\ QueueOK(n)' /\ OwnChat(n)' /\ SilentOK(n)'
  BY <1>4 DEF HandOK, SweepOK, CutOK, QueueOK, OwnChat, SilentOK, Sweeping, Swept, Cut, At
<1> QED
  BY <1>1, <1>3, <1>8, <1>9, <1>10, <1>11, <1>12, <1>14, <1>15 DEF SilentInv

LEMMA SilentStep ==
  ASSUME SilentInv, [Next]_vars
  PROVE  SilentInv'
<1>1. ASSUME NEW r \in Log, Acts(r)
      PROVE  SilentInv'
  <2>1. Inv /\ GoneInv /\ RowsOK /\ Log' = Log
    BY <1>1, ActsEffect DEF SilentInv, GoneInv
  <2>2. GoneInv'
    BY <1>1, <2>1, GoneStep DEF Next, Acts
  <2>3. \A p \in Log : HandOK(p)' /\ SweepOK(p)' /\ CutOK(p)' /\ OwnChat(p)'
    BY <1>1, <2>1, HandActs, SweepActs, CutActs, OwnChatActs DEF SilentInv
  <2>4. \A p \in Log : QueueOK(p)'
    BY <1>1, <2>1, QueueActs DEF SilentInv
  <2>5. \A p \in Log : SilentOK(p)'
    BY <1>1, SilentActs
  <2>6. \A i \in Id : TaskEnd(i)' /\ ChatEnd(i)' /\ ChatWas(i)'
    BY <1>1, <2>1, TaskEndActs, ChatEndActs, ChatWasActs DEF SilentInv, RowsOK
  <2>7. \A t \in armed' : db'["tasks"][t].st # "none"
    BY <1>1, <2>1, ArmedThere DEF RowsOK
  <2> QED
    BY <2>1, <2>2, <2>3, <2>4, <2>5, <2>6, <2>7 DEF SilentInv, RowsOK
<1>2. CASE UNCHANGED vars
  <2>1. db' = db /\ armed' = armed /\ req' = req /\ GoneInv'
    BY <1>2, GoneStep DEF vars, SilentInv
  <2>2. Log' = Log /\ (NoSlip' <=> NoSlip) /\ \A s : A(s)' = A(s) /\ (Deleter(s)' <=> Deleter(s))
    BY <2>1 DEF Log, NoSlip, Deleter, A
  <2>3. \A p, t : /\ Mine(p, t)' <=> Mine(p, t)
                  /\ Named(p, t)' <=> Named(p, t)
                  /\ Before(p, t)' <=> Before(p, t)
    BY <2>1 DEF Mine, Named, Before, A
  <2>4. \A p, t : Beside(p, t)' <=> Beside(p, t)
    BY <2>1, <2>2, <2>3 DEF Beside, Overlapped
  <2>5. \A p : (HandOK(p)' <=> HandOK(p)) /\ (OwnChat(p)' <=> OwnChat(p))
    BY <2>1, <2>2 DEF HandOK, OwnChat, At
  <2>6. \A p : (SweepOK(p)' <=> SweepOK(p)) /\ (SilentOK(p)' <=> SilentOK(p))
    BY <2>1, <2>2, <2>3, <2>4 DEF SweepOK, SilentOK, Live
  <2>7. \A p : CutOK(p)' <=> CutOK(p)
    BY <2>1, <2>2 DEF CutOK, Live, Before
  <2>8. \A p : QueueOK(p)' <=> QueueOK(p)
    BY <2>1, <2>2 DEF QueueOK, Answered, Mine, Before
  <2>9. RowsOK' <=> RowsOK
    BY <2>1, <2>2 DEF RowsOK, TaskEnd, ChatEnd, ChatWas
  <2> QED
    BY <2>1, <2>2, <2>5, <2>6, <2>7, <2>8, <2>9 DEF SilentInv
<1> QED
  BY <1>1, <1>2, NextActs, SilentArrive

LEMMA SilentInit ==
  ASSUME Init
  PROVE  SilentInv
<1>1. Log = {} /\ GoneInv /\ Inv
  BY InitInv, GoneInit DEF Init, Log
<1>2. Fresh(db) /\ armed \subseteq Id /\ \A t \in armed : db["tasks"][t].st # "none"
  BY ApiAssumption DEF Init, Live
<1>3. \A t \in Table, i \in Id :
        db[t][i].st # "gone"
        /\ (db[t][i].chat # NoId => db["chats"][db[t][i].chat].st # "none")
  BY <1>2 DEF Fresh
<1>4. RowsOK
  BY <1>2, <1>3 DEF RowsOK, TaskEnd, ChatEnd, ChatWas, Table
<1> QED
  BY <1>1, <1>4 DEF SilentInv

(* A user who was deleted gets no more reminders and no new rows: what is  *)
(* made for a user looks for the user first, what a deletion has to take   *)
(* off the worker it has in hand until it did, and what else the worker    *)
(* has came from a request beside the deletion.                            *)
THEOREM GoneUserStaysGoneCorrect == Spec => []GoneUserStaysGone
<1>1. Init => SilentInv
  BY SilentInit
<1>2. SilentInv /\ [Next]_vars => SilentInv'
  BY SilentStep
<1>3. SilentInv => NoRowForGoneUser
  <2> SUFFICES ASSUME SilentInv, NEW r \in Log, A(r).op \in Makers,
                      NEW p \in Deletions(A(r).user), Before(p, r), req[r].out = "ok"
               PROVE  FALSE
    BY DEF NoRowForGoneUser, Makers
  <2>1. Subject(r) = A(r).user
    BY DEF Subject, Makers
  <2>2. UserThere(r)
    BY DEF SilentInv, GoneInv
  <2> QED
    BY <2>1, <2>2 DEF UserThere, Going
<1>4. SilentInv => GoneUserIsSilent
  <2> SUFFICES ASSUME SilentInv, NEW u \in Id, NEW p \in Deletions(u), NoSlip
               PROVE  /\ \A t \in Live("tasks") :
                           db["tasks"][t].user = u /\ Before(db["tasks"][t].by, p)
                           => db["tasks"][t].done
                      /\ \A c \in Live("chats") :
                           db["chats"][c].user = u => ~ Before(db["chats"][c].by, p)
                      /\ \A t \in armed : Mine(p, t) /\ Named(p, t) => Beside(p, t)
    BY DEF GoneUserIsSilent, NoSlip, Deleter, Deletions, Answered, Mine, Named, Beside
  <2>1. /\ p \in Log /\ Deleter(p) /\ A(p).id = u /\ req[p].hit = "no" /\ req[p].out = "ok"
        /\ SweepOK(p) /\ CutOK(p) /\ SilentOK(p)
    BY DEF Deletions, Answered, Deleter, NoSlip, SilentInv
  <2> QED
    BY <2>1 DEF SweepOK, CutOK, SilentOK, Sweeping, Swept, Cut, Mine
<1>5. SilentInv => GoneUserStaysGone
  BY <1>3, <1>4 DEF GoneUserStaysGone
<1> QED
  BY <1>1, <1>2, <1>5, PTL DEF Spec
-----------------------------------------------------------------------------
(* What a request about digests wants the worker to know of which chat.    *)
Writer(r) == A(r).op \in DigestOps

Wanted(r) ==
  IF A(r).op = "UpdateDigestSettings" /\ A(r).ref # NoId THEN A(r).ref ELSE A(r).chat

(* The digest a request has read is one of the user and chat it asked for. *)
DigestHand(r) ==
  Writer(r) /\ req[r].out = "pending" =>
    /\ A(r).op = "UpdateDigestSettings" /\ req[r].pc \in {"time", "write"} =>
         /\ req[r].item \in Id /\ db["digests"][req[r].item].st # "none"
         /\ db["digests"][req[r].item].user = A(r).user
    /\ A(r).op # "CreateDigestSettings" /\ req[r].pc \in {"time", "write", "delete", "publish"} =>
         /\ req[r].copy.user = A(r).user
         /\ req[r].copy.chat = IF req[r].pc = "time" THEN A(r).chat ELSE Wanted(r)

(* Two digests of one user for no chat in particular are excused when      *)
(* requests beside each other made them, or an update beside one of them   *)
(* wrote its old chat back.                                                *)
Excused(u, p, q) ==
  \/ Overlapped(p, q)
  \/ \E w \in Log : WritesBack(w, u) /\ (Overlapped(w, p) \/ Overlapped(w, q))

(* A digest is for no chat in particular, or will be when the update that  *)
(* holds it has written it back.                                           *)
Loose(d, u) ==
  \/ /\ d \in Live("digests")
     /\ db["digests"][d].user = u /\ db["digests"][d].chat = NoId
  \/ \E w \in Log : /\ WritesBack(w, u) /\ req[w].out = "pending"
                    /\ req[w].pc \in {"time", "write"} /\ req[w].item = d

LooseOK ==
  \A u \in AnyId : \A c, d \in Id :
    c # d /\ Loose(c, u) /\ Loose(d, u) => Excused(u, db["digests"][c].by, db["digests"][d].by)

(* What appears after a creation found no digest comes from beside it.     *)
LooseMade(r) ==
  At(r, "CreateDigestSettings", "insert") /\ A(r).chat = NoId =>
    \A d \in Id : Loose(d, A(r).user) => Excused(A(r).user, db["digests"][d].by, r)

OnePerChat ==
  \A c, d \in Live("digests") :
    LET x == db["digests"][c]  y == db["digests"][d]
    IN  x.user = y.user /\ x.chat = y.chat /\ x.chat # NoId => c = d

DigestMaker(d) ==
  LET p == db["digests"][d].by
  IN  db["digests"][d].st = "none" \/ p = 0 \/ (p \in Log /\ A(p).op = "CreateDigestSettings")

DigestInv ==
  /\ LooseOK /\ OnePerChat
  /\ \A r \in Log : DigestHand(r) /\ LooseMade(r)
  /\ \A d \in Id : DigestMaker(d)
-----------------------------------------------------------------------------
(* The statements of the requests about digests, and what the worker is    *)
(* told by them.                                                           *)
DigestsKept == \A d \in Id : db'["digests"][d] = db["digests"][d]

Rest(r) ==
  /\ DigestsKept /\ told' = told
  /\ req'[r].out = "pending" =>
       \/ req'[r].pc = "touch"
       \/ A(r).op = "CreateDigestSettings" /\ req'[r].pc \in {"chat", "time"}
  /\ req'[r].hit = "no" => req[r].hit = "no" /\ req[r].pc # "publish"

Telling(r, user, chat, mark) ==
  /\ req[r].pc = "publish" /\ DigestsKept
  /\ told' = [told EXCEPT ![<<user, chat>>] = mark]
  /\ Goes(r, "touch")

(* A digest of the user and the chat asked for becomes row i.              *)
Joins(r, i) ==
  /\ i \in Id /\ db["digests"][i].st = "none"
  /\ db'["digests"][i].st = "live" /\ db'["digests"][i].by = r /\ db'["digests"][i].mark = r
  /\ db'["digests"][i].user = A(r).user /\ db'["digests"][i].chat = A(r).chat
  /\ \A d \in Id : d # i => db'["digests"][d] = db["digests"][d]
  /\ told' = told
  /\ req'[r].pc = "publish" /\ req'[r].out = "pending" /\ req'[r].hit = req[r].hit

CreateDid(r) ==
  \/ Rest(r)
  \/ /\ req[r].pc = "time" /\ DigestsOf(A(r).user, A(r).chat) = {}
     /\ DigestsKept /\ told' = told /\ Goes(r, "insert")
  \/ /\ req[r].pc = "insert" /\ ~ DigestTaken(A(r).user, A(r).chat)
     /\ \E i \in Id : Joins(r, i)
  \/ Telling(r, A(r).user, A(r).chat, r)

(* The digest of the user and the chat asked for is read.                  *)
Finds(r, pc) ==
  /\ req[r].pc = "start" /\ DigestsKept /\ told' = told
  /\ req'[r].pc = pc /\ req'[r].out = "pending" /\ req'[r].hit = req[r].hit
  /\ \E d \in DigestsOf(A(r).user, A(r).chat) :
       req'[r].item = d /\ req'[r].copy = db["digests"][d]

(* Row d of the digests gets the chat of the copy, if it is there.         *)
Rewrites(r, d) ==
  /\ Goes(r, "publish") /\ told' = told
  /\ \A i \in Id : i # d \/ d \notin Live("digests") => db'["digests"][i] = db["digests"][i]
  /\ d \in Live("digests") =>
       /\ db'["digests"][d].st = "live" /\ db'["digests"][d].by = db["digests"][d].by
       /\ db'["digests"][d].user = db["digests"][d].user
       /\ db'["digests"][d].chat = req[r].copy.chat /\ db'["digests"][d].mark = r
       /\ \/ ~ DigestTaken(req[r].copy.user, req[r].copy.chat)
          \/ DigestsOf(req[r].copy.user, req[r].copy.chat) = {d}

UpdateDid(r) ==
  \/ Rest(r)
  \/ Finds(r, "time")
  \/ /\ req[r].pc = "time" /\ DigestsKept /\ told' = told
     /\ req'[r].pc = "write" /\ req'[r].out = "pending" /\ req'[r].hit = req[r].hit
     /\ req'[r].item = req[r].item /\ req'[r].copy.user = req[r].copy.user
     /\ req'[r].copy.chat = IF A(r).ref = NoId THEN req[r].copy.chat ELSE A(r).ref
  \/ req[r].pc = "write" /\ Rewrites(r, req[r].item)
  \/ Telling(r, req[r].copy.user, req[r].copy.chat, r)

(* Every digest of the user and the chat asked for is removed.             *)
Clears(r) ==
  /\ Goes(r, "publish") /\ told' = told
  /\ DigestsOf(A(r).user, A(r).chat) # {}
  /\ \A d \in Id :
       IF d \in DigestsOf(A(r).user, A(r).chat) THEN db'["digests"][d].st = "gone"
       ELSE db'["digests"][d] = db["digests"][d]

DeleteDid(r) ==
  \/ Rest(r)
  \/ Finds(r, "delete")
  \/ req[r].pc = "delete" /\ Clears(r)
  \/ Telling(r, req[r].copy.user, req[r].copy.chat, NotTold)

(* A statement that fails, one that ends the request, the last one.        *)
LEMMA DigestFault ==
  ASSUME Inv, NEW r \in Log, Acts(r), Writer(r), Fault(r)
  PROVE  Rest(r)
<1>1. Base /\ req[r].out = "pending" /\ A(r).op \in DigestOps
  BY ActsEffect DEF Writer
<1>2. Breaks(r)
  BY <1>1, FaultBreaks
<1>3. DigestsKept /\ told' = told
  BY <1>2 DEF Breaks, DigestsKept
<1>4. CASE req[r].pc = "touch" /\ Ends(r, "ok")
  BY <1>3, <1>4 DEF Ends, Kept, Rest
<1>5. CASE ~ (req[r].pc = "touch" /\ Ends(r, "ok"))
  BY <1>1, <1>2, <1>3, <1>5 DEF Breaks, Rest, DigestOps
<1> QED
  BY <1>4, <1>5

(* A statement that ends the request and leaves the digests rests.           *)
LEMMA DigestEnds ==
  ASSUME Base, NEW r \in Log, NEW out, Ends(r, out), out # "pending", DigestsKept, told' = told,
         req[r].pc # "publish"
  PROVE  Rest(r)
BY DEF Ends, Kept, Rest

(* So does the one that marks the user as seen.                              *)
LEMMA DigestTouch ==
  ASSUME Inv, NEW r \in Log, Acts(r), Writer(r), NEW u, Touch(r, u)
  PROVE  Rest(r)
<1>1. Base /\ db \in [Table -> [Id -> Row]]
  BY ActsEffect DEF Base, ApiTypeOK
<1>2. req[r].pc = "touch" /\ Ends(r, "ok")
  BY <1>1, TouchOf
<1>3. DigestsKept /\ told' = told
  BY <1>1 DEF Touch, Aside, DigestsKept, Table
<1> QED
  BY <1>1, <1>2, <1>3, DigestEnds

(* Finding the digest of a user and a chat: it is the one asked for.         *)
LEMMA DigestFinds ==
  ASSUME Base, NEW r \in Log, req[r].out = "pending", req[r].pc = "start", NEW pc \in Pc,
         GetDigestSettingsByUserID(r, pc)
  PROVE  Rest(r) \/ Finds(r, pc)
<1>1. req[r] \in Request /\ db \in [Table -> [Id -> Row]]
  BY InLog DEF Base, ApiTypeOK
<1>2. db' = db /\ told' = told
  BY DEF GetDigestSettingsByUserID, Quiet
<1>3. CASE req'[r] = Finish(req[r], "notfound")
  <2>1. req'[r].out = "notfound" /\ req'[r].hit = req[r].hit
    BY <1>1, <1>3, FinishFields DEF Outcome
  <2> QED
    BY <1>2, <2>1 DEF Rest, DigestsKept
<1>4. CASE \E d \in DigestsOf(A(r).user, A(r).chat) :
             req'[r] = [req[r] EXCEPT !.pc = pc, !.copy = db["digests"][d], !.item = d]
  <2>1. PICK d \in DigestsOf(A(r).user, A(r).chat) :
               req'[r] = [req[r] EXCEPT !.pc = pc, !.copy = db["digests"][d], !.item = d]
    BY <1>4
  <2> DEFINE row == db["digests"][d]
  <2>2. req'[r] = [req[r] EXCEPT !.pc = pc, !.copy = row, !.item = d]
    BY <2>1
  <2> HIDE DEF row
  <2>3. /\ req'[r].pc = pc /\ req'[r].out = "pending" /\ req'[r].hit = req[r].hit
        /\ req'[r].item = d /\ req'[r].copy = row
    BY <1>1, <2>2 DEF Request
  <2> QED
    BY <1>2, <2>1, <2>3 DEF Finds, DigestsKept, row
<1> QED
  BY <1>3, <1>4, DigestReadEffect

(* The message to the worker is the last thing that a writer does.           *)
LEMMA DigestTells ==
  ASSUME Base, NEW r \in Log, req[r].out = "pending", NEW user, NEW chat,
         A(r).op \in DigestOps, NEW mark \in Nat \cup {NotTold}, Tells(r, user, chat, mark),
         req[r].pc = "publish"
  PROVE  Telling(r, user, chat, mark)
<1>1. Goes(r, "touch")
  BY GoesOf DEF Tells, Pc
<1> QED
  BY <1>1 DEF Tells, Telling, DigestsKept

(* What CreateDigestSettings does in one statement.                          *)
LEMMA CreateDigest ==
  ASSUME Inv, NEW r \in Log, Acts(r), A(r).op = "CreateDigestSettings"
  PROVE  CreateDid(r)
<1>1. Base /\ req[r].out = "pending" /\ Writer(r) /\ "digests" \in Table /\ A(r).op \in Creations
  BY ActsEffect DEF Writer, DigestOps, Table, Creations
<1>2. CASE Fault(r)
  BY <1>1, <1>2, DigestFault DEF CreateDid
<1>3. ASSUME NEW found, NEW pc \in {"chat", "time"}, Requires(r, found, "unprocessable", pc),
             req[r].pc # "publish"
      PROVE  Rest(r)
  <2>1. Goes(r, pc) \/ Ends(r, "unprocessable")
    BY <1>1, <1>3, RequiresOf DEF Pc, Outcome
  <2>2. DigestsKept /\ told' = told
    BY <1>3 DEF Requires, Quiet, DigestsKept
  <2>3. CASE Goes(r, pc)
    BY <1>1, <1>3, <2>2, <2>3 DEF Goes, Kept, Rest
  <2> QED
    BY <1>1, <1>3, <2>1, <2>2, <2>3, DigestEnds
<1>4. CASE At(r, "CreateDigestSettings", "time") /\ Quiet
           /\ (Answer(r, "validation") \/ Answer(r, "unprocessable"))
  <2>1. Ends(r, "validation") \/ Ends(r, "unprocessable")
    BY <1>1, <1>4, EndsOf DEF Outcome
  <2>2. DigestsKept /\ told' = told
    BY <1>4 DEF Quiet, DigestsKept
  <2> QED
    BY <1>1, <1>4, <2>1, <2>2, DigestEnds DEF CreateDid, At
<1>5. CASE /\ At(r, "CreateDigestSettings", "time") /\ Quiet /\ Go(r, "insert")
           /\ DigestsOf(A(r).user, A(r).chat) = {}
  <2>1. Goes(r, "insert")
    BY <1>1, <1>5, GoesOf DEF Pc
  <2> QED
    BY <1>5, <2>1 DEF CreateDid, Quiet, DigestsKept, At
<1>6. CASE At(r, "CreateDigestSettings", "insert") /\ InsertDigest(r)
  <2> DEFINE row == [NoRow EXCEPT !.user = A(r).user, !.chat = A(r).chat]
             taken == DigestTaken(A(r).user, A(r).chat)
  <2>1. row \in Row /\ row.end = 0 /\ row.user = A(r).user /\ row.chat = A(r).chat
    BY <1>1, InLog DEF NoRow, Row, AnyId, Ask
  <2>2. Inserts(r, "digests", row, taken, "publish")
    BY <1>6 DEF InsertDigest
  <2>3. taken \in BOOLEAN /\ "publish" \in Pc
    BY DEF DigestTaken, Pc
  <2>4. told' = told
    BY <2>2 DEF Inserts, Aside
  <2>5. ~ taken <=> ~ DigestTaken(A(r).user, A(r).chat)
    OBVIOUS
  <2> HIDE DEF row, taken
  <2>6. Owned(r, "digests", row)
    BY <2>1 DEF Owned
  <2>7. CASE taken /\ db' = db /\ req'[r].out = "internal" /\ req'[r].hit = "unique"
    BY <2>4, <2>7 DEF CreateDid, Rest, DigestsKept
  <2>8. ASSUME ~ taken, NEW i \in Id, Adds(r, "digests", row, "publish", i)
        PROVE  CreateDid(r)
    <3>1. /\ db["digests"][i].st = "none"
          /\ db'["digests"][i] = [row EXCEPT !.st = "live", !.by = r, !.mark = r]
          /\ \A d \in Id : d # i => db'["digests"][d] = db["digests"][d]
          /\ req'[r].pc = "publish" /\ req'[r].out = "pending" /\ req'[r].hit = req[r].hit
      BY <1>1, <2>8 DEF Adds
    <3>2. /\ db'["digests"][i].st = "live" /\ db'["digests"][i].by = r /\ db'["digests"][i].mark = r
          /\ db'["digests"][i].user = A(r).user /\ db'["digests"][i].chat = A(r).chat
      BY <2>1, <3>1 DEF Row
    <3>3. Joins(r, i)
      BY <2>4, <3>1, <3>2 DEF Joins
    <3> QED
      BY <1>6, <2>5, <2>8, <3>3 DEF CreateDid, At
  <2> QED
    BY <1>1, <2>1, <2>2, <2>3, <2>6, <2>7, <2>8, InsertsAdds
<1>7. CASE At(r, "CreateDigestSettings", "publish") /\ Tells(r, A(r).user, A(r).chat, r)
  <2>1. r \in Nat \cup {NotTold}
    BY <1>1, InLog
  <2>2. PICK u, c : u = A(r).user /\ c = A(r).chat
    OBVIOUS
  <2>3. Tells(r, u, c, r)
    BY <1>7, <2>2
  <2>4. Telling(r, u, c, r)
    BY <1>1, <1>7, <2>1, <2>3, DigestTells DEF At, Writer
  <2> QED
    BY <2>2, <2>4 DEF CreateDid
<1>8. CASE CreateDigestSettings(r)
  <2>1. CASE At(r, "CreateDigestSettings", "start")
             /\ Requires(r, A(r).user \in Live("users"), "unprocessable", "chat")
    BY <1>3, <2>1 DEF At, CreateDid
  <2>2. CASE At(r, "CreateDigestSettings", "chat")
             /\ Requires(r, ChatGiven(A(r).chat), "unprocessable", "time")
    BY <1>3, <2>2 DEF At, CreateDid
  <2>3. CASE Touch(r, A(r).user)
    BY <1>1, <2>3, DigestTouch DEF CreateDid
  <2> QED
    BY <1>4, <1>5, <1>6, <1>7, <1>8, <2>1, <2>2, <2>3 DEF CreateDigestSettings
<1> QED
  BY <1>2, <1>8, StepIsOf DEF Acts, StepOf, Lists, Views

(* What UpdateDigestSettings does in one statement.                          *)
LEMMA UpdateDigest ==
  ASSUME Inv, NEW r \in Log, Acts(r), A(r).op = "UpdateDigestSettings"
  PROVE  UpdateDid(r)
<1>1. Base /\ req[r].out = "pending" /\ Writer(r) /\ A(r).op \in Changes /\ req[r] \in Request
      /\ db \in [Table -> [Id -> Row]] /\ "digests" \in Table
  BY ActsEffect, InLog DEF Writer, DigestOps, Table, Changes, Base, ApiTypeOK
<1>2. CASE Fault(r)
  BY <1>1, <1>2, DigestFault DEF UpdateDid
<1>3. CASE At(r, "UpdateDigestSettings", "start") /\ GetDigestSettingsByUserID(r, "time")
  BY <1>1, <1>3, DigestFinds DEF UpdateDid, At, Pc
<1>4. CASE At(r, "UpdateDigestSettings", "time") /\ Quiet
           /\ (Answer(r, "validation") \/ Answer(r, "unprocessable"))
  <2>1. Ends(r, "validation") \/ Ends(r, "unprocessable")
    BY <1>1, <1>4, EndsOf DEF Outcome
  <2>2. DigestsKept /\ told' = told
    BY <1>4 DEF Quiet, DigestsKept
  <2> QED
    BY <1>1, <1>4, <2>1, <2>2, DigestEnds DEF UpdateDid, At
<1>5. CASE At(r, "UpdateDigestSettings", "time") /\ Quiet /\ A(r).ref = NoId /\ Go(r, "write")
  <2>1. Goes(r, "write")
    BY <1>1, <1>5, GoesOf DEF Pc
  <2> QED
    BY <1>5, <2>1 DEF UpdateDid, Goes, Kept, Quiet, DigestsKept, At
<1>6. CASE /\ At(r, "UpdateDigestSettings", "time") /\ Quiet /\ A(r).ref # NoId
           /\ req' = [req EXCEPT ![r].pc = "write", ![r].copy.chat = A(r).ref]
  <2>1. req \in Seq(Request) /\ r \in DOMAIN req
    BY <1>1, LenProperties DEF Base, ApiTypeOK, Log
  <2>2. PICK c : c = A(r).ref
    OBVIOUS
  <2>3. req'[r] = [req[r] EXCEPT !.pc = "write", !.copy.chat = c]
    BY <1>6, <2>1, <2>2
  <2>4. /\ req'[r].pc = "write" /\ req'[r].out = "pending" /\ req'[r].hit = req[r].hit
        /\ req'[r].item = req[r].item /\ req'[r].copy = [req[r].copy EXCEPT !.chat = c]
    BY <1>1, <2>3 DEF Request
  <2>5. req'[r].copy.user = req[r].copy.user /\ req'[r].copy.chat = c
    BY <1>1, <2>4 DEF Request, Row
  <2> QED
    BY <1>6, <2>2, <2>4, <2>5 DEF UpdateDid, Quiet, DigestsKept, At
<1>7. CASE At(r, "UpdateDigestSettings", "write") /\ UpdateDigestRow(r)
  <2>1. PICK d, u, c : d = req[r].item /\ u = req[r].copy.user /\ c = req[r].copy.chat
    OBVIOUS
  <2>2. told' = told
    BY <1>7 DEF UpdateDigestRow, Aside
  <2>3. CASE db' = db /\ req'[r] = [Finish(req[r], "internal") EXCEPT !.hit = "unique"]
    <3>1. req'[r].out = "internal" /\ req'[r].hit = "unique"
      BY <1>1, <2>3, RefusedOf
    <3> QED
      BY <2>2, <2>3, <3>1 DEF UpdateDid, Rest, DigestsKept
  <2>4. CASE /\ ~ (d \in Live("digests") /\ DigestTaken(u, c) /\ DigestsOf(u, c) # {d})
             /\ req'[r] = Written(req[r], "publish")
             /\ db' = IF d \in Live("digests")
                      THEN [db EXCEPT !["digests"][d].chat = c, !["digests"][d].mark = r] ELSE db
    <3>1. Goes(r, "publish")
      BY <1>1, <2>4, WrittenOf DEF Pc
    <3>2. CASE d \in Live("digests")
      <4>1. d \in Id
        BY <3>2 DEF Live
      <4>2. db' = [db EXCEPT !["digests"][d].chat = c, !["digests"][d].mark = r]
        BY <2>4, <3>2
      <4>3. db'["digests"][d] = [db["digests"][d] EXCEPT !.chat = c, !.mark = r]
        BY <1>1, <4>1, <4>2
      <4>4. \A i \in Id : i # d => db'["digests"][i] = db["digests"][i]
        BY <1>1, <4>1, <4>2
      <4>5. db["digests"][d] \in Row
        BY <1>1, <4>1
      <4>6. /\ db'["digests"][d].st = db["digests"][d].st /\ db'["digests"][d].by = db["digests"][d].by
            /\ db'["digests"][d].user = db["digests"][d].user
            /\ db'["digests"][d].chat = c /\ db'["digests"][d].mark = r
        BY <4>3, <4>5 DEF Row
      <4>7. db'["digests"][d].st = "live"
        BY <3>2, <4>6 DEF Live
      <4>8. ~ DigestTaken(u, c) \/ DigestsOf(u, c) = {d}
        BY <2>4, <3>2
      <4>9. Rewrites(r, d)
        BY <2>1, <2>2, <3>1, <3>2, <4>4, <4>6, <4>7, <4>8 DEF Rewrites
      <4> QED
        BY <1>7, <2>1, <4>9 DEF UpdateDid, At
    <3>3. CASE d \notin Live("digests")
      BY <1>7, <2>1, <2>2, <2>4, <3>1, <3>3 DEF UpdateDid, Rewrites, At
    <3> QED
      BY <3>2, <3>3
  <2> QED
    BY <1>1, <1>7, <2>1, <2>3, <2>4, DigestUpdateEffect
<1>8. CASE /\ At(r, "UpdateDigestSettings", "publish")
           /\ Tells(r, req[r].copy.user, req[r].copy.chat, r)
  <2>1. r \in Nat \cup {NotTold}
    BY <1>1, InLog
  <2>2. PICK u, c : u = req[r].copy.user /\ c = req[r].copy.chat
    OBVIOUS
  <2>3. Tells(r, u, c, r)
    BY <1>8, <2>2
  <2>4. Telling(r, u, c, r)
    BY <1>1, <1>8, <2>1, <2>3, DigestTells DEF At, Writer
  <2> QED
    BY <2>2, <2>4 DEF UpdateDid
<1>9. CASE UpdateDigestSettings(r)
  <2>1. CASE Touch(r, A(r).user)
    BY <1>1, <2>1, DigestTouch DEF UpdateDid
  <2>2. CASE /\ At(r, "UpdateDigestSettings", "time") /\ Quiet
             /\ IF A(r).blank THEN Answer(r, "validation")
                ELSE IF A(r).ref = NoId THEN Go(r, "write")
                ELSE IF ~ HasChat(A(r).ref) THEN Answer(r, "unprocessable")
                ELSE req' = [req EXCEPT ![r].pc = "write", ![r].copy.chat = A(r).ref]
    BY <1>4, <1>5, <1>6, <2>2
  <2> QED
    BY <1>3, <1>7, <1>8, <1>9, <2>1, <2>2 DEF UpdateDigestSettings
<1> QED
  BY <1>2, <1>9, StepIsOf DEF Acts, StepOf, Lists, Views

(* What DeleteDigestSettings does in one statement.                          *)
LEMMA DeleteDigest ==
  ASSUME Inv, NEW r \in Log, Acts(r), A(r).op = "DeleteDigestSettings"
  PROVE  DeleteDid(r)
<1>1. Base /\ req[r].out = "pending" /\ Writer(r) /\ A(r).op \in Removals /\ req[r] \in Request
      /\ db \in [Table -> [Id -> Row]] /\ "digests" \in Table
  BY ActsEffect, InLog DEF Writer, DigestOps, Table, Removals, Base, ApiTypeOK
<1>2. CASE Fault(r)
  BY <1>1, <1>2, DigestFault DEF DeleteDid
<1>3. CASE At(r, "DeleteDigestSettings", "start") /\ GetDigestSettingsByUserID(r, "delete")
  BY <1>1, <1>3, DigestFinds DEF DeleteDid, At, Pc
<1>4. CASE At(r, "DeleteDigestSettings", "delete") /\ DeleteDigestRows(r)
  <2>1. PICK gone : gone = DigestsOf(A(r).user, A(r).chat)
    OBVIOUS
  <2>2. told' = told
    BY <1>4 DEF DeleteDigestRows, Aside
  <2>3. CASE gone = {} /\ db' = db /\ req'[r] = Finish(req[r], "notfound")
    <3>1. req'[r].out = "notfound" /\ req'[r].hit = req[r].hit
      BY <1>1, <2>3, FinishFields DEF Outcome
    <3> QED
      BY <1>4, <2>2, <2>3, <3>1 DEF Rest, DigestsKept, DeleteDid, At
  <2>4. CASE /\ gone # {}
             /\ req'[r] = Written(req[r], "publish")
             /\ \A d \in Id : db'["digests"][d] = IF d \in gone THEN Dead(db["digests"][d], r)
                                                  ELSE db["digests"][d]
    <3>1. Goes(r, "publish")
      BY <1>1, <2>4, WrittenOf DEF Pc
    <3>2. ASSUME NEW d \in Id, d \in gone
          PROVE  db'["digests"][d].st = "gone"
      <4>1. db["digests"][d] \in Row /\ db'["digests"][d] = Dead(db["digests"][d], r)
        BY <1>1, <2>4, <3>2
      <4> QED
        BY <4>1 DEF Dead, Row
    <3>3. \A d \in Id : IF d \in gone THEN db'["digests"][d].st = "gone"
                        ELSE db'["digests"][d] = db["digests"][d]
      BY <2>4, <3>2
    <3>4. Clears(r)
      BY <2>1, <2>2, <2>4, <3>1, <3>3 DEF Clears
    <3> QED
      BY <1>4, <3>4 DEF DeleteDid, At
  <2> QED
    BY <1>1, <1>4, <2>1, <2>3, <2>4, DigestDeleteEffect
<1>5. CASE /\ At(r, "DeleteDigestSettings", "publish")
           /\ Tells(r, req[r].copy.user, req[r].copy.chat, NotTold)
  <2>1. PICK u, c, m : u = req[r].copy.user /\ c = req[r].copy.chat /\ m = NotTold
    OBVIOUS
  <2>2. Tells(r, u, c, m)
    BY <1>5, <2>1
  <2>3. Telling(r, u, c, m)
    BY <1>1, <1>5, <2>1, <2>2, DigestTells DEF At, Writer
  <2> QED
    BY <2>1, <2>3 DEF DeleteDid
<1>6. CASE DeleteDigestSettings(r)
  <2>1. CASE Touch(r, A(r).user)
    BY <1>1, <2>1, DigestTouch DEF DeleteDid
  <2> QED
    BY <1>3, <1>4, <1>5, <1>6, <2>1 DEF DeleteDigestSettings
<1> QED
  BY <1>2, <1>6, StepIsOf DEF Acts, StepOf, Lists, Views

(* Everyone else leaves the digests and what the worker has of them.       *)
LEMMA OthersKeep ==
  ASSUME Inv, NEW r \in Log, Acts(r), ~ Writer(r)
  PROVE  DigestsKept /\ told' = told
<1>1. Effect(r, TablesOf(A(r).op)) /\ "digests" \in Table
  BY ActsEffect DEF Table
<1>2. "digests" \notin TablesOf(A(r).op)
  BY DEF TablesOf, Writes, Writer
<1>3. told' = told
  BY <1>1 DEF Effect, Around, Writer
<1>4. DigestsKept
  BY <1>1, <1>2 DEF Effect, Seen, DigestsKept
<1> QED
  BY <1>3, <1>4
-----------------------------------------------------------------------------
(* One digest for a chat: the ones for no chat that are beside each other. *)

(* A digest keeps its user and where it came from.                         *)
LEMMA DigestRow ==
  ASSUME Inv, NEW r \in Log, Acts(r), NEW d \in Id
  PROVE  /\ db["digests"][d].st # "none" =>
              /\ db'["digests"][d].st # "none" /\ db'["digests"][d].user = db["digests"][d].user
              /\ db'["digests"][d].by = db["digests"][d].by
         /\ db["digests"][d].st = "none" /\ db'["digests"][d].st # "none" =>
              db'["digests"][d].by = r /\ A(r).op = "CreateDigestSettings"
<1> DEFINE x == db["digests"][d]
           y == db'["digests"][d]
<1>1. PICK T : T = TablesOf(A(r).op)
  OBVIOUS
<1>2. Base /\ Effect(r, T) /\ "digests" \in Table
  BY <1>1, ActsEffect DEF Table
<1>3. x \in Row /\ y \in Row /\ RowStep(r, "digests", x, y)
  BY <1>2, RowsMoved DEF Effect
<1>4. A(r).op \in Creations /\ y # x => A(r).op = "CreateDigestSettings"
  BY <1>1, <1>2 DEF Effect, Seen, TablesOf, Writes, Creations, DigestOps
<1> HIDE DEF x, y
<1>5. y = Dead(x, r) => y.st # "none" /\ y.user = x.user /\ y.by = x.by
  BY <1>3 DEF Dead, Row
<1>6. /\ x.st # "none" => y.st # "none" /\ y.user = x.user /\ y.by = x.by
      /\ x.st = "none" /\ y.st # "none" => y.by = r /\ A(r).op = "CreateDigestSettings"
  BY <1>3, <1>4, <1>5 DEF RowStep, Seen, SameRow
<1> QED
  BY <1>6 DEF x, y

(* What requests about digests hold in hand is kept by any statement.        *)
LEMMA DigestHandActs ==
  ASSUME Inv, NEW r \in Log, Acts(r), NEW s \in Log, DigestHand(s)
  PROVE  DigestHand(s)'
<1>1. A(s)' = A(s) /\ (s # r => req'[s] = req[s]) /\ req[r].out = "pending"
  BY ActsEffect DEF A
<1>2. Writer(s)' <=> Writer(s)
  BY <1>1 DEF Writer
<1>3. Wanted(s)' = Wanted(s)
  BY <1>1 DEF Wanted
<1>4. \A d \in Id : db["digests"][d].st # "none" =>
        db'["digests"][d].st # "none" /\ db'["digests"][d].user = db["digests"][d].user
  BY DigestRow
<1>5. CASE s # r
  BY <1>1, <1>2, <1>3, <1>4, <1>5 DEF DigestHand
<1>6. CASE s = r /\ A(r).op = "CreateDigestSettings"
  BY <1>1, <1>6 DEF DigestHand
<1>7. CASE s = r /\ A(r).op = "UpdateDigestSettings"
  <2>1. UpdateDid(r) /\ Writer(r)
    BY <1>7, UpdateDigest DEF Writer, DigestOps
  <2>2. CASE Rest(r) \/ Telling(r, req[r].copy.user, req[r].copy.chat, r)
    BY <1>1, <1>7, <2>2 DEF Rest, Telling, Goes, DigestHand
  <2>3. CASE Finds(r, "time")
    <3>1. PICK d \in DigestsOf(A(r).user, A(r).chat) :
                 req'[r].item = d /\ req'[r].copy = db["digests"][d]
      BY <2>3 DEF Finds
    <3>2. d \in Id /\ db["digests"][d].st = "live" /\ db["digests"][d].user = A(r).user
          /\ db["digests"][d].chat = A(r).chat
      BY <3>1 DEF DigestsOf, Live
    <3> QED
      BY <1>1, <1>4, <1>7, <2>3, <3>1, <3>2 DEF Finds, DigestHand
  <2>4. CASE /\ req[r].pc = "time" /\ DigestsKept /\ told' = told
             /\ req'[r].pc = "write" /\ req'[r].out = "pending" /\ req'[r].hit = req[r].hit
             /\ req'[r].item = req[r].item /\ req'[r].copy.user = req[r].copy.user
             /\ req'[r].copy.chat = IF A(r).ref = NoId THEN req[r].copy.chat ELSE A(r).ref
    BY <1>1, <1>2, <1>3, <1>4, <1>7, <2>1, <2>4 DEF DigestHand, Wanted
  <2>5. CASE req[r].pc = "write" /\ Rewrites(r, req[r].item)
    BY <1>1, <1>2, <1>3, <1>4, <1>7, <2>1, <2>5 DEF DigestHand, Rewrites, Goes
  <2> QED
    BY <2>1, <2>2, <2>3, <2>4, <2>5 DEF UpdateDid
<1>8. CASE s = r /\ A(r).op = "DeleteDigestSettings"
  <2>1. DeleteDid(r) /\ Writer(r)
    BY <1>8, DeleteDigest DEF Writer, DigestOps
  <2>2. CASE Rest(r) \/ Telling(r, req[r].copy.user, req[r].copy.chat, NotTold)
    BY <1>1, <1>8, <2>2 DEF Rest, Telling, Goes, DigestHand
  <2>3. CASE Finds(r, "delete")
    <3>1. PICK d \in DigestsOf(A(r).user, A(r).chat) :
                 req'[r].item = d /\ req'[r].copy = db["digests"][d]
      BY <2>3 DEF Finds
    <3>2. db["digests"][d].user = A(r).user /\ db["digests"][d].chat = A(r).chat
      BY <3>1 DEF DigestsOf
    <3> QED
      BY <1>1, <1>3, <1>8, <2>3, <3>1, <3>2 DEF Finds, DigestHand, Wanted
  <2>4. CASE req[r].pc = "delete" /\ Clears(r)
    BY <1>1, <1>2, <1>3, <1>8, <2>1, <2>4 DEF DigestHand, Clears, Goes
  <2> QED
    BY <2>1, <2>2, <2>3, <2>4 DEF DeleteDid
<1>9. CASE ~ Writer(s)
  BY <1>2, <1>9 DEF DigestHand
<1> QED
  BY <1>5, <1>6, <1>7, <1>8, <1>9 DEF Writer, DigestOps

(* Digests come from the tables or from a CreateDigestSettings.              *)
LEMMA MakerActs ==
  ASSUME Inv, NEW r \in Log, Acts(r), NEW d \in Id, DigestMaker(d)
  PROVE  DigestMaker(d)'
<1>1. Log' = Log /\ \A s \in Log : A(s)' = A(s)
  BY ActsEffect DEF A
<1>2. PICK p, q : p = db["digests"][d].by /\ q = db'["digests"][d].by
  OBVIOUS
<1>3. CASE db["digests"][d].st # "none"
  BY <1>1, <1>2, <1>3, DigestRow DEF DigestMaker
<1>4. CASE db["digests"][d].st = "none"
  BY <1>1, <1>2, <1>4, DigestRow DEF DigestMaker
<1> QED
  BY <1>3, <1>4

(* How the digests change.                                                 *)
LEMMA DigestsChange ==
  ASSUME Inv, NEW r \in Log, Acts(r)
  PROVE  \/ DigestsKept
         \/ /\ At(r, "CreateDigestSettings", "insert") /\ ~ DigestTaken(A(r).user, A(r).chat)
            /\ \E i \in Id : Joins(r, i)
         \/ At(r, "UpdateDigestSettings", "write") /\ Rewrites(r, req[r].item)
         \/ At(r, "DeleteDigestSettings", "delete") /\ Clears(r)
<1>1. req[r].out = "pending"
  BY ActsEffect
<1>2. CASE A(r).op = "CreateDigestSettings"
  BY <1>1, <1>2, CreateDigest DEF CreateDid, Rest, Telling, At
<1>3. CASE A(r).op = "UpdateDigestSettings"
  BY <1>1, <1>3, UpdateDigest DEF UpdateDid, Rest, Finds, Telling, At
<1>4. CASE A(r).op = "DeleteDigestSettings"
  BY <1>1, <1>4, DeleteDigest DEF DeleteDid, Rest, Finds, Telling, At
<1>5. CASE ~ Writer(r)
  BY <1>5, OthersKeep
<1> QED
  BY <1>2, <1>3, <1>4, <1>5 DEF Writer, DigestOps

(* The index on user and chat refuses a second digest of a chat.             *)
LEMMA OnePerChatActs ==
  ASSUME Inv, NEW r \in Log, Acts(r), OnePerChat, DigestHand(r)
  PROVE  OnePerChat'
<1>1. req[r].out = "pending"
  BY ActsEffect
<1> SUFFICES ASSUME NEW c \in Id, NEW d \in Id,
                    db'["digests"][c].st = "live", db'["digests"][d].st = "live",
                    db'["digests"][c].user = db'["digests"][d].user,
                    db'["digests"][c].chat = db'["digests"][d].chat,
                    db'["digests"][c].chat # NoId, c # d
             PROVE  FALSE
  BY DEF OnePerChat, Live
<1>2. ASSUME db'["digests"][c] = db["digests"][c], db'["digests"][d] = db["digests"][d]
      PROVE  FALSE
  BY <1>2 DEF OnePerChat, Live
<1>3. CASE DigestsKept
  BY <1>2, <1>3 DEF DigestsKept
<1>4. ASSUME NEW i \in Id, Joins(r, i), ~ DigestTaken(A(r).user, A(r).chat)
      PROVE  FALSE
  <2>1. \A j \in Id : j # i => db'["digests"][j] = db["digests"][j]
    BY <1>4 DEF Joins
  <2>2. CASE i # c /\ i # d
    BY <1>2, <2>1, <2>2
  <2>3. ASSUME NEW j \in Id, j # i, db'["digests"][j].st = "live",
               db'["digests"][j].user = db'["digests"][i].user,
               db'["digests"][j].chat = db'["digests"][i].chat, db'["digests"][j].chat # NoId
        PROVE  FALSE
    <3>1. j \in DigestsOf(A(r).user, A(r).chat) /\ A(r).chat # NoId
      BY <1>4, <2>3 DEF Joins, DigestsOf, Live
    <3> QED
      BY <1>4, <3>1 DEF DigestTaken
  <2> QED
    BY <2>2, <2>3
<1>5. CASE At(r, "UpdateDigestSettings", "write") /\ Rewrites(r, req[r].item)
  <2>1. PICK e : e = req[r].item
    OBVIOUS
  <2>2. \A j \in Id : j # e \/ e \notin Live("digests") => db'["digests"][j] = db["digests"][j]
    BY <1>5, <2>1 DEF Rewrites
  <2>3. CASE e \notin Live("digests") \/ (e # c /\ e # d)
    BY <1>2, <2>2, <2>3
  <2>4. ASSUME e \in Live("digests"), NEW j \in Id, j # e, db'["digests"][j].st = "live",
               db'["digests"][j].user = db'["digests"][e].user,
               db'["digests"][j].chat = db'["digests"][e].chat, db'["digests"][j].chat # NoId
        PROVE  FALSE
    <3>1. PICK u, k : u = req[r].copy.user /\ k = req[r].copy.chat
      OBVIOUS
    <3>2. u = A(r).user /\ db["digests"][e].user = A(r).user
      BY <1>1, <1>5, <2>1, <3>1 DEF DigestHand, Writer, DigestOps, At
    <3>3. /\ db'["digests"][e].user = db["digests"][e].user /\ db'["digests"][e].chat = k
          /\ ~ DigestTaken(u, k) \/ DigestsOf(u, k) = {e}
      BY <1>5, <2>1, <2>4, <3>1 DEF Rewrites
    <3>4. j \in DigestsOf(u, k) /\ k # NoId
      BY <2>2, <2>4, <3>2, <3>3 DEF DigestsOf, Live
    <3> QED
      BY <2>4, <3>3, <3>4 DEF DigestTaken
  <2> QED
    BY <2>3, <2>4
<1>6. CASE Clears(r)
  BY <1>2, <1>6 DEF Clears
<1> QED
  BY <1>3, <1>4, <1>5, <1>6, DigestsChange

(* A digest that is loose was loose, or was just made.                     *)
LEMMA LooseStep ==
  ASSUME Inv, NEW r \in Log, Acts(r), DigestHand(r), NEW u, NEW d \in Id, Loose(d, u)'
  PROVE  \/ Loose(d, u)
         \/ /\ At(r, "CreateDigestSettings", "insert") /\ Joins(r, d)
            /\ u = A(r).user /\ A(r).chat = NoId
<1>1. /\ Log' = Log /\ req[r].out = "pending"
      /\ \A s \in Log : A(s)' = A(s) /\ (s # r => req'[s] = req[s])
  BY ActsEffect DEF A
<1>2. ASSUME NEW w \in Log, WritesBack(w, u)', req'[w].out = "pending",
             req'[w].pc \in {"time", "write"}, req'[w].item = d
      PROVE  Loose(d, u)
  <2>1. WritesBack(w, u)
    BY <1>1, <1>2 DEF WritesBack
  <2>2. CASE w # r
    BY <1>1, <1>2, <2>1, <2>2 DEF Loose
  <2>3. CASE w = r
    <3>1. UpdateDid(r)
      BY <2>1, <2>3, UpdateDigest DEF WritesBack
    <3>2. CASE Finds(r, "time")
      <4>1. d \in DigestsOf(A(r).user, A(r).chat)
        BY <1>2, <2>3, <3>2 DEF Finds
      <4> QED
        BY <2>1, <2>3, <4>1 DEF DigestsOf, Loose, WritesBack
    <3>3. CASE req[r].pc = "time" /\ req'[r].item = req[r].item
      BY <1>1, <1>2, <2>1, <2>3, <3>3 DEF Loose
    <3>4. req'[r].pc \in {"time", "write"} => Finds(r, "time")
            \/ (req[r].pc = "time" /\ req'[r].item = req[r].item)
      BY <1>2, <2>1, <2>3, <3>1 DEF UpdateDid, Rest, Rewrites, Telling, Goes, WritesBack
    <3> QED
      BY <1>2, <2>3, <3>2, <3>3, <3>4
  <2> QED
    BY <2>2, <2>3
<1>3. ASSUME db'["digests"][d].st = "live", db'["digests"][d].user = u,
             db'["digests"][d].chat = NoId, ~ Loose(d, u)
      PROVE  /\ At(r, "CreateDigestSettings", "insert") /\ Joins(r, d)
             /\ u = A(r).user /\ A(r).chat = NoId
  <2>1. db'["digests"][d] # db["digests"][d]
    BY <1>3 DEF Loose, Live
  <2>2. ASSUME NEW i \in Id, Joins(r, i)
        PROVE  Joins(r, d) /\ u = A(r).user /\ A(r).chat = NoId
    BY <1>3, <2>1, <2>2 DEF Joins
  <2>3. CASE At(r, "UpdateDigestSettings", "write") /\ Rewrites(r, req[r].item)
    <3>1. d = req[r].item /\ d \in Live("digests")
      BY <2>1, <2>3 DEF Rewrites
    <3>2. db'["digests"][d].user = db["digests"][d].user /\ db'["digests"][d].chat = req[r].copy.chat
      BY <2>3, <3>1 DEF Rewrites
    <3>3. Wanted(r) = NoId /\ A(r).user = u
      BY <1>1, <1>3, <2>3, <3>1, <3>2 DEF DigestHand, Writer, DigestOps, At
    <3>4. WritesBack(r, u)
      BY <2>3, <3>3 DEF WritesBack, Wanted, At
    <3> QED
      BY <1>1, <1>3, <2>3, <3>1, <3>4 DEF Loose, At
  <2>4. ~ Clears(r)
    BY <1>3, <2>1 DEF Clears
  <2> QED
    BY <2>1, <2>2, <2>3, <2>4, DigestsChange DEF DigestsKept
<1> QED
  BY <1>1, <1>2, <1>3 DEF Loose, Live

(* A digest held by an update is there.                                      *)
LEMMA LooseThere ==
  ASSUME NEW d \in Id, NEW u, Loose(d, u), \A s \in Log : DigestHand(s)
  PROVE  db["digests"][d].st # "none"
<1>1. ASSUME NEW w \in Log, WritesBack(w, u), req[w].out = "pending",
             req[w].pc \in {"time", "write"}, req[w].item = d
      PROVE  db["digests"][d].st # "none"
  BY <1>1 DEF DigestHand, Writer, DigestOps, WritesBack
<1> QED
  BY <1>1 DEF Loose, Live

(* What excuses two digests goes on to excuse them.                          *)
LEMMA ExcusedFixed ==
  ASSUME Inv, NEW r \in Log, Acts(r), NEW u, NEW p \in Log \cup {0}, NEW q \in Log \cup {0}
  PROVE  Excused(u, p, q)' <=> Excused(u, p, q)
<1>1. Log' = Log /\ \A s \in Log : A(s)' = A(s)
  BY ActsEffect DEF A
<1>2. \A a, b \in Log \cup {0} : Overlapped(a, b)' <=> Overlapped(a, b)
  BY BeforeFixed DEF Overlapped
<1> QED
  BY <1>1, <1>2 DEF Excused, WritesBack

(* The excuse does not tell the two apart.                                   *)
LEMMA ExcusedEither ==
  ASSUME NEW u, NEW p, NEW q
  PROVE  Excused(u, p, q) <=> Excused(u, q, p)
BY DEF Excused, Overlapped

(* Two requests in flight run beside each other.                           *)
LEMMA BothInFlight ==
  ASSUME Inv, NEW p \in Log, NEW q \in Log, req[p].out = "pending", req[q].out = "pending"
  PROVE  Overlapped(p, q)
BY InLog DEF Overlapped, Before, Inv

(* LooseOK is kept.                                                          *)
LEMMA LooseActs ==
  ASSUME Inv, NEW r \in Log, Acts(r), DigestInv
  PROVE  LooseOK'
<1> SUFFICES ASSUME NEW u \in AnyId, NEW c \in Id, NEW d \in Id, c # d, Loose(c, u)', Loose(d, u)'
             PROVE  Excused(u, db["digests"][c].by, db["digests"][d].by)'
  BY DEF LooseOK
<1>1. PICK p, q : p = db'["digests"][c].by /\ q = db'["digests"][d].by
  OBVIOUS
<1>2. Base' /\ Log' = Log /\ "digests" \in Table /\ DigestHand(r)
  BY ActsEffect, MovedInv DEF Inv, Table, DigestInv
<1>3. p \in Log \cup {0} /\ q \in Log \cup {0}
  BY <1>1, <1>2 DEF Base, Log
<1>4. ASSUME NEW i \in Id, Loose(i, u)
      PROVE  db'["digests"][i].by = db["digests"][i].by
  BY <1>4, LooseThere, DigestRow DEF DigestInv
<1>5. Loose(c, u) /\ Loose(d, u) => Excused(u, p, q)
  BY <1>1, <1>4 DEF DigestInv, LooseOK
<1>6. ASSUME NEW i \in Id, NEW j \in Id, i # j, Loose(i, u), At(r, "CreateDigestSettings", "insert"),
             Joins(r, j), u = A(r).user, A(r).chat = NoId
      PROVE  Excused(u, db'["digests"][i].by, db'["digests"][j].by)
  BY <1>4, <1>6 DEF DigestInv, LooseMade, Joins
<1>7. ~ (Joins(r, c) /\ Joins(r, d))
  BY DEF Joins
<1>8. Excused(u, p, q) \/ Excused(u, q, p)
  BY <1>1, <1>2, <1>5, <1>6, <1>7, LooseStep
<1>9. Excused(u, p, q)
  BY <1>8, ExcusedEither
<1> QED
  BY <1>1, <1>3, <1>9, ExcusedFixed

(* LooseMade is kept.                                                        *)
LEMMA MadeActs ==
  ASSUME Inv, NEW r \in Log, Acts(r), DigestInv, NEW s \in Log
  PROVE  LooseMade(s)'
<1>1. /\ Log' = Log /\ req[r].out = "pending" /\ A(s)' = A(s) /\ (s # r => req'[s] = req[s])
      /\ Base' /\ "digests" \in Table /\ DigestHand(r)
  BY ActsEffect, MovedInv DEF A, Inv, Table, DigestInv
<1> SUFFICES ASSUME At(s, "CreateDigestSettings", "insert")', A(s).chat = NoId,
                    NEW d \in Id, Loose(d, A(s).user)'
             PROVE  Excused(A(s).user, db["digests"][d].by, s)'
  BY <1>1 DEF LooseMade
<1>2. PICK u, p : u = A(s).user /\ p = db'["digests"][d].by
  OBVIOUS
<1>3. p \in Log \cup {0}
  BY <1>1, <1>2 DEF Base, Log
<1>4. Loose(d, u) => p = db["digests"][d].by
  BY <1>2, LooseThere, DigestRow DEF DigestInv
<1>5. Loose(d, u)'
  BY <1>1, <1>2
<1>6. Loose(d, u) \/ (At(r, "CreateDigestSettings", "insert") /\ Joins(r, d))
  BY <1>1, <1>5, LooseStep
<1>7. ASSUME s # r
      PROVE  Excused(u, p, s)
  <2>1. At(s, "CreateDigestSettings", "insert") /\ req[s].out = "pending"
    BY <1>1, <1>7 DEF At
  <2>2. Overlapped(r, s)
    BY <1>1, <2>1, BothInFlight
  <2>3. Loose(d, u) => Excused(u, p, s)
    BY <1>2, <1>4, <2>1 DEF DigestInv, LooseMade
  <2>4. Joins(r, d) => Excused(u, p, s)
    BY <1>2, <2>2 DEF Joins, Excused
  <2> QED
    BY <1>6, <2>3, <2>4
<1>8. ASSUME s = r
      PROVE  Excused(u, p, s)
  <2>1. CreateDid(r) /\ req'[r].pc = "insert" /\ req'[r].out = "pending"
        /\ A(r).op = "CreateDigestSettings"
    BY <1>1, <1>8, CreateDigest DEF At
  <2>2. DigestsOf(A(r).user, A(r).chat) = {} /\ req[r].pc = "time"
    BY <2>1 DEF CreateDid, Rest, Joins, Telling, Goes
  <2>3. Loose(d, u)
    BY <1>6, <2>2 DEF At
  <2>4. ~ (d \in Live("digests") /\ db["digests"][d].user = u /\ db["digests"][d].chat = NoId)
    BY <1>2, <1>8, <2>2 DEF DigestsOf
  <2>5. PICK w \in Log : WritesBack(w, u) /\ req[w].out = "pending"
    BY <2>3, <2>4 DEF Loose
  <2>6. Overlapped(w, s)
    BY <1>1, <1>8, <2>5, BothInFlight
  <2> QED
    BY <2>5, <2>6 DEF Excused
<1>9. Excused(u, p, s)'
  BY <1>3, <1>7, <1>8, ExcusedFixed
<1> QED
  BY <1>1, <1>2, <1>9

(* Every statement keeps DigestInv.                                          *)
LEMMA DigestActs ==
  ASSUME Inv, DigestInv, NEW r \in Log, Acts(r)
  PROVE  DigestInv'
<1>1. Log' = Log
  BY ActsEffect
<1>2. OnePerChat' /\ LooseOK'
  BY OnePerChatActs, LooseActs DEF DigestInv
<1>3. \A s \in Log : DigestHand(s)' /\ LooseMade(s)'
  BY DigestHandActs, MadeActs DEF DigestInv
<1>4. \A d \in Id : DigestMaker(d)'
  BY MakerActs DEF DigestInv
<1> QED
  BY <1>1, <1>2, <1>3, <1>4 DEF DigestInv

(* So does the arrival of a request.                                         *)
LEMMA DigestArrive ==
  ASSUME Inv, DigestInv, NEW a \in Sc.asks, Arrive(a)
  PROVE  DigestInv'
<1>1. Base
  BY DEF Inv
<1>2. PICK n : n = Len(req) + 1
  OBVIOUS
<1>3. /\ Log' = Log \cup {n} /\ n \notin Log /\ \A s \in Log : req'[s] = req[s]
      /\ db' = db
  BY <1>2, ArriveEffect
<1>4. req'[n].out = "validation" \/ (req'[n].out = "pending" /\ req'[n].pc = "start")
  BY <1>1, <1>2, ArriveLog
<1>5. \A p \in Log \cup {0} : \A s : Before(p, s)' <=> Before(p, s)
  BY BeforeArrived
<1>6. \A s \in Log : A(s)' = A(s)
  BY <1>3 DEF A
<1>7. \A u, d : Loose(d, u)' => Loose(d, u)
  BY <1>3, <1>4, <1>6 DEF Loose, Live, WritesBack
<1>8. ASSUME NEW u, NEW p \in Log \cup {0}, NEW q \in Log \cup {0}, Excused(u, p, q)
      PROVE  Excused(u, p, q)'
  BY <1>3, <1>5, <1>6, <1>8 DEF Excused, WritesBack, Overlapped
<1>9. \A d \in Id : db["digests"][d].by \in Log \cup {0}
  BY <1>1 DEF Base, Table, Log
<1>10. LooseOK'
  BY <1>3, <1>7, <1>8, <1>9 DEF DigestInv, LooseOK
<1>11. OnePerChat'
  BY <1>3 DEF DigestInv, OnePerChat, Live
<1>12. \A d \in Id : DigestMaker(d)'
  BY <1>3, <1>6 DEF DigestInv, DigestMaker
<1>13. ASSUME NEW s \in Log
       PROVE  DigestHand(s)' /\ LooseMade(s)'
  <2>1. DigestHand(s)'
    BY <1>3, <1>6 DEF DigestInv, DigestHand, Writer, Wanted
  <2>2. LooseMade(s)'
    BY <1>3, <1>6, <1>7, <1>8, <1>9 DEF DigestInv, LooseMade, At
  <2> QED
    BY <2>1, <2>2
<1>14. DigestHand(n)' /\ LooseMade(n)'
  BY <1>4 DEF DigestHand, LooseMade, At
<1> QED
  BY <1>3, <1>10, <1>11, <1>12, <1>13, <1>14 DEF DigestInv

(* The tables begin with one digest of a user and a chat.                    *)
LEMMA DigestInit ==
  ASSUME Init
  PROVE  DigestInv
<1>1. Log = {} /\ Fresh(db)
  BY ApiAssumption DEF Init, Log
<1>2. OnePerChat
  BY <1>1 DEF Fresh, OnePerChat, Live
<1>3. LooseOK
  <2> SUFFICES ASSUME NEW u \in AnyId, NEW c \in Id, NEW d \in Id, c # d, Loose(c, u), Loose(d, u)
               PROVE  FALSE
    BY DEF LooseOK
  <2>1. /\ db["digests"][c].st = "live" /\ db["digests"][d].st = "live"
        /\ db["digests"][c].user = db["digests"][d].user
        /\ db["digests"][c].chat = db["digests"][d].chat
    BY <1>1 DEF Loose, Live
  <2> QED
    BY <1>1, <2>1 DEF Fresh
<1>4. \A d \in Id : DigestMaker(d)
  BY <1>1 DEF Fresh, DigestMaker, Table
<1> QED
  BY <1>1, <1>2, <1>3, <1>4 DEF DigestInv

(* A step that changes nothing keeps it.                                     *)
LEMMA DigestStill ==
  ASSUME DigestInv, UNCHANGED vars
  PROVE  DigestInv'
<1>1. db' = db /\ req' = req /\ Log' = Log
  BY DEF vars, Log
<1>2. \A u, d : Loose(d, u)' <=> Loose(d, u)
  BY <1>1 DEF Loose, Live, WritesBack, A
<1>3. \A u, p, q : Excused(u, p, q)' <=> Excused(u, p, q)
  BY <1>1 DEF Excused, Overlapped, Before, WritesBack, A
<1>4. LooseOK' /\ OnePerChat'
  BY <1>1, <1>2, <1>3 DEF DigestInv, LooseOK, OnePerChat, Live
<1>5. \A s \in Log : DigestHand(s)' /\ LooseMade(s)'
  BY <1>1, <1>2, <1>3 DEF DigestInv, DigestHand, LooseMade, Writer, Wanted, At, A
<1>6. \A d \in Id : DigestMaker(d)'
  BY <1>1 DEF DigestInv, DigestMaker, A
<1> QED
  BY <1>1, <1>4, <1>5, <1>6 DEF DigestInv

(* DigestInv holds in every state.                                           *)
LEMMA DigestInvCorrect == Spec => []DigestInv
<1>1. Init => DigestInv
  BY DigestInit
<1>2. Inv /\ DigestInv /\ [Next]_vars => DigestInv'
  BY NextActs, DigestActs, DigestArrive, DigestStill
<1> QED
  BY <1>1, <1>2, InvCorrect, PTL DEF Spec

(* A user has two digests for one chat only for no chat in particular, and *)
(* only by requests that ran beside each other.                            *)
THEOREM OneDigestPerChatCorrect == Spec => []OneDigestPerChat
<1>1. Inv /\ DigestInv => OneDigestPerChat
  <2> SUFFICES ASSUME Inv, DigestInv, NEW c \in Live("digests"), NEW d \in Live("digests"), c # d,
                      db["digests"][c].user = db["digests"][d].user,
                      db["digests"][c].chat = db["digests"][d].chat
               PROVE  LET x == db["digests"][c]  y == db["digests"][d]
                      IN  /\ x.chat = NoId
                          /\ \/ Overlapped(x.by, y.by)
                             \/ \E p \in Log : /\ WritesBack(p, x.user)
                                               /\ Overlapped(p, x.by) \/ Overlapped(p, y.by)
    BY DEF OneDigestPerChat
  <2>1. PICK u : u = db["digests"][c].user
    OBVIOUS
  <2>2. c \in Id /\ d \in Id /\ db["digests"][c].chat = NoId
    BY DEF DigestInv, OnePerChat, Live
  <2>3. u \in AnyId
    BY <2>1, <2>2 DEF Inv, Base, ApiTypeOK, Table, Row
  <2>4. Loose(c, u) /\ Loose(d, u)
    BY <2>1, <2>2 DEF Loose
  <2>5. Excused(u, db["digests"][c].by, db["digests"][d].by)
    BY <2>2, <2>3, <2>4 DEF DigestInv, LooseOK
  <2> QED
    BY <2>1, <2>2, <2>5 DEF Excused
<1> QED
  BY <1>1, InvCorrect, DigestInvCorrect, PTL
-----------------------------------------------------------------------------
(* What the worker has of the digests while the requests come one after    *)
(* the other and none of them fails.                                       *)
Orderly ==
  /\ \A r \in DigestWriters : req[r].hit = "no"
  /\ \A p, r \in DigestWriters : p < r => Before(p, r)

(* The request w has written this and not told it yet.                     *)
Untold(w, user, chat) ==
  /\ w \in DigestWriters /\ req[w].out = "pending" /\ req[w].pc = "publish"
  /\ user = A(w).user /\ chat = Wanted(w)

Single ==
  \A c, d \in Live("digests") :
    /\ db["digests"][c].user = db["digests"][d].user
    /\ db["digests"][c].chat = db["digests"][d].chat
    => c = d

DigestKnown(d) ==
  LET row == db["digests"][d]
  IN  d \in Live("digests") =>
        \/ told[<<row.user, row.chat>>] = row.mark
        \/ Untold(row.mark, row.user, row.chat)

LeftBehind(chat) ==
  \E r \in DigestWriters : A(r).op = "UpdateDigestSettings" /\ A(r).chat = chat

(* A message is about a digest, a chat a digest left, or a digest that is  *)
(* being deleted.                                                          *)
MessageKnown(k) ==
  told[k] # NotTold =>
    \/ DigestsOf(k[1], k[2]) # {}
    \/ LeftBehind(k[2])
    \/ \E r \in DigestWriters : A(r).op = "DeleteDigestSettings" /\ Untold(r, k[1], k[2])

(* What the request in flight relies on.                                   *)
TellerOK(r) ==
  req[r].out = "pending" =>
    /\ A(r).op = "UpdateDigestSettings" /\ req[r].pc \in {"time", "write"} =>
         /\ req[r].item \in Live("digests")
         /\ db["digests"][req[r].item].chat = A(r).chat
    /\ A(r).op = "CreateDigestSettings" /\ req[r].pc = "insert" =>
         DigestsOf(A(r).user, A(r).chat) = {}
    /\ req[r].pc = "publish" =>
         /\ A(r).op = "DeleteDigestSettings" <=> DigestsOf(A(r).user, Wanted(r)) = {}
         /\ \A d \in DigestsOf(A(r).user, Wanted(r)) : db["digests"][d].mark = r

CreatorOK(r) ==
  A(r).op = "CreateDigestSettings" /\ req[r].out = "pending" /\ req[r].pc # "start" =>
    A(r).user \in Id

DigestUser(d) == d \in Live("digests") => db["digests"][d].user \in Id

Messages == (Id \X AnyId)

ToldOK ==
  /\ Single
  /\ \A d \in Id : DigestKnown(d)
  /\ \A k \in Messages : MessageKnown(k)
  /\ \A r \in DigestWriters : TellerOK(r)

ToldInv ==
  /\ \A r \in Log : CreatorOK(r)
  /\ \A d \in Id : DigestUser(d)
  /\ Orderly => ToldOK

(* The writers of digests are requests of the log.                           *)
LEMMA WriterLog ==
  ASSUME NEW r
  PROVE  r \in DigestWriters <=> r \in Log /\ Writer(r)
BY DEF DigestWriters, Writer, DigestOps

(* In good order one request about digests is in flight at most.           *)
LEMMA OneWriter ==
  ASSUME Inv, Orderly, NEW r \in DigestWriters, NEW s \in DigestWriters,
         req[r].out = "pending", req[s].out = "pending"
  PROVE  r = s
<1>1. r \in Log /\ s \in Log /\ r \in Nat \ {0} /\ s \in Nat \ {0}
  BY InLog DEF Inv, DigestWriters
<1>2. ~ (r < s) /\ ~ (s < r)
  BY <1>1 DEF Orderly, Before
<1> QED
  BY <1>1, <1>2

(* What does not change about the digests of a user and a chat.            *)
LEMMA DigestsSame ==
  ASSUME DigestsKept
  PROVE  /\ Live("digests")' = Live("digests")
         /\ \A d \in Live("digests") : db'["digests"][d] = db["digests"][d]
         /\ \A u, c : DigestsOf(u, c)' = DigestsOf(u, c)
BY DEF DigestsKept, Live, DigestsOf

(* A writer that no fault has hit was not hit before.                        *)
LEMMA WriterHit ==
  ASSUME Inv, NEW r \in Log, Acts(r), Writer(r), req'[r].hit = "no"
  PROVE  req[r].hit = "no"
<1>1. CASE A(r).op = "CreateDigestSettings"
  BY <1>1, CreateDigest DEF CreateDid, Rest, Joins, Telling, Goes, Kept
<1>2. CASE A(r).op = "UpdateDigestSettings"
  BY <1>2, UpdateDigest DEF UpdateDid, Rest, Finds, Rewrites, Telling, Goes, Kept
<1>3. CASE A(r).op = "DeleteDigestSettings"
  BY <1>3, DeleteDigest DEF DeleteDid, Rest, Finds, Clears, Telling, Goes, Kept
<1> QED
  BY <1>1, <1>2, <1>3 DEF Writer, DigestOps

(* A statement leaves the writers and their requests as they are.            *)
LEMMA WritersActs ==
  ASSUME Inv, NEW r \in Log, Acts(r)
  PROVE  /\ DigestWriters' = DigestWriters
         /\ \A s \in Log : A(s)' = A(s) /\ Wanted(s)' = Wanted(s)
         /\ \A c : LeftBehind(c)' <=> LeftBehind(c)
         /\ Orderly' => Orderly
<1>1. Log' = Log /\ \A s \in Log : A(s)' = A(s) /\ (s # r => req'[s] = req[s])
  BY ActsEffect DEF A
<1>2. DigestWriters' = DigestWriters
  BY <1>1 DEF DigestWriters
<1>3. \A s \in Log : Wanted(s)' = Wanted(s)
  BY <1>1 DEF Wanted
<1>4. DigestWriters \subseteq Log
  BY DEF DigestWriters
<1>5. \A c : LeftBehind(c)' <=> LeftBehind(c)
  BY <1>1, <1>2, <1>4 DEF LeftBehind
<1>6. ASSUME Orderly'
      PROVE  Orderly
  <2>1. \A s \in DigestWriters : req[s].hit = "no"
    BY <1>1, <1>2, <1>4, <1>6, WriterHit, WriterLog DEF Orderly
  <2>2. \A p, q \in DigestWriters : p < q => Before(p, q)
    BY <1>2, <1>4, <1>6, BeforeFixed DEF Orderly
  <2> QED
    BY <2>1, <2>2 DEF Orderly
<1> QED
  BY <1>1, <1>2, <1>3, <1>5, <1>6

(* A request that is not at its message has nothing left to tell.          *)
LEMMA NothingUntold ==
  ASSUME Inv, Orderly, NEW r \in DigestWriters, req[r].out = "pending", NEW u, NEW c, NEW w,
         Untold(w, u, c)
  PROVE  w = r /\ req[r].pc = "publish" /\ u = A(r).user /\ c = Wanted(r)
<1>1. w = r
  BY OneWriter DEF Untold
<1> QED
  BY <1>1 DEF Untold

(* Someone else moves on.                                                  *)
LEMMA ToldAside ==
  ASSUME Inv, NEW r \in Log, Acts(r), ~ Writer(r), ToldOK
  PROVE  ToldOK'
<1>1. DigestsKept /\ told' = told
  BY OthersKeep
<1>2. /\ DigestWriters' = DigestWriters /\ \A c : LeftBehind(c)' <=> LeftBehind(c)
      /\ \A s \in Log : A(s)' = A(s) /\ Wanted(s)' = Wanted(s)
  BY WritersActs
<1>3. \A s \in DigestWriters : s \in Log /\ req'[s] = req[s]
  BY WriterLog, ActsEffect
<1>4. /\ Live("digests")' = Live("digests")
      /\ \A d \in Live("digests") : db'["digests"][d] = db["digests"][d]
      /\ \A u, c : DigestsOf(u, c)' = DigestsOf(u, c)
  BY <1>1, DigestsSame
<1>5. \A w, u, c : Untold(w, u, c)' <=> Untold(w, u, c)
  BY <1>2, <1>3 DEF Untold
<1>6. Single'
  BY <1>4 DEF ToldOK, Single
<1>7. \A d \in Id : DigestKnown(d)'
  BY <1>1, <1>4, <1>5 DEF ToldOK, DigestKnown
<1>8. \A k \in Messages : MessageKnown(k)'
  BY <1>1, <1>2, <1>3, <1>4, <1>5 DEF ToldOK, MessageKnown
<1>9. \A s \in DigestWriters : TellerOK(s)'
  <2> SUFFICES ASSUME NEW s \in DigestWriters PROVE TellerOK(s)'
    OBVIOUS
  <2>1. \A d \in DigestsOf(A(s).user, Wanted(s)) : db'["digests"][d] = db["digests"][d]
    BY <1>4 DEF DigestsOf
  <2>2. TellerOK(s)
    BY DEF ToldOK
  <2> QED
    BY <1>2, <1>3, <1>4, <2>1, <2>2 DEF TellerOK
<1> QED
  BY <1>2, <1>6, <1>7, <1>8, <1>9 DEF ToldOK, Messages

(* What remains to be shown for the request that moves on.                 *)
LEMMA ToldOwn ==
  ASSUME Inv, NEW r \in Log, Acts(r), Writer(r), Orderly,
         TellerOK(r)', Single', \A d \in Id : DigestKnown(d)', \A k \in Messages : MessageKnown(k)'
  PROVE  ToldOK'
<1>1. DigestWriters' = DigestWriters /\ r \in DigestWriters /\ req[r].out = "pending"
  BY WritersActs, WriterLog, ActsEffect
<1>2. ASSUME NEW s \in DigestWriters, s # r
      PROVE  req'[s].out # "pending"
  BY <1>1, <1>2, WriterLog, ActsEffect, OneWriter
<1>3. \A s \in DigestWriters : TellerOK(s)'
  BY <1>2 DEF TellerOK
<1> QED
  BY <1>1, <1>3 DEF ToldOK, Messages

(* Nothing that was told or is to be told changes.                         *)
LEMMA ToldQuiet ==
  ASSUME Inv, NEW r \in Log, Acts(r), Writer(r), Orderly, ToldOK, DigestsKept, told' = told,
         req[r].pc # "publish", req'[r].out = "pending" => req'[r].pc # "publish"
  PROVE  Single' /\ (\A d \in Id : DigestKnown(d)') /\ \A k \in Messages : MessageKnown(k)'
<1>1. DigestWriters' = DigestWriters /\ r \in DigestWriters /\ req[r].out = "pending"
      /\ \A c : LeftBehind(c)' <=> LeftBehind(c)
  BY WritersActs, WriterLog, ActsEffect
<1>2. \A w, u, c : ~ Untold(w, u, c)
  BY <1>1, NothingUntold
<1>3. /\ Live("digests")' = Live("digests")
      /\ \A d \in Live("digests") : db'["digests"][d] = db["digests"][d]
      /\ \A u, c : DigestsOf(u, c)' = DigestsOf(u, c)
  BY DigestsSame
<1>4. Single'
  BY <1>3 DEF ToldOK, Single
<1>5. \A d \in Id : DigestKnown(d)'
  BY <1>2, <1>3 DEF ToldOK, DigestKnown
<1>6. \A k \in Messages : MessageKnown(k)'
  BY <1>1, <1>2, <1>3 DEF ToldOK, MessageKnown
<1> QED
  BY <1>4, <1>5, <1>6

(* A statement of a writer that leaves digests and messages keeps ToldOK.    *)
LEMMA ToldRest ==
  ASSUME Inv, NEW r \in Log, Acts(r), Writer(r), Orderly, ToldOK, Rest(r), req'[r].hit = "no"
  PROVE  ToldOK'
<1>1. A(r)' = A(r)
  BY WritersActs
<1>2. TellerOK(r)'
  BY <1>1 DEF Rest, TellerOK
<1>3. Single' /\ (\A d \in Id : DigestKnown(d)') /\ \A k \in Messages : MessageKnown(k)'
  BY ToldQuiet DEF Rest
<1> QED
  BY <1>2, <1>3, ToldOwn

(* The message: the worker has what the digests say.                       *)
LEMMA ToldTelling ==
  ASSUME Inv, NEW r \in Log, Acts(r), Writer(r), Orderly, ToldOK, NEW u, NEW c, NEW m,
         Telling(r, u, c, m), u = A(r).user, c = Wanted(r),
         \A d \in Id : DigestUser(d),
         m = IF A(r).op = "DeleteDigestSettings" THEN NotTold ELSE r
  PROVE  ToldOK'
<1>1. /\ DigestWriters' = DigestWriters /\ r \in DigestWriters /\ req[r].out = "pending"
      /\ \A k \in Log : A(k)' = A(k) /\ \A j : LeftBehind(j)' <=> LeftBehind(j)
  BY WritersActs, WriterLog, ActsEffect
<1>2. /\ Live("digests")' = Live("digests")
      /\ \A d \in Live("digests") : db'["digests"][d] = db["digests"][d]
      /\ \A v, j : DigestsOf(v, j)' = DigestsOf(v, j)
  BY DigestsSame DEF Telling
<1>3. told \in [Messages -> Nat \cup {NotTold}] /\ db \in [Table -> [Id -> Row]] /\ "digests" \in Table
  BY DEF Inv, Base, ApiTypeOK, Messages, Table
<1>4. \A k \in Messages : told'[k] = IF k = <<u, c>> THEN m ELSE told[k]
  BY <1>3 DEF Telling
<1>5. /\ (A(r).op = "DeleteDigestSettings") <=> (DigestsOf(u, c) = {})
      /\ \A d \in DigestsOf(u, c) : db["digests"][d].mark = r
  BY <1>1 DEF ToldOK, TellerOK, Telling
<1>6. TellerOK(r)'
  BY <1>1 DEF TellerOK, Telling, Goes
<1>7. Single'
  BY <1>2 DEF ToldOK, Single
<1>8. ASSUME NEW w, NEW v, NEW j, Untold(w, v, j)
      PROVE  w = r /\ v = u /\ j = c
  BY <1>1, <1>8, NothingUntold
<1>9. ASSUME NEW d \in Live("digests")
      PROVE  told'[<<db["digests"][d].user, db["digests"][d].chat>>] = db["digests"][d].mark
  <2>1. PICK v, j : v = db["digests"][d].user /\ j = db["digests"][d].chat
    OBVIOUS
  <2>2. d \in Id /\ v \in Id /\ j \in AnyId
    BY <1>3, <1>9, <2>1 DEF Live, DigestUser, Row
  <2>3. PICK k \in Messages : k = <<v, j>>
    BY <2>2 DEF Messages
  <2>4. CASE v = u /\ j = c
    <3>1. d \in DigestsOf(u, c)
      BY <1>9, <2>1, <2>4 DEF DigestsOf
    <3> QED
      BY <1>4, <1>5, <2>1, <2>3, <2>4, <3>1
  <2>5. CASE ~ (v = u /\ j = c)
    <3>1. told[<<v, j>>] = db["digests"][d].mark
      BY <1>8, <1>9, <2>1, <2>2, <2>5 DEF ToldOK, DigestKnown
    <3>2. k # <<u, c>>
      BY <2>3, <2>5
    <3> QED
      BY <1>4, <2>1, <2>3, <3>1, <3>2
  <2> QED
    BY <2>4, <2>5
<1>10. \A d \in Id : DigestKnown(d)'
  BY <1>2, <1>9 DEF DigestKnown
<1>11. ASSUME NEW k \in Messages
       PROVE  MessageKnown(k)'
  <2>1. PICK v \in Id, j \in AnyId : k = <<v, j>>
    BY DEF Messages
  <2>2. k[1] = v /\ k[2] = j
    BY <2>1
  <2>3. CASE v = u /\ j = c
    <3>1. told'[k] = m
      BY <1>4, <2>1, <2>3
    <3> QED
      BY <1>2, <1>5, <2>2, <2>3, <3>1 DEF MessageKnown
  <2>4. CASE ~ (v = u /\ j = c)
    <3>1. told'[k] = told[k]
      BY <1>4, <2>1, <2>4
    <3>2. MessageKnown(k)
      BY DEF ToldOK
    <3>3. \A w : ~ Untold(w, v, j)
      BY <1>8, <2>4
    <3> QED
      BY <1>1, <1>2, <2>2, <3>1, <3>2, <3>3 DEF MessageKnown
  <2> QED
    BY <2>3, <2>4
<1> QED
  BY <1>6, <1>7, <1>10, <1>11, ToldOwn

(* A request is written and has its message to send: everything it did not *)
(* touch is as it was.                                                     *)
LEMMA ToldWrites ==
  ASSUME Inv, NEW r \in Log, Acts(r), Writer(r), Orderly, ToldOK, told' = told,
         req[r].pc # "publish", req'[r].pc = "publish", req'[r].out = "pending",
         NEW changed \in SUBSET Id,
         \A d \in Id \ changed : db'["digests"][d] = db["digests"][d],
         \A d \in changed : d \in Live("digests")' =>
            /\ db'["digests"][d].mark = r /\ db'["digests"][d].user = A(r).user
            /\ db'["digests"][d].chat = Wanted(r),
         \A d \in changed : d \in Live("digests") =>
            /\ db["digests"][d].user = A(r).user /\ db["digests"][d].chat = A(r).chat
            /\ A(r).op # "CreateDigestSettings",
         \A c, d \in Id : c \in changed /\ d \notin changed /\ d \in Live("digests") =>
            ~ (db["digests"][d].user = A(r).user /\ db["digests"][d].chat = Wanted(r)
               /\ c \in Live("digests")'),
         \A c, d \in changed : c \in Live("digests")' /\ d \in Live("digests")' => c = d,
         TellerOK(r)'
  PROVE  ToldOK'
<1>1. /\ DigestWriters' = DigestWriters /\ r \in DigestWriters /\ req[r].out = "pending"
      /\ \A k \in Log : A(k)' = A(k) /\ Wanted(k)' = Wanted(k)
      /\ \A j : LeftBehind(j)' <=> LeftBehind(j)
  BY WritersActs, WriterLog, ActsEffect
<1>2. \A w, u, c : ~ Untold(w, u, c)
  BY <1>1, NothingUntold
<1>3. \A u, c : u = A(r).user /\ c = Wanted(r) => Untold(r, u, c)'
  BY <1>1 DEF Untold
<1>4. ASSUME NEW d \in Id, d \notin changed
      PROVE  (d \in Live("digests")' <=> d \in Live("digests")) /\ db'["digests"][d] = db["digests"][d]
  BY <1>4 DEF Live
<1>5. Single'
  <2> SUFFICES ASSUME NEW c \in Id, NEW d \in Id, c \in Live("digests")', d \in Live("digests")',
                      db'["digests"][c].user = db'["digests"][d].user,
                      db'["digests"][c].chat = db'["digests"][d].chat, c # d
               PROVE  FALSE
    BY DEF Single, Live
  <2>1. CASE c \notin changed /\ d \notin changed
    BY <1>4, <2>1 DEF ToldOK, Single
  <2>2. CASE c \in changed /\ d \in changed
    BY <2>2
  <2>3. ASSUME NEW i \in changed, NEW j \in Id \ changed, i \in Live("digests")', j \in Live("digests")',
               db'["digests"][i].user = db'["digests"][j].user,
               db'["digests"][i].chat = db'["digests"][j].chat
        PROVE  FALSE
    <3>1. j \in Live("digests") /\ db'["digests"][j] = db["digests"][j]
      BY <1>4, <2>3
    <3>2. db["digests"][j].user = A(r).user /\ db["digests"][j].chat = Wanted(r)
      BY <2>3, <3>1
    <3> QED
      BY <2>3, <3>1, <3>2
  <2> QED
    BY <2>1, <2>2, <2>3
<1>6. ASSUME NEW d \in Id
      PROVE  DigestKnown(d)'
  <2>1. CASE d \in changed
    BY <1>3, <2>1 DEF DigestKnown
  <2>2. CASE d \notin changed
    BY <1>2, <1>4, <2>2 DEF ToldOK, DigestKnown
  <2> QED
    BY <2>1, <2>2
<1>7. ASSUME NEW k \in Messages
      PROVE  MessageKnown(k)'
  <2>1. PICK u \in Id, c \in AnyId : k = <<u, c>>
    BY DEF Messages
  <2>2. k[1] = u /\ k[2] = c
    BY <2>1
  <2> SUFFICES ASSUME told[k] # NotTold
               PROVE  \/ DigestsOf(u, c)' # {}
                      \/ LeftBehind(c)
                      \/ \E w \in DigestWriters : A(w).op = "DeleteDigestSettings" /\ Untold(w, u, c)'
    BY <1>1, <2>2, WriterLog DEF MessageKnown
  <2>3. DigestsOf(u, c) # {} \/ LeftBehind(c)
    BY <1>2, <2>2 DEF ToldOK, MessageKnown
  <2>4. CASE \E d \in DigestsOf(u, c) : d \notin changed
    <3>1. PICK d \in DigestsOf(u, c) : d \notin changed
      BY <2>4
    <3>2. d \in Id /\ d \in Live("digests")
      BY <3>1 DEF DigestsOf, Live
    <3>3. d \in DigestsOf(u, c)'
      BY <1>4, <3>1, <3>2 DEF DigestsOf
    <3> QED
      BY <3>3
  <2>5. CASE \E d \in DigestsOf(u, c) : d \in changed
    <3>1. PICK d \in DigestsOf(u, c) : d \in changed
      BY <2>5
    <3>2. u = A(r).user /\ c = A(r).chat /\ A(r).op # "CreateDigestSettings"
      BY <3>1 DEF DigestsOf
    <3>3. A(r).op = "UpdateDigestSettings" => LeftBehind(c)
      BY <1>1, <3>2 DEF LeftBehind
    <3>4. A(r).op = "DeleteDigestSettings" => Untold(r, u, c)'
      BY <1>3, <3>2 DEF Wanted
    <3> QED
      BY <1>1, <3>2, <3>3, <3>4 DEF Writer, DigestOps
  <2> QED
    BY <2>3, <2>4, <2>5
<1> QED
  BY <1>5, <1>6, <1>7, ToldOwn

(* A creation keeps ToldOK.                                                  *)
LEMMA ToldCreate ==
  ASSUME Inv, NEW r \in Log, Acts(r), A(r).op = "CreateDigestSettings", Orderly, ToldOK,
         \A d \in Id : DigestUser(d), req'[r].hit = "no"
  PROVE  ToldOK'
<1>1. /\ Writer(r) /\ r \in DigestWriters /\ req[r].out = "pending" /\ CreateDid(r)
      /\ A(r)' = A(r) /\ Wanted(r)' = Wanted(r) /\ Wanted(r) = A(r).chat
  BY WriterLog, ActsEffect, WritersActs, CreateDigest DEF Writer, DigestOps, Wanted
<1>2. CASE Rest(r)
  BY <1>1, <1>2, ToldRest
<1>3. CASE /\ req[r].pc = "time" /\ DigestsOf(A(r).user, A(r).chat) = {}
           /\ DigestsKept /\ told' = told /\ Goes(r, "insert")
  <2>1. TellerOK(r)'
    BY <1>1, <1>3, DigestsSame DEF TellerOK, Goes
  <2>2. Single' /\ (\A d \in Id : DigestKnown(d)') /\ \A k \in Messages : MessageKnown(k)'
    BY <1>1, <1>3, ToldQuiet DEF Goes
  <2> QED
    BY <1>1, <2>1, <2>2, ToldOwn
<1>4. ASSUME req[r].pc = "insert", NEW i \in Id, Joins(r, i)
      PROVE  ToldOK'
  <2>1. DigestsOf(A(r).user, A(r).chat) = {}
    BY <1>1, <1>4 DEF ToldOK, TellerOK
  <2>2. PICK changed \in SUBSET Id : changed = {i}
    OBVIOUS
  <2>3. /\ \A d \in Id \ changed : db'["digests"][d] = db["digests"][d]
        /\ i \notin Live("digests") /\ i \in Live("digests")'
        /\ told' = told /\ req'[r].pc = "publish" /\ req'[r].out = "pending"
        /\ db'["digests"][i].mark = r /\ db'["digests"][i].user = A(r).user
        /\ db'["digests"][i].chat = A(r).chat
    BY <1>4, <2>2 DEF Joins, Live
  <2>4. DigestsOf(A(r).user, A(r).chat)' = {i}
    BY <1>1, <2>1, <2>2, <2>3 DEF DigestsOf, Live
  <2>5. TellerOK(r)'
    BY <1>1, <2>3, <2>4 DEF TellerOK
  <2>6. \A d \in Id : d \in Live("digests") =>
          ~ (db["digests"][d].user = A(r).user /\ db["digests"][d].chat = Wanted(r))
    BY <1>1, <2>1 DEF DigestsOf
  <2>7. \A d \in changed : d = i
    BY <2>2
  <2> QED
    BY <1>1, <1>4, <2>3, <2>5, <2>6, <2>7, ToldWrites
<1>5. CASE Telling(r, A(r).user, A(r).chat, r)
  <2>1. PICK u, c, m : u = A(r).user /\ c = Wanted(r) /\ m = r
    OBVIOUS
  <2>2. Telling(r, u, c, m) /\ m = IF A(r).op = "DeleteDigestSettings" THEN NotTold ELSE r
    BY <1>1, <1>5, <2>1
  <2> QED
    BY <1>1, <2>1, <2>2, ToldTelling
<1> QED
  BY <1>1, <1>2, <1>3, <1>4, <1>5 DEF CreateDid

(* An update keeps ToldOK.                                                   *)
LEMMA ToldUpdate ==
  ASSUME Inv, NEW r \in Log, Acts(r), A(r).op = "UpdateDigestSettings", Orderly, ToldOK,
         DigestHand(r), \A d \in Id : DigestUser(d), req'[r].hit = "no"
  PROVE  ToldOK'
<1>1. /\ Writer(r) /\ r \in DigestWriters /\ req[r].out = "pending" /\ UpdateDid(r)
      /\ A(r)' = A(r) /\ Wanted(r)' = Wanted(r)
  BY WriterLog, ActsEffect, WritersActs, UpdateDigest DEF Writer, DigestOps
<1>2. CASE Rest(r)
  BY <1>1, <1>2, ToldRest
<1>3. ASSUME DigestsKept, told' = told, req[r].pc # "publish", req'[r].pc \in {"time", "write"},
             req'[r].item \in Live("digests"), db["digests"][req'[r].item].chat = A(r).chat
      PROVE  ToldOK'
  <2>1. TellerOK(r)'
    BY <1>1, <1>3, DigestsSame DEF TellerOK
  <2>2. Single' /\ (\A d \in Id : DigestKnown(d)') /\ \A k \in Messages : MessageKnown(k)'
    BY <1>1, <1>3, ToldQuiet
  <2> QED
    BY <1>1, <2>1, <2>2, ToldOwn
<1>4. CASE Finds(r, "time")
  <2>1. PICK d \in DigestsOf(A(r).user, A(r).chat) : req'[r].item = d
    BY <1>4 DEF Finds
  <2>2. d \in Live("digests") /\ db["digests"][d].chat = A(r).chat
    BY <2>1 DEF DigestsOf
  <2> QED
    BY <1>3, <1>4, <2>1, <2>2 DEF Finds
<1>5. CASE /\ req[r].pc = "time" /\ DigestsKept /\ told' = told
           /\ req'[r].pc = "write" /\ req'[r].out = "pending" /\ req'[r].item = req[r].item
  <2>1. req[r].item \in Live("digests") /\ db["digests"][req[r].item].chat = A(r).chat
    BY <1>1, <1>5 DEF ToldOK, TellerOK
  <2> QED
    BY <1>3, <1>5, <2>1
<1>6. CASE req[r].pc = "write" /\ Rewrites(r, req[r].item)
  <2>1. PICK e : e = req[r].item
    OBVIOUS
  <2>2. /\ e \in Live("digests") /\ e \in Id /\ db["digests"][e].chat = A(r).chat
        /\ db["digests"][e].user = A(r).user
        /\ req[r].copy.user = A(r).user /\ req[r].copy.chat = Wanted(r)
    BY <1>1, <1>6, <2>1 DEF ToldOK, TellerOK, DigestHand, Live
  <2>3. PICK changed \in SUBSET Id : changed = {e}
    BY <2>2
  <2>4. /\ \A d \in Id \ changed : db'["digests"][d] = db["digests"][d]
        /\ told' = told /\ req'[r].pc = "publish" /\ req'[r].out = "pending"
        /\ e \in Live("digests")' /\ db'["digests"][e].mark = r
        /\ db'["digests"][e].user = A(r).user /\ db'["digests"][e].chat = Wanted(r)
        /\ ~ DigestTaken(A(r).user, Wanted(r)) \/ DigestsOf(A(r).user, Wanted(r)) = {e}
    BY <1>6, <2>1, <2>2, <2>3 DEF Rewrites, Goes, Live
  <2>5. ASSUME NEW d \in Live("digests"), db["digests"][d].user = A(r).user,
               db["digests"][d].chat = Wanted(r)
        PROVE  d = e
    <3>1. d \in DigestsOf(A(r).user, Wanted(r))
      BY <2>5 DEF DigestsOf
    <3>2. CASE Wanted(r) = NoId
      <4>1. A(r).chat = NoId
        BY <1>1, <3>2 DEF Wanted
      <4> QED
        BY <2>2, <2>5, <3>2, <4>1 DEF ToldOK, Single
    <3>3. CASE Wanted(r) # NoId
      BY <2>4, <3>1, <3>3 DEF DigestTaken
    <3> QED
      BY <3>2, <3>3
  <2>6. DigestsOf(A(r).user, Wanted(r))' = {e}
    BY <1>1, <2>2, <2>3, <2>4, <2>5 DEF DigestsOf, Live
  <2>7. TellerOK(r)'
    BY <1>1, <2>4, <2>6 DEF TellerOK
  <2>8. \A d \in changed : d = e
    BY <2>3
  <2>9. \A d \in Id : d \notin changed /\ d \in Live("digests") =>
          ~ (db["digests"][d].user = A(r).user /\ db["digests"][d].chat = Wanted(r))
    BY <2>3, <2>5
  <2>10. \A d \in changed : d \in Live("digests")' =>
            /\ db'["digests"][d].mark = r /\ db'["digests"][d].user = A(r).user
            /\ db'["digests"][d].chat = Wanted(r)
    BY <2>4, <2>8
  <2>11. \A d \in changed : d \in Live("digests") =>
            /\ db["digests"][d].user = A(r).user /\ db["digests"][d].chat = A(r).chat
            /\ A(r).op # "CreateDigestSettings"
    BY <1>1, <2>2, <2>8
  <2>12. \A c, d \in Id : c \in changed /\ d \notin changed /\ d \in Live("digests") =>
            ~ (db["digests"][d].user = A(r).user /\ db["digests"][d].chat = Wanted(r)
               /\ c \in Live("digests")')
    BY <2>9
  <2>13. \A c, d \in changed : c \in Live("digests")' /\ d \in Live("digests")' => c = d
    BY <2>8
  <2>14. req[r].pc # "publish"
    BY <1>6
  <2> QED
    BY <1>1, <2>4, <2>7, <2>10, <2>11, <2>12, <2>13, <2>14, ToldWrites
<1>7. CASE Telling(r, req[r].copy.user, req[r].copy.chat, r)
  <2>1. PICK u, c, m : u = A(r).user /\ c = Wanted(r) /\ m = r
    OBVIOUS
  <2>2. req[r].copy.user = u /\ req[r].copy.chat = c
    BY <1>1, <1>7, <2>1 DEF DigestHand, Telling
  <2>3. Telling(r, u, c, m) /\ m = IF A(r).op = "DeleteDigestSettings" THEN NotTold ELSE r
    BY <1>1, <1>7, <2>1, <2>2
  <2> QED
    BY <1>1, <2>1, <2>3, ToldTelling
<1> QED
  BY <1>1, <1>2, <1>4, <1>5, <1>6, <1>7 DEF UpdateDid

(* A deletion keeps ToldOK.                                                  *)
LEMMA ToldDelete ==
  ASSUME Inv, NEW r \in Log, Acts(r), A(r).op = "DeleteDigestSettings", Orderly, ToldOK,
         DigestHand(r), \A d \in Id : DigestUser(d), req'[r].hit = "no"
  PROVE  ToldOK'
<1>1. /\ Writer(r) /\ r \in DigestWriters /\ req[r].out = "pending" /\ DeleteDid(r)
      /\ A(r)' = A(r) /\ Wanted(r)' = Wanted(r) /\ Wanted(r) = A(r).chat
  BY WriterLog, ActsEffect, WritersActs, DeleteDigest DEF Writer, DigestOps, Wanted
<1>2. CASE Rest(r)
  BY <1>1, <1>2, ToldRest
<1>3. CASE Finds(r, "delete")
  <2>1. TellerOK(r)'
    BY <1>1, <1>3 DEF TellerOK, Finds
  <2>2. Single' /\ (\A d \in Id : DigestKnown(d)') /\ \A k \in Messages : MessageKnown(k)'
    BY <1>1, <1>3, ToldQuiet DEF Finds
  <2> QED
    BY <1>1, <2>1, <2>2, ToldOwn
<1>4. CASE req[r].pc = "delete" /\ Clears(r)
  <2>1. PICK changed \in SUBSET Id : changed = DigestsOf(A(r).user, A(r).chat)
    BY DEF DigestsOf, Live
  <2>2. /\ told' = told /\ req'[r].pc = "publish" /\ req'[r].out = "pending"
        /\ \A d \in Id : d \in changed => db'["digests"][d].st = "gone"
        /\ \A d \in Id \ changed : db'["digests"][d] = db["digests"][d]
    BY <1>4, <2>1 DEF Clears, Goes
  <2>3. \A d \in changed : d \notin Live("digests")'
    BY <2>2 DEF Live
  <2>4. DigestsOf(A(r).user, A(r).chat)' = {}
    BY <1>1, <2>1, <2>2, <2>3 DEF DigestsOf, Live
  <2>5. TellerOK(r)'
    BY <1>1, <2>2, <2>4 DEF TellerOK
  <2>6. \A d \in changed : db["digests"][d].user = A(r).user /\ db["digests"][d].chat = A(r).chat
    BY <2>1 DEF DigestsOf
  <2> QED
    BY <1>1, <1>4, <2>2, <2>3, <2>5, <2>6, ToldWrites
<1>5. CASE Telling(r, req[r].copy.user, req[r].copy.chat, NotTold)
  <2>1. PICK u, c, m : u = A(r).user /\ c = Wanted(r) /\ m = NotTold
    OBVIOUS
  <2>2. req[r].copy.user = u /\ req[r].copy.chat = c
    BY <1>1, <1>5, <2>1 DEF DigestHand, Telling
  <2>3. Telling(r, u, c, m) /\ m = IF A(r).op = "DeleteDigestSettings" THEN NotTold ELSE r
    BY <1>1, <1>5, <2>1, <2>2
  <2> QED
    BY <1>1, <2>1, <2>3, ToldTelling
<1> QED
  BY <1>1, <1>2, <1>3, <1>4, <1>5 DEF DeleteDid

(* Whoever a digest is made for is there.                                  *)
LEMMA CreatorActs ==
  ASSUME Inv, NEW r \in Log, Acts(r), NEW s \in Log, CreatorOK(s)
  PROVE  CreatorOK(s)'
<1>1. A(s)' = A(s) /\ (s # r => req'[s] = req[s]) /\ req[r].out = "pending"
  BY WritersActs, ActsEffect
<1>2. CASE s # r \/ req[r].pc # "start"
  BY <1>1, <1>2 DEF CreatorOK
<1>3. CASE s = r /\ req[r].pc = "start"
  <2> SUFFICES ASSUME A(r).op = "CreateDigestSettings", req'[r].out = "pending", req'[r].pc # "start"
               PROVE  A(r).user \in Id
    BY <1>1, <1>3 DEF CreatorOK
  <2>1. A(r).op \in Makers \cup {"DeleteUser"} /\ Going(req'[r])
    BY DEF Makers, Going
  <2>2. Subject(r) \in Live("users")
    BY <1>3, <2>1, MakerStart
  <2> QED
    BY <2>2 DEF Subject, Live
<1> QED
  BY <1>2, <1>3

(* The user of a digest is one of the users.                                 *)
LEMMA DigestUserActs ==
  ASSUME Inv, NEW r \in Log, Acts(r), CreatorOK(r), NEW d \in Id, DigestUser(d)
  PROVE  DigestUser(d)'
<1>1. req[r].out = "pending"
  BY ActsEffect
<1>2. CASE DigestsKept
  BY <1>2 DEF DigestsKept, DigestUser, Live
<1>3. CASE At(r, "CreateDigestSettings", "insert") /\ \E i \in Id : Joins(r, i)
  BY <1>3 DEF Joins, CreatorOK, At, DigestUser, Live
<1>4. CASE Rewrites(r, req[r].item)
  BY <1>4 DEF Rewrites, DigestUser, Live
<1>5. CASE Clears(r)
  BY <1>5 DEF Clears, DigestUser, Live
<1> QED
  BY <1>2, <1>3, <1>4, <1>5, DigestsChange

(* Every statement keeps ToldInv.                                            *)
LEMMA ToldActs ==
  ASSUME Inv, DigestInv, ToldInv, NEW r \in Log, Acts(r)
  PROVE  ToldInv'
<1>1. Log' = Log /\ (Orderly' => Orderly) /\ DigestWriters' = DigestWriters
  BY ActsEffect, WritersActs
<1>2. \A s \in Log : CreatorOK(s)'
  BY CreatorActs DEF ToldInv
<1>3. \A d \in Id : DigestUser(d)'
  BY DigestUserActs DEF ToldInv
<1>4. ASSUME Orderly'
      PROVE  ToldOK'
  <2>1. Orderly /\ ToldOK /\ DigestHand(r) /\ \A d \in Id : DigestUser(d)
    BY <1>1, <1>4 DEF ToldInv, DigestInv
  <2>2. Writer(r) => req'[r].hit = "no"
    BY <1>1, <1>4, WriterLog DEF Orderly
  <2>3. CASE ~ Writer(r)
    BY <2>1, <2>3, ToldAside
  <2>4. CASE A(r).op = "CreateDigestSettings" /\ Writer(r)
    BY <2>1, <2>2, <2>4, ToldCreate
  <2>5. CASE A(r).op = "UpdateDigestSettings" /\ Writer(r)
    BY <2>1, <2>2, <2>5, ToldUpdate
  <2>6. CASE A(r).op = "DeleteDigestSettings" /\ Writer(r)
    BY <2>1, <2>2, <2>6, ToldDelete
  <2> QED
    BY <2>3, <2>4, <2>5, <2>6 DEF Writer, DigestOps
<1> QED
  BY <1>1, <1>2, <1>3, <1>4 DEF ToldInv

(* So does the arrival of a request.                                         *)
LEMMA ToldArrive ==
  ASSUME Inv, ToldInv, NEW a \in Sc.asks, Arrive(a)
  PROVE  ToldInv'
<1>1. Base
  BY DEF Inv
<1>2. PICK n : n = Len(req) + 1
  OBVIOUS
<1>3. /\ Log' = Log \cup {n} /\ n \notin Log /\ \A s \in Log : req'[s] = req[s]
      /\ db' = db /\ told' = told
  BY <1>2, ArriveEffect
<1>4. req'[n].out = "validation" \/ (req'[n].out = "pending" /\ req'[n].pc = "start")
  BY <1>1, <1>2, ArriveLog
<1>5. \A s \in Log : A(s)' = A(s)
  BY <1>3 DEF A
<1>6. /\ DigestWriters \subseteq DigestWriters' /\ DigestWriters \subseteq Log
      /\ \A s \in DigestWriters' : s \in DigestWriters \/ s = n
  BY <1>3, <1>5 DEF DigestWriters
<1>7. \A s \in Log' : CreatorOK(s)'
  BY <1>3, <1>4, <1>5 DEF ToldInv, CreatorOK
<1>8. \A d \in Id : DigestUser(d)'
  BY <1>3 DEF ToldInv, DigestUser, Live
<1>9. ASSUME Orderly'
      PROVE  ToldOK'
  <2>1. Orderly
    <3>1. \A s \in DigestWriters : req[s].hit = "no"
      BY <1>3, <1>6, <1>9 DEF Orderly
    <3>2. \A p, q \in DigestWriters : p < q => Before(p, q)
      BY <1>6, <1>9, BeforeArrived DEF Orderly
    <3> QED
      BY <3>1, <3>2 DEF Orderly
  <2>2. ToldOK
    BY <2>1 DEF ToldInv
  <2>3. \A w, u, c : Untold(w, u, c) => Untold(w, u, c)'
    BY <1>3, <1>5, <1>6 DEF Untold, Wanted
  <2>4. \A c : LeftBehind(c) => LeftBehind(c)'
    BY <1>5, <1>6 DEF LeftBehind
  <2>5. Live("digests")' = Live("digests") /\ \A u, c : DigestsOf(u, c)' = DigestsOf(u, c)
    BY <1>3 DEF Live, DigestsOf
  <2>6. Single'
    BY <1>3, <2>2, <2>5 DEF ToldOK, Single
  <2>7. \A d \in Id : DigestKnown(d)'
    BY <1>3, <2>2, <2>3, <2>5 DEF ToldOK, DigestKnown
  <2>8. \A k \in Messages : MessageKnown(k)'
    <3> SUFFICES ASSUME NEW k \in Messages PROVE MessageKnown(k)'
      OBVIOUS
    <3>1. MessageKnown(k)
      BY <2>2 DEF ToldOK
    <3>2. \A w \in DigestWriters : A(w)' = A(w) /\ w \in DigestWriters'
      BY <1>5, <1>6
    <3> QED
      BY <1>3, <2>3, <2>4, <2>5, <3>1, <3>2 DEF MessageKnown
  <2>9. ASSUME NEW s \in DigestWriters
        PROVE  TellerOK(s)'
    <3>1. TellerOK(s) /\ A(s)' = A(s) /\ req'[s] = req[s] /\ Wanted(s)' = Wanted(s)
      BY <1>3, <1>5, <1>6, <2>2 DEF ToldOK, Wanted
    <3> QED
      BY <1>3, <2>5, <3>1 DEF TellerOK
  <2>10. TellerOK(n)'
    BY <1>4 DEF TellerOK
  <2> QED
    BY <1>6, <2>6, <2>7, <2>8, <2>9, <2>10 DEF ToldOK, Messages
<1> QED
  BY <1>7, <1>8, <1>9 DEF ToldInv

(* The worker begins with what the tables hold.                              *)
LEMMA ToldInit ==
  ASSUME Init
  PROVE  ToldInv
<1>1. /\ Log = {} /\ Fresh(db) /\ db \in [Table -> [Id -> Row]] /\ "digests" \in Table
      /\ told = [k \in Messages |-> IF DigestsOf(k[1], k[2]) = {} THEN NotTold ELSE 0]
  BY ApiAssumption, InitInv DEF Init, Log, Messages, Inv, Base, ApiTypeOK, Table
<1>2. DigestWriters = {}
  BY <1>1 DEF DigestWriters
<1>3. ASSUME NEW d \in Live("digests")
      PROVE  db["digests"][d].user \in Id /\ db["digests"][d].chat \in AnyId
             /\ db["digests"][d].mark = 0
  BY <1>1, <1>3 DEF Fresh, Live, Row, AnyId, NoId
<1>4. \A d \in Id : DigestUser(d)
  BY <1>3 DEF DigestUser
<1>5. Single
  BY <1>1 DEF Fresh, Single, Live
<1>6. ASSUME NEW d \in Id
      PROVE  DigestKnown(d)
  <2> SUFFICES ASSUME d \in Live("digests")
               PROVE  told[<<db["digests"][d].user, db["digests"][d].chat>>] = db["digests"][d].mark
    BY DEF DigestKnown
  <2>1. PICK u \in Id, c \in AnyId : u = db["digests"][d].user /\ c = db["digests"][d].chat
    BY <1>3
  <2>2. PICK k \in Messages : k = <<u, c>>
    BY DEF Messages
  <2>3. k[1] = u /\ k[2] = c
    BY <2>2
  <2>4. d \in DigestsOf(u, c)
    BY <2>1 DEF DigestsOf
  <2>5. told[k] = 0
    BY <1>1, <2>3, <2>4
  <2> QED
    BY <1>3, <2>1, <2>2, <2>5
<1>7. \A k \in Messages : MessageKnown(k)
  BY <1>1 DEF MessageKnown
<1> QED
  BY <1>1, <1>2, <1>4, <1>5, <1>6, <1>7 DEF ToldInv, ToldOK

(* A step that changes nothing keeps it.                                     *)
LEMMA ToldStill ==
  ASSUME ToldInv, UNCHANGED vars
  PROVE  ToldInv'
<1>1. db' = db /\ req' = req /\ told' = told /\ Log' = Log
  BY DEF vars, Log
<1>2. DigestWriters' = DigestWriters /\ (\A s : A(s)' = A(s)) /\ \A s : Wanted(s)' = Wanted(s)
  BY <1>1 DEF DigestWriters, A, Wanted
<1>3. Orderly' <=> Orderly
  BY <1>1, <1>2 DEF Orderly, Before
<1>4. Live("digests")' = Live("digests") /\ (\A u, c : DigestsOf(u, c)' = DigestsOf(u, c))
      /\ (\A w, u, c : Untold(w, u, c)' <=> Untold(w, u, c))
      /\ \A c : LeftBehind(c)' <=> LeftBehind(c)
  BY <1>1, <1>2 DEF Live, DigestsOf, Untold, LeftBehind
<1>5. Single' <=> Single
  BY <1>1, <1>4 DEF Single
<1>6. \A d : DigestKnown(d)' <=> DigestKnown(d)
  BY <1>1, <1>4 DEF DigestKnown
<1>7. \A k : MessageKnown(k)' <=> MessageKnown(k)
  BY <1>1, <1>2, <1>4 DEF MessageKnown
<1>8. \A s : TellerOK(s)' <=> TellerOK(s)
  BY <1>1, <1>2, <1>4 DEF TellerOK
<1>9. ToldOK' <=> ToldOK
  BY <1>2, <1>5, <1>6, <1>7, <1>8 DEF ToldOK, Messages
<1>10. (\A s : CreatorOK(s)' <=> CreatorOK(s)) /\ \A d : DigestUser(d)' <=> DigestUser(d)
  BY <1>1, <1>2, <1>4 DEF CreatorOK, DigestUser
<1> QED
  BY <1>1, <1>3, <1>9, <1>10 DEF ToldInv

(* After requests about digests that came one after the other the worker   *)
(* has every setting, and else only chats a digest left.                   *)
THEOREM DigestToldCorrect == Spec => []DigestTold
<1>1. Init => ToldInv
  BY ToldInit
<1>2. Inv /\ DigestInv /\ ToldInv /\ [Next]_vars => ToldInv'
  BY NextActs, ToldActs, ToldArrive, ToldStill
<1>3. Inv /\ ToldInv => DigestTold
  <2> SUFFICES ASSUME Inv, ToldInv,
                      \A r \in DigestWriters : r \notin InFlight /\ req[r].hit = "no",
                      \A p, r \in DigestWriters : p < r => Before(p, r)
               PROVE  /\ \A d \in Live("digests") :
                           told[<<db["digests"][d].user, db["digests"][d].chat>>]
                             = db["digests"][d].mark
                      /\ \A k \in DOMAIN told :
                           told[k] # NotTold =>
                             \/ DigestsOf(k[1], k[2]) # {}
                             \/ \E r \in DigestWriters :
                                  A(r).op = "UpdateDigestSettings" /\ A(r).chat = k[2]
    BY DEF DigestTold
  <2>1. ToldOK
    BY DEF Orderly, ToldInv
  <2>2. \A w, u, c : ~ Untold(w, u, c)
    BY DEF Untold, InFlight, DigestWriters
  <2>3. DOMAIN told = Messages
    BY DEF Inv, Base, ApiTypeOK, Messages
  <2>4. \A d \in Live("digests") :
          told[<<db["digests"][d].user, db["digests"][d].chat>>] = db["digests"][d].mark
    BY <2>1, <2>2 DEF ToldOK, DigestKnown, Live
  <2>5. \A k \in Messages : told[k] # NotTold =>
          \/ DigestsOf(k[1], k[2]) # {}
          \/ \E r \in DigestWriters : A(r).op = "UpdateDigestSettings" /\ A(r).chat = k[2]
    BY <2>1, <2>2 DEF ToldOK, MessageKnown, LeftBehind
  <2> QED
    BY <2>3, <2>4, <2>5
<1> QED
  BY <1>1, <1>2, <1>3, InvCorrect, DigestInvCorrect, PTL DEF Spec

-----------------------------------------------------------------------------
(* What the lists show: the number of rows is counted by one statement and *)
(* the page is shown by another, so that they agree if nothing is written  *)
(* between them.  A statement that writes a row says so in the log.        *)

(* The rows are as they were, but that a user may have been seen.          *)
Spared == \A t \in Table, i \in Id : db'[t][i] = db[t][i] \/ Seen(t, db[t][i], db'[t][i])

(* What a request writes is on record, and stays on it.                    *)
Recorded(r) == /\ req[r].wrote => req'[r].wrote
               /\ req'[r].wrote \/ Spared

(* That a user was seen changes no row but in this.                        *)
LEMMA TouchSpares ==
  ASSUME Base, NEW r \in Log, NEW u, Touch(r, u)
  PROVE  Spared
BY TouchEffect DEF Effect, Spared

(* A statement that writes nothing.                                        *)
LEMMA StillRecorded ==
  ASSUME NEW r, db' = db, req[r].wrote => req'[r].wrote
  PROVE  Recorded(r)
BY DEF Recorded, Spared

(* The entries that statements leave in the log.                           *)
LEMMA EntryWrote ==
  ASSUME Base, NEW r \in Log
  PROVE  /\ \A pc : Go(r, pc) => req'[r].wrote = req[r].wrote
         /\ \A out : Answer(r, out) => req'[r].wrote = req[r].wrote
         /\ \A out, m : req' = [req EXCEPT ![r] = [Finish(@, out) EXCEPT !.made = m]]
                          => req'[r].wrote = req[r].wrote
         /\ \A out, h : req' = [req EXCEPT ![r] = [Finish(@, out) EXCEPT !.hit = h]]
                          => req'[r].wrote = req[r].wrote
         /\ \A pc, x : req' = [req EXCEPT ![r].pc = pc, ![r].copy = x] => req'[r].wrote = req[r].wrote
         /\ \A pc, x : req' = [req EXCEPT ![r].pc = pc, ![r].ids = x] => req'[r].wrote = req[r].wrote
         /\ \A pc, x : req' = [req EXCEPT ![r].pc = pc, ![r].total = x] => req'[r].wrote = req[r].wrote
         /\ \A pc, x : req' = [req EXCEPT ![r].pc = pc, ![r].made = x] => req'[r].wrote = req[r].wrote
         /\ \A pc, x, y : req' = [req EXCEPT ![r].pc = pc, ![r].copy = x, ![r].item = y]
                          => req'[r].wrote = req[r].wrote
         /\ \A pc, x : req' = [req EXCEPT ![r].pc = pc, ![r].wrote = TRUE, ![r].stamp = x]
                          => req'[r].wrote
<1>1. req \in Seq(Request) /\ r \in DOMAIN req /\ req[r] \in Request
  BY InLog, LenProperties DEF Base, ApiTypeOK, Log
<1>2. \A q : req' = [req EXCEPT ![r] = q] => req'[r] = q
  BY <1>1
<1>3. \A out, m : LET f == Finish(req[r], out)
                  IN  /\ f.wrote = req[r].wrote /\ [f EXCEPT !.made = m].wrote = f.wrote
                      /\ [f EXCEPT !.hit = m].wrote = f.wrote
  BY <1>1 DEF Finish, Request
<1>4. \A pc : Go(r, pc) => req'[r].wrote = req[r].wrote
  <2> TAKE pc
  <2> HAVE Go(r, pc)
  <2>1. req'[r] = [req[r] EXCEPT !.pc = pc]
    BY <1>1 DEF Go
  <2> QED
    BY <1>1, <2>1 DEF Request
<1>5. \A out : Answer(r, out) => req'[r].wrote = req[r].wrote
  BY <1>1, <1>3 DEF Answer
<1>6. \A out, m : req' = [req EXCEPT ![r] = [Finish(@, out) EXCEPT !.made = m]]
                    => req'[r].wrote = req[r].wrote
  <2> TAKE out, m
  <2> HAVE req' = [req EXCEPT ![r] = [Finish(@, out) EXCEPT !.made = m]]
  <2> DEFINE q == [Finish(req[r], out) EXCEPT !.made = m]
  <2>1. q.wrote = req[r].wrote
    BY <1>3
  <2>2. req' = [req EXCEPT ![r] = q]
    OBVIOUS
  <2> HIDE DEF q
  <2> QED
    BY <1>2, <2>1, <2>2
<1>7. \A out, h : req' = [req EXCEPT ![r] = [Finish(@, out) EXCEPT !.hit = h]]
                    => req'[r].wrote = req[r].wrote
  <2> TAKE out, h
  <2> HAVE req' = [req EXCEPT ![r] = [Finish(@, out) EXCEPT !.hit = h]]
  <2> DEFINE q == [Finish(req[r], out) EXCEPT !.hit = h]
  <2>1. q.wrote = req[r].wrote
    BY <1>3
  <2>2. req' = [req EXCEPT ![r] = q]
    OBVIOUS
  <2> HIDE DEF q
  <2> QED
    BY <1>2, <2>1, <2>2
<1>8. \A pc, x : req' = [req EXCEPT ![r].pc = pc, ![r].copy = x] => req'[r].wrote = req[r].wrote
  BY <1>1 DEF Request
<1>9. \A pc, x : req' = [req EXCEPT ![r].pc = pc, ![r].ids = x] => req'[r].wrote = req[r].wrote
  BY <1>1 DEF Request
<1>10. \A pc, x : req' = [req EXCEPT ![r].pc = pc, ![r].total = x] => req'[r].wrote = req[r].wrote
  BY <1>1 DEF Request
<1>11. \A pc, x : req' = [req EXCEPT ![r].pc = pc, ![r].made = x] => req'[r].wrote = req[r].wrote
  <2> TAKE pc, x
  <2> HAVE req' = [req EXCEPT ![r].pc = pc, ![r].made = x]
  <2>1. req'[r] = [req[r] EXCEPT !.pc = pc, !.made = x]
    BY <1>1
  <2> QED
    BY <1>1, <2>1 DEF Request
<1>12. \A pc, x, y : req' = [req EXCEPT ![r].pc = pc, ![r].copy = x, ![r].item = y]
                       => req'[r].wrote = req[r].wrote
  <2> TAKE pc, x, y
  <2> HAVE req' = [req EXCEPT ![r].pc = pc, ![r].copy = x, ![r].item = y]
  <2>1. req'[r] = [req[r] EXCEPT !.pc = pc, !.copy = x, !.item = y]
    BY <1>1
  <2> QED
    BY <1>1, <2>1 DEF Request
<1>13. \A pc, x : req' = [req EXCEPT ![r].pc = pc, ![r].wrote = TRUE, ![r].stamp = x]
                    => req'[r].wrote
  <2> TAKE pc, x
  <2> HAVE req' = [req EXCEPT ![r].pc = pc, ![r].wrote = TRUE, ![r].stamp = x]
  <2>1. req'[r] = [req[r] EXCEPT !.pc = pc, !.wrote = TRUE, !.stamp = x]
    BY <1>1
  <2> QED
    BY <1>1, <2>1 DEF Request
<1> QED
  BY <1>4, <1>5, <1>6, <1>7, <1>8, <1>9, <1>10, <1>11, <1>12, <1>13

(* Reading, checking, showing.                                             *)
LEMMA QuietRecorded ==
  ASSUME Base, NEW r \in Log
  PROVE  /\ \A pc : Go(r, pc) /\ Quiet => Recorded(r)
         /\ \A out : Answer(r, out) /\ Quiet => Recorded(r)
         /\ \A t, pc : Reads(r, t, pc) => Recorded(r)
         /\ \A f, out, pc : Requires(r, f, out, pc) => Recorded(r)
         /\ \A t : Shows(r, t) => Recorded(r)
         /\ \A op : Replies(r, op) => Recorded(r)
         /\ \A S : Counts(r, S) \/ ShowsPage(r, S) \/ ListsByChat(r, S) => Recorded(r)
         /\ \A S : ShowsAny(r, S) => Recorded(r)
         /\ \A u, c, m : Tells(r, u, c, m) => Recorded(r)
         /\ \A pc : GetDigestSettingsByUserID(r, pc) => Recorded(r)
<1>1. \A pc : Go(r, pc) /\ Quiet => Recorded(r)
  BY EntryWrote, StillRecorded DEF Quiet
<1>2. \A out : Answer(r, out) /\ Quiet => Recorded(r)
  BY EntryWrote, StillRecorded DEF Quiet
<1>3. \A t, pc : Reads(r, t, pc) => Recorded(r)
  <2> SUFFICES ASSUME NEW t, NEW pc, Reads(r, t, pc) PROVE Recorded(r)
    OBVIOUS
  <2>1. db' = db /\ req'[r].wrote = req[r].wrote
    BY EntryWrote DEF Reads, Quiet
  <2> QED
    BY <2>1, StillRecorded
<1>4. \A f, out, pc : Requires(r, f, out, pc) => Recorded(r)
  BY <1>1, <1>2 DEF Requires
<1>5. \A t : Shows(r, t) => Recorded(r)
  BY <1>2 DEF Shows
<1>6. \A op : Replies(r, op) => Recorded(r)
  BY <1>2 DEF Replies
<1>7. \A S : Counts(r, S) \/ ShowsPage(r, S) \/ ListsByChat(r, S) => Recorded(r)
  <2> SUFFICES ASSUME NEW S, Counts(r, S) \/ ShowsPage(r, S) \/ ListsByChat(r, S) PROVE Recorded(r)
    OBVIOUS
  <2>1. db' = db
    BY DEF Counts, ShowsPage, ListsByChat, Quiet
  <2>2. CASE Counts(r, S)
    <3>1. req'[r].wrote = req[r].wrote
      BY <2>2, EntryWrote DEF Counts
    <3> QED
      BY <2>1, <3>1, StillRecorded
  <2>3. CASE ShowsPage(r, S)
    <3>1. req'[r].wrote = req[r].wrote
      BY <2>3, EntryWrote DEF ShowsPage
    <3> QED
      BY <2>1, <3>1, StillRecorded
  <2>4. CASE ListsByChat(r, S)
    <3>1. Quiet /\ (Go(r, "count") \/ Answer(r, "ok")
                    \/ req' = [req EXCEPT ![r].pc = "count", ![r].ids = S])
      BY <2>4 DEF ListsByChat
    <3>2. CASE Go(r, "count") \/ Answer(r, "ok")
      BY <1>1, <1>2, <3>1, <3>2
    <3>3. CASE req' = [req EXCEPT ![r].pc = "count", ![r].ids = S]
      <4>1. req'[r].wrote = req[r].wrote
        BY <3>3, EntryWrote
      <4> QED
        BY <2>1, <4>1, StillRecorded
    <3> QED
      BY <3>1, <3>2, <3>3
  <2> QED
    BY <2>2, <2>3, <2>4
<1>8. \A S : ShowsAny(r, S) => Recorded(r)
  <2> SUFFICES ASSUME NEW S, ShowsAny(r, S) PROVE Recorded(r)
    OBVIOUS
  <2>1. db' = db /\ req'[r].wrote = req[r].wrote
    BY EntryWrote DEF ShowsAny, Quiet
  <2> QED
    BY <2>1, StillRecorded
<1>9. \A u, c, m : Tells(r, u, c, m) => Recorded(r)
  <2> SUFFICES ASSUME NEW u, NEW c, NEW m, Tells(r, u, c, m) PROVE Recorded(r)
    OBVIOUS
  <2>1. db' = db /\ req'[r].wrote = req[r].wrote
    BY EntryWrote DEF Tells
  <2> QED
    BY <2>1, StillRecorded
<1>10. \A pc : GetDigestSettingsByUserID(r, pc) => Recorded(r)
  <2> SUFFICES ASSUME NEW pc, GetDigestSettingsByUserID(r, pc) PROVE Recorded(r)
    OBVIOUS
  <2>1. db' = db
    BY DEF GetDigestSettingsByUserID, Quiet
  <2>2. CASE Answer(r, "notfound")
    BY <2>1, <2>2, EntryWrote, StillRecorded
  <2>3. CASE \E d : req' = [req EXCEPT ![r].pc = pc, ![r].copy = db["digests"][d], ![r].item = d]
    <3>1. PICK d : req' = [req EXCEPT ![r].pc = pc, ![r].copy = db["digests"][d], ![r].item = d]
      BY <2>3
    <3>2. req'[r].wrote = req[r].wrote
      BY <3>1, EntryWrote
    <3> QED
      BY <2>1, <3>2, StillRecorded
  <2> QED
    BY <2>2, <2>3 DEF GetDigestSettingsByUserID
<1> QED
  BY <1>1, <1>2, <1>3, <1>4, <1>5, <1>6, <1>7, <1>8, <1>9, <1>10

(* INSERT, UPDATE, DELETE, and that a user was seen.                       *)
LEMMA WriteRecorded ==
  ASSUME Base, NEW r \in Log
  PROVE  /\ \A t, row, taken, pc : Inserts(r, t, row, taken, pc) => Recorded(r)
         /\ \A t, row, pc : Updates(r, t, row, pc) => Recorded(r)
         /\ \A t, pc : Deletes(r, t, pc) => Recorded(r)
         /\ \A u : Touch(r, u) => Recorded(r)
<1>1. req \in Seq(Request) /\ r \in DOMAIN req /\ req[r] \in Request
  BY InLog, LenProperties DEF Base, ApiTypeOK, Log
<1>2. req'[r].wrote => Recorded(r)
  BY DEF Recorded
<1>3. ASSUME NEW t, NEW row, NEW taken, NEW pc, Inserts(r, t, row, taken, pc)
      PROVE  Recorded(r)
  <2>1. CASE taken
    <3>1. db' = db /\ req' = [req EXCEPT ![r] = [Finish(@, "internal") EXCEPT !.hit = "unique"]]
      BY <1>3, <2>1 DEF Inserts
    <3>2. req'[r].wrote = req[r].wrote
      BY <3>1, EntryWrote
    <3> QED
      BY <3>1, <3>2, StillRecorded
  <2>2. CASE ~ taken
    <3>1. PICK i : req' = [req EXCEPT ![r].pc = pc, ![r].made = @ \cup {i},
                                      ![r].wrote = TRUE, ![r].stamp = Len(req)]
      BY <1>3, <2>2 DEF Inserts
    <3>2. req'[r].wrote
      BY <1>1, <3>1 DEF Request
    <3> QED
      BY <1>2, <3>2
  <2> QED
    BY <2>1, <2>2
<1>4. ASSUME NEW t, NEW row, NEW pc, Updates(r, t, row, pc) PROVE Recorded(r)
  BY <1>2, <1>4, EntryWrote DEF Updates
<1>5. ASSUME NEW t, NEW pc, Deletes(r, t, pc) PROVE Recorded(r)
  <2>1. CASE A(r).id \in Live(t)
    <3>1. req' = [req EXCEPT ![r].pc = pc, ![r].wrote = TRUE, ![r].stamp = Len(req)]
      BY <1>5, <2>1 DEF Deletes
    <3>2. req'[r].wrote
      BY <3>1, EntryWrote
    <3> QED
      BY <1>2, <3>2
  <2>2. CASE A(r).id \notin Live(t)
    <3>1. db' = db /\ req'[r].wrote = req[r].wrote
      BY <1>5, <2>2, EntryWrote DEF Deletes
    <3> QED
      BY <3>1, StillRecorded
  <2> QED
    BY <2>1, <2>2
<1>6. ASSUME NEW u, Touch(r, u) PROVE Recorded(r)
  <2>1. req'[r].wrote = req[r].wrote
    BY <1>6, EntryWrote DEF Touch
  <2>2. Spared
    BY <1>6, TouchSpares
  <2> QED
    BY <2>1, <2>2 DEF Recorded
<1> QED
  BY <1>3, <1>4, <1>5, <1>6
(* The entry of a request, as a request.                                   *)
LEMMA EntryOf ==
  ASSUME Base, NEW r \in Log
  PROVE  req \in Seq(Request) /\ r \in DOMAIN req /\ req[r] \in Request
BY InLog, LenProperties DEF Base, ApiTypeOK, Log

(* The statements of a deletion of a user.                                 *)
LEMMA DeletionRecorded ==
  ASSUME Base, NEW r \in Log, DeleteUser(r), At(r, "DeleteUser", "delete") => req[r].wrote
  PROVE  Recorded(r)
<1>1. req \in Seq(Request) /\ r \in DOMAIN req /\ req[r] \in Request
  BY EntryOf
<1>2. CASE At(r, "DeleteUser", "start") /\ GetUserByID(r, "tasks")
  BY <1>2, QuietRecorded DEF GetUserByID
<1>3. CASE /\ At(r, "DeleteUser", "tasks")
           /\ req' = [req EXCEPT ![r].pc = "remove", ![r].ids = GetTasksByUserID(A(r).id)]
           /\ Quiet
  <2>1. req'[r].wrote = req[r].wrote /\ db' = db
    BY <1>3, EntryWrote DEF Quiet
  <2> QED
    BY <2>1, StillRecorded
<1>4. CASE DeletesTask(r)
  <2>1. CASE Go(r, "chats") /\ Quiet
    BY <2>1, QuietRecorded
  <2>2. CASE \E t \in req[r].ids :
               req' = [req EXCEPT ![r].pc = "name", ![r].item = t, ![r].ids = @ \ {t},
                                  ![r].wrote = TRUE]
    <3>1. PICK t : req' = [req EXCEPT ![r].pc = "name", ![r].item = t, ![r].ids = @ \ {t},
                                      ![r].wrote = TRUE]
      BY <2>2
    <3>2. req'[r] = [req[r] EXCEPT !.pc = "name", !.item = t, !.ids = @ \ {t}, !.wrote = TRUE]
      BY <1>1, <3>1
    <3>3. req'[r].wrote
      BY <1>1, <3>2 DEF Request
    <3> QED
      BY <3>3 DEF Recorded
  <2>3. CASE Go(r, IF HasMessengerName(req[r].item) THEN "publish" ELSE "remove") /\ Quiet
    BY <2>3, QuietRecorded
  <2>4. CASE Go(r, "remove") /\ UNCHANGED <<db, told, scene, failed>>
    BY <2>4, EntryWrote, StillRecorded
  <2> QED
    BY <1>4, <2>1, <2>2, <2>3, <2>4 DEF DeletesTask
<1>5. CASE req' = [req EXCEPT ![r].pc = "delete", ![r].wrote = TRUE]
  <2>1. req'[r] = [req[r] EXCEPT !.pc = "delete", !.wrote = TRUE]
    BY <1>1, <1>5
  <2>2. req'[r].wrote
    BY <1>1, <2>1 DEF Request
  <2> QED
    BY <2>2 DEF Recorded
<1>6. CASE At(r, "DeleteUser", "delete") /\ Answer(r, "ok")
  <2>1. req'[r].wrote = req[r].wrote /\ req[r].wrote
    BY <1>6, EntryWrote
  <2> QED
    BY <2>1 DEF Recorded
<1> QED
  BY <1>2, <1>3, <1>4, <1>5, <1>6 DEF DeleteUser

(* Every statement of the users' service.                                  *)
LEMMA UserRecorded ==
  ASSUME Base, NEW r \in Log, UserStep(r), At(r, "DeleteUser", "delete") => req[r].wrote
  PROVE  Recorded(r)
<1>1. CASE CreateUser(r)
  <2>1. CASE At(r, "CreateUser", "insert") /\ InsertUser(r)
    BY <2>1, WriteRecorded DEF InsertUser
  <2>2. CASE \E u \in req[r].made : Touch(r, u)
    BY <2>2, WriteRecorded
  <2>3. CASE (\E out : Answer(r, out)) /\ Quiet
    BY <2>3, QuietRecorded
  <2>4. CASE Go(r, "insert") /\ Quiet
    BY <2>4, QuietRecorded
  <2> QED
    BY <1>1, <2>1, <2>2, <2>3, <2>4 DEF CreateUser
<1>2. CASE GetUser(r)
  BY <1>2, QuietRecorded DEF GetUser
<1>3. CASE UpdateUser(r)
  BY <1>3, QuietRecorded, WriteRecorded DEF UpdateUser, GetUserByID, UpdateUserRow
<1>4. CASE DeleteUser(r)
  BY <1>4, DeletionRecorded
<1>5. CASE GetAllUsers(r)
  BY <1>5, QuietRecorded DEF GetAllUsers
<1>6. CASE GetRecentUserActivity(r)
  <2>1. req'[r].wrote = req[r].wrote /\ db' = db
    BY <1>6, EntryWrote DEF GetRecentUserActivity, Quiet
  <2> QED
    BY <2>1, StillRecorded
<1> QED
  BY <1>1, <1>2, <1>3, <1>4, <1>5, <1>6 DEF UserStep

(* Those of the messengers.                                                *)
LEMMA MessengerRecorded ==
  ASSUME Base, NEW r \in Log, MessengerStep(r)
  PROVE  Recorded(r)
<1>1. CASE CreateMessenger(r)
  <2>1. CASE At(r, "CreateMessenger", "insert") /\ InsertMessenger(r)
    BY <2>1, WriteRecorded DEF InsertMessenger
  <2>2. CASE ((\E out : Answer(r, out)) \/ Go(r, "insert")) /\ Quiet
    BY <2>2, QuietRecorded
  <2>3. CASE Replies(r, "CreateMessenger")
    BY <2>3, QuietRecorded
  <2> QED
    BY <1>1, <2>1, <2>2, <2>3 DEF CreateMessenger
<1>2. CASE GetMessenger(r)
  BY <1>2, QuietRecorded DEF GetMessenger, GetMessengerByID
<1>3. CASE GetMessengerIDByName(r)
  BY <1>3, QuietRecorded DEF GetMessengerIDByName
<1>4. CASE CreateMessengerRelatedUser(r)
  <2>1. CASE At(r, "CreateMessengerRelatedUser", "insert") /\ InsertChat(r)
    BY <2>1, WriteRecorded DEF InsertChat
  <2>2. CASE Touch(r, A(r).user)
    BY <2>2, WriteRecorded
  <2>3. CASE (\E out : Answer(r, out)) /\ Quiet
    BY <2>3, QuietRecorded
  <2>4. CASE \E f, out, pc : Requires(r, f, out, pc)
    BY <2>4, QuietRecorded
  <2> QED
    BY <1>4, <2>1, <2>2, <2>3, <2>4 DEF CreateMessengerRelatedUser
<1>5. CASE GetMessengerRelatedUser(r)
  <2>1. CASE \E f, out, pc : Requires(r, f, out, pc)
    BY <2>1, QuietRecorded
  <2>2. CASE ShowsAny(r, ChatsOf(A(r)))
    BY <2>2, QuietRecorded
  <2> QED
    BY <1>5, <2>1, <2>2 DEF GetMessengerRelatedUser
<1>6. CASE GetUserID(r)
  BY <1>6, QuietRecorded DEF GetUserID
<1>7. CASE GetAllMessengers(r)
  BY <1>7, QuietRecorded DEF GetAllMessengers
<1>8. CASE GetAllMessengerRelatedUsers(r)
  BY <1>8, QuietRecorded DEF GetAllMessengerRelatedUsers
<1> QED
  BY <1>1, <1>2, <1>3, <1>4, <1>5, <1>6, <1>7, <1>8 DEF MessengerStep

(* Those of the groups and bindings.                                       *)
LEMMA GroupRecorded ==
  ASSUME Base, NEW r \in Log, GroupStep(r)
  PROVE  Recorded(r)
<1>1. ASSUME (\E out : Answer(r, out)) \/ \E pc : Go(r, pc), Quiet PROVE Recorded(r)
  BY <1>1, QuietRecorded
<1>2. ASSUME \E f, out, pc : Requires(r, f, out, pc) PROVE Recorded(r)
  BY <1>2, QuietRecorded
<1>3. CASE CreateTaskGroup(r)
  <2>1. CASE At(r, "CreateTaskGroup", "insert") /\ InsertTaskGroup(r)
    BY <2>1, WriteRecorded DEF InsertTaskGroup
  <2>2. CASE Touch(r, A(r).user)
    BY <2>2, WriteRecorded
  <2> QED
    BY <1>1, <1>2, <1>3, <2>1, <2>2 DEF CreateTaskGroup
<1>4. CASE GetTaskGroupByID(r)
  BY <1>4, QuietRecorded DEF GetTaskGroupByID
<1>5. CASE GetAllTaskGroups(r)
  BY <1>5, QuietRecorded DEF GetAllTaskGroups
<1>6. CASE UpdateTaskGroup(r)
  BY <1>2, <1>6, QuietRecorded, WriteRecorded DEF UpdateTaskGroup, GetGroup, UpdateGroupRow
<1>7. CASE DeleteTaskGroup(r)
  BY <1>2, <1>7, QuietRecorded, WriteRecorded DEF DeleteTaskGroup, GetGroup, DeleteGroupRow
<1>8. CASE CreateBinding(r)
  <2>1. CASE At(r, "CreateBinding", "insert") /\ InsertBinding(r)
    BY <2>1, WriteRecorded DEF InsertBinding
  <2>2. CASE Replies(r, "CreateBinding")
    BY <2>2, QuietRecorded
  <2> QED
    BY <1>1, <1>2, <1>8, <2>1, <2>2 DEF CreateBinding
<1>9. CASE ListBindings(r)
  <2>1. req'[r].wrote = req[r].wrote /\ db' = db
    BY <1>9, EntryWrote DEF ListBindings, Quiet
  <2> QED
    BY <2>1, StillRecorded
<1>10. CASE DeleteBinding(r)
  BY <1>2, <1>10, QuietRecorded, WriteRecorded DEF DeleteBinding, SoftDeleteBinding
<1> QED
  BY <1>3, <1>4, <1>5, <1>6, <1>7, <1>8, <1>9, <1>10 DEF GroupStep

(* Those of the digests.                                                   *)
LEMMA DigestRecorded ==
  ASSUME Base, NEW r \in Log, DigestStep(r)
  PROVE  Recorded(r)
<1>0. req \in Seq(Request) /\ r \in DOMAIN req /\ req[r] \in Request
  BY EntryOf
<1>1. ASSUME (\E out : Answer(r, out)) \/ \E pc : Go(r, pc), Quiet PROVE Recorded(r)
  BY <1>1, QuietRecorded
<1>2. ASSUME \E f, out, pc : Requires(r, f, out, pc) PROVE Recorded(r)
  BY <1>2, QuietRecorded
<1>3. ASSUME \/ Touch(r, A(r).user) \/ \E u, c, m : Tells(r, u, c, m)
             \/ \E pc : GetDigestSettingsByUserID(r, pc)
      PROVE  Recorded(r)
  BY <1>3, QuietRecorded, WriteRecorded
<1>4. CASE CreateDigestSettings(r)
  <2>1. CASE At(r, "CreateDigestSettings", "insert") /\ InsertDigest(r)
    BY <2>1, WriteRecorded DEF InsertDigest
  <2> QED
    BY <1>1, <1>2, <1>3, <1>4, <2>1 DEF CreateDigestSettings
<1>5. CASE GetDigestSettings(r)
  BY <1>5, QuietRecorded DEF GetDigestSettings
<1>6. CASE UpdateDigestSettings(r)
  <2>1. CASE At(r, "UpdateDigestSettings", "start") /\ GetDigestSettingsByUserID(r, "time")
    BY <1>3, <2>1
  <2>2. CASE req' = [req EXCEPT ![r].pc = "write", ![r].copy.chat = A(r).ref] /\ Quiet
    <3>1. req'[r] = [req[r] EXCEPT !.pc = "write", !.copy.chat = A(r).ref]
      BY <1>0, <2>2
    <3>2. req'[r].wrote = req[r].wrote
      BY <1>0, <3>1 DEF Request
    <3> QED
      BY <2>2, <3>2, StillRecorded DEF Quiet
  <2>3. CASE UpdateDigestRow(r)
    <3>1. CASE /\ req' = [req EXCEPT ![r] = [Finish(@, "internal") EXCEPT !.hit = "unique"]]
               /\ UNCHANGED db
      BY <3>1, EntryWrote, StillRecorded
    <3>2. CASE req' = [req EXCEPT ![r].pc = "publish", ![r].wrote = TRUE, ![r].stamp = Len(req)]
      BY <3>2, EntryWrote DEF Recorded
    <3> QED
      BY <2>3, <3>1, <3>2 DEF UpdateDigestRow
  <2>4. CASE \E u, c, m : Tells(r, u, c, m)
    BY <1>3, <2>4
  <2>5. CASE Touch(r, A(r).user)
    BY <1>3, <2>5
  <2> QED
    BY <1>1, <1>6, <2>1, <2>2, <2>3, <2>4, <2>5 DEF UpdateDigestSettings
<1>7. CASE DeleteDigestSettings(r)
  <2>1. CASE DeleteDigestRows(r)
    <3>1. CASE Answer(r, "notfound") /\ UNCHANGED db
      BY <3>1, EntryWrote, StillRecorded
    <3>2. CASE req' = [req EXCEPT ![r].pc = "publish", ![r].wrote = TRUE, ![r].stamp = Len(req)]
      BY <3>2, EntryWrote DEF Recorded
    <3> QED
      BY <2>1, <3>1, <3>2 DEF DeleteDigestRows
  <2> QED
    BY <1>3, <1>7, <2>1 DEF DeleteDigestSettings
<1>8. CASE GetAllDigestSettings(r)
  BY <1>8, QuietRecorded DEF GetAllDigestSettings
<1>9. CASE GetDigest(r)
  <2>1. ASSUME NEW pc, NEW x, req' = [req EXCEPT ![r].pc = pc, ![r].total = x], Quiet
        PROVE  Recorded(r)
    BY <2>1, EntryWrote, StillRecorded DEF Quiet
  <2>2. ASSUME NEW pc, NEW x, req' = [req EXCEPT ![r].pc = pc, ![r].made = x], Quiet
        PROVE  Recorded(r)
    BY <2>2, EntryWrote, StillRecorded DEF Quiet
  <2>3. ASSUME NEW out, NEW x, req' = [req EXCEPT ![r] = [Finish(@, out) EXCEPT !.made = x]], Quiet
        PROVE  Recorded(r)
    BY <2>3, EntryWrote, StillRecorded DEF Quiet
  <2> QED
    BY <1>1, <1>2, <1>9, <2>1, <2>2, <2>3 DEF GetDigest
<1> QED
  BY <1>4, <1>5, <1>6, <1>7, <1>8, <1>9 DEF DigestStep

(* Those of the notes.                                                     *)
LEMMA NoteRecorded ==
  ASSUME Base, NEW r \in Log, NoteStep(r)
  PROVE  Recorded(r)
<1>0. req \in Seq(Request) /\ r \in DOMAIN req /\ req[r] \in Request
  BY EntryOf
<1>1. ASSUME (\E out : Answer(r, out)) \/ \E pc : Go(r, pc), Quiet PROVE Recorded(r)
  BY <1>1, QuietRecorded
<1>2. ASSUME NEW op, NEW pc, ChecksOwner(r, op, pc) PROVE Recorded(r)
  BY <1>2, QuietRecorded DEF ChecksOwner
<1>3. ASSUME NEW op, NEW t, ReadsTitle(r, op, t) PROVE Recorded(r)
  BY <1>3, QuietRecorded DEF ReadsTitle
<1>4. ASSUME NEW t, UpdateNoteRow(r, t) PROVE Recorded(r)
  BY <1>4, WriteRecorded DEF UpdateNoteRow
<1>5. ASSUME NEW u, Touch(r, u) PROVE Recorded(r)
  BY <1>5, WriteRecorded
<1>6. CASE CreateBacklog(r)
  BY <1>2, <1>5, <1>6, WriteRecorded DEF CreateBacklog, InsertBacklog
<1>7. CASE CreateBacklogsBatch(r)
  <2>1. CASE req' = [req EXCEPT ![r].pc = "lines", ![r].total = A(r).key] /\ Quiet
    BY <2>1, EntryWrote, StillRecorded DEF Quiet
  <2>2. CASE BatchLine(r)
    <3>1. PICK i : req' = [req EXCEPT ![r].total = @ - 1, ![r].made = @ \cup {i},
                                      ![r].wrote = TRUE, ![r].stamp = Len(req)]
      BY <2>2 DEF BatchLine
    <3>2. req'[r] = [req[r] EXCEPT !.total = @ - 1, !.made = @ \cup {i},
                                   !.wrote = TRUE, !.stamp = Len(req)]
      BY <1>0, <3>1
    <3>3. req'[r].wrote
      BY <1>0, <3>2 DEF Request
    <3> QED
      BY <3>3 DEF Recorded
  <2> QED
    BY <1>1, <1>2, <1>5, <1>7, <2>1, <2>2 DEF CreateBacklogsBatch
<1>8. CASE GetBacklogByID(r)
  BY <1>8, QuietRecorded DEF GetBacklogByID
<1>9. CASE GetAllBacklogs(r)
  BY <1>9, QuietRecorded DEF GetAllBacklogs
<1>10. CASE UpdateBacklog(r)
  BY <1>3, <1>4, <1>5, <1>10 DEF UpdateBacklog
<1>11. CASE DeleteBacklog(r)
  BY <1>5, <1>11, QuietRecorded, WriteRecorded DEF DeleteBacklog, DeleteBacklogRow
<1>12. CASE CreateTarget(r)
  BY <1>2, <1>5, <1>12, WriteRecorded DEF CreateTarget, InsertTarget
<1>13. CASE GetTargetByID(r)
  BY <1>13, QuietRecorded DEF GetTargetByID
<1>14. CASE GetAllTargets(r)
  BY <1>14, QuietRecorded DEF GetAllTargets
<1>15. CASE UpdateTarget(r)
  BY <1>3, <1>4, <1>5, <1>15 DEF UpdateTarget
<1>16. CASE DeleteTarget(r)
  BY <1>5, <1>16, QuietRecorded, WriteRecorded DEF DeleteTarget, DeleteTargetRow
<1> QED
  BY <1>6, <1>7, <1>8, <1>9, <1>10, <1>11, <1>12, <1>13, <1>14, <1>15, <1>16 DEF NoteStep

(* A failure.                                                              *)
LEMMA FaultRecorded ==
  ASSUME Base, NEW r \in Log, Fault(r)
  PROVE  Recorded(r)
<1>0. req \in Seq(Request) /\ r \in DOMAIN req /\ req[r] \in Request
  BY EntryOf
<1>1. db' = db
  BY FaultBreaks DEF Breaks
<1>2. ASSUME NEW out, NEW h, req' = [req EXCEPT ![r] = [Finish(@, out) EXCEPT !.hit = h]]
      PROVE  req'[r].wrote = req[r].wrote
  BY <1>2, EntryWrote
<1>3. CASE StatementFails(r) \/ DeletePublishFails(r)
  BY <1>1, <1>2, <1>3, StillRecorded DEF StatementFails, DeletePublishFails
<1>4. CASE TouchFails(r)
  BY <1>1, <1>4, EntryWrote, StillRecorded DEF TouchFails
<1>5. CASE DeleteTaskFails(r)
  <2>1. CASE \E t \in req[r].ids :
               req' = [req EXCEPT ![r].pc = "name", ![r].item = t, ![r].ids = @ \ {t},
                                  ![r].hit = "fault"]
    <3>1. PICK t : req' = [req EXCEPT ![r].pc = "name", ![r].item = t, ![r].ids = @ \ {t},
                                      ![r].hit = "fault"]
      BY <2>1
    <3>2. req'[r] = [req[r] EXCEPT !.pc = "name", !.item = t, !.ids = @ \ {t}, !.hit = "fault"]
      BY <1>0, <3>1
    <3> QED
      BY <1>0, <1>1, <3>2, StillRecorded DEF Request
  <2>2. CASE req' = [req EXCEPT ![r].pc = "remove", ![r].hit = "fault"]
    <3>1. req'[r] = [req[r] EXCEPT !.pc = "remove", !.hit = "fault"]
      BY <1>0, <2>2
    <3> QED
      BY <1>0, <1>1, <3>1, StillRecorded DEF Request
  <2> QED
    BY <1>5, <2>1, <2>2 DEF DeleteTaskFails
<1>6. CASE TellFails(r)
  <2>1. req'[r] = [req[r] EXCEPT !.pc = "touch", !.hit = "fault"]
    BY <1>0, <1>6 DEF TellFails
  <2> QED
    BY <1>0, <1>1, <2>1, StillRecorded DEF Request
<1>7. CASE BatchLineFails(r)
  <2>1. req'[r] = [req[r] EXCEPT !.total = @ - 1, !.hit = "fault"]
    BY <1>0, <1>7 DEF BatchLineFails
  <2> QED
    BY <1>0, <1>1, <2>1, StillRecorded DEF Request
<1> QED
  BY <1>3, <1>4, <1>5, <1>6, <1>7 DEF Fault

(* Every statement.                                                        *)
LEMMA ActsRecorded ==
  ASSUME Base, NEW r \in Log, Acts(r), At(r, "DeleteUser", "delete") => req[r].wrote
  PROVE  Recorded(r)
<1>1. CASE CreateTask(r)
  BY <1>1, QuietRecorded, WriteRecorded DEF CreateTask, ChecksOwner
<1>2. CASE QueueTask(r)
  <2>1. CASE Answer(r, "ok") /\ UNCHANGED <<db, told, scene, failed>>
    BY <2>1, EntryWrote, StillRecorded
  <2> QED
    BY <1>2, <2>1, QuietRecorded DEF QueueTask
<1> QED
  BY <1>1, <1>2, UserRecorded, MessengerRecorded, GroupRecorded, DigestRecorded, NoteRecorded,
     FaultRecorded DEF Acts, Step

-----------------------------------------------------------------------------
(* A page, newest rows first, one row long.                                *)
Rank(S, i) == Cardinality({j \in S : j > i})

(* Each row has a place of its own, and no place is left out.              *)
LEMMA RankOnto ==
  ASSUME NEW S, S \subseteq Id
  PROVE  /\ IsFiniteSet(S) /\ Cardinality(S) \in Nat
         /\ \A i \in S : Rank(S, i) \in Nat
         /\ \A i, k \in S : Rank(S, i) = Rank(S, k) => i = k
         /\ \A n \in Nat : n < Cardinality(S) <=> \E i \in S : Rank(S, i) = n
<1>1. /\ IsFiniteSet(S) /\ Cardinality(S) \in Nat /\ S \subseteq Nat
      /\ \A i \in S : {j \in S : j > i} \subseteq S /\ IsFiniteSet({j \in S : j > i})
  <2>1. IsFiniteSet(S) /\ Cardinality(S) \in Nat
    BY SomeIds
  <2>2. S \subseteq Nat
    BY ApiAssumption DEF Id
  <2>3. \A i \in S : {j \in S : j > i} \subseteq S
    OBVIOUS
  <2> QED
    BY <2>1, <2>2, <2>3, FS_Subset
<1>2. \A i \in S : Rank(S, i) \in Nat
  BY <1>1, FS_CardinalityType DEF Rank
<1>3. ASSUME NEW i \in S, NEW k \in S \cup {0}, k < i
      PROVE  Cardinality({j \in S : j > i}) < Cardinality({j \in S : j > k})
  <2> DEFINE U == {j \in S : j > i}
             V == {j \in S : j > k}
  <2>0. i \in Nat /\ k \in Nat /\ \A j \in S : j \in Nat
    BY <1>1
  <2>6. \A j \in S : j > i => j > k
    BY <1>3, <2>0
  <2>1. V \subseteq S /\ U \subseteq V /\ i \in V /\ i \notin U
    <3>1. i > k /\ ~ (i > i)
      BY <1>3, <2>0
    <3>2. i \in V /\ i \notin U
      BY <3>1
    <3>3. U \subseteq V
      BY <2>6
    <3> QED
      BY <3>2, <3>3
  <2>2. IsFiniteSet(V) /\ IsFiniteSet(U) /\ Cardinality(V) \in Nat /\ Cardinality(U) \in Nat
    BY <1>1, <2>1, FS_Subset, FS_CardinalityType
  <2> HIDE DEF U, V
  <2>3. Cardinality(U) <= Cardinality(V) /\ (Cardinality(U) = Cardinality(V) => U = V)
    BY <2>1, <2>2, FS_Subset
  <2>4. U # V
    BY <2>1
  <2>5. Cardinality(U) < Cardinality(V)
    BY <2>2, <2>3, <2>4
  <2> QED
    BY <2>5 DEF U, V
<1>4. \A i, k \in S : Rank(S, i) = Rank(S, k) => i = k
  <2> SUFFICES ASSUME NEW i \in S, NEW k \in S, k < i PROVE Rank(S, i) < Rank(S, k)
    BY <1>1, <1>2
  <2> QED
    BY <1>3 DEF Rank
<1>5. \A i \in S : Rank(S, i) < Cardinality(S)
  <2> TAKE i \in S
  <2>0. \A j \in S : j \in Nat /\ 0 < j
    BY ApiAssumption DEF Id
  <2>1. 0 < i /\ {j \in S : j > 0} = S
    BY <2>0
  <2> QED
    BY <1>3, <2>1 DEF Rank
<1> DEFINE N == Cardinality(S)
           f == [i \in S |-> Rank(S, i) + 1]
<1>6. N \in Nat /\ IsFiniteSet(1..N) /\ Cardinality(1..N) = N
  <2>1. N \in Nat
    BY <1>1
  <2> HIDE DEF N
  <2>2. IsFiniteSet(1..N) /\ Cardinality(1..N) = IF 1 > N THEN 0 ELSE N - 1 + 1
    BY <2>1, FS_Interval
  <2> QED
    BY <2>1, <2>2
<1>7. \A i \in S : f[i] = Rank(S, i) + 1 /\ f[i] \in 1..N
  BY <1>1, <1>2, <1>5
<1>8. f \in Injection(S, 1..N)
  <2>1. \A i, k \in S : f[i] = f[k] => i = k
    BY <1>2, <1>4, <1>7
  <2>2. f \in [S -> 1..N]
    BY <1>7
  <2> HIDE DEF f, N
  <2> QED
    BY <2>1, <2>2 DEF Injection, IsInjective
<1>9. f \in Surjection(S, 1..N)
  <2>1. Cardinality(S) = Cardinality(1..N)
    BY <1>6
  <2> HIDE DEF f, N
  <2> QED
    BY <1>6, <1>8, <2>1, FS_Injection
<1>10. \A m \in 1..N : \E i \in S : f[i] = m
  <2> HIDE DEF f, N
  <2> QED
    BY <1>9 DEF Surjection
<1>11. ASSUME NEW n \in Nat PROVE n < N <=> \E i \in S : Rank(S, i) = n
  <2>1. ASSUME n < N PROVE \E i \in S : Rank(S, i) = n
    <3>1. PICK i \in S : f[i] = n + 1
      BY <1>6, <1>10, <2>1
    <3>2. Rank(S, i) + 1 = n + 1 /\ Rank(S, i) \in Nat
      BY <1>2, <1>7, <3>1
    <3> QED
      BY <3>2
  <2> QED
    BY <1>5, <2>1
<1> QED
  BY <1>1, <1>2, <1>4, <1>11

(* A page has the rows that the number of rows leaves to it.               *)
LEMMA PageCounts ==
  ASSUME NEW S, S \subseteq Id, NEW p \in Nat \ {0}
  PROVE  Cardinality(Page(S, p)) = OnPage(Cardinality(S), p)
<1> DEFINE N == Cardinality(S)
<1>1. /\ N \in Nat /\ \A i \in S : Rank(S, i) \in Nat
      /\ \A i, k \in S : Rank(S, i) = Rank(S, k) => i = k
      /\ \A n \in Nat : n < N <=> \E i \in S : Rank(S, i) = n
  BY RankOnto
<1>2. Page(S, p) = {i \in S : Rank(S, i) = p - 1}
  <2>1. \A i \in S : (Rank(S, i) >= (p - 1) * 1 /\ Rank(S, i) < p * 1) <=> Rank(S, i) = p - 1
    BY <1>1
  <2> QED
    BY <2>1 DEF Page, PageSize, Rank
<1> HIDE DEF N
<1>3. CASE p - 1 < N
  <2>1. PICK i \in S : Rank(S, i) = p - 1
    BY <1>1, <1>3
  <2>2. Page(S, p) = {i}
    BY <1>1, <1>2, <2>1
  <2>3. OnPage(N, p) = 1
    BY <1>1, <1>3 DEF OnPage, PageSize
  <2> QED
    BY <2>2, <2>3, FS_Singleton DEF N
<1>4. CASE ~ (p - 1 < N)
  <2>1. Page(S, p) = {}
    BY <1>1, <1>2, <1>4
  <2>2. OnPage(N, p) = 0
    BY <1>1, <1>4 DEF OnPage, PageSize
  <2> QED
    BY <2>1, <2>2, FS_EmptySet DEF N
<1> QED
  BY <1>3, <1>4
-----------------------------------------------------------------------------
(* A list: which rows it is about, and the statement it is at.             *)
ByChat == {"GetAllDigestSettings", "GetAllBacklogs", "GetAllTargets"}

ListedBy(r) ==
  CASE A(r).op = "GetAllUsers"      -> Live("users")
    [] A(r).op = "GetAllMessengers" -> Live("messengers")
    [] A(r).op = "GetAllMessengerRelatedUsers" -> ChatsListed(A(r))
    [] A(r).op = "GetAllTaskGroups" -> Filtered("groups", r)
    [] A(r).op = "GetAllDigestSettings" -> Filtered("digests", r)
    [] A(r).op = "GetAllBacklogs" -> Filtered("backlogs", r)
    [] A(r).op = "GetAllTargets"  -> Filtered("targets", r)

(* The statement finds the chats, counts the rows, or shows a page.        *)
FindsChats(r) ==
  /\ A(r).op \in ByChat /\ req[r].pc = "start"
  /\ req'[r].made = req[r].made /\ req'[r].total = req[r].total
  /\ \/ /\ A(r).key = 0
        /\ req'[r].pc = "count" /\ req'[r].out = "pending" /\ req'[r].ids = req[r].ids
     \/ A(r).key # 0 /\ req'[r].out = "ok"
     \/ /\ A(r).key # 0 /\ req'[r].ids = ChatsOfMessengerUser(A(r).key, A(r).user)
        /\ req'[r].ids # {} /\ req'[r].pc = "count" /\ req'[r].out = "pending"

CountsRows(r) ==
  /\ req[r].pc = IF A(r).op \in ByChat THEN "count" ELSE "start"
  /\ req'[r].pc = "page" /\ req'[r].out = "pending" /\ req'[r].made = req[r].made
  /\ req'[r].ids = req[r].ids /\ req'[r].total = Cardinality(ListedBy(r))

ShowsRows(r) ==
  /\ req[r].pc = "page" /\ req'[r].out = "ok" /\ req'[r].total = req[r].total
  /\ req'[r].made = Page(ListedBy(r), A(r).page)

ListDid(r) ==
  /\ db' = db
  /\ \/ FindsChats(r) \/ CountsRows(r) \/ ShowsRows(r)
     \/ req'[r].out = "internal" /\ req'[r].made = req[r].made

(* A list is about rows that are there.                                    *)
LEMMA ListedIds ==
  ASSUME NEW r, A(r).op \in Lists
  PROVE  ListedBy(r) \subseteq Id
BY DEF ListedBy, Lists, Live, ChatsListed, Filtered

(* Looking up the chats.                                                   *)
LEMMA ListFinds ==
  ASSUME Base, NEW r \in Log, A(r).op \in ByChat, req[r].pc = "start", req[r].out = "pending",
         ListsByChat(r, ChatsOfMessengerUser(A(r).key, A(r).user))
  PROVE  ListDid(r)
<1> DEFINE C == ChatsOfMessengerUser(A(r).key, A(r).user)
<1>1. req[r] \in Request /\ C \subseteq Id
  BY InLog DEF ChatsOfMessengerUser, Live
<1>2. db' = db
  BY DEF ListsByChat, Quiet
<1>3. C = ChatsOfMessengerUser(A(r).key, A(r).user) /\ ListsByChat(r, C)
  OBVIOUS
<1> HIDE DEF C
<1>4. req'[r] = IF A(r).key = 0 THEN [req[r] EXCEPT !.pc = "count"]
                ELSE IF C = {} THEN Finish(req[r], "ok")
                ELSE [req[r] EXCEPT !.pc = "count", !.ids = C]
  BY <1>1, <1>3, ListsByChatEffect
<1>5. CASE A(r).key = 0
  <2>1. req'[r] = [req[r] EXCEPT !.pc = "count"]
    BY <1>4, <1>5
  <2> QED
    BY <1>1, <1>2, <1>5, <2>1 DEF ListDid, FindsChats, Request
<1>6. CASE A(r).key # 0 /\ C = {}
  <2>1. LET f == Finish(req[r], "ok")
        IN  f.out = "ok" /\ f.made = req[r].made /\ f.total = req[r].total
    BY <1>1, FinishFields DEF Outcome
  <2>2. req'[r] = Finish(req[r], "ok")
    BY <1>4, <1>6
  <2> QED
    BY <1>2, <1>6, <2>1, <2>2 DEF ListDid, FindsChats
<1>7. CASE A(r).key # 0 /\ C # {}
  <2>1. req'[r] = [req[r] EXCEPT !.pc = "count", !.ids = C]
    BY <1>4, <1>7
  <2> QED
    BY <1>1, <1>2, <1>3, <1>7, <2>1 DEF ListDid, FindsChats, Request
<1> QED
  BY <1>5, <1>6, <1>7

(* Counting the rows.                                                      *)
LEMMA ListCounts ==
  ASSUME Base, NEW r \in Log, A(r).op \in Lists, req[r].out = "pending",
         req[r].pc = IF A(r).op \in ByChat THEN "count" ELSE "start", Counts(r, ListedBy(r))
  PROVE  ListDid(r)
<1> DEFINE S == ListedBy(r)
<1>1. req[r] \in Request /\ S \subseteq Id
  BY InLog, ListedIds
<1>2. db' = db
  BY DEF Counts, Quiet
<1>3. S = ListedBy(r) /\ Counts(r, S)
  OBVIOUS
<1> HIDE DEF S
<1>4. req'[r] = [req[r] EXCEPT !.pc = "page", !.total = Cardinality(S)]
  BY <1>1, <1>3, CountsEffect
<1>5. PICK n : n = Cardinality(S)
  OBVIOUS
<1>6. /\ req'[r].pc = "page" /\ req'[r].out = "pending" /\ req'[r].made = req[r].made
      /\ req'[r].ids = req[r].ids /\ req'[r].total = n
  BY <1>1, <1>4, <1>5 DEF Request
<1> QED
  BY <1>2, <1>3, <1>5, <1>6 DEF ListDid, CountsRows

(* Showing a page.                                                         *)
LEMMA ListShows ==
  ASSUME Base, NEW r \in Log, A(r).op \in Lists, req[r].out = "pending", req[r].pc = "page",
         ShowsPage(r, ListedBy(r))
  PROVE  ListDid(r)
<1> DEFINE S == ListedBy(r)
           P == Page(S, A(r).page)
           f == Finish(req[r], "ok")
           q == [f EXCEPT !.made = P]
<1>1. req[r] \in Request /\ S \subseteq Id
  BY InLog, ListedIds
<1>2. db' = db
  BY DEF ShowsPage, Quiet
<1>3. S = ListedBy(r) /\ ShowsPage(r, S)
  OBVIOUS
<1>4. f \in Request /\ f.out = "ok" /\ f.total = req[r].total
  BY <1>1, FinishFields DEF Outcome
<1> HIDE DEF S
<1>5. req'[r] = q
  BY <1>1, <1>3, ShowsPageEffect
<1> HIDE DEF f, P
<1>6. q.out = "ok" /\ q.total = req[r].total /\ q.made = P
  BY <1>4 DEF Request
<1> HIDE DEF q
<1> QED
  BY <1>2, <1>3, <1>5, <1>6 DEF ListDid, ShowsRows, P

(* A list that looks chats up.                                             *)
LEMMA ListByChat ==
  ASSUME Base, NEW r \in Log, A(r).op \in ByChat,
         \/ At(r, A(r).op, "start") /\ ListsByChat(r, ChatsOfMessengerUser(A(r).key, A(r).user))
         \/ At(r, A(r).op, "count") /\ Counts(r, ListedBy(r))
         \/ At(r, A(r).op, "page") /\ ShowsPage(r, ListedBy(r))
  PROVE  ListDid(r)
<1>1. A(r).op \in Lists
  BY DEF ByChat, Lists
<1> QED
  BY <1>1, ListFinds, ListCounts, ListShows DEF At

(* And one that does not.                                                  *)
LEMMA ListPlain ==
  ASSUME Base, NEW r \in Log, A(r).op \in Lists \ ByChat,
         \/ At(r, A(r).op, "start") /\ Counts(r, ListedBy(r))
         \/ At(r, A(r).op, "page") /\ ShowsPage(r, ListedBy(r))
  PROVE  ListDid(r)
BY ListCounts, ListShows DEF At

(* Every statement of a list.                                              *)
LEMMA ListStep ==
  ASSUME Inv, NEW r \in Log, Acts(r), A(r).op \in Lists, req[r].pc \in {"start", "count", "page"}
  PROVE  ListDid(r)
<1>1. Base
  BY DEF Inv
<1>2. CASE Fault(r)
  <2> DEFINE f == Finish(req[r], "internal")
             q == [f EXCEPT !.hit = "fault"]
  <2>1. StatementFails(r)
    BY <1>2 DEF Fault, TouchFails, DeleteTaskFails, DeletePublishFails, TellFails,
                BatchLineFails, At, Lists
  <2>2. req \in Seq(Request) /\ r \in DOMAIN req /\ req[r] \in Request
    BY <1>1, EntryOf
  <2>3. f \in Request /\ f.out = "internal" /\ f.made = req[r].made
    BY <1>1, <2>2, FinishFields DEF Outcome
  <2>4. req' = [req EXCEPT ![r] = q] /\ db' = db
    BY <2>1 DEF StatementFails
  <2> HIDE DEF f
  <2>5. q.out = "internal" /\ q.made = f.made
    BY <2>3 DEF Request
  <2> HIDE DEF q
  <2> QED
    BY <2>2, <2>3, <2>4, <2>5 DEF ListDid
<1>3. CASE Step(r)
  <2>1. \/ GetAllUsers(r) \/ GetAllMessengers(r) \/ GetAllMessengerRelatedUsers(r)
        \/ GetAllTaskGroups(r) \/ GetAllDigestSettings(r) \/ GetAllBacklogs(r) \/ GetAllTargets(r)
    BY <1>3, StepIsOf DEF StepOf, Lists, Views
  <2>2. CASE GetAllUsers(r)
    <3>1. A(r).op \in Lists \ ByChat /\ ListedBy(r) = Live("users")
      BY <2>2 DEF GetAllUsers, At, ByChat, Lists, ListedBy
    <3> QED
      BY <1>1, <2>2, <3>1, ListPlain DEF GetAllUsers, At
  <2>3. CASE GetAllMessengers(r)
    <3>1. A(r).op \in Lists \ ByChat /\ ListedBy(r) = Live("messengers")
      BY <2>3 DEF GetAllMessengers, At, ByChat, Lists, ListedBy
    <3> QED
      BY <1>1, <2>3, <3>1, ListPlain DEF GetAllMessengers, At
  <2>4. CASE GetAllMessengerRelatedUsers(r)
    <3>1. A(r).op \in Lists \ ByChat /\ ListedBy(r) = ChatsListed(A(r))
      BY <2>4 DEF GetAllMessengerRelatedUsers, At, ByChat, Lists, ListedBy
    <3> QED
      BY <1>1, <2>4, <3>1, ListPlain DEF GetAllMessengerRelatedUsers, At
  <2>5. CASE GetAllTaskGroups(r)
    <3>1. A(r).op \in Lists \ ByChat /\ ListedBy(r) = GroupsListed(r)
      BY <2>5 DEF GetAllTaskGroups, At, ByChat, Lists, ListedBy, GroupsListed
    <3> QED
      BY <1>1, <2>5, <3>1, ListPlain DEF GetAllTaskGroups, At
  <2>6. CASE GetAllDigestSettings(r)
    <3>1. A(r).op \in ByChat /\ ListedBy(r) = Filtered("digests", r)
      BY <2>6 DEF GetAllDigestSettings, At, ByChat, ListedBy
    <3> QED
      BY <1>1, <2>6, <3>1, ListByChat DEF GetAllDigestSettings, At
  <2>7. CASE GetAllBacklogs(r)
    <3>1. A(r).op \in ByChat /\ ListedBy(r) = BacklogsListed(r)
      BY <2>7 DEF GetAllBacklogs, At, ByChat, ListedBy, BacklogsListed
    <3> QED
      BY <1>1, <2>7, <3>1, ListByChat DEF GetAllBacklogs, At
  <2>8. CASE GetAllTargets(r)
    <3>1. A(r).op \in ByChat /\ ListedBy(r) = TargetsListed(r)
      BY <2>8 DEF GetAllTargets, At, ByChat, ListedBy, TargetsListed
    <3> QED
      BY <1>1, <2>8, <3>1, ListByChat DEF GetAllTargets, At
  <2> QED
    BY <2>1, <2>2, <2>3, <2>4, <2>5, <2>6, <2>7, <2>8
<1> QED
  BY <1>2, <1>3 DEF Acts
-----------------------------------------------------------------------------
(* The messenger user a list of notes is for, by the chats it filters on.  *)
NoteTable(op) == IF op = "GetAllBacklogs" THEN "backlogs" ELSE "targets"

ChatOfKey(c, key) == /\ c \in Id /\ db["chats"][c].st # "none" /\ db["chats"][c].key = key

NoteOfKey(t, i, key) == /\ i \in Id /\ db[t][i].st # "none" /\ ChatOfKey(db[t][i].chat, key)

(* A filter that found no chat never gets to the statements of the list.   *)
FilterOK(r) ==
  A(r).op \in {"GetAllBacklogs", "GetAllTargets"} /\ A(r).key # 0 =>
    /\ req[r].out = "pending" /\ req[r].pc \in {"count", "page"} =>
         req[r].ids # {} /\ \A c \in req[r].ids : ChatOfKey(c, A(r).key)
    /\ \A i \in req[r].made : NoteOfKey(NoteTable(A(r).op), i, A(r).key)

(* Nothing was written beside a list.                                      *)
Alone(r) == \A q \in Log : q # r /\ Overlapped(q, r) => ~ req[q].wrote

(* Between count and page the rows stay as many, and a page shows its part.*)
CountOK(r) ==
  A(r).op \in Lists =>
    /\ req[r].out = "pending" => req[r].made = {} /\ req[r].pc \in {"start", "count", "page"}
    /\ req[r].out = "pending" /\ req[r].pc = "start" => req[r].total = 0
    /\ req[r].out = "pending" /\ req[r].pc = "page" /\ Alone(r)
         => req[r].total = Cardinality(ListedBy(r))
    /\ req[r].out = "ok" /\ Alone(r)
         => Cardinality(req[r].made) = OnPage(req[r].total, A(r).page)

(* The user is deleted after the chats, so that the request has written.   *)
LastWrote(r) == At(r, "DeleteUser", "delete") => req[r].wrote

ListInv == Inv /\ \A r \in Log : FilterOK(r) /\ CountOK(r) /\ LastWrote(r)

(* Chats and notes that are there stay, and keep what a list looks at.     *)
LEMMA NotesStay ==
  ASSUME Inv, NEW r \in Log, Acts(r), NEW key
  PROVE  /\ \A c : ChatOfKey(c, key) => ChatOfKey(c, key)'
         /\ \A t \in {"backlogs", "targets"} : \A i : NoteOfKey(t, i, key) => NoteOfKey(t, i, key)'
<1>1. PICK T : T = TablesOf(A(r).op)
  OBVIOUS
<1>2. Base /\ Effect(r, T)
  BY <1>1, ActsEffect
<1>3. \A t \in Table, i \in Id : /\ db[t][i] \in Row /\ db'[t][i] \in Row
                                 /\ RowStep(r, t, db[t][i], db'[t][i])
  BY <1>2 DEF Effect, Base, ApiTypeOK
<1>4. \A t \in Table, i \in Id :
        db[t][i].st # "none" => db'[t][i].st # "none" /\ SameRow(t, db[t][i], db'[t][i])
  BY <1>3, RowKept
<1>5. \A c : ChatOfKey(c, key) => ChatOfKey(c, key)'
  BY <1>4 DEF ChatOfKey, SameRow, Table
<1>6. \A t \in {"backlogs", "targets"} : \A i \in Id :
        db[t][i].st # "none" => db'[t][i].st # "none" /\ db'[t][i].chat = db[t][i].chat
  BY <1>4 DEF SameRow, Table
<1>7. \A t \in {"backlogs", "targets"} : \A i : NoteOfKey(t, i, key) => NoteOfKey(t, i, key)'
  BY <1>5, <1>6 DEF NoteOfKey
<1> QED
  BY <1>5, <1>7

(* A list is about the same rows after a statement that writes nothing.    *)
LEMMA ListedSame ==
  ASSUME Base, Spared, NEW r \in Log, req'[r].ids = req[r].ids, req'[r].ask = req[r].ask,
         A(r).op \in Lists
  PROVE  ListedBy(r)' = ListedBy(r)
<1>1. \A t \in Table, i \in Id :
        /\ db'[t][i].st = db[t][i].st /\ db'[t][i].user = db[t][i].user
        /\ db'[t][i].chat = db[t][i].chat
        /\ t # "users" => db'[t][i].key = db[t][i].key
  BY DEF Spared, Seen
<1>2. A(r)' = A(r)
  BY DEF A
<1>3. \A t \in Table : Live(t)' = Live(t)
  BY <1>1 DEF Live
<1>4. ChatsListed(A(r))' = ChatsListed(A(r))
  BY <1>1, <1>2, <1>3 DEF ChatsListed, Table, Live
<1>5. \A t \in Table : Filtered(t, r)' = Filtered(t, r)
  BY <1>1, <1>2, <1>3 DEF Filtered, Live
<1> QED
  BY <1>2, <1>3, <1>4, <1>5 DEF ListedBy, Table, Lists

(* Whether something was written beside a list is never taken back; and    *)
(* another request that writes while the list runs is beside it.           *)
LEMMA AloneActs ==
  ASSUME ListInv, NEW q \in Log, Acts(q), NEW r \in Log, Alone(r)'
  PROVE  /\ Alone(r)
         /\ q # r /\ req[r].out = "pending" => Spared
<1>1. Inv /\ Base /\ LastWrote(q)
  BY DEF ListInv, Inv
<1>2. Recorded(q)
  BY <1>1, ActsRecorded DEF LastWrote
<1>3. /\ Log' = Log /\ req[q].out = "pending"
      /\ \A s \in Log : s # q => req'[s] = req[s]
  BY <1>1, ActsEffect
<1>4. \A s \in Log : req[s].wrote => req'[s].wrote
  BY <1>2, <1>3 DEF Recorded
<1>5. \A s \in Log : Overlapped(s, r)' <=> Overlapped(s, r)
  BY <1>1, OverlapFixed
<1>6. Alone(r)
  BY <1>3, <1>4, <1>5 DEF Alone
<1>7. ASSUME q # r, req[r].out = "pending" PROVE Spared
  <2>1. Overlapped(q, r)
    BY <1>1, <1>3, <1>7, BothInFlight
  <2>2. ~ req'[q].wrote
    BY <1>3, <1>5, <1>7, <2>1 DEF Alone
  <2> QED
    BY <1>2, <2>2 DEF Recorded
<1> QED
  BY <1>6, <1>7

(* The statements of the list itself.                                      *)
LEMMA FilterOwn ==
  ASSUME ListInv, NEW r \in Log, Acts(r)
  PROVE  FilterOK(r)'
<1> SUFFICES ASSUME A(r)'.op \in {"GetAllBacklogs", "GetAllTargets"}, A(r)'.key # 0
             PROVE  FilterOK(r)'
  BY DEF FilterOK
<1>1. Inv /\ FilterOK(r) /\ CountOK(r)
  BY DEF ListInv
<1>2. A(r)' = A(r) /\ req[r].out = "pending"
  BY <1>1, ActsEffect DEF A
<1> DEFINE key == A(r).key
           t == NoteTable(A(r).op)
<1>3. /\ A(r).op \in {"GetAllBacklogs", "GetAllTargets"} /\ key # 0 /\ A(r).op \in Lists
      /\ A(r).op \in ByChat /\ t \in {"backlogs", "targets"} /\ ListedBy(r) = Filtered(t, r)
  BY <1>2 DEF Lists, ByChat, NoteTable, ListedBy
<1>4. ListDid(r)
  BY <1>1, <1>2, <1>3, ListStep DEF CountOK
<1>5. req[r].made = {} /\ req[r].pc \in {"start", "count", "page"}
  BY <1>1, <1>2, <1>3 DEF CountOK
<1>6. req[r].pc \in {"count", "page"} =>
        req[r].ids # {} /\ \A c \in req[r].ids : ChatOfKey(c, key)
  BY <1>1, <1>2, <1>3 DEF FilterOK
<1>7. /\ \A c : ChatOfKey(c, key)' <=> ChatOfKey(c, key)
      /\ \A i : NoteOfKey(t, i, key)' <=> NoteOfKey(t, i, key)
  BY <1>2, <1>4 DEF ListDid, ChatOfKey, NoteOfKey, NoteTable
<1> HIDE DEF key, t
<1>8. SUFFICES /\ req'[r].out = "pending" /\ req'[r].pc \in {"count", "page"} =>
                    req'[r].ids # {} /\ \A c \in req'[r].ids : ChatOfKey(c, key)
               /\ \A i \in req'[r].made : NoteOfKey(t, i, key)
  BY <1>2, <1>7 DEF FilterOK, key, t
<1>9. CASE FindsChats(r)
  <2>1. req'[r].made = {}
    BY <1>5, <1>9 DEF FindsChats
  <2>2. req'[r].out = "pending" => req'[r].ids = ChatsOfMessengerUser(key, A(r).user) /\ req'[r].ids # {}
    BY <1>3, <1>9 DEF FindsChats, key
  <2>3. \A c \in ChatsOfMessengerUser(key, A(r).user) : ChatOfKey(c, key)
    BY DEF ChatsOfMessengerUser, ChatOfKey, Live
  <2> QED
    BY <2>1, <2>2, <2>3
<1>10. CASE CountsRows(r)
  BY <1>3, <1>5, <1>6, <1>10 DEF CountsRows
<1>11. CASE ShowsRows(r)
  <2>1. req'[r].made \subseteq Filtered(t, r)
    BY <1>3, <1>11 DEF ShowsRows, Page
  <2>2. req[r].ids # {} /\ \A c \in req[r].ids : ChatOfKey(c, key)
    BY <1>6, <1>11 DEF ShowsRows
  <2>3. \A i \in Filtered(t, r) : NoteOfKey(t, i, key)
    BY <2>2 DEF Filtered, Live, NoteOfKey
  <2> QED
    BY <1>11, <2>1, <2>3 DEF ShowsRows
<1>12. CASE req'[r].out = "internal" /\ req'[r].made = req[r].made
  BY <1>5, <1>12
<1> QED
  BY <1>4, <1>9, <1>10, <1>11, <1>12 DEF ListDid

(* What the list counts is what it shows.                                  *)
LEMMA CountOwn ==
  ASSUME ListInv, NEW r \in Log, Acts(r)
  PROVE  CountOK(r)'
<1> SUFFICES ASSUME A(r)'.op \in Lists PROVE CountOK(r)'
  BY DEF CountOK
<1>1. Inv /\ Base /\ CountOK(r)
  BY DEF ListInv, Inv
<1>2. A(r)' = A(r) /\ req'[r].ask = req[r].ask /\ req[r].out = "pending" /\ A(r).op \in Lists
  BY <1>1, ActsEffect DEF A
<1>3. /\ req[r].made = {} /\ req[r].pc \in {"start", "count", "page"}
      /\ req[r].pc = "start" => req[r].total = 0
      /\ req[r].pc = "page" /\ Alone(r) => req[r].total = Cardinality(ListedBy(r))
  BY <1>1, <1>2 DEF CountOK
<1>4. ListDid(r)
  BY <1>1, <1>2, <1>3, ListStep
<1>5. A(r).page \in Nat \ {0} /\ ListedBy(r) \subseteq Id
  BY <1>1, <1>2, InLog, ListedIds DEF Ask
<1>6. CASE FindsChats(r)
  <2>1. Cardinality({}) = OnPage(0, A(r).page)
    BY <1>5, FS_EmptySet DEF OnPage, PageSize
  <2> QED
    BY <1>2, <1>3, <1>6, <2>1 DEF FindsChats, CountOK
<1>7. CASE CountsRows(r)
  <2>1. Spared
    BY <1>4 DEF ListDid, Spared
  <2>2. ListedBy(r)' = ListedBy(r)
    BY <1>1, <1>2, <1>7, <2>1, ListedSame DEF CountsRows
  <2>3. /\ req'[r].out = "pending" /\ req'[r].pc = "page" /\ req'[r].made = {}
        /\ req'[r].total = Cardinality(ListedBy(r))
    BY <1>3, <1>7 DEF CountsRows
  <2> QED
    BY <2>2, <2>3 DEF CountOK
<1>8. CASE ShowsRows(r)
  <2>1. Alone(r)' => Alone(r)
    BY AloneActs
  <2>2. Cardinality(Page(ListedBy(r), A(r).page)) = OnPage(Cardinality(ListedBy(r)), A(r).page)
    BY <1>5, PageCounts
  <2>3. req'[r].out = "ok" /\ req'[r].total = req[r].total /\ req[r].pc = "page"
        /\ req'[r].made = Page(ListedBy(r), A(r).page)
    BY <1>8 DEF ShowsRows
  <2>4. Alone(r) => Cardinality(req'[r].made) = OnPage(req'[r].total, A(r).page)
    BY <1>3, <2>2, <2>3
  <2> QED
    BY <1>2, <2>1, <2>3, <2>4 DEF CountOK
<1>9. CASE req'[r].out = "internal"
  BY <1>9 DEF CountOK
<1> QED
  BY <1>4, <1>6, <1>7, <1>8, <1>9 DEF ListDid

(* A request begins with nothing counted.                                  *)
LEMMA ArriveTotal ==
  ASSUME Base, NEW a \in Sc.asks, Arrive(a)
  PROVE  req'[Len(req) + 1].total = 0
<1> DEFINE q == NewRequest(a)
           f == Finish(q, "validation")
           b == [f EXCEPT !.ended = Len(req) + 1]
<1>1. a \in Ask /\ req \in Seq(Request)
  BY ArriveLog DEF Base, ApiTypeOK
<1>2. q \in Request /\ q.total = 0
  BY <1>1 DEF NewRequest, Request, Outcome, NoRow, Row, Pc, AnyId, NoId
<1> HIDE DEF q
<1>3. f \in Request /\ f.total = 0
  BY <1>2, FinishFields DEF Outcome
<1> HIDE DEF f
<1>4. b.total = 0
  BY <1>3 DEF Request
<1>5. req' = Append(req, IF a.bad THEN b ELSE q)
  BY DEF Arrive, f, q
<1> HIDE DEF b
<1>6. \A x : Append(req, x)[Len(req) + 1] = x
  BY <1>1, LenProperties
<1> QED
  BY <1>2, <1>4, <1>5, <1>6

(* The last statement of a deletion comes after one that wrote.            *)
LEMMA LastWroteOwn ==
  ASSUME ListInv, NEW r \in Log, Acts(r)
  PROVE  LastWrote(r)'
<1> SUFFICES ASSUME A(r)'.op = "DeleteUser", req'[r].pc = "delete", req'[r].out = "pending"
             PROVE  req'[r].wrote
  BY DEF LastWrote, At
<1>1. Inv /\ Base
  BY DEF ListInv, Inv
<1>2. A(r).op = "DeleteUser"
  BY <1>1, ActsEffect DEF A
<1>3. req[r].pc = "chats" /\ req'[r].hit = req[r].hit
  BY <1>1, <1>2, UserDeletion DEF DeletionStep, Took, Ends, Goes
<1>4. req \in Seq(Request) /\ r \in DOMAIN req /\ req[r] \in Request
  BY <1>1, EntryOf
<1>5. CASE Fault(r)
  BY <1>1, <1>2, <1>3, <1>5, FaultBreaks DEF Breaks
<1>6. CASE Step(r)
  <2>1. DeleteUser(r)
    BY <1>2, <1>6, StepIsOf DEF StepOf, Lists, Views
  <2>2. req' = [req EXCEPT ![r].pc = "delete", ![r].wrote = TRUE]
    BY <1>3, <2>1 DEF DeleteUser, DeletesTask, At
  <2>3. req'[r] = [req[r] EXCEPT !.pc = "delete", !.wrote = TRUE]
    BY <1>4, <2>2
  <2> QED
    BY <1>4, <2>3 DEF Request
<1> QED
  BY <1>5, <1>6 DEF Acts

(* A statement of another request.                                         *)
LEMMA ListOther ==
  ASSUME ListInv, NEW q \in Log, Acts(q), NEW r \in Log, r # q
  PROVE  FilterOK(r)' /\ CountOK(r)' /\ LastWrote(r)'
<1>1. Inv /\ Base /\ FilterOK(r) /\ CountOK(r) /\ LastWrote(r)
  BY DEF ListInv, Inv
<1>2. req'[r] = req[r] /\ A(r)' = A(r)
  BY <1>1, ActsEffect DEF A
<1>3. LastWrote(r)'
  BY <1>1, <1>2 DEF LastWrote, At
<1>4. FilterOK(r)'
  <2>1. PICK key : key = A(r).key
    OBVIOUS
  <2>2. /\ \A c : ChatOfKey(c, key) => ChatOfKey(c, key)'
        /\ \A t \in {"backlogs", "targets"} : \A i : NoteOfKey(t, i, key) => NoteOfKey(t, i, key)'
    BY <1>1, NotesStay
  <2>3. NoteTable(A(r).op) \in {"backlogs", "targets"}
    BY DEF NoteTable
  <2> QED
    BY <1>1, <1>2, <2>1, <2>2, <2>3 DEF FilterOK
<1>5. CountOK(r)'
  <2> SUFFICES ASSUME A(r).op \in Lists
               PROVE  CountOK(r)'
    BY <1>2 DEF CountOK
  <2>1. Alone(r)' => Alone(r) /\ (req[r].out = "pending" => Spared)
    BY AloneActs
  <2>2. Spared => ListedBy(r)' = ListedBy(r)
    BY <1>1, <1>2, ListedSame
  <2> QED
    BY <1>1, <1>2, <2>1, <2>2 DEF CountOK
<1> QED
  BY <1>3, <1>4, <1>5

(* A request that arrives.                                                 *)
LEMMA ListArrive ==
  ASSUME ListInv, NEW a \in Sc.asks, Arrive(a)
  PROVE  ListInv'
<1>1. Inv /\ Base
  BY DEF ListInv, Inv
<1>2. PICK n : n = Len(req) + 1
  OBVIOUS
<1>3. /\ Log' = Log \cup {n} /\ n \notin Log /\ \A s \in Log : req'[s] = req[s]
      /\ db' = db
  BY <1>1, <1>2, ArriveEffect
<1>4. /\ req'[n].made = {} /\ req'[n].total = 0
      /\ req'[n].out = "validation" \/ (req'[n].out = "pending" /\ req'[n].pc = "start")
  BY <1>1, <1>2, ArriveLog, ArriveTotal
<1>5. \A s \in Log : A(s)' = A(s)
  BY <1>3 DEF A
<1>6. \A p, s \in Log : Overlapped(p, s)' <=> Overlapped(p, s)
  BY <1>1, BeforeArrived DEF Overlapped
<1>7. \A s \in Log : Alone(s)' => Alone(s)
  BY <1>3, <1>6 DEF Alone
<1>8. ASSUME NEW s \in Log
      PROVE  FilterOK(s)' /\ CountOK(s)' /\ LastWrote(s)'
  <2>1. FilterOK(s) /\ CountOK(s) /\ LastWrote(s) /\ req'[s] = req[s] /\ A(s)' = A(s)
    BY <1>3, <1>5 DEF ListInv
  <2>2. LastWrote(s)'
    BY <2>1 DEF LastWrote, At
  <2>3. FilterOK(s)'
    BY <1>3, <2>1 DEF FilterOK, NoteOfKey, ChatOfKey
  <2>4. CountOK(s)'
    <3> SUFFICES ASSUME A(s).op \in Lists PROVE CountOK(s)'
      BY <2>1 DEF CountOK
    <3>1. ListedBy(s)' = ListedBy(s)
      BY <1>1, <1>3, <2>1, ListedSame DEF Spared, A
    <3> QED
      BY <1>7, <2>1, <3>1 DEF CountOK
  <2> QED
    BY <2>2, <2>3, <2>4
<1>9. FilterOK(n)' /\ CountOK(n)' /\ LastWrote(n)'
  BY <1>4 DEF FilterOK, CountOK, LastWrote, At
<1>10. Inv'
  BY <1>1, ArriveInv
<1> QED
  BY <1>3, <1>8, <1>9, <1>10 DEF ListInv

(* Any statement.                                                          *)
LEMMA ListActs ==
  ASSUME ListInv, NEW q \in Log, Acts(q)
  PROVE  \A r \in Log : FilterOK(r)' /\ CountOK(r)' /\ LastWrote(r)'
BY FilterOwn, CountOwn, LastWroteOwn, ListOther

(* A step that changes nothing.                                            *)
LEMMA ListStill ==
  ASSUME ListInv, UNCHANGED vars
  PROVE  \A r \in Log : FilterOK(r)' /\ CountOK(r)' /\ LastWrote(r)'
<1>1. Inv /\ Base
  BY DEF ListInv, Inv
<1>2. db' = db /\ req' = req /\ Log' = Log
  BY DEF vars, Log
<1>3. \A r \in Log : Alone(r)' <=> Alone(r)
  BY <1>2 DEF Alone, Overlapped, Before
<1>4. ASSUME NEW r \in Log PROVE FilterOK(r)' /\ CountOK(r)' /\ LastWrote(r)'
  <2>1. FilterOK(r) /\ CountOK(r) /\ LastWrote(r) /\ A(r)' = A(r)
    BY <1>2 DEF ListInv, A
  <2>2. FilterOK(r)' /\ LastWrote(r)'
    BY <1>2, <2>1 DEF FilterOK, NoteOfKey, ChatOfKey, LastWrote, At
  <2>3. A(r).op \in Lists => ListedBy(r)' = ListedBy(r)
    BY <1>1, <1>2, ListedSame DEF Spared
  <2>4. CountOK(r)'
    BY <1>2, <1>3, <2>1, <2>3 DEF CountOK
  <2> QED
    BY <2>2, <2>4
<1> QED
  BY <1>4

(* A list shows what it says it shows: notes of the messenger user that    *)
(* was asked for only, also when there is no chat of the name; and as many *)
(* rows as the number that comes with them leaves to the page, unless a    *)
(* request wrote beside the list, which counts in one statement and shows  *)
(* in another.                                                             *)
THEOREM ListsAgreeCorrect == Spec => []ListsAgree
<1>1. Init => ListInv
  <2>1. Init => Log = {}
    BY DEF Init, Log
  <2> QED
    BY <2>1, InitInv DEF ListInv
<1>2. ListInv /\ [Next]_vars => ListInv'
  <2> SUFFICES ASSUME ListInv, [Next]_vars PROVE ListInv'
    OBVIOUS
  <2>1. CASE \E a \in Sc.asks : Arrive(a)
    BY <2>1, ListArrive
  <2>2. CASE \E r \in Log : Acts(r)
    <3>1. Inv' /\ Log' = Log
      BY <2>2, InvStep, ActsEffect DEF ListInv
    <3> QED
      BY <2>2, <3>1, ListActs DEF ListInv
  <2>3. CASE UNCHANGED vars
    <3>1. Inv' /\ Log' = Log
      BY <2>3, InvStep DEF ListInv, vars, Log
    <3> QED
      BY <2>3, <3>1, ListStill DEF ListInv
  <2> QED
    BY <2>1, <2>2, <2>3, NextActs
<1>3. ListInv => FilterNeverWidens
  <2> SUFFICES ASSUME ListInv, NEW r \in Log, NEW t \in {"backlogs", "targets"},
                      A(r).op = (IF t = "backlogs" THEN "GetAllBacklogs" ELSE "GetAllTargets"),
                      A(r).key # 0, NEW i \in req[r].made
               PROVE  /\ db[t][i].chat # NoId
                      /\ db["chats"][db[t][i].chat].key = A(r).key
    BY DEF FilterNeverWidens
  <2>1. NoteOfKey(t, i, A(r).key)
    BY DEF ListInv, FilterOK, NoteTable
  <2> QED
    BY <2>1, ApiAssumption DEF NoteOfKey, ChatOfKey, NoId, Id
<1>4. ListInv => PageAgreesWithCount
  BY DEF ListInv, CountOK, PageAgreesWithCount, Alone
<1> QED
  BY <1>1, <1>2, <1>3, <1>4, PTL DEF Spec, ListsAgree
=============================================================================
