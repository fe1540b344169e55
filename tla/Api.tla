--------------------------------- MODULE Api ---------------------------------
(***************************************************************************)
(* The HTTP API but the tasks: every request of Users, Messengers, Groups, *)
(* Digests and Notes, side by side on one database.  Of the task service   *)
(* only the two requests are here that reach what the deletion of a user   *)
(* removes; TaskService.tla has the others.                                *)
(***************************************************************************)
EXTENDS Users, Groups, Digests, Notes

\* TaskService.CreateTask as far as users and chats go.
CreateTask(r) ==
  \/ ChecksOwner(r, "CreateTask", "insert")
  \/ /\ At(r, "CreateTask", "insert")
     /\ Inserts(r, "tasks", [NewNote(r) EXCEPT !.done = A(r).done], FALSE, "touch")
  \/ A(r).op = "CreateTask" /\ Touch(r, A(r).user)

\* TaskService.QueueTask: read the task, find its messenger, publish.
QueueTask(r) ==
  \/ At(r, "QueueTask", "start") /\ Reads(r, "tasks", "messenger")
  \/ /\ At(r, "QueueTask", "messenger")
     /\ Requires(r, HasChat(req[r].copy.chat), "unprocessable", "queue")
  \/ /\ At(r, "QueueTask", "queue")
     /\ armed' = armed \cup {A(r).id}
     /\ Answer(r, "ok")
     /\ UNCHANGED <<db, told, scene, failed>>

\* A client sends a request; the handler turns a malformed one down.
NewRequest(a) ==
  [ask |-> a, pc |-> "start", copy |-> NoRow, ids |-> {}, item |-> NoId,
   total |-> 0, stamp |-> 0, out |-> "pending", made |-> {}, ended |-> 0,
   wrote |-> FALSE, hit |-> "no"]

Arrive(a) ==
  /\ Len(req) < Sc.count /\ Cardinality(InFlight) < Sc.width
  /\ req' = Append(req,
              IF a.bad THEN [Finish(NewRequest(a), "validation") EXCEPT !.ended = Len(req) + 1]
              ELSE NewRequest(a))
  /\ UNCHANGED <<db, armed, told, scene, failed>>

\* Reading and writing fail like this everywhere else: the error goes up.
Survives(r) ==
  \/ req[r].pc \in {"touch", "publish", "end", "queue"}
  \/ A(r).op = "DeleteUser" /\ req[r].pc \in {"remove", "name"}
  \/ A(r).op = "CreateBacklogsBatch" /\ req[r].pc = "lines"

StatementFails(r) ==
  /\ r \in InFlight /\ ~ Survives(r)
  /\ req' = [req EXCEPT ![r] = [Finish(@, "internal") EXCEPT !.hit = "fault"]]
  /\ Fails(r, "db") /\ UNCHANGED db

\* The time a user was seen is lost.
TouchFails(r) ==
  /\ r \in InFlight /\ req[r].pc = "touch"
  /\ Answer(r, "ok")
  /\ Fails(r, "db") /\ UNCHANGED db

Fault(r) ==
  \/ StatementFails(r) \/ TouchFails(r) \/ DeleteTaskFails(r)
  \/ DeletePublishFails(r) \/ TellFails(r) \/ BatchLineFails(r)

Step(r) ==
  \/ UserStep(r) \/ MessengerStep(r) \/ GroupStep(r) \/ DigestStep(r)
  \/ NoteStep(r) \/ CreateTask(r) \/ QueueTask(r)

Init ==
  /\ scene \in DOMAIN Scenario
  /\ db = Scenario[scene].start
  /\ armed = {t \in Live("tasks") : db["tasks"][t].chat # NoId}
  /\ told = [k \in Id \X AnyId |->
               IF DigestsOf(k[1], k[2]) = {} THEN NotTold ELSE 0]
  /\ req = <<>>
  /\ failed = 0

Next == \/ \E a \in Sc.asks : Arrive(a)
        \/ \E r \in Log : Step(r) \/ Fault(r)

Spec == Init /\ [][Next]_vars
-----------------------------------------------------------------------------
(* The routes: the handler of a request.                                   *)

Handler(op, out) ==
  CASE op = "CreateUser"  -> CreateUserHandler(out)
    [] op = "GetUser"     -> GetUserHandler(out)
    [] op = "UpdateUser"  -> UpdateUserHandler(out)
    [] op = "DeleteUser"  -> DeleteUserHandler(out)
    [] op = "GetAllUsers" -> GetAllUsersHandler(out)
    [] op = "GetRecentUserActivity" -> GetRecentUserActivityHandler(out)
    [] op = "CreateMessenger"      -> CreateMessengerHandler(out)
    [] op = "GetMessenger"         -> GetMessengerHandler(out)
    [] op = "GetMessengerIDByName" -> GetMessengerIDByNameHandler(out)
    [] op = "CreateMessengerRelatedUser"  -> CreateMessengerRelatedUserHandler(out)
    [] op = "GetMessengerRelatedUser"     -> GetMessengerRelatedUserHandler(out)
    [] op = "GetUserID"                   -> GetUserIDHandler(out)
    [] op = "GetAllMessengers"            -> GetAllMessengersHandler(out)
    [] op = "GetAllMessengerRelatedUsers" -> GetAllMessengerRelatedUsersHandler(out)
    [] op = "CreateTaskGroup"  -> CreateTaskGroupHandler(out)
    [] op = "GetTaskGroupByID" -> GetTaskGroupHandler(out)
    [] op = "GetAllTaskGroups" -> GetAllTaskGroupsHandler(out)
    [] op = "UpdateTaskGroup"  -> UpdateTaskGroupHandler(out)
    [] op = "DeleteTaskGroup"  -> DeleteTaskGroupHandler(out)
    [] op = "CreateBinding" -> BindingHandler(201, out)
    [] op = "ListBindings"  -> BindingHandler(200, out)
    [] op = "DeleteBinding" -> BindingHandler(204, out)
    [] op = "CreateDigestSettings" -> CreateDigestSettingsHandler(out)
    [] op = "GetDigestSettings"    -> GetDigestSettingsHandler(out)
    [] op = "UpdateDigestSettings" -> UpdateDigestSettingsHandler(out)
    [] op = "DeleteDigestSettings" -> DeleteDigestSettingsHandler(out)
    [] op = "GetAllDigestSettings" -> GetAllDigestSettingsHandler(out)
    [] op = "GetDigest"            -> GetDigestHandler(out)
    [] op = "CreateBacklog"        -> CreateBacklogHandler(out)
    [] op = "CreateBacklogsBatch"  -> CreateBacklogsBatchHandler(out)
    [] op = "GetBacklogByID"       -> GetBacklogHandler(out)
    [] op = "GetAllBacklogs"       -> GetAllBacklogsHandler(out)
    [] op = "UpdateBacklog"        -> UpdateBacklogHandler(out)
    [] op = "DeleteBacklog"        -> DeleteBacklogHandler(out)
    [] op = "CreateTarget"         -> CreateTargetHandler(out)
    [] op = "GetTargetByID"        -> GetTargetHandler(out)
    [] op = "GetAllTargets"        -> GetAllTargetsHandler(out)
    [] op = "UpdateTarget"         -> UpdateTargetHandler(out)
    [] op = "DeleteTarget"         -> DeleteTargetHandler(out)
    [] op \in {"CreateTask", "QueueTask"} ->
         Status(200, {"validation", "notfound", "unprocessable"}, out)

\* The answer to a request; a malformed one never reaches the service.
StatusOf(r) == IF A(r).bad THEN 400 ELSE Handler(A(r).op, req[r].out)
=============================================================================
