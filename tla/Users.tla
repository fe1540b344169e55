-------------------------------- MODULE Users --------------------------------
(***************************************************************************)
(* Users: UserRepository, UserService, UserHandler and the activity        *)
(* tracker.  Deleting a user is a sequence of statements over the tasks,   *)
(* the chats and the user, with a message to the worker for every task; it *)
(* is not a transaction.                                                   *)
(***************************************************************************)
EXTENDS ApiCore

\* The repository: statements on the table of users.
HasUser(u)           == u \in Live("users")
GetUserByID(r, pc)   == Reads(r, "users", pc)
CountActiveUsers     == Cardinality(Live("users"))
InsertUser(r)        == Inserts(r, "users", NoRow, FALSE, "touch")

\* The columns of the request replace those of the copy; last_activity_at is
\* not one of them.
UpdateUserRow(r) ==
  Updates(r, "users", [req[r].copy EXCEPT !.key = db["users"][A(r).id].key], "touch")

\* Soft deletion; how many rows it finds is not looked at.
DeleteUserRow(r) ==
  db' = IF HasUser(A(r).id) THEN [db EXCEPT !["users"][A(r).id] = Dead(@, r)] ELSE db

\* At most limit users, those seen last first.
SeenUsers == {u \in Live("users") : db["users"][u].key > 0}

ListRecentActivity(limit) ==
  {u \in SeenUsers :
     Cardinality({v \in SeenUsers : db["users"][v].key > db["users"][u].key}) < limit}
-----------------------------------------------------------------------------
(* The service, one disjunct per statement.                                *)

(* Slip: one user more. *)
LimitPassed == MaxUsers > 0 /\ CountActiveUsers > MaxUsers

LimitReached == MaxUsers > 0 /\ CountActiveUsers >= MaxUsers

CreateUser(r) ==
  \/ /\ At(r, "CreateUser", "start")
     /\ IF A(r).blank THEN Answer(r, "internal")
        ELSE IF LimitReached THEN Answer(r, "conflict") ELSE Go(r, "insert")
     /\ Quiet
  \/ At(r, "CreateUser", "insert") /\ InsertUser(r)
  \/ A(r).op = "CreateUser" /\ \E u \in req[r].made : Touch(r, u)

GetUser(r) == At(r, "GetUser", "start") /\ Shows(r, "users")

UpdateUser(r) ==
  \/ At(r, "UpdateUser", "start") /\ GetUserByID(r, "write")
  \/ At(r, "UpdateUser", "write") /\ UpdateUserRow(r)
  \/ A(r).op = "UpdateUser" /\ Touch(r, A(r).id)

\* The tasks of a user but the recurring parents.
GetTasksByUserID(u) ==
  {t \in Live("tasks") : db["tasks"][t].user = u /\ ~ db["tasks"][t].done}

DeleteTaskRow(t, r) ==
  IF t \in Live("tasks") THEN [db EXCEPT !["tasks"][t] = Dead(@, r)] ELSE db

\* The messenger of a task, unless its chat is gone.
HasMessengerName(t) == db["tasks"][t].chat \in Live("chats")

\* One task after the other is deleted and taken off the worker; an error of
\* the deletion is only recorded, and without a messenger nothing is published.
DeletesTask(r) ==
  \/ /\ At(r, "DeleteUser", "remove") /\ req[r].ids = {}
     /\ Go(r, "chats") /\ Quiet
  \/ /\ At(r, "DeleteUser", "remove")
     /\ \E t \in req[r].ids :
          /\ db' = DeleteTaskRow(t, r)
          /\ req' = [req EXCEPT ![r].pc = "name", ![r].item = t, ![r].ids = @ \ {t},
                                ![r].wrote = TRUE]
     /\ Aside
  \/ /\ At(r, "DeleteUser", "name")
     /\ Go(r, IF HasMessengerName(req[r].item) THEN "publish" ELSE "remove")
     /\ Quiet
  \/ /\ At(r, "DeleteUser", "publish")
     /\ armed' = armed \ {req[r].item}
     /\ Go(r, "remove")
     /\ UNCHANGED <<db, told, scene, failed>>

DeleteChatsOf(u, r) ==
  [c \in Id |-> IF c \in Live("chats") /\ db["chats"][c].user = u
                THEN Dead(db["chats"][c], r) ELSE db["chats"][c]]

(* Slip: the chats first. *)
DeleteUserChatsFirst(r) ==
  \/ At(r, "DeleteUser", "start") /\ GetUserByID(r, "tasks")
  \/ /\ At(r, "DeleteUser", "tasks")
     /\ req' = [req EXCEPT ![r].pc = "remove", ![r].ids = GetTasksByUserID(A(r).id),
                           ![r].wrote = TRUE]
     /\ db' = [db EXCEPT !["chats"] = DeleteChatsOf(A(r).id, r)]
     /\ Aside
  \/ DeletesTask(r)
  \/ /\ At(r, "DeleteUser", "chats")
     /\ DeleteUserRow(r) /\ Answer(r, "ok") /\ Aside

DeleteUser(r) ==
  \/ At(r, "DeleteUser", "start") /\ GetUserByID(r, "tasks")
  \/ /\ At(r, "DeleteUser", "tasks")
     /\ req' = [req EXCEPT ![r].pc = "remove", ![r].ids = GetTasksByUserID(A(r).id)]
     /\ Quiet
  \/ DeletesTask(r)
  \/ /\ At(r, "DeleteUser", "chats")
     /\ db' = [db EXCEPT !["chats"] = DeleteChatsOf(A(r).id, r)]
     /\ req' = [req EXCEPT ![r].pc = "delete", ![r].wrote = TRUE]
     /\ Aside
  \/ /\ At(r, "DeleteUser", "delete")
     /\ DeleteUserRow(r) /\ Answer(r, "ok") /\ Aside

GetAllUsers(r) ==
  \/ At(r, "GetAllUsers", "start") /\ Counts(r, Live("users"))
  \/ At(r, "GetAllUsers", "page") /\ ShowsPage(r, Live("users"))

RecentLimit == PageSize

GetRecentUserActivity(r) ==
  /\ At(r, "GetRecentUserActivity", "start")
  /\ req' = [req EXCEPT ![r] = [Finish(@, "ok") EXCEPT !.made = ListRecentActivity(RecentLimit)]]
  /\ Quiet

UserStep(r) ==
  \/ CreateUser(r) \/ GetUser(r) \/ UpdateUser(r) \/ DeleteUser(r)
  \/ GetAllUsers(r) \/ GetRecentUserActivity(r)
-----------------------------------------------------------------------------
(* Failures a service survives, and what remains of them.                  *)

Fails(r, hit) == /\ hit \in Sc.faults /\ failed < MaxFault
                 /\ failed' = failed + 1
                 /\ UNCHANGED <<armed, told, scene>>

\* The task could not be deleted, or its messenger not be read: the loop goes on.
DeleteTaskFails(r) ==
  /\ \/ /\ At(r, "DeleteUser", "remove")
        /\ \E t \in req[r].ids :
             req' = [req EXCEPT ![r].pc = "name", ![r].item = t, ![r].ids = @ \ {t},
                                ![r].hit = "fault"]
     \/ /\ At(r, "DeleteUser", "name")
        /\ req' = [req EXCEPT ![r].pc = "remove", ![r].hit = "fault"]
  /\ Fails(r, "db") /\ UNCHANGED db

\* A message that is not sent ends the deletion of a user.
DeletePublishFails(r) ==
  /\ At(r, "DeleteUser", "publish")
  /\ req' = [req EXCEPT ![r] = [Finish(@, "internal") EXCEPT !.hit = "fault"]]
  /\ Fails(r, "publish") /\ UNCHANGED db
-----------------------------------------------------------------------------
(* The handlers: the status of the answer.                                 *)

CreateUserHandler(out)  == Status(201, {"conflict"}, out)
GetUserHandler(out)     == Status(200, {"notfound"}, out)
UpdateUserHandler(out)  == Status(200, {"notfound", "unprocessable"}, out)
DeleteUserHandler(out)  == Status(204, {"notfound", "unprocessable"}, out)
GetAllUsersHandler(out) == Status(200, {}, out)
GetRecentUserActivityHandler(out) == Status(200, {}, out)
=============================================================================
