------------------------------- MODULE Groups --------------------------------
(***************************************************************************)
(* Task groups and the calendar bindings that refer to them.  A group is   *)
(* not deleted while a binding refers to it; the bindings are counted by   *)
(* one statement and the group is deleted by a later one.                  *)
(***************************************************************************)
EXTENDS ApiCore

\* The repository of groups.
InsertTaskGroup(r)  == Inserts(r, "groups", [NoRow EXCEPT !.user = A(r).user], FALSE, "touch")
GetGroup(r, pc)     == Reads(r, "groups", pc)
UpdateGroupRow(r)   == Updates(r, "groups", req[r].copy, "touch")
DeleteGroupRow(r)   == Deletes(r, "groups", "touch")
GroupsListed(r)     == Filtered("groups", r)

(* Slip: only the bindings with a chat count. *)
BindingsWithChat(g) == {b \in Live("bindings") : db["bindings"][b].ref = g /\ db["bindings"][b].chat # NoId}

\* The bindings.
BindingsOfGroup(g)  == {b \in Live("bindings") : db["bindings"][b].ref = g}
BindingsOfUser(u)   == {b \in Live("bindings") : db["bindings"][b].user = u}

\* UNIQUE(google_account_id, calendar_id), the rows that are gone included.
BindingTaken(a) ==
  \E b \in Id : LET row == db["bindings"][b]
                IN  row.st # "none" /\ row.user = a.user /\ row.key = a.key

InsertBinding(r) ==
  Inserts(r, "bindings",
          [NoRow EXCEPT !.user = A(r).user, !.chat = A(r).chat, !.ref = A(r).ref,
                        !.key = A(r).key],
          BindingTaken(A(r)), "end")

\* Removed once; of two removals the second finds no row.
SoftDeleteBinding(r) == Deletes(r, "bindings", "end")
-----------------------------------------------------------------------------
(* TaskGroupService.                                                       *)

CreateTaskGroup(r) ==
  \/ /\ At(r, "CreateTaskGroup", "start")
     /\ IF A(r).blank THEN Answer(r, "validation") /\ Quiet
        ELSE Requires(r, A(r).user \in Live("users"), "unprocessable", "insert")
  \/ At(r, "CreateTaskGroup", "insert") /\ InsertTaskGroup(r)
  \/ A(r).op = "CreateTaskGroup" /\ Touch(r, A(r).user)

GetTaskGroupByID(r) == At(r, "GetTaskGroupByID", "start") /\ Shows(r, "groups")

GetAllTaskGroups(r) ==
  \/ At(r, "GetAllTaskGroups", "start") /\ Counts(r, GroupsListed(r))
  \/ At(r, "GetAllTaskGroups", "page") /\ ShowsPage(r, GroupsListed(r))

(* Slip: the name is checked after it was written. *)
UpdateTaskGroupUnchecked(r) ==
  \/ At(r, "UpdateTaskGroup", "start") /\ GetGroup(r, "write")
  \/ At(r, "UpdateTaskGroup", "write") /\ Updates(r, "groups", req[r].copy, "check")
  \/ /\ At(r, "UpdateTaskGroup", "check")
     /\ Requires(r, ~ A(r).blank, "validation", "touch")
  \/ A(r).op = "UpdateTaskGroup" /\ Touch(r, req[r].copy.user)

UpdateTaskGroup(r) ==
  \/ At(r, "UpdateTaskGroup", "start") /\ GetGroup(r, "check")
  \/ /\ At(r, "UpdateTaskGroup", "check")
     /\ Requires(r, ~ A(r).blank, "validation", "write")
  \/ At(r, "UpdateTaskGroup", "write") /\ UpdateGroupRow(r)
  \/ A(r).op = "UpdateTaskGroup" /\ Touch(r, req[r].copy.user)

DeleteTaskGroup(r) ==
  \/ At(r, "DeleteTaskGroup", "start") /\ GetGroup(r, "bindings")
  \/ /\ At(r, "DeleteTaskGroup", "bindings")
     /\ Requires(r, BindingsOfGroup(A(r).id) = {}, "conflict", "delete")
  \/ At(r, "DeleteTaskGroup", "delete") /\ DeleteGroupRow(r)
  \/ A(r).op = "DeleteTaskGroup" /\ Touch(r, req[r].copy.user)
-----------------------------------------------------------------------------
(* The bindings of CalendarSyncService.                                    *)

\* The account of a user stays connected when the user is deleted.
Connected(u) == u \in Id /\ db["users"][u].done

\* The chat must be one of the user's; the group is not looked at.
CreateBinding(r) ==
  \/ /\ At(r, "CreateBinding", "start")
     /\ Requires(r, Connected(A(r).user), "unprocessable", "chat")
  \/ /\ At(r, "CreateBinding", "chat")
     /\ IF A(r).blank THEN Answer(r, "validation")
        ELSE IF A(r).chat = NoId THEN Go(r, "insert")
        ELSE IF A(r).chat \notin Live("chats") THEN Answer(r, "unprocessable")
        ELSE IF db["chats"][A(r).chat].user # A(r).user THEN Answer(r, "validation")
        ELSE Go(r, "insert")
     /\ Quiet
  \/ At(r, "CreateBinding", "insert") /\ InsertBinding(r)
  \/ Replies(r, "CreateBinding")

ListBindings(r) ==
  /\ At(r, "ListBindings", "start")
  /\ req' = [req EXCEPT ![r] = [Finish(@, "ok") EXCEPT !.made = BindingsOfUser(A(r).user)]]
  /\ Quiet

\* The handler looks the binding up among the user's, the service reads it
\* again and removes it after its tasks.
DeleteBinding(r) ==
  \/ /\ At(r, "DeleteBinding", "start")
     /\ Requires(r, A(r).id \in BindingsOfUser(A(r).user), "notfound", "read")
  \/ At(r, "DeleteBinding", "read") /\ Reads(r, "bindings", "delete")
  \/ At(r, "DeleteBinding", "delete") /\ SoftDeleteBinding(r)
  \/ Replies(r, "DeleteBinding")

GroupStep(r) ==
  \/ CreateTaskGroup(r) \/ GetTaskGroupByID(r) \/ GetAllTaskGroups(r)
  \/ UpdateTaskGroup(r) \/ DeleteTaskGroup(r)
  \/ CreateBinding(r) \/ ListBindings(r) \/ DeleteBinding(r)
-----------------------------------------------------------------------------
(* The handlers.                                                           *)

CreateTaskGroupHandler(out)  == Status(201, {"validation", "unprocessable"}, out)
GetTaskGroupHandler(out)     == Status(200, {"notfound"}, out)
GetAllTaskGroupsHandler(out) == Status(200, {}, out)
UpdateTaskGroupHandler(out)  == Status(200, {"validation", "notfound", "unprocessable"}, out)
DeleteTaskGroupHandler(out)  == Status(204, {"notfound", "conflict"}, out)
BindingHandler(success, out) ==
  Status(success, {"validation", "notfound", "unprocessable"}, out)
=============================================================================
