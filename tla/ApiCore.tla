------------------------------- MODULE ApiCore -------------------------------
(***************************************************************************)
(* What the request handlers of the HTTP API share: the tables, the log of *)
(* requests, and the kinds of statement a service is made of.  Requests    *)
(* run side by side, one statement at a time; no service but the task      *)
(* service opens a transaction, so every statement commits by itself.      *)
(*                                                                         *)
(* Users.tla, Messengers.tla, Groups.tla, Digests.tla and Notes.tla        *)
(* describe the services, Api.tla composes them.                           *)
(***************************************************************************)
EXTENDS Integers, Sequences, FiniteSets

CONSTANTS
  MaxId,     \* ids 1..MaxId in every table (bound of the model)
  MaxUsers,  \* users.maxUsers, 0 is no limit
  Scenario,  \* a sequence: what is asked of which tables, see ScenarioType
  MaxFault   \* how many statements and publishes fail (bound of the model)

Id      == 1..MaxId
NoId    == 0
NotTold == -1

Table == {"users", "messengers", "chats", "tasks", "groups", "bindings",
          "digests", "backlogs", "targets"}

(* A row of any table.  by and end are the requests that inserted and      *)
(* deleted it, 0 for neither; mark is the request whose values it holds.   *)
(*   users       key: when last seen, 0 never; done: has a Google account  *)
(*   messengers  key: the name                                             *)
(*   chats       ref: the messenger, key: messenger user and chat          *)
(*   tasks       chat; done: a recurring parent                            *)
(*   bindings    chat; ref: the task group, key: the calendar              *)
(*   digests     chat, NoId for none                                       *)
(*   backlogs    chat; done: completed                                     *)
(*   targets     chat; done: completed                                     *)
AnyId == Id \cup {NoId}

Row == [st : {"none", "live", "gone"}, by : Nat, end : Nat, user : AnyId,
        chat : AnyId, ref : AnyId, key : Nat, done : BOOLEAN, mark : Nat]

NoRow == [st |-> "none", by |-> 0, end |-> 0, user |-> NoId, chat |-> NoId,
          ref |-> NoId, key |-> 0, done |-> FALSE, mark |-> 0]

Creations == {"CreateUser", "CreateMessenger", "CreateMessengerRelatedUser",
              "CreateTaskGroup", "CreateBinding", "CreateDigestSettings",
              "CreateBacklog", "CreateBacklogsBatch", "CreateTarget", "CreateTask"}
Changes   == {"UpdateUser", "UpdateTaskGroup", "UpdateDigestSettings", "UpdateBacklog",
              "UpdateTarget", "QueueTask"}
Removals  == {"DeleteUser", "DeleteTaskGroup", "DeleteBinding", "DeleteDigestSettings",
              "DeleteBacklog", "DeleteTarget"}
Views     == {"GetUser", "GetRecentUserActivity", "GetMessenger", "GetMessengerIDByName",
              "GetMessengerRelatedUser", "GetUserID", "GetTaskGroupByID", "ListBindings",
              "GetDigestSettings", "GetDigest", "GetBacklogByID", "GetTargetByID"}
Lists     == {"GetAllUsers", "GetAllMessengers", "GetAllMessengerRelatedUsers",
              "GetAllTaskGroups", "GetAllDigestSettings", "GetAllBacklogs", "GetAllTargets"}
Op        == Creations \cup Changes \cup Removals \cup Views \cup Lists

\* What a client asks: the row, and the values or filters, 0 for none; bad
\* requests do not pass the checks of the handler, blank ones lack a value
\* the service wants.  The handlers of lists count pages from 1.
Ask == [op : Op, id : AnyId, user : AnyId, chat : AnyId, ref : AnyId, key : Nat,
        done : BOOLEAN, bad : BOOLEAN, blank : BOOLEAN, page : Nat \ {0}]

Outcome == {"pending", "ok", "notfound", "conflict", "unprocessable",
            "validation", "internal"}

Pc == {"start", "check", "read", "write", "insert", "delete", "count", "page", "touch",
       "publish", "end", "chat", "messenger", "tasks", "remove", "name", "chats",
       "bindings", "time", "completed", "targets", "split", "lines", "queue"}

\* A request: its next statement, the row it read, the ids and the task it
\* holds, the number it counted, the outcome of the service and the ids in
\* the answer, and how many requests had begun when it ended.
Request == [ask : Ask, pc : Pc, copy : Row, ids : SUBSET Id, item : AnyId,
            total : Nat, stamp : Nat, out : Outcome, made : SUBSET AnyId,
            ended : Nat, wrote : BOOLEAN, hit : {"no", "fault", "unique"}]

ScenarioType == [start : [Table -> [Id -> Row]], asks : SUBSET Ask, count : Nat,
                 width : Nat, faults : SUBSET {"db", "publish"}]

\* Tables as they are before the first request of the log: nothing is deleted,
\* a chat that a row refers to is there (a foreign key), the limit of users was
\* kept, and a chat of a user has one digest, and a digest a user.
Fresh(start) ==
  /\ \A t \in Table, i \in Id :
       LET row == start[t][i]
       IN  /\ row.st # "gone" /\ row.by = 0 /\ row.end = 0 /\ row.mark = 0
           /\ row.st = "none" => row = NoRow
           /\ row.chat # NoId => start["chats"][row.chat].st # "none"
  /\ MaxUsers > 0 => Cardinality({u \in Id : start["users"][u].st = "live"}) <= MaxUsers
  /\ \A c, d \in Id :
       LET x == start["digests"][c]  y == start["digests"][d]
       IN  x.st = "live" /\ y.st = "live" /\ x.user = y.user /\ x.chat = y.chat => c = d
  /\ \A d \in Id : start["digests"][d].st = "live" => start["digests"][d].user # NoId

ASSUME ApiAssumption ==
  /\ MaxId \in Nat \ {0} /\ MaxUsers \in Nat /\ MaxFault \in Nat
  /\ Scenario \in Seq(ScenarioType)
  /\ \A i \in DOMAIN Scenario : Scenario[i].width > 0 /\ Fresh(Scenario[i].start)

VARIABLES db,     \* the tables
          armed,  \* the tasks the worker holds
          told,   \* the digest settings the worker has of a user and a chat
          req,    \* the requests in the order they began
          scene,  \* the scenario, chosen once
          failed  \* how many statements and publishes have failed

vars == <<db, armed, told, req, scene, failed>>

Sc       == Scenario[scene]
Live(t)  == {i \in Id : db[t][i].st = "live"}
Log      == 1..Len(req)
A(r)     == req[r].ask
InFlight == {r \in Log : req[r].out = "pending"}

At(r, op, pc) == req[r].pc = pc /\ A(r).op = op /\ req[r].out = "pending"

\* p was answered before r began; the rows of the beginning were there.
Before(p, r) == p = 0 \/ (req[p].out # "pending" /\ req[p].ended < r)
-----------------------------------------------------------------------------
(* The next statement of a request, or its outcome.                        *)

Quiet    == UNCHANGED <<db, armed, told, scene, failed>>
Aside    == UNCHANGED <<armed, told, scene, failed>>

Go(r, pc) == req' = [req EXCEPT ![r].pc = pc]

Finish(q, out) ==
  [q EXCEPT !.pc = "end", !.out = out, !.ended = Len(req), !.copy = NoRow,
            !.ids = {}, !.item = NoId, !.stamp = 0]

Answer(r, out) == req' = [req EXCEPT ![r] = Finish(@, out)]

\* Nothing is left to do but to answer.
Replies(r, op) == At(r, op, "end") /\ Answer(r, "ok") /\ Quiet

\* A row the request depends on is there, or else the outcome is missing.
Requires(r, found, missing, pc) ==
  /\ IF found THEN Go(r, pc) ELSE Answer(r, missing)
  /\ Quiet

\* Read the row a request is about.
Reads(r, t, pc) ==
  /\ IF A(r).id \in Live(t)
     THEN req' = [req EXCEPT ![r].pc = pc, ![r].copy = db[t][A(r).id]]
     ELSE Answer(r, "notfound")
  /\ Quiet

\* Read it and answer with it.
Shows(r, t) == /\ Answer(r, IF A(r).id \in Live(t) THEN "ok" ELSE "notfound")
               /\ Quiet

NextId(t) == {i \in Id : /\ db[t][i].st = "none"
                         /\ \A j \in Id : j < i => db[t][j].st # "none"}

\* INSERT; a unique index turns the second of two equal rows down.
Inserts(r, t, row, taken, pc) ==
  /\ IF taken
     THEN /\ req' = [req EXCEPT ![r] = [Finish(@, "internal") EXCEPT !.hit = "unique"]]
          /\ UNCHANGED db
     ELSE \E i \in NextId(t) :
            /\ db' = [db EXCEPT ![t][i] = [row EXCEPT !.st = "live", !.by = r, !.mark = r]]
            /\ req' = [req EXCEPT ![r].pc = pc, ![r].made = @ \cup {i},
                         ![r].wrote = TRUE, ![r].stamp = Len(req)]
  /\ Aside

(* Slip: without the condition on deleted_at. *)
UpdatesGone(r, t, row, pc) ==
  /\ db' = [db EXCEPT ![t][A(r).id] = [row EXCEPT !.mark = r]]
  /\ req' = [req EXCEPT ![r].pc = pc, ![r].wrote = TRUE, ![r].stamp = Len(req)]
  /\ Aside

\* UPDATE ... WHERE deleted_at IS NULL of the whole row, as it was read and
\* changed: the number of rows it finds is not looked at.
Updates(r, t, row, pc) ==
  /\ db' = IF A(r).id \in Live(t)
           THEN [db EXCEPT ![t][A(r).id] = [row EXCEPT !.mark = r]] ELSE db
  /\ req' = [req EXCEPT ![r].pc = pc, ![r].wrote = TRUE, ![r].stamp = Len(req)]
  /\ Aside

Dead(row, r) == [row EXCEPT !.st = "gone", !.end = r]

(* Slip: the number of rows is not looked at. *)
DeletesBlindly(r, t, pc) ==
  /\ db' = IF A(r).id \in Live(t) THEN [db EXCEPT ![t][A(r).id] = Dead(@, r)] ELSE db
  /\ req' = [req EXCEPT ![r].pc = pc, ![r].wrote = TRUE, ![r].stamp = Len(req)]
  /\ Aside

\* UPDATE ... SET deleted_at; a row that is gone meanwhile is not found.
Deletes(r, t, pc) ==
  /\ IF A(r).id \in Live(t)
     THEN /\ db' = [db EXCEPT ![t][A(r).id] = Dead(@, r)]
          /\ req' = [req EXCEPT ![r].pc = pc, ![r].wrote = TRUE, ![r].stamp = Len(req)]
     ELSE Answer(r, "notfound") /\ UNCHANGED db
  /\ Aside

\* An older time never replaces a newer one.
LatestOf(a, b) == IF a < b THEN b ELSE a

\* touchUserActivity: the user was seen at the time stamped before.
Touch(r, u) ==
  /\ req[r].pc = "touch" /\ req[r].out = "pending"
  /\ db' = IF u \in Live("users")
           THEN [db EXCEPT !["users"][u].key = LatestOf(@, req[r].stamp)] ELSE db
  /\ Answer(r, "ok")
  /\ Aside
-----------------------------------------------------------------------------
(* Lists: the ids of the chats to filter by, the number of rows, a page.   *)

PageSize == 1

\* The rows of page p, newest first.
Page(S, p) ==
  {i \in S : LET n == Cardinality({j \in S : j > i})
             IN  n >= (p - 1) * PageSize /\ n < p * PageSize}

(* Slip: without any chat the filter is left out. *)
ListsAnyChat(r, chats) ==
  /\ req' = [req EXCEPT ![r].pc = "count", ![r].ids = IF A(r).key = 0 THEN {} ELSE chats]
  /\ Quiet

\* Without any chat to filter by nothing is looked up.
ListsByChat(r, chats) ==
  /\ IF A(r).key = 0 THEN Go(r, "count")
     ELSE IF chats = {} THEN Answer(r, "ok")
     ELSE req' = [req EXCEPT ![r].pc = "count", ![r].ids = chats]
  /\ Quiet

Counts(r, S) ==
  /\ req' = [req EXCEPT ![r].pc = "page", ![r].total = Cardinality(S)]
  /\ Quiet

ShowsPage(r, S) ==
  /\ req' = [req EXCEPT ![r] = [Finish(@, "ok") EXCEPT !.made = Page(S, A(r).page)]]
  /\ Quiet

\* The rows a filter on user and chats lets through; 0 and {} filter nothing.
Filtered(t, r) ==
  {i \in Live(t) : /\ A(r).user = NoId \/ db[t][i].user = A(r).user
                   /\ req[r].ids = {} \/ db[t][i].chat \in req[r].ids}

TotalPages(total) ==
  LET n == (total + PageSize - 1) \div PageSize IN IF n = 0 THEN 1 ELSE n
-----------------------------------------------------------------------------
(* Handlers: the status that answers an outcome.                           *)

Code(out) == CASE out = "notfound"      -> 404 [] out = "conflict"   -> 409
               [] out = "unprocessable" -> 422 [] out = "validation" -> 400

\* A handler knows some of the errors, every other one is a 500.
Status(success, known, out) ==
  IF out = "ok" THEN success ELSE IF out \in known THEN Code(out) ELSE 500
=============================================================================
