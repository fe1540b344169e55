-------------------------------- MODULE MCApi --------------------------------
(***************************************************************************)
(* Scenarios for the API: a few rows to begin with, and the requests that  *)
(* may come, two at a time.                                                *)
(***************************************************************************)
EXTENDS ApiProperties

Empty == [i \in Id |-> NoRow]

Rows(s) == [i \in Id |-> IF i \in DOMAIN s THEN [s[i] EXCEPT !.st = "live"] ELSE NoRow]

Of(user, chat) == [NoRow EXCEPT !.user = user, !.chat = chat]

\* User 1 has a Google account and chat 1 of messenger 1.
Begin ==
  [t \in Table |->
     CASE t = "users"      -> Rows(<<[NoRow EXCEPT !.done = TRUE]>>)
       [] t = "messengers" -> Rows(<<[NoRow EXCEPT !.key = 1]>>)
       [] t = "chats"      -> Rows(<<[Of(1, NoId) EXCEPT !.ref = 1, !.key = 1]>>)
       [] OTHER            -> Empty]

Nothing == [t \in Table |-> Empty]

WithTasks ==
  [Begin EXCEPT !["tasks"] = Rows(<<Of(1, 1), [Of(1, 1) EXCEPT !.done = TRUE]>>)]

WithGroup == [Begin EXCEPT !["groups"] = Rows(<<Of(1, NoId)>>)]

TwoChats ==
  [Begin EXCEPT !["chats"] = Rows(<<[Of(1, NoId) EXCEPT !.ref = 1, !.key = 1],
                                    [Of(1, NoId) EXCEPT !.ref = 2, !.key = 1]>>),
                !["digests"] = Rows(<<Of(1, 1)>>)]

WithNotes ==
  [Begin EXCEPT !["backlogs"] = Rows(<<Of(1, 1)>>),
                !["targets"]  = Rows(<<Of(1, NoId), Of(1, 1)>>)]

\* A request for the first row of everything.
Asks(op) == [op |-> op, id |-> 1, user |-> 1, chat |-> 1, ref |-> 1, key |-> 1,
             done |-> FALSE, bad |-> FALSE, blank |-> FALSE, page |-> 1]

Blank(a)    == [a EXCEPT !.blank = TRUE]
NoFilter(a) == [a EXCEPT !.user = NoId, !.key = 0]

Case(start, asks, count, faults) ==
  [start |-> start, asks |-> asks, count |-> count, width |-> 2, faults |-> faults]

Scenarios ==
  << Case(Begin,
          {Asks(op) : op \in {"CreateUser", "GetUser", "UpdateUser", "DeleteUser",
                              "GetAllUsers", "GetRecentUserActivity"}}
            \cup {Blank(Asks("CreateUser")), [Asks("GetUser") EXCEPT !.bad = TRUE]},
          3, {}),
     Case(Nothing,
          {Asks("CreateUser"), Asks("DeleteUser"), Asks("GetAllUsers"),
           [Asks("GetAllUsers") EXCEPT !.page = 2]},
          4, {}),
     Case(WithTasks,
          {Asks("DeleteUser"), Asks("CreateTask"), Asks("QueueTask"),
           [Asks("QueueTask") EXCEPT !.id = 3]},
          3, {"db", "publish"}),
     Case(Begin,
          {Asks(op) : op \in {"GetMessenger", "GetMessengerIDByName", "GetUserID",
                              "GetMessengerRelatedUser", "CreateMessengerRelatedUser",
                              "GetAllMessengers", "GetAllMessengerRelatedUsers"}}
            \cup {[Asks("CreateMessengerRelatedUser") EXCEPT !.key = 2],
                  [Asks("CreateMessenger") EXCEPT !.key = 2], Blank(Asks("CreateMessenger")),
                  Blank(Asks("CreateMessengerRelatedUser")), Asks("DeleteUser"),
                  [Asks("GetMessengerRelatedUser") EXCEPT !.user = NoId],
                  [Asks("GetMessenger") EXCEPT !.id = 2]},
          2, {}),
     Case(WithGroup,
          {Asks(op) : op \in {"CreateBinding", "DeleteBinding", "DeleteTaskGroup",
                              "ListBindings", "UpdateTaskGroup"}}
            \cup {Blank(Asks("UpdateTaskGroup")), [Asks("CreateBinding") EXCEPT !.chat = NoId, !.key = 2]},
          3, {}),
     Case(WithGroup,
          {Asks("CreateTaskGroup"), Blank(Asks("CreateTaskGroup")), Asks("GetTaskGroupByID"),
           Asks("GetAllTaskGroups"), NoFilter(Asks("GetAllTaskGroups")), Asks("DeleteUser"),
           Asks("DeleteTaskGroup"), Blank(Asks("CreateBinding")),
           [Asks("CreateBinding") EXCEPT !.chat = 2], [Asks("CreateBinding") EXCEPT !.user = 2]},
          2, {"db"}),
     Case(TwoChats,
          {Asks("CreateDigestSettings"), [Asks("CreateDigestSettings") EXCEPT !.chat = NoId],
           [Asks("UpdateDigestSettings") EXCEPT !.ref = 2],
           [Asks("UpdateDigestSettings") EXCEPT !.chat = 2],
           [Asks("CreateDigestSettings") EXCEPT !.chat = 2],
           Asks("DeleteDigestSettings"), [Asks("DeleteDigestSettings") EXCEPT !.chat = NoId]},
          3, {}),
     Case(TwoChats,
          {Asks("CreateDigestSettings"), Blank(Asks("CreateDigestSettings")),
           Asks("UpdateDigestSettings"), Blank(Asks("UpdateDigestSettings")),
           Asks("DeleteDigestSettings"), Asks("GetDigestSettings"), Asks("GetDigest"),
           [Asks("GetDigest") EXCEPT !.chat = NoId], Asks("GetAllDigestSettings"),
           NoFilter(Asks("GetAllDigestSettings")), Asks("DeleteUser")},
          2, {"db", "publish"}),
     Case(WithNotes,
          {Asks("UpdateBacklog"), [Asks("UpdateBacklog") EXCEPT !.done = TRUE],
           Asks("DeleteBacklog"), Asks("GetBacklogByID"), Asks("GetAllBacklogs"),
           Blank(Asks("UpdateBacklog"))},
          3, {}),
     Case(WithNotes,
          {Asks("UpdateTarget"), Asks("DeleteTarget"), Asks("CreateTarget"),
           [Asks("CreateTarget") EXCEPT !.chat = 2],
           Asks("GetTargetByID"), Asks("GetAllTargets"), NoFilter(Asks("GetAllTargets")),
           [Asks("GetAllTargets") EXCEPT !.key = 2]},
          2, {"db"}),
     Case(WithNotes,
          {Asks("CreateBacklog"), [Asks("CreateBacklog") EXCEPT !.chat = NoId],
           [Asks("CreateBacklogsBatch") EXCEPT !.key = 2],
           Asks("DeleteUser"), NoFilter(Asks("GetAllBacklogs")),
           [Asks("GetAllBacklogs") EXCEPT !.key = 2]},
          2, {"db"}),
     Case([Begin EXCEPT !["digests"] = Rows(<<Of(1, NoId)>>)],
          {[Asks("CreateDigestSettings") EXCEPT !.chat = NoId],
           [Asks("UpdateDigestSettings") EXCEPT !.chat = NoId],
           [Asks("UpdateDigestSettings") EXCEPT !.chat = NoId, !.ref = NoId]},
          3, {}),
     Case(Begin,
          {Asks("DeleteUser"), [Asks("CreateMessengerRelatedUser") EXCEPT !.key = 2],
           [Asks("CreateTask") EXCEPT !.chat = 2], Asks("QueueTask")},
          4, {}) >>

\* As a function, which TLC evaluates once and not for every state.
Cases == [i \in DOMAIN Scenarios |-> Scenarios[i]]
=============================================================================
