------------------------------- MODULE Digests -------------------------------
(***************************************************************************)
(* The digest settings: at most one per user and chat, told to the worker  *)
(* that sends the digests.  The row is written first and the worker told   *)
(* after it; a message that is not sent is only logged.                    *)
(***************************************************************************)
EXTENDS ApiCore, Messengers

\* The repository.  No chat is a chat of its own to a query, and none to the
\* unique index.
DigestsOf(user, chat) ==
  {d \in Live("digests") : db["digests"][d].user = user /\ db["digests"][d].chat = chat}

GetDigestSettingsByUserID(r, pc) ==
  /\ \/ /\ DigestsOf(A(r).user, A(r).chat) = {}
        /\ Answer(r, "notfound")
     \/ \E d \in DigestsOf(A(r).user, A(r).chat) :
          req' = [req EXCEPT ![r].pc = pc, ![r].copy = db["digests"][d], ![r].item = d]
  /\ Quiet

(* Slip: no unique index. *)
DigestNeverTaken(user, chat) == FALSE

DigestTaken(user, chat) == chat # NoId /\ DigestsOf(user, chat) # {}

InsertDigest(r) ==
  Inserts(r, "digests", [NoRow EXCEPT !.user = A(r).user, !.chat = A(r).chat],
          DigestTaken(A(r).user, A(r).chat), "publish")

\* UPDATE ... WHERE id: the row may be gone, the new chat may be taken.
UpdateDigestRow(r) ==
  LET d == req[r].item
  IN  /\ IF d \in Live("digests") /\ DigestTaken(req[r].copy.user, req[r].copy.chat)
            /\ DigestsOf(req[r].copy.user, req[r].copy.chat) # {d}
         THEN /\ req' = [req EXCEPT ![r] = [Finish(@, "internal") EXCEPT !.hit = "unique"]]
              /\ UNCHANGED db
         ELSE /\ req' = [req EXCEPT ![r].pc = "publish", ![r].wrote = TRUE,
                                    ![r].stamp = Len(req)]
              /\ db' = IF d \in Live("digests")
                       THEN [db EXCEPT !["digests"][d].chat = req[r].copy.chat,
                                       !["digests"][d].mark = r]
                       ELSE db
      /\ Aside

\* DELETE of every row of the user and the chat.
DeleteDigestRows(r) ==
  LET gone == DigestsOf(A(r).user, A(r).chat)
  IN  /\ IF gone = {} THEN Answer(r, "notfound") /\ UNCHANGED db
         ELSE /\ db' = [db EXCEPT !["digests"] =
                          [d \in Id |-> IF d \in gone THEN Dead(@[d], r) ELSE @[d]]]
              /\ req' = [req EXCEPT ![r].pc = "publish", ![r].wrote = TRUE,
                                    ![r].stamp = Len(req)]
      /\ Aside
-----------------------------------------------------------------------------
(* The service.                                                            *)

\* The chat of the request is there, whoever it belongs to.
ChatGiven(c) == c = NoId \/ HasChat(c)

Tells(r, user, chat, mark) ==
  /\ told' = [told EXCEPT ![<<user, chat>>] = mark]
  /\ Go(r, "touch")
  /\ UNCHANGED <<db, armed, scene, failed>>

CreateDigestSettings(r) ==
  \/ /\ At(r, "CreateDigestSettings", "start")
     /\ Requires(r, A(r).user \in Live("users"), "unprocessable", "chat")
  \/ /\ At(r, "CreateDigestSettings", "chat")
     /\ Requires(r, ChatGiven(A(r).chat), "unprocessable", "time")
  \/ /\ At(r, "CreateDigestSettings", "time")
     /\ IF A(r).blank THEN Answer(r, "validation")
        ELSE IF DigestsOf(A(r).user, A(r).chat) # {} THEN Answer(r, "unprocessable")
        ELSE Go(r, "insert")
     /\ Quiet
  \/ At(r, "CreateDigestSettings", "insert") /\ InsertDigest(r)
  \/ /\ At(r, "CreateDigestSettings", "publish")
     /\ Tells(r, A(r).user, A(r).chat, r)
  \/ A(r).op = "CreateDigestSettings" /\ Touch(r, A(r).user)

GetDigestSettings(r) ==
  /\ At(r, "GetDigestSettings", "start")
  /\ ShowsAny(r, DigestsOf(A(r).user, A(r).chat))

(* Slip: the worker is told the chat that was asked for. *)
UpdateDigestOldChat(r) ==
  \/ At(r, "UpdateDigestSettings", "start") /\ GetDigestSettingsByUserID(r, "time")
  \/ /\ At(r, "UpdateDigestSettings", "time")
     /\ req' = [req EXCEPT ![r].pc = "write", ![r].copy.chat = A(r).ref]
     /\ Quiet
  \/ At(r, "UpdateDigestSettings", "write") /\ UpdateDigestRow(r)
  \/ /\ At(r, "UpdateDigestSettings", "publish")
     /\ Tells(r, A(r).user, A(r).chat, r)
  \/ A(r).op = "UpdateDigestSettings" /\ Touch(r, A(r).user)

\* A request may move the digest to another chat, here ref.
UpdateDigestSettings(r) ==
  \/ At(r, "UpdateDigestSettings", "start") /\ GetDigestSettingsByUserID(r, "time")
  \/ /\ At(r, "UpdateDigestSettings", "time")
     /\ IF A(r).blank THEN Answer(r, "validation")
        ELSE IF A(r).ref = NoId THEN Go(r, "write")
        ELSE IF ~ HasChat(A(r).ref) THEN Answer(r, "unprocessable")
        ELSE req' = [req EXCEPT ![r].pc = "write", ![r].copy.chat = A(r).ref]
     /\ Quiet
  \/ At(r, "UpdateDigestSettings", "write") /\ UpdateDigestRow(r)
  \/ /\ At(r, "UpdateDigestSettings", "publish")
     /\ Tells(r, req[r].copy.user, req[r].copy.chat, r)
  \/ A(r).op = "UpdateDigestSettings" /\ Touch(r, A(r).user)

DeleteDigestSettings(r) ==
  \/ At(r, "DeleteDigestSettings", "start") /\ GetDigestSettingsByUserID(r, "delete")
  \/ At(r, "DeleteDigestSettings", "delete") /\ DeleteDigestRows(r)
  \/ /\ At(r, "DeleteDigestSettings", "publish")
     /\ Tells(r, req[r].copy.user, req[r].copy.chat, NotTold)
  \/ A(r).op = "DeleteDigestSettings" /\ Touch(r, A(r).user)

\* The filter on chats is by messenger user, here key.
GetAllDigestSettings(r) ==
  \/ /\ At(r, "GetAllDigestSettings", "start")
     /\ ListsByChat(r, ChatsOfMessengerUser(A(r).key, A(r).user))
  \/ At(r, "GetAllDigestSettings", "count") /\ Counts(r, Filtered("digests", r))
  \/ At(r, "GetAllDigestSettings", "page") /\ ShowsPage(r, Filtered("digests", r))

\* The backlogs completed in the days asked for.
CompletedBacklogs(u) ==
  {b \in Live("backlogs") : db["backlogs"][b].user = u /\ db["backlogs"][b].done}

\* The digest itself: what of the user is there, statement by statement, for
\* a chat given by its id or by its messenger user, who must have one only.
GetDigest(r) ==
  \/ /\ At(r, "GetDigest", "start")
     /\ Requires(r, A(r).user \in Live("users"), "unprocessable", "completed")
  \/ /\ At(r, "GetDigest", "completed")
     /\ req' = [req EXCEPT ![r].pc = "targets",
                           ![r].total = Cardinality(CompletedBacklogs(A(r).user))]
     /\ Quiet
  \/ /\ At(r, "GetDigest", "targets")
     /\ req' = [req EXCEPT ![r].pc = "chat", ![r].made = Filtered("targets", r)]
     /\ Quiet
  \/ /\ At(r, "GetDigest", "chat")
     /\ IF /\ A(r).chat = NoId /\ A(r).key # 0
           /\ Cardinality(ChatsOfMessengerUser(A(r).key, A(r).user)) > 1
        THEN req' = [req EXCEPT ![r] = [Finish(@, "unprocessable") EXCEPT !.made = {}]]
        ELSE Answer(r, "ok")
     /\ Quiet

DigestStep(r) ==
  \/ CreateDigestSettings(r) \/ GetDigestSettings(r) \/ UpdateDigestSettings(r)
  \/ DeleteDigestSettings(r) \/ GetAllDigestSettings(r) \/ GetDigest(r)

\* The worker is not told, the request goes on.
TellFails(r) ==
  /\ r \in InFlight /\ req[r].pc = "publish" /\ A(r).op # "DeleteUser"
  /\ "publish" \in Sc.faults /\ failed < MaxFault
  /\ failed' = failed + 1
  /\ req' = [req EXCEPT ![r].pc = "touch", ![r].hit = "fault"]
  /\ UNCHANGED <<db, armed, told, scene>>
-----------------------------------------------------------------------------
(* The handlers.                                                           *)

CreateDigestSettingsHandler(out) == Status(201, {"validation", "unprocessable"}, out)
GetDigestSettingsHandler(out)    == Status(200, {"notfound"}, out)
UpdateDigestSettingsHandler(out) == Status(200, {"validation", "notfound", "unprocessable"}, out)
DeleteDigestSettingsHandler(out) == Status(204, {"notfound"}, out)
GetAllDigestSettingsHandler(out) == Status(200, {}, out)
GetDigestHandler(out)            == Status(200, {"unprocessable"}, out)
=============================================================================
