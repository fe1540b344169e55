----------------------------- MODULE Messengers ------------------------------
(***************************************************************************)
(* Messengers and the chats that tie a user to a messenger                 *)
(* (messenger_related_users in the code, the table user_messengers):       *)
(* MessengerRepository, MessengerService and MessengerHandler.             *)
(***************************************************************************)
EXTENDS ApiCore

\* The repository.  A messenger user has one chat, so a key stands for both.
GetMessengerByID(r)    == Shows(r, "messengers")
HasMessenger(m)        == m \in Live("messengers")
MessengersNamed(name)  == {m \in Live("messengers") : db["messengers"][m].key = name}
NameTaken(name) ==
  \E m \in Id : db["messengers"][m].st # "none" /\ db["messengers"][m].key = name

InsertMessenger(r) ==
  Inserts(r, "messengers", [NoRow EXCEPT !.key = A(r).key], NameTaken(A(r).key), "end")

\* UNIQUE(user_id, messenger_id, chat_id), the rows that are gone included.
ChatTaken(a) ==
  \E c \in Id : LET row == db["chats"][c]
                IN  /\ row.st # "none"
                    /\ row.user = a.user /\ row.ref = a.ref /\ row.key = a.key

InsertChat(r) ==
  Inserts(r, "chats", [NoRow EXCEPT !.user = A(r).user, !.ref = A(r).ref, !.key = A(r).key],
          ChatTaken(A(r)), "touch")

\* A filter that is not given compares with NULL, which no chat has.
ChatsOf(a) ==
  {c \in Live("chats") : /\ db["chats"][c].key = a.key
                         /\ db["chats"][c].user = a.user
                         /\ db["chats"][c].ref = a.ref}

\* The chats of a messenger user, of one user or of all.
ChatsOfMessengerUser(key, user) ==
  {c \in Live("chats") : /\ db["chats"][c].key = key
                         /\ user = NoId \/ db["chats"][c].user = user}

\* The user of any chat of a messenger user.
UsersOf(key) == {db["chats"][c].user : c \in ChatsOfMessengerUser(key, NoId)}

HasChat(c) == c \in Live("chats")

ChatsListed(a) ==
  {c \in Live("chats") : /\ a.user = NoId \/ db["chats"][c].user = a.user
                         /\ a.key = 0 \/ db["chats"][c].key = a.key}
-----------------------------------------------------------------------------
(* The service.                                                            *)

CreateMessenger(r) ==
  \/ /\ At(r, "CreateMessenger", "start")
     /\ IF A(r).blank THEN Answer(r, "internal") ELSE Go(r, "insert")
     /\ Quiet
  \/ At(r, "CreateMessenger", "insert") /\ InsertMessenger(r)
  \/ Replies(r, "CreateMessenger")

GetMessenger(r) == At(r, "GetMessenger", "start") /\ GetMessengerByID(r)

ShowsAny(r, S) ==
  /\ \/ S = {} /\ Answer(r, "notfound")
     \/ \E i \in S : req' = [req EXCEPT ![r] = [Finish(@, "ok") EXCEPT !.made = {i}]]
  /\ Quiet

GetMessengerIDByName(r) ==
  At(r, "GetMessengerIDByName", "start") /\ ShowsAny(r, MessengersNamed(A(r).key))

CreateMessengerRelatedUser(r) ==
  \/ /\ At(r, "CreateMessengerRelatedUser", "start")
     /\ IF A(r).blank THEN Answer(r, "internal") /\ Quiet
        ELSE Requires(r, A(r).user \in Live("users"), "unprocessable", "messenger")
  \/ /\ At(r, "CreateMessengerRelatedUser", "messenger")
     /\ Requires(r, HasMessenger(A(r).ref), "unprocessable", "insert")
  \/ At(r, "CreateMessengerRelatedUser", "insert") /\ InsertChat(r)
  \/ A(r).op = "CreateMessengerRelatedUser" /\ Touch(r, A(r).user)

GetMessengerRelatedUser(r) ==
  \/ /\ At(r, "GetMessengerRelatedUser", "start")
     /\ Requires(r, A(r).user \in Live("users") \cup {NoId}, "unprocessable", "messenger")
  \/ /\ At(r, "GetMessengerRelatedUser", "messenger")
     /\ Requires(r, A(r).ref \in Live("messengers") \cup {NoId}, "unprocessable", "chat")
  \/ At(r, "GetMessengerRelatedUser", "chat") /\ ShowsAny(r, ChatsOf(A(r)))

GetUserID(r) == At(r, "GetUserID", "start") /\ ShowsAny(r, UsersOf(A(r).key))

GetAllMessengers(r) ==
  \/ At(r, "GetAllMessengers", "start") /\ Counts(r, Live("messengers"))
  \/ At(r, "GetAllMessengers", "page") /\ ShowsPage(r, Live("messengers"))

GetAllMessengerRelatedUsers(r) ==
  \/ At(r, "GetAllMessengerRelatedUsers", "start") /\ Counts(r, ChatsListed(A(r)))
  \/ At(r, "GetAllMessengerRelatedUsers", "page") /\ ShowsPage(r, ChatsListed(A(r)))

MessengerStep(r) ==
  \/ CreateMessenger(r) \/ GetMessenger(r) \/ GetMessengerIDByName(r)
  \/ CreateMessengerRelatedUser(r) \/ GetMessengerRelatedUser(r) \/ GetUserID(r)
  \/ GetAllMessengers(r) \/ GetAllMessengerRelatedUsers(r)
-----------------------------------------------------------------------------
(* The handlers.                                                           *)

CreateMessengerHandler(out)            == Status(201, {}, out)
GetMessengerHandler(out)               == Status(200, {"notfound"}, out)
GetMessengerIDByNameHandler(out)       == Status(200, {"notfound"}, out)
CreateMessengerRelatedUserHandler(out) == Status(201, {"unprocessable"}, out)
GetMessengerRelatedUserHandler(out)    == Status(200, {"unprocessable", "notfound"}, out)
GetUserIDHandler(out)                  == Status(200, {"notfound"}, out)
GetAllMessengersHandler(out)           == Status(200, {}, out)
GetAllMessengerRelatedUsersHandler(out) == Status(200, {}, out)
=============================================================================
