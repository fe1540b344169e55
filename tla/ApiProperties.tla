---------------------------- MODULE ApiProperties ----------------------------
(***************************************************************************)
(* What the requests of the API promise each other.                        *)
(***************************************************************************)
EXTENDS Api

\* Tables, worker and requests have their types.
ApiTypeOK ==
  /\ db \in [Table -> [Id -> Row]]
  /\ armed \subseteq Id
  /\ told \in [Id \X AnyId -> Nat \cup {NotTold}]
  /\ scene \in DOMAIN Scenario /\ failed \in 0..MaxFault
  /\ req \in Seq(Request)

Answered(r, op)  == r \in Log /\ A(r).op = op /\ req[r].out = "ok"
Deletions(u)     == {p \in Log : Answered(p, "DeleteUser") /\ A(p).id = u}
Overlapped(p, r) == ~ Before(p, r) /\ ~ Before(r, p)

\* CreateUser counts and inserts in two statements: the limit on users may be
\* passed, by no more than the requests that run beside each other.
LimitOvershoot ==
  MaxUsers > 0 => Cardinality(Live("users")) < MaxUsers + Sc.width

\* What a status says is true: a request that is answered with a client error
\* has written nothing, and an answer 500 has a cause: a failure, a unique
\* index, a name left out.
StatusIsHonest ==
  \A r \in Log \ InFlight :
    /\ StatusOf(r) \in 400..499 => ~ req[r].wrote
    /\ StatusOf(r) = 500 => req[r].hit # "no" \/ A(r).blank

\* Of the requests that delete the same row at the same time, one is told 204.
OneDeleteAnswered ==
  \A op \in {"DeleteTaskGroup", "DeleteBacklog", "DeleteTarget", "DeleteBinding"} :
    \A p, r \in Log :
      Answered(p, op) /\ Answered(r, op) /\ A(p).id = A(r).id => p = r

\* After the deletion of a user was answered nothing more is made for the user.
NoRowForGoneUser ==
  \A r \in Log : \A p \in Deletions(A(r).user) :
    /\ A(r).op \in {"CreateTaskGroup", "CreateMessengerRelatedUser", "CreateTask",
                    "CreateDigestSettings", "CreateBacklog", "CreateBacklogsBatch",
                    "CreateTarget"}
    /\ Before(p, r)
    => req[r].out # "ok"

\* What the deletion of a user leaves when no statement failed: recurring
\* parents, and what requests beside it made.  Two deletions beside each other
\* can leave a task with the worker: one removes the chat the other needs to
\* find the messenger it publishes to.  And one that is repeated after a
\* message could not be published does not find the task any more.
GoneUserIsSilent ==
  \A u \in Id : \A p \in Deletions(u) :
    (\A q \in Log : A(q).op = "DeleteUser" => req[q].hit = "no") =>
      /\ \A t \in Live("tasks") :
           db["tasks"][t].user = u /\ Before(db["tasks"][t].by, p) => db["tasks"][t].done
      /\ \A c \in Live("chats") : db["chats"][c].user = u => ~ Before(db["chats"][c].by, p)
      /\ \A t \in armed :
           LET row == db["tasks"][t] IN
           row.user = u /\ ~ row.done /\ Before(row.by, p) /\ row.chat # NoId
             /\ db["chats"][row.chat].user = u
           => \E q \in Log \ {p} :
                /\ Overlapped(q, p)
                /\ <<A(q).op, A(q).id>> \in {<<"QueueTask", t>>, <<"DeleteUser", u>>}

\* A user who was deleted gets no more reminders and no new rows.
GoneUserStaysGone == NoRowForGoneUser /\ GoneUserIsSilent

\* A user has two digests for one chat only for no chat in particular, which
\* the unique index leaves out, and only if two requests beside each other made
\* them, or an update wrote back the chat it had read when a digest that had
\* been moved away was replaced beside it.
WritesBack(p, user) == /\ A(p).op = "UpdateDigestSettings" /\ A(p).user = user
                       /\ A(p).chat = NoId /\ A(p).ref = NoId

OneDigestPerChat ==
  \A c, d \in Live("digests") :
    LET x == db["digests"][c]  y == db["digests"][d]
    IN  c # d /\ x.user = y.user /\ x.chat = y.chat
          => /\ x.chat = NoId
             /\ \/ Overlapped(x.by, y.by)
                \/ \E p \in Log : /\ WritesBack(p, x.user)
                                  /\ Overlapped(p, x.by) \/ Overlapped(p, y.by)

\* Requests about digests that came one after the other and were all told to
\* the worker: it has every setting, and else only chats a digest left.
DigestWriters == {r \in Log : A(r).op \in {"CreateDigestSettings", "UpdateDigestSettings",
                                           "DeleteDigestSettings"}}
DigestTold ==
  /\ \A r \in DigestWriters : r \notin InFlight /\ req[r].hit = "no"
  /\ \A p, r \in DigestWriters : p < r => Before(p, r)
  => /\ \A d \in Live("digests") :
          told[<<db["digests"][d].user, db["digests"][d].chat>>] = db["digests"][d].mark
     /\ \A k \in DOMAIN told :
          told[k] # NotTold =>
            \/ DigestsOf(k[1], k[2]) # {}
            \/ \E r \in DigestWriters : A(r).op = "UpdateDigestSettings" /\ A(r).chat = k[2]

\* A group a binding refers to is deleted only by a request that began before
\* the binding was there.
GroupInUseStays ==
  \A b \in Live("bindings") : LET g == db["bindings"][b].ref IN
    g # NoId /\ db["groups"][g].st = "gone"
      => ~ Before(db["bindings"][b].by, db["groups"][g].end)

\* A list for a messenger user shows the notes of this messenger user only,
\* also when there are no chats of the name.
FilterNeverWidens ==
  \A r \in Log : \A t \in {"backlogs", "targets"} :
    /\ A(r).op = (IF t = "backlogs" THEN "GetAllBacklogs" ELSE "GetAllTargets")
    /\ A(r).key # 0
    => \A i \in req[r].made : /\ db[t][i].chat # NoId
                              /\ db["chats"][db[t][i].chat].key = A(r).key

\* The page and the number of rows come from two statements; unless a request
\* wrote beside them they agree.
OnPage(total, p) ==
  LET rest == total - (p - 1) * PageSize
  IN  IF rest < 0 THEN 0 ELSE IF rest < PageSize THEN rest ELSE PageSize

PageAgreesWithCount ==
  \A r \in Log :
    /\ A(r).op \in Lists /\ req[r].out = "ok" /\ req[r].hit = "no"
    /\ \A q \in Log : q # r /\ Overlapped(q, r) => ~ req[q].wrote
    => Cardinality(req[r].made) = OnPage(req[r].total, A(r).page)

\* A list shows what it says it shows.
ListsAgree == FilterNeverWidens /\ PageAgreesWithCount

\* A backlog that was completed is open again only after an update beside the
\* one that completed it, which wrote the copy it had read before.  (Targets
\* are updated by the same statements.)
CompletedStays ==
  \A i \in Live("backlogs") : \A p \in Log :
    Answered(p, "UpdateBacklog") /\ A(p).id = i /\ A(p).done /\ ~ db["backlogs"][i].done
      => \E q \in Log : /\ A(q).op = "UpdateBacklog" /\ A(q).id = i
                        /\ ~ A(q).done /\ Overlapped(p, q)

\* Nothing goes back: a row that is gone does not change, and the time a user
\* was last seen does not become an older one, although it is taken long before
\* it is written.
NothingGoesBack ==
  [][/\ \A t \in Table, i \in Id : db[t][i].st = "gone" => db'[t][i] = db[t][i]
     /\ \A u \in Id : db'["users"][u].key >= db["users"][u].key]_vars
=============================================================================
