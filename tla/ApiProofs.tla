------------------------------ MODULE ApiProofs ------------------------------
(***************************************************************************)
(* What every request of the API does to tables and log, whatever it is:   *)
(* types, the life of a row, and the copies updates write back.            *)
(***************************************************************************)
EXTENDS ApiProperties, SequenceTheorems, FiniteSetTheorems, TLAPS

(* Requests that write the whole row they read before, and the table of    *)
(* the row a request is about.                                             *)
Rewriters == {"UpdateUser", "UpdateTaskGroup", "UpdateBacklog", "UpdateTarget"}

TableOf(op) == CASE op \in {"UpdateUser", "DeleteUser"}           -> "users"
                 [] op \in {"UpdateTaskGroup", "DeleteTaskGroup"} -> "groups"
                 [] op \in {"UpdateBacklog", "DeleteBacklog"}     -> "backlogs"
                 [] op \in {"UpdateTarget", "DeleteTarget"}       -> "targets"
                 [] op = "DeleteBinding"                          -> "bindings"
                 [] op = "QueueTask"                              -> "tasks"

(* What no update changes: whose row it is, and where it came from.        *)
SameRow(t, x, y) ==
  /\ y.by = x.by /\ y.user = x.user /\ y.ref = x.ref
  /\ t # "digests" => y.chat = x.chat
  /\ t # "users" => y.key = x.key

CopyOK(r) ==
  LET t == TableOf(A(r).op)  row == db[t][A(r).id]
  IN  A(r).op \in Rewriters /\ req[r].out = "pending" /\ req[r].pc \in {"check", "write"}
      => /\ A(r).id \in Id
         /\ req[r].copy.st = "live" /\ req[r].copy.end = 0
         /\ row.st # "none" /\ SameRow(t, row, req[r].copy)

(* Where the requests are that look a row up by its id, and that they have *)
(* found one from their second statement on.                               *)
Keyed == Rewriters \cup {"DeleteUser", "DeleteTaskGroup", "DeleteBinding", "DeleteBacklog",
                         "DeleteTarget", "QueueTask"}

Place(op, pc) ==
  \/ pc = "start"
  \/ op \in Rewriters /\ pc \in {"check", "write", "touch"}
  \/ op \in {"DeleteBacklog", "DeleteTarget"} /\ pc \in {"delete", "touch"}
  \/ op = "DeleteTaskGroup" /\ pc \in {"bindings", "delete", "touch"}
  \/ op = "DeleteBinding" /\ pc \in {"read", "delete", "end"}
  \/ op = "DeleteUser" /\ pc \in {"tasks", "remove", "name", "publish", "chats", "delete"}
  \/ op = "QueueTask" /\ pc \in {"messenger", "queue"}

Holds(q) == IF q.out = "pending" THEN q.pc \notin {"start", "read"} ELSE q.out = "ok"

HeldOK(r) ==
  A(r).op \in Keyed =>
    /\ req[r].out = "pending" => Place(A(r).op, req[r].pc)
    /\ Holds(req[r]) => A(r).id \in Id /\ db[TableOf(A(r).op)][A(r).id].st # "none"

RowOK(row) == /\ row.st = "none" => row = NoRow
              /\ row.st = "live" => row.end = 0

EndOK(r) == IF req[r].out = "pending" THEN req[r].ended = 0
            ELSE req[r].ended \in r..Len(req) /\ req[r].pc = "end"

Base ==
  /\ ApiTypeOK
  /\ \A t \in Table, i \in Id : RowOK(db[t][i])
  /\ \A t \in Table, i \in Id : /\ db[t][i].by \in 0..Len(req)
                                /\ db[t][i].end \in 0..Len(req)
                                /\ db[t][i].mark \in 0..Len(req)
  /\ \A r \in Log : EndOK(r) /\ CopyOK(r)

(* A user was seen.                                                        *)
Seen(t, x, y) ==
  /\ t = "users" /\ y.key >= x.key
  /\ x.st = "live" /\ y.st = "live" /\ y.by = x.by /\ y.end = x.end /\ y.user = x.user
  /\ y.chat = x.chat /\ y.ref = x.ref /\ y.done = x.done /\ y.mark = x.mark

(* A new row belongs to the user of the request that made it.              *)
Owned(r, t, row) == t \in {"users", "messengers"} \/ row.user = A(r).user

(* A row is inserted, updated, deleted, or left alone.                     *)
RowStep(r, t, x, y) ==
  \/ y = x
  \/ Seen(t, x, y)
  \/ /\ A(r).op \in Creations
     /\ x.st = "none" /\ y.st = "live" /\ y.by = r /\ y.end = 0 /\ y.mark = r
     /\ Owned(r, t, y)
  \/ /\ A(r).op \in Changes
     /\ x.st = "live" /\ y.st = "live" /\ y.end = 0 /\ y.mark = r
     /\ SameRow(t, x, y) /\ y.key >= x.key
  \/ A(r).op \in Removals /\ x.st = "live" /\ y = Dead(x, r)

(* The worker is told of digests and of tasks by a few requests only.      *)
DigestOps == {"CreateDigestSettings", "UpdateDigestSettings", "DeleteDigestSettings"}

Around(r) ==
  /\ armed' \subseteq Id /\ told' \in [Id \X AnyId -> Nat \cup {NotTold}]
  /\ scene' = scene /\ failed' \in 0..MaxFault
  /\ armed' = armed \/ A(r).op \in {"QueueTask", "DeleteUser"}
  /\ told' = told \/ A(r).op \in DigestOps

(* Only r moves on, and an answer says how many requests there were.       *)
Turn(r) ==
  /\ req' = [req EXCEPT ![r] = req'[r]]
  /\ req'[r] \in Request /\ req'[r].ask = req[r].ask
  /\ IF req'[r].out = "pending" THEN req'[r].ended = 0
     ELSE req'[r].ended = Len(req) /\ req'[r].pc = "end"

Effect(r, T) ==
  /\ r \in Log /\ req[r].out = "pending"
  /\ Turn(r)
  /\ db' \in [Table -> [Id -> Row]]
  /\ \A t \in Table, i \in Id : RowStep(r, t, db[t][i], db'[t][i])
  /\ \A t \in Table \ T, i \in Id :
       db'[t][i] = db[t][i] \/ Seen(t, db[t][i], db'[t][i])
  /\ Around(r)

(* An entry of the log after an update or a deletion.                      *)
Written(q, pc) == [q EXCEPT !.pc = pc, !.wrote = TRUE, !.stamp = Len(req)]

(* A row became row i of table t.                                          *)
Inserted(r, t, row, pc, i) ==
  /\ i \in Id /\ db[t][i].st = "none"
  /\ db' = [db EXCEPT ![t][i] = [row EXCEPT !.st = "live", !.by = r, !.mark = r]]
  /\ req'[r] = [req[r] EXCEPT !.pc = pc, !.made = @ \cup {i}, !.wrote = TRUE, !.stamp = Len(req)]
-----------------------------------------------------------------------------
(* The kinds of statement.                                                 *)

(* A request of the log is a request.                                      *)
LEMMA InLog ==
  ASSUME Base, NEW r \in Log
  PROVE  req[r] \in Request /\ A(r) \in Ask /\ r \in Nat \ {0} /\ Len(req) \in Nat /\ r <= Len(req)
<1>1. req \in Seq(Request)
  BY DEF Base, ApiTypeOK
<1>2. r \in 1..Len(req) /\ Len(req) \in Nat
  BY <1>1, LenProperties DEF Log
<1>3. req[r] \in Request
  BY <1>1, <1>2, ElementOfSeq
<1>4. req[r].ask \in Ask
  BY <1>3 DEF Request
<1> QED
  BY <1>2, <1>3, <1>4 DEF A

(* An answer keeps the request and what it has done.                       *)
LEMMA FinishFields ==
  ASSUME Base, NEW q \in Request, NEW out \in Outcome
  PROVE  LET f == Finish(q, out)
         IN  /\ f \in Request /\ f.ask = q.ask /\ f.pc = "end" /\ f.out = out
             /\ f.ended = Len(req) /\ f.made = q.made /\ f.wrote = q.wrote
             /\ f.hit = q.hit /\ f.total = q.total
<1>1. Len(req) \in Nat
  BY LenProperties DEF Base, ApiTypeOK
<1>2. NoRow \in Row /\ NoId \in AnyId /\ "end" \in Pc /\ {} \in SUBSET Id
  BY DEF NoRow, Row, AnyId, Pc
<1>3. Finish(q, out) \in Request
  BY <1>1, <1>2 DEF Finish, Request
<1> QED
  BY <1>3 DEF Finish, Request

(* An unanswered request is still a request.                               *)
LEMMA OpenFields ==
  ASSUME Base, NEW r \in Log, req[r].out = "pending"
  PROVE  req[r].ended = 0
BY DEF Base, EndOK

(* A step of r that replaces its entry of the log by q.                    *)
LEMMA TurnTo ==
  ASSUME Base, NEW r \in Log, NEW q \in Request, q.ask = A(r),
         IF q.out = "pending" THEN q.ended = 0 ELSE q.ended = Len(req) /\ q.pc = "end",
         req' = [req EXCEPT ![r] = q]
  PROVE  Turn(r) /\ req'[r] = q
<1>1. req \in Seq(Request) /\ r \in 1..Len(req)
  BY DEF Base, ApiTypeOK, Log
<1>2. r \in DOMAIN req
  BY <1>1, LenProperties
<1>3. req'[r] = q
  BY <1>2
<1> QED
  BY <1>3 DEF Turn, A

(* A step that changes nothing but the entry of r.                         *)
LEMMA QuietEffect ==
  ASSUME Base, NEW r \in Log, req[r].out = "pending", Turn(r), Quiet
  PROVE  Effect(r, {})
<1>1. db \in [Table -> [Id -> Row]] /\ armed \subseteq Id
      /\ told \in [Id \X AnyId -> Nat \cup {NotTold}] /\ failed \in 0..MaxFault
  BY DEF Base, ApiTypeOK
<1>2. \A t \in Table, i \in Id : RowStep(r, t, db[t][i], db[t][i])
  BY DEF RowStep
<1> QED
  BY <1>1, <1>2 DEF Effect, Quiet, Around

(* An answer.                                                              *)
LEMMA AnswerTurn ==
  ASSUME Base, NEW r \in Log, NEW out \in Outcome \ {"pending"}, Answer(r, out)
  PROVE  Turn(r) /\ req'[r] = Finish(req[r], out)
<1>1. req[r] \in Request
  BY InLog
<1>2. LET f == Finish(req[r], out)
      IN  f \in Request /\ f.ask = A(r) /\ f.out = out /\ f.ended = Len(req) /\ f.pc = "end"
  BY <1>1, FinishFields DEF A
<1>3. req' = [req EXCEPT ![r] = Finish(req[r], out)]
  BY DEF Answer
<1> QED
  BY <1>2, <1>3, TurnTo

(* The next statement.                                                     *)
LEMMA GoTurn ==
  ASSUME Base, NEW r \in Log, req[r].out = "pending", NEW pc \in Pc, Go(r, pc)
  PROVE  Turn(r) /\ req'[r] = [req[r] EXCEPT !.pc = pc]
<1>1. req[r] \in Request /\ req[r].ended = 0
  BY InLog, OpenFields
<1> DEFINE q == [req[r] EXCEPT !.pc = pc]
<1>2. q \in Request /\ q.ask = A(r) /\ q.out = "pending" /\ q.ended = 0
  BY <1>1 DEF Request, A
<1>3. req' = [req EXCEPT ![r] = q]
  BY DEF Go
<1> HIDE DEF q
<1>4. Turn(r) /\ req'[r] = q
  BY <1>2, <1>3, TurnTo
<1> QED
  BY <1>4 DEF q

(* Reading a row.                                                          *)
LEMMA ReadsEffect ==
  ASSUME Base, NEW r \in Log, req[r].out = "pending", NEW t \in Table, NEW pc \in Pc, Reads(r, t, pc)
  PROVE  /\ Effect(r, {})
         /\ \/ A(r).id \in Live(t) /\ req'[r] = [req[r] EXCEPT !.pc = pc, !.copy = db[t][A(r).id]]
            \/ A(r).id \notin Live(t) /\ req'[r] = Finish(req[r], "notfound")
<1>1. req[r] \in Request /\ req[r].ended = 0
  BY InLog, OpenFields
<1>2. CASE A(r).id \in Live(t)
  <2> DEFINE q == [req[r] EXCEPT !.pc = pc, !.copy = db[t][A(r).id]]
  <2>1. db[t][A(r).id] \in Row
    BY <1>2 DEF Live, Base, ApiTypeOK
  <2>2. q \in Request /\ q.ask = A(r) /\ q.out = "pending" /\ q.ended = 0
    BY <1>1, <2>1 DEF Request, A
  <2>3. req' = [req EXCEPT ![r] = q]
    BY <1>2 DEF Reads
  <2> HIDE DEF q
  <2>4. Turn(r) /\ req'[r] = q
    BY <2>2, <2>3, TurnTo
  <2> QED
    BY <1>2, <2>4, QuietEffect DEF q, Reads
<1>3. CASE A(r).id \notin Live(t)
  BY <1>3, AnswerTurn, QuietEffect DEF Reads, Outcome
<1> QED
  BY <1>2, <1>3

(* A statement that looks whether a row is there.                          *)
LEMMA RequiresEffect ==
  ASSUME Base, NEW r \in Log, req[r].out = "pending", NEW found \in BOOLEAN,
         NEW missing \in Outcome \ {"pending"}, NEW pc \in Pc, Requires(r, found, missing, pc)
  PROVE  /\ Effect(r, {})
         /\ req'[r] = IF found THEN [req[r] EXCEPT !.pc = pc] ELSE Finish(req[r], missing)
<1>1. CASE found
  BY <1>1, GoTurn, QuietEffect DEF Requires
<1>2. CASE ~found
  BY <1>2, AnswerTurn, QuietEffect DEF Requires
<1> QED
  BY <1>1, <1>2

(* Answering with nothing else.                                            *)
LEMMA AnswerEffect ==
  ASSUME Base, NEW r \in Log, req[r].out = "pending", NEW out \in Outcome \ {"pending"},
         Answer(r, out), Quiet
  PROVE  Effect(r, {}) /\ req'[r] = Finish(req[r], out)
BY AnswerTurn, QuietEffect

(* The next statement, with nothing else.                                  *)
LEMMA GoEffect ==
  ASSUME Base, NEW r \in Log, req[r].out = "pending", NEW pc \in Pc, Go(r, pc), Quiet
  PROVE  Effect(r, {}) /\ req'[r] = [req[r] EXCEPT !.pc = pc]
BY GoTurn, QuietEffect

(* Reading a row to show it.                                               *)
LEMMA ShowsEffect ==
  ASSUME Base, NEW r \in Log, req[r].out = "pending", NEW t \in Table, Shows(r, t)
  PROVE  /\ Effect(r, {})
         /\ req'[r] = Finish(req[r], IF A(r).id \in Live(t) THEN "ok" ELSE "notfound")
BY AnswerEffect DEF Shows, Outcome

(* One row is written.                                                     *)
LEMMA RowEffect ==
  ASSUME Base, NEW r \in Log, req[r].out = "pending", NEW t \in Table, NEW i \in Id,
         NEW row \in Row, db' = [db EXCEPT ![t][i] = row],
         RowStep(r, t, db[t][i], row), Turn(r),
         Around(r)
  PROVE  /\ Effect(r, {t}) /\ db'[t][i] = row
         /\ \A u \in Table, j \in Id : <<u, j>> # <<t, i>> => db'[u][j] = db[u][j]
<1>1. db \in [Table -> [Id -> Row]]
  BY DEF Base, ApiTypeOK
<1>2. db' \in [Table -> [Id -> Row]]
  BY <1>1
<1>3. db'[t][i] = row
  BY <1>1
<1>4. \A u \in Table, j \in Id : <<u, j>> # <<t, i>> => db'[u][j] = db[u][j]
  BY <1>1
<1>5. \A u \in Table \ {t} : db'[u] = db[u]
  BY <1>1
<1>6. \A u \in Table, j \in Id : RowStep(r, u, db[u][j], db'[u][j])
  BY <1>3, <1>4 DEF RowStep
<1> QED
  BY <1>2, <1>3, <1>4, <1>5, <1>6 DEF Effect

(* What Aside leaves alone keeps its type.                                 *)
LEMMA AsideTypes ==
  ASSUME Base, NEW r, Aside
  PROVE  Around(r)
BY DEF Base, ApiTypeOK, Aside, Around

(* A step of r that leaves the tables as they are.                         *)
LEMMA StillEffect ==
  ASSUME Base, NEW r \in Log, req[r].out = "pending", Turn(r), UNCHANGED db,
         Around(r)
  PROVE  Effect(r, {})
<1>1. db \in [Table -> [Id -> Row]]
  BY DEF Base, ApiTypeOK
<1>2. \A t \in Table, i \in Id : RowStep(r, t, db[t][i], db[t][i])
  BY DEF RowStep
<1> QED
  BY <1>1, <1>2 DEF Effect

(* A step that writes fewer tables than it may.                            *)
LEMMA EffectOf ==
  ASSUME NEW r, NEW S, NEW T, S \subseteq T, Effect(r, S)
  PROVE  Effect(r, T)
BY DEF Effect

(* An entry of the log after an update or a deletion.                      *)
LEMMA WroteTurn ==
  ASSUME Base, NEW r \in Log, req[r].out = "pending", NEW pc \in Pc,
         req' = [req EXCEPT ![r].pc = pc, ![r].wrote = TRUE, ![r].stamp = Len(req)]
  PROVE  Turn(r) /\ req'[r] = Written(req[r], pc)
<1>1. req[r] \in Request /\ req[r].ended = 0 /\ Len(req) \in Nat
  BY InLog, OpenFields
<1> DEFINE q == Written(req[r], pc)
<1>2. q \in Request /\ q.ask = A(r) /\ q.out = "pending" /\ q.ended = 0
  BY <1>1 DEF Request, A, Written
<1>3. req' = [req EXCEPT ![r] = q]
  BY DEF Written
<1> HIDE DEF q
<1>4. Turn(r) /\ req'[r] = q
  BY <1>2, <1>3, TurnTo
<1> QED
  BY <1>4 DEF q

(* An answer of a unique index.                                            *)
LEMMA RefusedTurn ==
  ASSUME Base, NEW r \in Log, NEW hit \in {"no", "fault", "unique"}, NEW out \in Outcome \ {"pending"},
         req' = [req EXCEPT ![r] = [Finish(@, out) EXCEPT !.hit = hit]]
  PROVE  Turn(r) /\ req'[r] = [Finish(req[r], out) EXCEPT !.hit = hit]
<1>1. req[r] \in Request
  BY InLog
<1>2. LET f == Finish(req[r], out)
      IN  f \in Request /\ f.ask = A(r) /\ f.out = out /\ f.ended = Len(req) /\ f.pc = "end"
  BY <1>1, FinishFields DEF A
<1> DEFINE f == Finish(req[r], out)
           q == [f EXCEPT !.hit = hit]
<1> HIDE DEF f
<1>3. q \in Request /\ q.ask = A(r) /\ q.out = out /\ q.ended = Len(req) /\ q.pc = "end"
  BY <1>2 DEF Request, f
<1>4. req' = [req EXCEPT ![r] = q]
  BY DEF f
<1> HIDE DEF q
<1>5. Turn(r) /\ req'[r] = q
  BY <1>3, <1>4, TurnTo
<1> QED
  BY <1>5 DEF q, f

(* A row is inserted.                                                      *)
LEMMA InsertedEffect ==
  ASSUME Base, NEW r \in Log, req[r].out = "pending", NEW t \in Table, NEW i \in NextId(t),
         NEW new \in Row, new.st = "live", new.by = r, new.mark = r, new.end = 0,
         A(r).op \in Creations, Owned(r, t, new),
         db' = [db EXCEPT ![t][i] = new],
         NEW q \in Request, q.ask = A(r), q.out = "pending", q.ended = 0,
         req' = [req EXCEPT ![r] = q], Aside
  PROVE  Effect(r, {t}) /\ i \in Id /\ db[t][i].st = "none" /\ req'[r] = q
<1>1. i \in Id /\ db[t][i].st = "none"
  BY DEF NextId
<1>2. Turn(r) /\ req'[r] = q
  BY TurnTo
<1>3. RowStep(r, t, db[t][i], new)
  BY <1>1 DEF RowStep
<1> QED
  BY <1>1, <1>2, <1>3, RowEffect, AsideTypes

(* INSERT into a table with a unique index.                                *)
LEMMA InsertsEffect ==
  ASSUME Base, NEW r \in Log, req[r].out = "pending", NEW t \in Table, NEW pc \in Pc,
         A(r).op \in Creations, NEW row \in Row, row.end = 0,
         Owned(r, t, row),
         NEW taken \in BOOLEAN, Inserts(r, t, row, taken, pc)
  PROVE  /\ Effect(r, {t})
         /\ \/ /\ taken /\ db' = db
               /\ req'[r] = [Finish(req[r], "internal") EXCEPT !.hit = "unique"]
            \/ /\ ~taken
               /\ \E i \in Id : Inserted(r, t, row, pc, i)
<1>1. Aside
  BY DEF Inserts
<1>2. CASE taken
  <2>1. UNCHANGED db /\ req' = [req EXCEPT ![r] = [Finish(@, "internal") EXCEPT !.hit = "unique"]]
    BY <1>2 DEF Inserts
  <2>2. Turn(r) /\ req'[r] = [Finish(req[r], "internal") EXCEPT !.hit = "unique"]
    BY <2>1, RefusedTurn DEF Outcome
  <2> QED
    BY <1>1, <1>2, <2>1, <2>2, StillEffect, AsideTypes, EffectOf
<1>3. CASE ~taken
  <2>1. PICK i \in NextId(t) :
           /\ db' = [db EXCEPT ![t][i] = [row EXCEPT !.st = "live", !.by = r, !.mark = r]]
           /\ req' = [req EXCEPT ![r].pc = pc, ![r].made = @ \cup {i},
                         ![r].wrote = TRUE, ![r].stamp = Len(req)]
    BY <1>3 DEF Inserts
  <2>2. Effect(r, {t}) /\ i \in Id /\ Inserted(r, t, row, pc, i)
    <3> DEFINE q == [req[r] EXCEPT !.pc = pc, !.made = @ \cup {i}, !.wrote = TRUE,
                                   !.stamp = Len(req)]
               new == [row EXCEPT !.st = "live", !.by = r, !.mark = r]
    <3>1. i \in AnyId /\ r \in Nat /\ req[r] \in Request /\ req[r].ended = 0 /\ Len(req) \in Nat
      BY InLog, OpenFields DEF NextId, AnyId
    <3>2. q \in Request /\ q.ask = A(r) /\ q.out = "pending" /\ q.ended = 0
      BY <3>1 DEF Request, A
    <3>3. new \in Row /\ new.st = "live" /\ new.by = r /\ new.mark = r /\ new.end = 0
         /\ Owned(r, t, new)
      BY <3>1 DEF Row, Owned
    <3>4. req' = [req EXCEPT ![r] = q] /\ db' = [db EXCEPT ![t][i] = new]
      BY <2>1
    <3> HIDE DEF q, new
    <3>5. Effect(r, {t}) /\ i \in Id /\ db[t][i].st = "none" /\ req'[r] = q
      BY <1>1, <3>2, <3>3, <3>4, InsertedEffect
    <3> QED
      BY <2>1, <3>5 DEF q, Inserted
  <2> QED
    BY <1>3, <2>2
<1> QED
  BY <1>2, <1>3

(* INSERT into a table without one.                                        *)
LEMMA InsertEffect ==
  ASSUME Base, NEW r \in Log, req[r].out = "pending", NEW t \in Table, NEW pc \in Pc,
         A(r).op \in Creations, NEW row \in Row, row.end = 0,
         Owned(r, t, row),
         Inserts(r, t, row, FALSE, pc)
  PROVE  /\ Effect(r, {t})
         /\ \E i \in Id : Inserted(r, t, row, pc, i)
<1>1. PICK i \in NextId(t) :
        /\ db' = [db EXCEPT ![t][i] = [row EXCEPT !.st = "live", !.by = r, !.mark = r]]
        /\ req' = [req EXCEPT ![r].pc = pc, ![r].made = @ \cup {i},
                      ![r].wrote = TRUE, ![r].stamp = Len(req)]
  BY DEF Inserts
<1>2. Aside
  BY DEF Inserts
<1>3. Effect(r, {t}) /\ i \in Id /\ Inserted(r, t, row, pc, i)
  <2> DEFINE q == [req[r] EXCEPT !.pc = pc, !.made = @ \cup {i}, !.wrote = TRUE,
                                 !.stamp = Len(req)]
             new == [row EXCEPT !.st = "live", !.by = r, !.mark = r]
  <2>1. i \in AnyId /\ r \in Nat /\ req[r] \in Request /\ req[r].ended = 0 /\ Len(req) \in Nat
    BY InLog, OpenFields DEF NextId, AnyId
  <2>2. q \in Request /\ q.ask = A(r) /\ q.out = "pending" /\ q.ended = 0
    BY <2>1 DEF Request, A
  <2>3. new \in Row /\ new.st = "live" /\ new.by = r /\ new.mark = r /\ new.end = 0
       /\ Owned(r, t, new)
    BY <2>1 DEF Row, Owned
  <2>4. req' = [req EXCEPT ![r] = q] /\ db' = [db EXCEPT ![t][i] = new]
    BY <1>1
  <2> HIDE DEF q, new
  <2>5. Effect(r, {t}) /\ i \in Id /\ db[t][i].st = "none" /\ req'[r] = q
    BY <1>2, <2>2, <2>3, <2>4, InsertedEffect
  <2> QED
    BY <1>1, <2>5 DEF q, Inserted
<1> QED
  BY <1>3

(* UPDATE of a whole row.                                                  *)
LEMMA UpdatesEffect ==
  ASSUME Base, NEW r \in Log, req[r].out = "pending", NEW t \in Table, NEW pc \in Pc,
         NEW row \in Row, row.st = "live", row.end = 0, A(r).op \in Changes,
         A(r).id \in Live(t) => SameRow(t, db[t][A(r).id], row) /\ row.key >= db[t][A(r).id].key,
         Updates(r, t, row, pc)
  PROVE  /\ Effect(r, {t})
         /\ req'[r] = Written(req[r], pc)
         /\ db' = IF A(r).id \in Live(t)
                  THEN [db EXCEPT ![t][A(r).id] = [row EXCEPT !.mark = r]] ELSE db
<1>1. Aside /\ db' = IF A(r).id \in Live(t)
                     THEN [db EXCEPT ![t][A(r).id] = [row EXCEPT !.mark = r]] ELSE db
  BY DEF Updates
<1>2. /\ Turn(r)
      /\ req'[r] = Written(req[r], pc)
  BY WroteTurn DEF Updates
<1>3. CASE A(r).id \notin Live(t)
  BY <1>1, <1>2, <1>3, StillEffect, AsideTypes, EffectOf
<1>4. CASE A(r).id \in Live(t)
  <2> DEFINE new == [row EXCEPT !.mark = r]
  <2>1. A(r).id \in Id /\ db[t][A(r).id].st = "live"
    BY <1>4 DEF Live
  <2>2. new \in Row /\ new.st = "live" /\ new.end = 0 /\ new.mark = r /\ new.key = row.key
        /\ new.by = row.by /\ new.user = row.user /\ new.ref = row.ref /\ new.chat = row.chat
    BY InLog DEF Row
  <2> HIDE DEF new
  <2>3. RowStep(r, t, db[t][A(r).id], new)
    BY <1>4, <2>1, <2>2 DEF RowStep, SameRow
  <2>4. db' = [db EXCEPT ![t][A(r).id] = new]
    BY <1>1, <1>4 DEF new
  <2>5. Effect(r, {t})
    BY <1>1, <1>2, <2>1, <2>2, <2>3, <2>4, RowEffect, AsideTypes
  <2> QED
    BY <1>1, <1>2, <2>5
<1> QED
  BY <1>3, <1>4

(* A deleted row.                                                          *)
LEMMA DeadFields ==
  ASSUME Base, NEW r \in Log, NEW row \in Row
  PROVE  /\ Dead(row, r) \in Row /\ Dead(row, r).st = "gone" /\ Dead(row, r).end = r
         /\ Dead(row, r).by = row.by /\ Dead(row, r).user = row.user
         /\ Dead(row, r).chat = row.chat /\ Dead(row, r).ref = row.ref
         /\ Dead(row, r).key = row.key /\ Dead(row, r).done = row.done
         /\ Dead(row, r).mark = row.mark
BY InLog DEF Dead, Row

(* Soft deletion of the row asked for.                                     *)
LEMMA DeletesEffect ==
  ASSUME Base, NEW r \in Log, req[r].out = "pending", A(r).op \in Removals,
         NEW t \in Table, NEW pc \in Pc, Deletes(r, t, pc)
  PROVE  /\ Effect(r, {t})
         /\ \/ /\ A(r).id \in Live(t)
               /\ db' = [db EXCEPT ![t][A(r).id] = Dead(@, r)]
               /\ req'[r] = Written(req[r], pc)
            \/ /\ A(r).id \notin Live(t) /\ db' = db
               /\ req'[r] = Finish(req[r], "notfound")
<1>1. Aside
  BY DEF Deletes
<1>2. CASE A(r).id \in Live(t)
  <2>1. /\ db' = [db EXCEPT ![t][A(r).id] = Dead(@, r)]
        /\ req' = [req EXCEPT ![r].pc = pc, ![r].wrote = TRUE, ![r].stamp = Len(req)]
    BY <1>2 DEF Deletes
  <2>2. A(r).id \in Id /\ db[t][A(r).id].st = "live" /\ db[t][A(r).id] \in Row
    BY <1>2 DEF Live, Base, ApiTypeOK
  <2>3. Dead(db[t][A(r).id], r) \in Row
    BY <2>2, DeadFields
  <2>4. /\ Turn(r)
        /\ req'[r] = Written(req[r], pc)
    BY <2>1, WroteTurn
  <2>5. db' = [db EXCEPT ![t][A(r).id] = Dead(db[t][A(r).id], r)]
    BY <2>1
  <2>6. RowStep(r, t, db[t][A(r).id], Dead(db[t][A(r).id], r))
    BY <2>2 DEF RowStep
  <2>7. Effect(r, {t})
    BY <1>1, <2>2, <2>3, <2>4, <2>5, <2>6, RowEffect, AsideTypes
  <2> QED
    BY <1>2, <2>1, <2>4, <2>7
<1>3. CASE A(r).id \notin Live(t)
  <2>1. UNCHANGED db /\ Answer(r, "notfound")
    BY <1>3 DEF Deletes
  <2>2. Turn(r) /\ req'[r] = Finish(req[r], "notfound")
    BY <2>1, AnswerTurn DEF Outcome
  <2> QED
    BY <1>1, <1>3, <2>1, <2>2, StillEffect, AsideTypes, EffectOf
<1> QED
  BY <1>2, <1>3

(* The time a user was seen.                                               *)
LEMMA TouchEffect ==
  ASSUME Base, NEW r \in Log, NEW u, Touch(r, u)
  PROVE  /\ Effect(r, {})
         /\ req[r].pc = "touch" /\ req[r].out = "pending" /\ req'[r] = Finish(req[r], "ok")
         /\ db' = IF u \in Live("users")
                  THEN [db EXCEPT !["users"][u].key = LatestOf(@, req[r].stamp)] ELSE db
<1>1. /\ Aside /\ req[r].pc = "touch" /\ req[r].out = "pending" /\ Answer(r, "ok")
      /\ db' = IF u \in Live("users")
               THEN [db EXCEPT !["users"][u].key = LatestOf(@, req[r].stamp)] ELSE db
  BY DEF Touch
<1>2. Turn(r) /\ req'[r] = Finish(req[r], "ok")
  BY <1>1, AnswerTurn DEF Outcome
<1>3. CASE u \notin Live("users")
  BY <1>1, <1>2, <1>3, StillEffect, AsideTypes, EffectOf
<1>4. CASE u \in Live("users")
  <2> DEFINE old == db["users"][u]
             new == [old EXCEPT !.key = LatestOf(old.key, req[r].stamp)]
  <2>1. u \in Id /\ old.st = "live" /\ old \in Row /\ "users" \in Table /\ old.end = 0
    BY <1>4 DEF Live, Base, ApiTypeOK, Table, RowOK
  <2>2. req[r].stamp \in Nat
    BY InLog DEF Request
  <2>3. LatestOf(old.key, req[r].stamp) \in Nat /\ LatestOf(old.key, req[r].stamp) >= old.key
    BY <2>1, <2>2 DEF LatestOf, Row
  <2>4. new \in Row /\ new.st = "live" /\ new.end = 0 /\ new.mark = old.mark
        /\ new.by = old.by /\ new.user = old.user /\ new.ref = old.ref /\ new.chat = old.chat
        /\ new.key >= old.key /\ new.done = old.done
    BY <2>1, <2>3 DEF Row
  <2>5. db' = [db EXCEPT !["users"][u] = new]
    BY <1>1, <1>4
  <2>6. RowStep(r, "users", old, new) /\ Seen("users", old, new)
    BY <2>1, <2>4 DEF RowStep, Seen
  <2>8. old = db["users"][u]
    OBVIOUS
  <2> HIDE DEF new, old
  <2>9. /\ Effect(r, {"users"}) /\ db'["users"][u] = new
        /\ \A t \in Table, j \in Id : <<t, j>> # <<"users", u>> => db'[t][j] = db[t][j]
    BY <1>1, <1>2, <2>1, <2>4, <2>5, <2>6, <2>8, RowEffect, AsideTypes
  <2>10. \A t \in Table, j \in Id :
           \/ t = "users" /\ j = u
           \/ db'[t][j] = db[t][j]
    BY <2>9
  <2>7. Effect(r, {})
    BY <2>6, <2>8, <2>9, <2>10 DEF Effect
  <2> QED
    BY <1>1, <1>2, <2>7
<1> QED
  BY <1>3, <1>4

(* A step that replaces the entry of r and nothing else.                   *)
LEMMA RecordEffect ==
  ASSUME Base, NEW r \in Log, req[r].out = "pending", NEW q \in Request, q.ask = A(r),
         IF q.out = "pending" THEN q.ended = 0 ELSE q.ended = Len(req) /\ q.pc = "end",
         req' = [req EXCEPT ![r] = q], Quiet
  PROVE  Effect(r, {}) /\ req'[r] = q
BY TurnTo, QuietEffect

(* An answer that shows rows.                                              *)
LEMMA MadeEffect ==
  ASSUME Base, NEW r \in Log, req[r].out = "pending", NEW out \in Outcome \ {"pending"}, NEW S \in SUBSET AnyId,
         req' = [req EXCEPT ![r] = [Finish(@, out) EXCEPT !.made = S]], Quiet
  PROVE  Effect(r, {}) /\ req'[r] = [Finish(req[r], out) EXCEPT !.made = S]
<1>1. req[r] \in Request
  BY InLog
<1> DEFINE f == Finish(req[r], out)
           q == [f EXCEPT !.made = S]
<1>2. f \in Request /\ f.ask = A(r) /\ f.out = out /\ f.ended = Len(req) /\ f.pc = "end"
  BY <1>1, FinishFields DEF A
<1> HIDE DEF f
<1>3. q \in Request /\ q.ask = A(r) /\ q.out = out /\ q.ended = Len(req) /\ q.pc = "end"
  BY <1>2 DEF Request
<1>4. req' = [req EXCEPT ![r] = q]
  BY DEF f
<1> HIDE DEF q
<1>5. Effect(r, {}) /\ req'[r] = q
  BY <1>3, <1>4, RecordEffect
<1> QED
  BY <1>5 DEF q, f

(* Rows are ids, and there are finitely many.                              *)
LEMMA SomeIds ==
  ASSUME NEW S, S \subseteq Id
  PROVE  IsFiniteSet(S) /\ Cardinality(S) \in Nat /\ S \in SUBSET AnyId
<1>1. MaxId \in Nat
  BY ApiAssumption
<1>2. IsFiniteSet(Id)
  BY <1>1, FS_Interval DEF Id
<1> QED
  BY <1>2, FS_Subset, FS_CardinalityType DEF AnyId

LEMMA LiveIds ==
  ASSUME NEW t
  PROVE  Live(t) \subseteq Id
BY DEF Live

(* Counting rows.                                                          *)
LEMMA CountsEffect ==
  ASSUME Base, NEW r \in Log, req[r].out = "pending", NEW S, S \subseteq Id, Counts(r, S)
  PROVE  Effect(r, {}) /\ req'[r] = [req[r] EXCEPT !.pc = "page", !.total = Cardinality(S)]
<1>1. req[r] \in Request /\ req[r].ended = 0 /\ Cardinality(S) \in Nat
  BY InLog, OpenFields, SomeIds
<1> DEFINE n == Cardinality(S)
           q == [req[r] EXCEPT !.pc = "page", !.total = n]
<1>2. req' = [req EXCEPT ![r] = q] /\ Quiet
  BY DEF Counts
<1> HIDE DEF n
<1>3. n \in Nat
  BY <1>1 DEF n
<1>4. q \in Request /\ q.ask = A(r) /\ q.out = "pending" /\ q.ended = 0
  BY <1>1, <1>3 DEF Request, A, Pc
<1> HIDE DEF q
<1>5. Effect(r, {}) /\ req'[r] = q
  BY <1>2, <1>4, RecordEffect
<1> QED
  BY <1>5 DEF q, n

(* Showing a page of them.                                                 *)
LEMMA ShowsPageEffect ==
  ASSUME Base, NEW r \in Log, req[r].out = "pending", NEW S, S \subseteq Id, ShowsPage(r, S)
  PROVE  /\ Effect(r, {})
         /\ req'[r] = [Finish(req[r], "ok") EXCEPT !.made = Page(S, A(r).page)]
<1> DEFINE P == Page(S, A(r).page)
<1>1. P \subseteq Id
  BY DEF Page
<1>2. req' = [req EXCEPT ![r] = [Finish(@, "ok") EXCEPT !.made = P]] /\ Quiet
  BY DEF ShowsPage
<1> HIDE DEF P
<1>3. P \in SUBSET AnyId
  BY <1>1, SomeIds
<1>4. Effect(r, {}) /\ req'[r] = [Finish(req[r], "ok") EXCEPT !.made = P]
  BY <1>2, <1>3, MadeEffect, ZenonT(30) DEF Outcome
<1> QED
  BY <1>4 DEF P

(* Looking up the chats to filter by.                                      *)
LEMMA ListsByChatEffect ==
  ASSUME Base, NEW r \in Log, req[r].out = "pending", NEW chats, chats \subseteq Id,
         ListsByChat(r, chats)
  PROVE  /\ Effect(r, {})
         /\ req'[r] = IF A(r).key = 0 THEN [req[r] EXCEPT !.pc = "count"]
                      ELSE IF chats = {} THEN Finish(req[r], "ok")
                      ELSE [req[r] EXCEPT !.pc = "count", !.ids = chats]
<1>1. req[r] \in Request /\ req[r].ended = 0 /\ "count" \in Pc
  BY InLog, OpenFields DEF Pc
<1>2. CASE A(r).key = 0
  <2>1. Go(r, "count") /\ Quiet
    BY <1>2 DEF ListsByChat
  <2> QED
    BY <1>1, <1>2, <2>1, GoEffect
<1>3. CASE A(r).key # 0 /\ chats = {}
  <2>1. Answer(r, "ok") /\ Quiet
    BY <1>3 DEF ListsByChat
  <2> QED
    BY <1>3, <2>1, AnswerEffect DEF Outcome
<1>4. CASE A(r).key # 0 /\ chats # {}
  <2> DEFINE q == [req[r] EXCEPT !.pc = "count", !.ids = chats]
  <2>1. req' = [req EXCEPT ![r] = q] /\ Quiet
    BY <1>4 DEF ListsByChat
  <2>2. q \in Request /\ q.ask = A(r) /\ q.out = "pending" /\ q.ended = 0
    BY <1>1 DEF Request, A
  <2> HIDE DEF q
  <2>3. Effect(r, {}) /\ req'[r] = q
    BY <2>1, <2>2, RecordEffect
  <2> QED
    BY <1>4, <2>3 DEF q
<1> QED
  BY <1>2, <1>3, <1>4

(* Showing any of the rows found.                                          *)
LEMMA ShowsAnyEffect ==
  ASSUME Base, NEW r \in Log, req[r].out = "pending", NEW S, S \subseteq AnyId, ShowsAny(r, S)
  PROVE  /\ Effect(r, {})
         /\ \/ S = {} /\ req'[r] = Finish(req[r], "notfound")
            \/ \E made \in SUBSET S : req'[r] = [Finish(req[r], "ok") EXCEPT !.made = made]
<1>1. CASE S = {} /\ Answer(r, "notfound")
  BY <1>1, AnswerEffect DEF ShowsAny, Outcome
<1>2. ASSUME NEW i \in S, req' = [req EXCEPT ![r] = [Finish(@, "ok") EXCEPT !.made = {i}]]
      PROVE  /\ Effect(r, {})
             /\ \E made \in SUBSET S : req'[r] = [Finish(req[r], "ok") EXCEPT !.made = made]
  <2> DEFINE P == {i}
  <2>1. P \in SUBSET AnyId /\ P \in SUBSET S
    OBVIOUS
  <2>2. req' = [req EXCEPT ![r] = [Finish(@, "ok") EXCEPT !.made = P]] /\ Quiet
    BY <1>2 DEF ShowsAny
  <2> HIDE DEF P
  <2>3. Effect(r, {}) /\ req'[r] = [Finish(req[r], "ok") EXCEPT !.made = P]
    BY <2>1, <2>2, MadeEffect DEF Outcome
  <2> QED
    BY <2>1, <2>3
<1> QED
  BY <1>1, <1>2 DEF ShowsAny

(* The last answer.                                                        *)
LEMMA RepliesEffect ==
  ASSUME Base, NEW r \in Log, NEW op, Replies(r, op)
  PROVE  /\ Effect(r, {}) /\ At(r, op, "end") /\ req'[r] = Finish(req[r], "ok")
BY AnswerEffect DEF Replies, At, Outcome

(* Reading the digest of a user and a chat.                                *)
LEMMA DigestReadEffect ==
  ASSUME Base, NEW r \in Log, req[r].out = "pending", NEW pc \in Pc, GetDigestSettingsByUserID(r, pc)
  PROVE  /\ Effect(r, {})
         /\ \/ DigestsOf(A(r).user, A(r).chat) = {} /\ req'[r] = Finish(req[r], "notfound")
            \/ \E d \in DigestsOf(A(r).user, A(r).chat) :
                 req'[r] = [req[r] EXCEPT !.pc = pc, !.copy = db["digests"][d], !.item = d]
<1>1. CASE DigestsOf(A(r).user, A(r).chat) = {} /\ Answer(r, "notfound")
  BY <1>1, AnswerEffect DEF GetDigestSettingsByUserID, Outcome
<1>2. ASSUME NEW d \in DigestsOf(A(r).user, A(r).chat),
             req' = [req EXCEPT ![r].pc = pc, ![r].copy = db["digests"][d], ![r].item = d]
      PROVE  /\ Effect(r, {})
             /\ req'[r] = [req[r] EXCEPT !.pc = pc, !.copy = db["digests"][d], !.item = d]
  <2> DEFINE q == [req[r] EXCEPT !.pc = pc, !.copy = db["digests"][d], !.item = d]
  <2>1. d \in Id /\ d \in AnyId /\ db["digests"][d] \in Row
    BY DEF DigestsOf, Live, AnyId, Base, ApiTypeOK, Table
  <2>2. req[r] \in Request /\ req[r].ended = 0
    BY InLog, OpenFields
  <2>3. q \in Request /\ q.ask = A(r) /\ q.out = "pending" /\ q.ended = 0
    BY <2>1, <2>2 DEF Request, A
  <2>4. req' = [req EXCEPT ![r] = q] /\ Quiet
    BY <1>2 DEF GetDigestSettingsByUserID
  <2> HIDE DEF q
  <2>5. Effect(r, {}) /\ req'[r] = q
    BY <2>3, <2>4, RecordEffect
  <2> QED
    BY <2>5 DEF q
<1> QED
  BY <1>1, <1>2 DEF GetDigestSettingsByUserID

(* Writing it back.                                                        *)
LEMMA DigestUpdateEffect ==
  ASSUME Base, NEW r \in Log, req[r].out = "pending", A(r).op \in Changes,
         UpdateDigestRow(r)
  PROVE  LET d == req[r].item
             live == d \in Live("digests")
             clash == /\ live /\ DigestTaken(req[r].copy.user, req[r].copy.chat)
                      /\ DigestsOf(req[r].copy.user, req[r].copy.chat) # {d}
         IN  /\ Effect(r, {"digests"})
             /\ \/ /\ clash /\ db' = db
                   /\ req'[r] = [Finish(req[r], "internal") EXCEPT !.hit = "unique"]
                \/ /\ ~ clash
                   /\ req'[r] = Written(req[r], "publish")
                   /\ db' = IF live THEN [db EXCEPT !["digests"][d].chat = req[r].copy.chat,
                                                    !["digests"][d].mark = r]
                            ELSE db
<1> DEFINE d == req[r].item
           live == d \in Live("digests")
           clash == /\ live /\ DigestTaken(req[r].copy.user, req[r].copy.chat)
                    /\ DigestsOf(req[r].copy.user, req[r].copy.chat) # {d}
<1>1. Aside
  BY DEF UpdateDigestRow
<1>2. CASE clash
  <2>1. UNCHANGED db /\ req' = [req EXCEPT ![r] = [Finish(@, "internal") EXCEPT !.hit = "unique"]]
    BY <1>2 DEF UpdateDigestRow
  <2>2. Turn(r) /\ req'[r] = [Finish(req[r], "internal") EXCEPT !.hit = "unique"]
    BY <2>1, RefusedTurn DEF Outcome
  <2> QED
    BY <1>1, <1>2, <2>1, <2>2, StillEffect, AsideTypes, EffectOf
<1>3. CASE ~ clash
  <2>1. /\ req' = [req EXCEPT ![r].pc = "publish", ![r].wrote = TRUE, ![r].stamp = Len(req)]
        /\ db' = IF live THEN [db EXCEPT !["digests"][d].chat = req[r].copy.chat,
                                         !["digests"][d].mark = r]
                 ELSE db
    BY <1>3 DEF UpdateDigestRow
  <2>2. /\ Turn(r)
        /\ req'[r] = Written(req[r], "publish")
    BY <2>1, WroteTurn DEF Pc
  <2>3. Effect(r, {"digests"})
    <3>1. CASE ~ live
      BY <1>1, <2>1, <2>2, <3>1, StillEffect, AsideTypes, EffectOf
    <3>2. CASE live
      <4> DEFINE old == db["digests"][d]
                 new == [old EXCEPT !.chat = req[r].copy.chat, !.mark = r]
      <4>1. d \in Id /\ old \in Row /\ old.st = "live" /\ old.end = 0 /\ "digests" \in Table
        BY <3>2 DEF Live, Base, ApiTypeOK, Table, RowOK
      <4>2. req[r].copy.chat \in AnyId /\ r \in Nat
        BY InLog DEF Request, Row
      <4>3. /\ new \in Row /\ new.st = "live" /\ new.end = 0 /\ new.mark = r /\ new.by = old.by
            /\ new.user = old.user /\ new.ref = old.ref /\ new.key = old.key /\ old.key \in Nat
        BY <4>1, <4>2 DEF Row
      <4>4. db' = [db EXCEPT !["digests"][d] = new]
        BY <2>1, <3>2
      <4>6. db["digests"][d] = old
        OBVIOUS
      <4> HIDE DEF new, d, old
      <4>5. RowStep(r, "digests", old, new)
        <5>1. SameRow("digests", old, new)
          BY <4>3 DEF SameRow
        <5>2. new.key >= old.key
          BY <4>3
        <5>3. new.mark \in {old.mark, r}
          BY <4>3
        <5> QED
          BY <4>1, <4>3, <5>1, <5>2 DEF RowStep
      <4> QED
        BY <1>1, <2>2, <4>1, <4>3, <4>4, <4>5, <4>6, RowEffect, AsideTypes
    <3> QED
      BY <3>1, <3>2
  <2> QED
    BY <1>3, <2>1, <2>2, <2>3
<1> QED
  BY <1>2, <1>3

(* Rows of one table are deleted.                                          *)
LEMMA DeadRows ==
  ASSUME Base, NEW r \in Log, req[r].out = "pending", A(r).op \in Removals, NEW t \in Table,
         NEW rows \in [Id -> Row], db' = [db EXCEPT ![t] = rows],
         \A i \in Id : \/ rows[i] = db[t][i]
                       \/ db[t][i].st = "live" /\ rows[i] = Dead(db[t][i], r),
         Turn(r), Aside
  PROVE  Effect(r, {t}) /\ db'[t] = rows
<1>1. db \in [Table -> [Id -> Row]]
  BY DEF Base, ApiTypeOK
<1>2. db'[t] = rows
  BY <1>1
<1>3. \A u \in Table \ {t} : db'[u] = db[u]
  BY <1>1
<1>4. db' \in [Table -> [Id -> Row]]
  BY <1>1
<1>5. \A u \in Table, i \in Id : RowStep(r, u, db[u][i], db'[u][i])
  BY <1>2, <1>3 DEF RowStep
<1> QED
  BY <1>2, <1>3, <1>4, <1>5, AsideTypes DEF Effect

(* Deleting the digests of a user and a chat.                              *)
LEMMA DigestDeleteEffect ==
  ASSUME Base, NEW r \in Log, req[r].out = "pending", A(r).op \in Removals,
         DeleteDigestRows(r)
  PROVE  LET gone == DigestsOf(A(r).user, A(r).chat)
         IN  /\ Effect(r, {"digests"})
             /\ \/ /\ gone = {} /\ db' = db /\ req'[r] = Finish(req[r], "notfound")
                \/ /\ gone # {}
                   /\ req'[r] = Written(req[r], "publish")
                   /\ \A d \in Id : db'["digests"][d] = IF d \in gone THEN Dead(db["digests"][d], r)
                                                        ELSE db["digests"][d]
<1> DEFINE gone == DigestsOf(A(r).user, A(r).chat)
<1>1. Aside
  BY DEF DeleteDigestRows
<1>2. CASE gone = {}
  <2>1. UNCHANGED db /\ Answer(r, "notfound")
    BY <1>2 DEF DeleteDigestRows
  <2> QED
    BY <1>1, <1>2, <2>1, AnswerTurn, StillEffect, AsideTypes, EffectOf DEF Outcome
<1>3. CASE gone # {}
  <2>1. /\ db' = [db EXCEPT !["digests"] =
                    [d \in Id |-> IF d \in gone THEN Dead(@[d], r) ELSE @[d]]]
        /\ req' = [req EXCEPT ![r].pc = "publish", ![r].wrote = TRUE, ![r].stamp = Len(req)]
    BY <1>3 DEF DeleteDigestRows
  <2>2. /\ Turn(r)
        /\ req'[r] = Written(req[r], "publish")
    BY <2>1, WroteTurn DEF Pc
  <2>3. gone \subseteq Live("digests") /\ "digests" \in Table
    BY DEF DigestsOf, Table
  <2> DEFINE rows == [d \in Id |-> IF d \in gone THEN Dead(db["digests"][d], r)
                                   ELSE db["digests"][d]]
  <2>4. db' = [db EXCEPT !["digests"] = rows]
    BY <2>1
  <2>6. /\ \A d \in Id : rows[d] = IF d \in gone THEN Dead(db["digests"][d], r)
                                    ELSE db["digests"][d]
        /\ \A d \in Id : \/ rows[d] = db["digests"][d]
                         \/ db["digests"][d].st = "live" /\ rows[d] = Dead(db["digests"][d], r)
    BY <2>3 DEF Live
  <2>7. rows \in [Id -> Row]
    <3>1. \A d \in Id : db["digests"][d] \in Row
      BY <2>3 DEF Base, ApiTypeOK
    <3> QED
      BY <3>1, DeadFields
  <2> HIDE DEF gone, rows
  <2>5. Effect(r, {"digests"}) /\ db'["digests"] = rows
    BY <1>1, <2>2, <2>3, <2>4, <2>6, <2>7, DeadRows
  <2> QED
    BY <1>3, <2>2, <2>5, <2>6 DEF gone
<1> QED
  BY <1>2, <1>3

(* Telling the worker.                                                     *)
LEMMA TellsEffect ==
  ASSUME Base, NEW r \in Log, req[r].out = "pending", NEW user, NEW chat,
         A(r).op \in DigestOps, NEW mark \in Nat \cup {NotTold}, Tells(r, user, chat, mark)
  PROVE  /\ Effect(r, {}) /\ db' = db
         /\ req'[r] = [req[r] EXCEPT !.pc = "touch"]
         /\ told' = [told EXCEPT ![<<user, chat>>] = mark]
<1>1. Turn(r) /\ req'[r] = [req[r] EXCEPT !.pc = "touch"]
  BY GoTurn DEF Tells, Pc
<1>2. UNCHANGED <<db, armed, scene, failed>> /\ told' = [told EXCEPT ![<<user, chat>>] = mark]
  BY DEF Tells
<1>3. told \in [Id \X AnyId -> Nat \cup {NotTold}] /\ armed \subseteq Id /\ failed \in 0..MaxFault
  BY DEF Base, ApiTypeOK
<1>4. told' \in [Id \X AnyId -> Nat \cup {NotTold}]
  BY <1>2, <1>3
<1>5. Around(r)
  BY <1>2, <1>3, <1>4 DEF Around
<1> QED
  BY <1>1, <1>2, <1>5, StillEffect

(* A failure, counted.                                                     *)
LEMMA FailsEffect ==
  ASSUME Base, NEW r \in Log, req[r].out = "pending", Turn(r), UNCHANGED <<db, armed, told, scene>>,
         failed < MaxFault, failed' = failed + 1
  PROVE  Effect(r, {})
<1>1. told \in [Id \X AnyId -> Nat \cup {NotTold}] /\ armed \subseteq Id
  BY DEF Base, ApiTypeOK
<1>2. failed' \in 0..MaxFault
  <2>1. MaxFault \in Nat
    BY ApiAssumption
  <2>2. failed \in 0..MaxFault
    BY DEF Base, ApiTypeOK
  <2>3. failed < MaxFault /\ failed' = failed + 1
    OBVIOUS
  <2>4. failed + 1 \in 0..MaxFault
    BY <2>1, <2>2, <2>3
  <2> QED
    BY <2>3, <2>4
<1>3. UNCHANGED db /\ armed' = armed /\ told' = told /\ scene' = scene
  OBVIOUS
<1>4. Around(r)
  BY <1>1, <1>2, <1>3 DEF Around
<1> QED
  BY <1>1, <1>3, <1>4, StillEffect
-----------------------------------------------------------------------------
(* The requests.  Next to what a step does to the tables, what may be      *)
(* said of the entry it leaves in the log: when it has written, and which  *)
(* outcomes it comes to.                                                   *)

MayMiss   == {"GetUser", "UpdateUser", "DeleteUser", "GetMessenger", "GetMessengerIDByName",
              "GetMessengerRelatedUser", "GetUserID", "GetTaskGroupByID", "UpdateTaskGroup",
              "DeleteTaskGroup", "DeleteBinding", "GetDigestSettings", "UpdateDigestSettings",
              "DeleteDigestSettings", "GetBacklogByID", "UpdateBacklog", "DeleteBacklog",
              "GetTargetByID", "UpdateTarget", "DeleteTarget", "QueueTask"}
MayClash  == {"CreateUser", "DeleteTaskGroup"}
MayReject == {"CreateTaskGroup", "UpdateTaskGroup", "CreateBinding", "CreateDigestSettings",
              "UpdateDigestSettings", "UpdateBacklog", "UpdateTarget"}
MayRefuse == {"CreateMessengerRelatedUser", "GetMessengerRelatedUser", "CreateTaskGroup",
              "CreateBinding", "CreateDigestSettings", "UpdateDigestSettings", "GetDigest",
              "CreateBacklog", "CreateBacklogsBatch", "CreateTarget", "CreateTask", "QueueTask"}

(* The errors a request knows.                                             *)
May(op, out) == \/ out = "notfound" /\ op \in MayMiss
                \/ out = "conflict" /\ op \in MayClash
                \/ out = "validation" /\ op \in MayReject
                \/ out = "unprocessable" /\ op \in MayRefuse

(* Where a request may have written.                                       *)
Late(op, pc) == \/ pc \in {"touch", "publish", "end", "remove", "name", "chats", "lines"}
                \/ op = "DeleteUser" /\ pc = "delete"

Honest(q) ==
  /\ q.ask.bad => q.out = "validation"
  /\ q.wrote => q.out \in {"pending", "ok", "internal"}
  /\ q.out = "pending" /\ q.wrote => Late(q.ask.op, q.pc)
  /\ q.ask.op = "CreateBacklogsBatch" /\ q.wrote => q.made # {}
  /\ q.out = "internal" => q.hit # "no" \/ q.ask.blank
  /\ q.out \in {"pending", "ok", "internal"} \/ q.ask.bad \/ May(q.ask.op, q.out)

(* A step of r in which the tables of T may change.                        *)
Does(r, T) == Effect(r, T) /\ Honest(req'[r])

LEMMA DoesOf ==
  ASSUME NEW r, NEW S, NEW T, S \subseteq T, Does(r, S)
  PROVE  Does(r, T)
BY EffectOf DEF Does

(* To the next statement.                                                  *)
LEMMA HonestGo ==
  ASSUME NEW q, NEW p, Honest(q), q.out = "pending", p.ask = q.ask, p.out = "pending",
         p.wrote => Late(p.ask.op, p.pc) /\ (q.ask.op = "CreateBacklogsBatch" => p.made # {})
  PROVE  Honest(p)
BY DEF Honest

(* An answer.                                                              *)
LEMMA HonestEnd ==
  ASSUME NEW q, NEW p, Honest(q), q.out = "pending", p.ask = q.ask, p.wrote = q.wrote,
         p.made = q.made \/ ~ q.wrote \/ q.ask.op # "CreateBacklogsBatch",
         \/ p.out = "ok"
         \/ p.out = "internal" /\ (p.hit # "no" \/ q.ask.blank)
         \/ May(q.ask.op, p.out) /\ ~ q.wrote
  PROVE  Honest(p)
BY DEF Honest, May

(* Before a request has written.                                           *)
LEMMA Unwritten ==
  ASSUME NEW q, Honest(q), q.out = "pending", ~ Late(q.ask.op, q.pc), q.wrote \in BOOLEAN
  PROVE  ~ q.wrote
BY DEF Honest

LEMMA GoDoes ==
  ASSUME Base, NEW r \in Log, Honest(req[r]), NEW op, NEW from, At(r, op, from),
         NEW pc \in Pc, Late(op, pc) \/ ~ Late(op, from), Go(r, pc), Quiet
  PROVE  Does(r, {}) /\ A(r).op = op
<1>1. req[r] \in Request /\ req[r].out = "pending" /\ req[r].ask.op = op /\ req[r].pc = from
  BY InLog DEF At, A
<1>2. Effect(r, {}) /\ req'[r] = [req[r] EXCEPT !.pc = pc]
  BY <1>1, GoEffect
<1> DEFINE p == [req[r] EXCEPT !.pc = pc]
<1>3. p.ask = req[r].ask /\ p.out = "pending" /\ p.wrote = req[r].wrote /\ p.pc = pc
      /\ p.made = req[r].made /\ req[r].wrote \in BOOLEAN
  BY <1>1 DEF Request
<1> HIDE DEF p
<1>4. p.wrote => Late(op, pc) /\ (op = "CreateBacklogsBatch" => p.made # {})
  BY <1>1, <1>3 DEF Honest
<1>5. Honest(p)
  BY <1>1, <1>3, <1>4, HonestGo
<1> QED
  BY <1>1, <1>2, <1>5 DEF Does, p, A

LEMMA AnswerDoes ==
  ASSUME Base, NEW r \in Log, Honest(req[r]), NEW op, NEW from, At(r, op, from),
         NEW out \in Outcome \ {"pending"}, Answer(r, out), Quiet,
         \/ out = "ok"
         \/ out = "internal" /\ A(r).blank
         \/ May(op, out) /\ ~ Late(op, from)
  PROVE  Does(r, {}) /\ A(r).op = op
<1>1. /\ req[r] \in Request /\ req[r].out = "pending" /\ req[r].ask.op = op /\ req[r].pc = from
      /\ req[r].wrote \in BOOLEAN /\ req[r].ask.blank = A(r).blank
  BY InLog DEF At, A, Request
<1>2. Effect(r, {}) /\ req'[r] = Finish(req[r], out)
  BY <1>1, AnswerEffect
<1>3. Honest(Finish(req[r], out))
  BY <1>1, FinishFields, HonestEnd, Unwritten
<1> QED
  BY <1>1, <1>2, <1>3 DEF Does, A

LEMMA ReadsDoes ==
  ASSUME Base, NEW r \in Log, Honest(req[r]), NEW op \in MayMiss, NEW from, At(r, op, from),
         ~ Late(op, from), NEW t \in Table, NEW pc \in Pc, Reads(r, t, pc)
  PROVE  Does(r, {}) /\ A(r).op = op
<1>1. /\ req[r] \in Request /\ req[r].out = "pending" /\ req[r].ask.op = op /\ req[r].pc = from
      /\ req[r].wrote \in BOOLEAN
  BY InLog DEF At, A, Request
<1>2. ~ req[r].wrote
  BY <1>1, Unwritten
<1>3. /\ Effect(r, {})
      /\ \/ req'[r] = [req[r] EXCEPT !.pc = pc, !.copy = db[t][A(r).id]]
         \/ req'[r] = Finish(req[r], "notfound")
  BY <1>1, ReadsEffect
<1>4. Honest(Finish(req[r], "notfound"))
  BY <1>1, <1>2, FinishFields, HonestEnd DEF May, Outcome
<1>5. Honest([req[r] EXCEPT !.pc = pc, !.copy = db[t][A(r).id]])
  <2> DEFINE p == [req[r] EXCEPT !.pc = pc, !.copy = db[t][A(r).id]]
  <2>1. p.ask = req[r].ask /\ p.out = "pending" /\ ~ p.wrote
    BY <1>1, <1>2 DEF Request
  <2> HIDE DEF p
  <2>2. Honest(p)
    BY <1>1, <2>1, HonestGo
  <2> QED
    BY <2>2 DEF p
<1> QED
  BY <1>1, <1>3, <1>4, <1>5 DEF Does, A

LEMMA RequiresDoes ==
  ASSUME Base, NEW r \in Log, Honest(req[r]), NEW op, NEW from, At(r, op, from),
         ~ Late(op, from), NEW found, NEW missing \in Outcome \ {"pending"}, May(op, missing),
         NEW pc \in Pc, Requires(r, found, missing, pc)
  PROVE  Does(r, {}) /\ A(r).op = op
<1>1. CASE Go(r, pc) /\ Quiet
  BY <1>1, GoDoes
<1>2. CASE Answer(r, missing) /\ Quiet
  BY <1>2, AnswerDoes
<1> QED
  BY <1>1, <1>2 DEF Requires

LEMMA ShowsDoes ==
  ASSUME Base, NEW r \in Log, Honest(req[r]), NEW op \in MayMiss, NEW from, At(r, op, from),
         ~ Late(op, from), NEW t \in Table, Shows(r, t)
  PROVE  Does(r, {}) /\ A(r).op = op
<1>1. CASE Answer(r, "ok") /\ Quiet
  BY <1>1, AnswerDoes DEF Outcome
<1>2. CASE Answer(r, "notfound") /\ Quiet
  BY <1>2, AnswerDoes DEF Outcome, May
<1> QED
  BY <1>1, <1>2 DEF Shows

(* An error with a cause.                                                  *)
LEMMA RefusedHonest ==
  ASSUME Base, NEW q \in Request, Honest(q), q.out = "pending", NEW hit \in {"fault", "unique"}
  PROVE  Honest([Finish(q, "internal") EXCEPT !.hit = hit])
<1> DEFINE f == Finish(q, "internal")
           p == [f EXCEPT !.hit = hit]
<1>1. f \in Request /\ f.ask = q.ask /\ f.out = "internal" /\ f.wrote = q.wrote /\ f.made = q.made
  BY FinishFields DEF Outcome
<1> HIDE DEF f
<1>2. p.ask = q.ask /\ p.out = "internal" /\ p.wrote = q.wrote /\ p.made = q.made /\ p.hit # "no"
  BY <1>1 DEF Request
<1> HIDE DEF p
<1>3. Honest(p)
  BY <1>2, HonestEnd
<1> QED
  BY <1>3 DEF p, f

(* After an insertion.                                                     *)
LEMMA InsertedHonest ==
  ASSUME Base, NEW r \in Log, Honest(req[r]), req[r].out = "pending", NEW t, NEW row,
         NEW pc \in {"touch", "publish", "end"}, NEW i \in Id, Inserted(r, t, row, pc, i)
  PROVE  Honest(req'[r])
<1> DEFINE q == [req[r] EXCEPT !.pc = pc, !.made = @ \cup {i}, !.wrote = TRUE, !.stamp = Len(req)]
<1>1. q.ask = req[r].ask /\ q.out = "pending" /\ q.made # {} /\ q.pc = pc
  BY InLog DEF Request
<1> HIDE DEF q
<1>2. Honest(q)
  BY <1>1, HonestGo DEF Late
<1> QED
  BY <1>2 DEF Inserted, q

LEMMA InsertDoes ==
  ASSUME Base, NEW r \in Log, Honest(req[r]), NEW op \in Creations, NEW from, At(r, op, from),
         NEW t \in Table, NEW row \in Row, row.end = 0,
         Owned(r, t, row), NEW pc \in {"touch", "publish", "end"},
         Inserts(r, t, row, FALSE, pc)
  PROVE  Does(r, {t}) /\ A(r).op = op
<1>1. req[r].out = "pending" /\ A(r).op = op /\ pc \in Pc
  BY DEF At, Pc
<1>2. PICK i \in Id : Effect(r, {t}) /\ Inserted(r, t, row, pc, i)
  BY <1>1, InsertEffect
<1>3. Honest(req'[r])
  BY <1>1, <1>2, InsertedHonest
<1> QED
  BY <1>1, <1>2, <1>3 DEF Does

LEMMA InsertsDoes ==
  ASSUME Base, NEW r \in Log, Honest(req[r]), NEW op \in Creations, NEW from, At(r, op, from),
         NEW t \in Table, NEW row \in Row, row.end = 0,
         Owned(r, t, row), NEW pc \in {"touch", "publish", "end"},
         NEW taken \in BOOLEAN, Inserts(r, t, row, taken, pc)
  PROVE  Does(r, {t}) /\ A(r).op = op
<1>1. req[r].out = "pending" /\ A(r).op = op /\ pc \in Pc /\ req[r] \in Request
  BY InLog DEF At, Pc
<1>2. /\ Effect(r, {t})
      /\ \/ req'[r] = [Finish(req[r], "internal") EXCEPT !.hit = "unique"]
         \/ \E i \in Id : Inserted(r, t, row, pc, i)
  BY <1>1, InsertsEffect
<1>3. ASSUME NEW i \in Id, Inserted(r, t, row, pc, i)
      PROVE  Honest(req'[r])
  BY <1>1, <1>3, InsertedHonest
<1>4. Honest([Finish(req[r], "internal") EXCEPT !.hit = "unique"])
  BY <1>1, RefusedHonest
<1> QED
  BY <1>1, <1>2, <1>3, <1>4 DEF Does

(* After an update or a deletion.                                          *)
LEMMA WroteHonest ==
  ASSUME Base, NEW r \in Log, Honest(req[r]), req[r].out = "pending",
         A(r).op # "CreateBacklogsBatch", NEW pc \in Pc, pc \in {"touch", "publish", "end"},
         req'[r] = Written(req[r], pc)
  PROVE  Honest(req'[r])
<1> DEFINE q == Written(req[r], pc)
<1>1. q.ask = req[r].ask /\ q.out = "pending" /\ q.pc = pc
  BY InLog DEF Request, Written
<1>2. req'[r] = q
  OBVIOUS
<1> HIDE DEF q
<1>3. Honest(q)
  BY <1>1, HonestGo DEF Late, A
<1> QED
  BY <1>2, <1>3

LEMMA DeletesDoes ==
  ASSUME Base, NEW r \in Log, Honest(req[r]), NEW op \in MayMiss, NEW from, At(r, op, from),
         op \in Removals, ~ Late(op, from), NEW t \in Table, NEW pc \in {"touch", "end"}, Deletes(r, t, pc)
  PROVE  Does(r, {t}) /\ A(r).op = op
<1>1. /\ req[r] \in Request /\ req[r].out = "pending" /\ req[r].ask.op = op /\ req[r].pc = from
      /\ req[r].wrote \in BOOLEAN /\ A(r).op = op /\ pc \in Pc
      /\ pc \in {"touch", "publish", "end"}
  BY InLog DEF At, A, Request, Pc
<1>2. ~ req[r].wrote
  BY <1>1, Unwritten
<1>3. op # "CreateBacklogsBatch"
  BY DEF MayMiss
<1>4. /\ Effect(r, {t})
      /\ \/ req'[r] = Written(req[r], pc)
         \/ req'[r] = Finish(req[r], "notfound")
  BY <1>1, DeletesEffect
<1>5. Honest(Finish(req[r], "notfound"))
  BY <1>1, <1>2, FinishFields, HonestEnd DEF May, Outcome
<1>6. ASSUME req'[r] = Written(req[r], pc) PROVE Honest(req'[r])
  BY <1>1, <1>3, <1>6, WroteHonest
<1> QED
  BY <1>1, <1>4, <1>5, <1>6 DEF Does

LEMMA TouchDoes ==
  ASSUME Base, NEW r \in Log, Honest(req[r]), NEW u, Touch(r, u)
  PROVE  Does(r, {})
<1>1. Effect(r, {}) /\ req[r].out = "pending" /\ req'[r] = Finish(req[r], "ok")
  BY TouchEffect
<1>2. Honest(Finish(req[r], "ok"))
  BY <1>1, InLog, FinishFields, HonestEnd DEF Outcome
<1> QED
  BY <1>1, <1>2 DEF Does

(* A list or a view that answers with the rows it found.                   *)
LEMMA MadeHonest ==
  ASSUME Base, NEW q \in Request, Honest(q), q.out = "pending", NEW S \in SUBSET AnyId,
         q.ask.op # "CreateBacklogsBatch", NEW out \in Outcome,
         out = "ok" \/ (May(q.ask.op, out) /\ ~ Late(q.ask.op, q.pc))
  PROVE  Honest([Finish(q, out) EXCEPT !.made = S])
<1> DEFINE f == Finish(q, out)
           p == [f EXCEPT !.made = S]
<1>1. f \in Request /\ f.ask = q.ask /\ f.out = out /\ f.wrote = q.wrote
  BY FinishFields
<1> HIDE DEF f
<1>2. p.ask = q.ask /\ p.out = out /\ p.wrote = q.wrote
  BY <1>1 DEF Request
<1>3. q.wrote \in BOOLEAN
  BY DEF Request
<1> HIDE DEF p
<1>4. Honest(p)
  BY <1>2, <1>3, Unwritten, HonestEnd
<1> QED
  BY <1>4 DEF p, f

LEMMA MadeDoes ==
  ASSUME Base, NEW r \in Log, Honest(req[r]), NEW op, NEW from, At(r, op, from),
         op # "CreateBacklogsBatch", NEW S \in SUBSET AnyId, NEW out \in Outcome \ {"pending"},
         req' = [req EXCEPT ![r] = [Finish(@, out) EXCEPT !.made = S]], Quiet,
         out = "ok" \/ (May(op, out) /\ ~ Late(op, from))
  PROVE  Does(r, {}) /\ A(r).op = op
<1>1. /\ req[r] \in Request /\ req[r].out = "pending" /\ req[r].ask.op = op /\ req[r].pc = from
      /\ A(r).op = op
  BY InLog DEF At, A
<1>2. Effect(r, {}) /\ req'[r] = [Finish(req[r], out) EXCEPT !.made = S]
  BY <1>1, MadeEffect
<1>3. Honest([Finish(req[r], out) EXCEPT !.made = S])
  BY <1>1, MadeHonest
<1> QED
  BY <1>1, <1>2, <1>3 DEF Does

LEMMA CountsDoes ==
  ASSUME Base, NEW r \in Log, Honest(req[r]), NEW op, NEW from, At(r, op, from),
         ~ Late(op, from), NEW S, S \subseteq Id, Counts(r, S)
  PROVE  Does(r, {}) /\ A(r).op = op
<1>1. /\ req[r] \in Request /\ req[r].out = "pending" /\ req[r].ask.op = op /\ req[r].pc = from
      /\ req[r].wrote \in BOOLEAN /\ A(r).op = op
  BY InLog DEF At, A, Request
<1>2. ~ req[r].wrote
  BY <1>1, Unwritten
<1> DEFINE q == [req[r] EXCEPT !.pc = "page", !.total = Cardinality(S)]
<1>3. Effect(r, {}) /\ req'[r] = q
  BY <1>1, CountsEffect
<1>4. q.ask = req[r].ask /\ q.out = "pending" /\ ~ q.wrote
  BY <1>1, <1>2 DEF Request
<1> HIDE DEF q
<1>5. Honest(q)
  BY <1>1, <1>4, HonestGo
<1> QED
  BY <1>1, <1>3, <1>5 DEF Does

LEMMA ShowsPageDoes ==
  ASSUME Base, NEW r \in Log, Honest(req[r]), NEW op, NEW from, At(r, op, from),
         op # "CreateBacklogsBatch", NEW S, S \subseteq Id, ShowsPage(r, S)
  PROVE  Does(r, {}) /\ A(r).op = op
<1> DEFINE P == Page(S, A(r).page)
<1>1. P \subseteq Id
  BY DEF Page
<1>2. req' = [req EXCEPT ![r] = [Finish(@, "ok") EXCEPT !.made = P]] /\ Quiet
  BY DEF ShowsPage
<1> HIDE DEF P
<1> QED
  BY <1>1, <1>2, SomeIds, MadeDoes DEF Outcome

LEMMA ListsByChatDoes ==
  ASSUME Base, NEW r \in Log, Honest(req[r]), NEW op, NEW from, At(r, op, from),
         ~ Late(op, from), NEW chats, chats \subseteq Id, ListsByChat(r, chats)
  PROVE  Does(r, {}) /\ A(r).op = op
<1>1. /\ req[r] \in Request /\ req[r].out = "pending" /\ req[r].ask.op = op /\ req[r].pc = from
      /\ req[r].wrote \in BOOLEAN /\ A(r).op = op
  BY InLog DEF At, A, Request
<1>2. ~ req[r].wrote
  BY <1>1, Unwritten
<1>3. CASE Go(r, "count") /\ Quiet
  BY <1>3, GoDoes DEF Pc
<1>4. CASE Answer(r, "ok") /\ Quiet
  BY <1>4, AnswerDoes DEF Outcome
<1>5. CASE A(r).key # 0 /\ chats # {}
  <2> DEFINE q == [req[r] EXCEPT !.pc = "count", !.ids = chats]
  <2>1. Effect(r, {}) /\ req'[r] = q
    BY <1>1, <1>5, ListsByChatEffect
  <2>2. q.ask = req[r].ask /\ q.out = "pending" /\ ~ q.wrote
    BY <1>1, <1>2 DEF Request
  <2> HIDE DEF q
  <2>3. Honest(q)
    BY <1>1, <2>2, HonestGo
  <2> QED
    BY <1>1, <2>1, <2>3 DEF Does
<1> QED
  BY <1>3, <1>4, <1>5 DEF ListsByChat

LEMMA ShowsAnyDoes ==
  ASSUME Base, NEW r \in Log, Honest(req[r]), NEW op \in MayMiss, NEW from, At(r, op, from),
         ~ Late(op, from), NEW S, S \subseteq AnyId, ShowsAny(r, S)
  PROVE  Does(r, {}) /\ A(r).op = op
<1>1. /\ req[r] \in Request /\ req[r].out = "pending" /\ req[r].ask.op = op /\ req[r].pc = from
      /\ req[r].wrote \in BOOLEAN /\ A(r).op = op
  BY InLog DEF At, A, Request
<1>2. ~ req[r].wrote /\ op # "CreateBacklogsBatch"
  BY <1>1, Unwritten DEF MayMiss
<1>3. /\ Effect(r, {})
      /\ \/ req'[r] = Finish(req[r], "notfound")
         \/ \E made \in SUBSET S : req'[r] = [Finish(req[r], "ok") EXCEPT !.made = made]
  BY <1>1, ShowsAnyEffect
<1>4. Honest(Finish(req[r], "notfound"))
  BY <1>1, <1>2, FinishFields, HonestEnd DEF May, Outcome
<1>5. ASSUME NEW made \in SUBSET S
      PROVE  Honest([Finish(req[r], "ok") EXCEPT !.made = made])
  <2>1. made \in SUBSET AnyId
    OBVIOUS
  <2> QED
    BY <1>1, <1>2, <2>1, MadeHonest DEF Outcome
<1> QED
  BY <1>1, <1>3, <1>4, <1>5 DEF Does

LEMMA RepliesDoes ==
  ASSUME Base, NEW r \in Log, Honest(req[r]), NEW op, Replies(r, op)
  PROVE  Does(r, {}) /\ A(r).op = op
BY AnswerDoes DEF Replies, Outcome

LEMMA UpdatesDoes ==
  ASSUME Base, NEW r \in Log, Honest(req[r]), NEW op \in Rewriters, NEW from, At(r, op, from),
         NEW t \in Table, NEW row \in Row, row.st = "live", row.end = 0,
         A(r).id \in Live(t) => SameRow(t, db[t][A(r).id], row) /\ row.key >= db[t][A(r).id].key,
         Updates(r, t, row, "touch")
  PROVE  Does(r, {t}) /\ A(r).op = op
<1>1. req[r].out = "pending" /\ A(r).op = op /\ "touch" \in Pc /\ op # "CreateBacklogsBatch"
  BY DEF At, Pc, Rewriters
<1>4. A(r).op \in Changes
  BY <1>1 DEF Changes, Rewriters
<1>2. /\ Effect(r, {t})
      /\ req'[r] = Written(req[r], "touch")
  BY <1>1, <1>4, UpdatesEffect
<1>3. Honest(req'[r])
  BY <1>1, <1>2, WroteHonest
<1> QED
  BY <1>1, <1>2, <1>3 DEF Does
-----------------------------------------------------------------------------
(* Users.                                                                  *)

LEMMA CreateUserDoes ==
  ASSUME Base, NEW r \in Log, Honest(req[r]), CreateUser(r)
  PROVE  Does(r, {"users"}) /\ A(r).op = "CreateUser"
<1>1. CASE At(r, "CreateUser", "start") /\ Answer(r, "internal") /\ Quiet /\ A(r).blank
  BY <1>1, AnswerDoes, DoesOf DEF Outcome
<1>2. CASE At(r, "CreateUser", "start") /\ Answer(r, "conflict") /\ Quiet
  BY <1>2, AnswerDoes, DoesOf DEF Outcome, May, MayClash, Late
<1>3. CASE At(r, "CreateUser", "start") /\ Go(r, "insert") /\ Quiet
  BY <1>3, GoDoes, DoesOf DEF Late, Pc
<1>4. CASE At(r, "CreateUser", "insert") /\ InsertUser(r)
  <2>1. NoRow \in Row /\ NoRow.end = 0 /\ Owned(r, "users", NoRow)
    BY DEF NoRow, Row, AnyId, Owned
  <2> QED
    BY <1>4, <2>1, InsertDoes DEF InsertUser, Table, Creations
<1>5. CASE A(r).op = "CreateUser" /\ \E u \in req[r].made : Touch(r, u)
  BY <1>5, TouchDoes, DoesOf
<1> QED
  BY <1>1, <1>2, <1>3, <1>4, <1>5 DEF CreateUser

LEMMA GetUserDoes ==
  ASSUME Base, NEW r \in Log, Honest(req[r]), GetUser(r)
  PROVE  Does(r, {}) /\ A(r).op = "GetUser"
BY ShowsDoes DEF GetUser, MayMiss, Late, Table

LEMMA UpdateUserDoes ==
  ASSUME Base, NEW r \in Log, Honest(req[r]), UpdateUser(r)
  PROVE  Does(r, {"users"}) /\ A(r).op = "UpdateUser"
<1>1. CASE At(r, "UpdateUser", "start") /\ GetUserByID(r, "write")
  <2>1. At(r, "UpdateUser", "start") /\ Reads(r, "users", "write")
    BY <1>1 DEF GetUserByID
  <2>2. "UpdateUser" \in MayMiss /\ "users" \in Table /\ "write" \in Pc /\ ~ Late("UpdateUser", "start")
    BY DEF MayMiss, Table, Pc, Late
  <2>3. Does(r, {}) /\ A(r).op = "UpdateUser"
    BY <2>1, <2>2, ReadsDoes
  <2> QED
    BY <2>3, DoesOf
<1>2. CASE At(r, "UpdateUser", "write") /\ UpdateUserRow(r)
  <2> DEFINE row == [req[r].copy EXCEPT !.key = db["users"][A(r).id].key]
  <2>1. Updates(r, "users", row, "touch")
    BY <1>2 DEF UpdateUserRow
  <2>2. /\ req[r].copy \in Row /\ A(r).id \in Id /\ req[r].copy.st = "live" /\ req[r].copy.end = 0
        /\ SameRow("users", db["users"][A(r).id], req[r].copy)
    BY <1>2, InLog DEF At, Base, CopyOK, Rewriters, TableOf, Request
  <2>3. db["users"][A(r).id].key \in Nat /\ "users" \in Table
    <3>1. db \in [Table -> [Id -> Row]] /\ "users" \in Table
      BY DEF Base, ApiTypeOK, Table
    <3>2. db["users"][A(r).id] \in Row
      BY <2>2, <3>1
    <3> QED
      BY <3>1, <3>2 DEF Row
  <2>4. /\ row \in Row /\ row.st = "live" /\ row.end = 0 /\ row.key >= db["users"][A(r).id].key
        /\ SameRow("users", db["users"][A(r).id], row)
    BY <2>2, <2>3 DEF Row, SameRow
  <2> HIDE DEF row
  <2> QED
    BY <1>2, <2>1, <2>3, <2>4, UpdatesDoes DEF Rewriters
<1>3. CASE A(r).op = "UpdateUser" /\ Touch(r, A(r).id)
  BY <1>3, TouchDoes, DoesOf
<1> QED
  BY <1>1, <1>2, <1>3 DEF UpdateUser

LEMMA GetAllUsersDoes ==
  ASSUME Base, NEW r \in Log, Honest(req[r]), GetAllUsers(r)
  PROVE  Does(r, {}) /\ A(r).op = "GetAllUsers"
<1>1. CASE At(r, "GetAllUsers", "start") /\ Counts(r, Live("users"))
  BY <1>1, LiveIds, CountsDoes DEF Late
<1>2. CASE At(r, "GetAllUsers", "page") /\ ShowsPage(r, Live("users"))
  BY <1>2, LiveIds, ShowsPageDoes
<1> QED
  BY <1>1, <1>2 DEF GetAllUsers

LEMMA GetRecentUserActivityDoes ==
  ASSUME Base, NEW r \in Log, Honest(req[r]), GetRecentUserActivity(r)
  PROVE  Does(r, {}) /\ A(r).op = "GetRecentUserActivity"
<1> DEFINE S == ListRecentActivity(RecentLimit)
<1>1. S \subseteq Id
  BY DEF ListRecentActivity, SeenUsers, Live
<1>2. /\ At(r, "GetRecentUserActivity", "start") /\ Quiet
      /\ req' = [req EXCEPT ![r] = [Finish(@, "ok") EXCEPT !.made = S]]
  BY DEF GetRecentUserActivity
<1> HIDE DEF S
<1> QED
  BY <1>1, <1>2, SomeIds, MadeDoes DEF Outcome
-----------------------------------------------------------------------------
(* The deletion of a user, statement by statement.                         *)

LEMMA RemoveDone ==
  ASSUME Base, NEW r \in Log, Honest(req[r]),
         At(r, "DeleteUser", "remove"), req[r].ids = {}, Go(r, "chats"), Quiet
  PROVE  Does(r, {}) /\ A(r).op = "DeleteUser"
BY GoDoes DEF Pc, Late

(* One task is taken out of those that are left.                           *)
TakesTask(r, t) ==
  /\ At(r, "DeleteUser", "remove") /\ t \in req[r].ids
  /\ db' = DeleteTaskRow(t, r)
  /\ req' = [req EXCEPT ![r].pc = "name", ![r].item = t, ![r].ids = @ \ {t}, ![r].wrote = TRUE]
  /\ Aside

LEMMA RemoveTask ==
  ASSUME Base, NEW r \in Log, Honest(req[r]), NEW t, TakesTask(r, t)
  PROVE  /\ Does(r, {"tasks"}) /\ A(r).op = "DeleteUser"
         /\ req'[r].pc = "name" /\ req'[r].item = t /\ req'[r].ids = req[r].ids \ {t}
         /\ req'[r].out = "pending" /\ req'[r].hit = req[r].hit
<1>1. /\ req[r] \in Request /\ req[r].out = "pending" /\ req[r].ask.op = "DeleteUser"
      /\ req[r].ended = 0 /\ A(r).op = "DeleteUser" /\ req[r].ids \subseteq Id
  BY InLog, OpenFields DEF At, A, Request, TakesTask
<1> DEFINE q == [req[r] EXCEPT !.pc = "name", !.item = t, !.ids = @ \ {t}, !.wrote = TRUE]
<1>2. t \in Id /\ t \in AnyId /\ "name" \in Pc
  BY <1>1 DEF AnyId, Pc, TakesTask
<1>3. /\ q \in Request /\ q.ask = req[r].ask /\ q.out = "pending" /\ q.ended = 0 /\ q.pc = "name"
      /\ q.item = t /\ q.ids = req[r].ids \ {t} /\ q.hit = req[r].hit
  BY <1>1, <1>2 DEF Request
<1>4. req' = [req EXCEPT ![r] = q] /\ Aside /\ db' = DeleteTaskRow(t, r)
  BY DEF TakesTask
<1> HIDE DEF q
<1>5. Turn(r) /\ req'[r] = q
  BY <1>1, <1>3, <1>4, TurnTo DEF A
<1>6. Honest(q)
  BY <1>1, <1>3, HonestGo DEF Late
<1>7. Effect(r, {"tasks"})
  <2>1. CASE t \notin Live("tasks")
    <3>1. UNCHANGED db
      BY <1>4, <2>1 DEF DeleteTaskRow
    <3> QED
      BY <1>1, <1>4, <1>5, <3>1, StillEffect, AsideTypes, EffectOf
  <2>2. CASE t \in Live("tasks")
    <3>1. db["tasks"][t].st = "live" /\ db["tasks"][t] \in Row /\ "tasks" \in Table
      BY <1>2, <2>2 DEF Live, Base, ApiTypeOK, Table
    <3>2. db' = [db EXCEPT !["tasks"][t] = Dead(db["tasks"][t], r)]
      BY <1>4, <2>2 DEF DeleteTaskRow
    <3>3. RowStep(r, "tasks", db["tasks"][t], Dead(db["tasks"][t], r))
      BY <1>1, <3>1 DEF RowStep, Removals
    <3>4. Dead(db["tasks"][t], r) \in Row
      BY <3>1, DeadFields
    <3> QED
      BY <1>1, <1>2, <1>4, <1>5, <3>1, <3>2, <3>3, <3>4, RowEffect, AsideTypes
  <2> QED
    BY <2>1, <2>2
<1> QED
  BY <1>1, <1>3, <1>5, <1>6, <1>7 DEF Does

LEMMA RemoveName ==
  ASSUME Base, NEW r \in Log, Honest(req[r]), At(r, "DeleteUser", "name"),
         Go(r, IF HasMessengerName(req[r].item) THEN "publish" ELSE "remove"), Quiet
  PROVE  Does(r, {}) /\ A(r).op = "DeleteUser"
<1>1. CASE HasMessengerName(req[r].item)
  BY <1>1, GoDoes DEF Pc, Late
<1>2. CASE ~ HasMessengerName(req[r].item)
  BY <1>2, GoDoes DEF Pc, Late
<1> QED
  BY <1>1, <1>2

LEMMA RemovePublish ==
  ASSUME Base, NEW r \in Log, Honest(req[r]), At(r, "DeleteUser", "publish"),
         armed' = armed \ {req[r].item}, Go(r, "remove"), UNCHANGED <<db, told, scene, failed>>
  PROVE  Does(r, {}) /\ A(r).op = "DeleteUser" /\ req'[r] = [req[r] EXCEPT !.pc = "remove"]
<1>1. /\ req[r] \in Request /\ req[r].out = "pending" /\ req[r].ask.op = "DeleteUser"
      /\ A(r).op = "DeleteUser" /\ "remove" \in Pc
  BY InLog DEF At, A, Pc
<1>2. Turn(r) /\ req'[r] = [req[r] EXCEPT !.pc = "remove"]
  BY <1>1, GoTurn
<1>3. Around(r) /\ UNCHANGED db
  BY <1>1 DEF Base, ApiTypeOK, Around
<1>4. Effect(r, {})
  BY <1>1, <1>2, <1>3, StillEffect
<1> DEFINE q == [req[r] EXCEPT !.pc = "remove"]
<1>5. q.ask = req[r].ask /\ q.out = "pending" /\ q.pc = "remove"
  BY <1>1 DEF Request
<1> HIDE DEF q
<1>6. Honest(q)
  BY <1>1, <1>5, HonestGo DEF Late
<1> QED
  BY <1>1, <1>2, <1>4, <1>6 DEF Does, q

(* The chats are removed in one statement.                                 *)
TakesChats(r) ==
  /\ At(r, "DeleteUser", "chats")
  /\ db' = [db EXCEPT !["chats"] = DeleteChatsOf(A(r).id, r)]
  /\ req' = [req EXCEPT ![r].pc = "delete", ![r].wrote = TRUE]
  /\ Aside

LEMMA RemoveChats ==
  ASSUME Base, NEW r \in Log, Honest(req[r]), TakesChats(r)
  PROVE  /\ Does(r, {"chats"}) /\ A(r).op = "DeleteUser"
         /\ req'[r] = [req[r] EXCEPT !.pc = "delete", !.wrote = TRUE]
         /\ \A c \in Id : db'["chats"][c] = IF c \in Live("chats") /\ db["chats"][c].user = A(r).id
                                            THEN Dead(db["chats"][c], r) ELSE db["chats"][c]
<1>1. /\ req[r] \in Request /\ req[r].out = "pending" /\ req[r].ask.op = "DeleteUser"
      /\ req[r].ended = 0 /\ A(r).op = "DeleteUser" /\ "delete" \in Pc /\ "chats" \in Table
      /\ A(r).op \in Removals
  BY InLog, OpenFields DEF At, A, Pc, Table, TakesChats, Removals
<1> DEFINE q == [req[r] EXCEPT !.pc = "delete", !.wrote = TRUE]
<1>2. /\ q \in Request /\ q.ask = req[r].ask /\ q.out = "pending" /\ q.ended = 0
      /\ q.pc = "delete"
  BY <1>1 DEF Request
<1>3. req' = [req EXCEPT ![r] = q] /\ Aside
  BY DEF TakesChats
<1> HIDE DEF q
<1>4. Turn(r) /\ req'[r] = q
  BY <1>1, <1>2, <1>3, TurnTo DEF A
<1>5. Honest(q)
  BY <1>1, <1>2, HonestGo DEF Late
<1> DEFINE rows == DeleteChatsOf(A(r).id, r)
<1>6. \A c \in Id : rows[c] = IF c \in Live("chats") /\ db["chats"][c].user = A(r).id
                              THEN Dead(db["chats"][c], r) ELSE db["chats"][c]
  BY DEF DeleteChatsOf
<1>7. \A c \in Id : /\ db["chats"][c] \in Row /\ Dead(db["chats"][c], r) \in Row
                    /\ c \in Live("chats") => db["chats"][c].st = "live"
  BY <1>1, DeadFields DEF Live, Base, ApiTypeOK
<1>8. rows \in [Id -> Row]
  BY <1>7 DEF DeleteChatsOf
<1> HIDE DEF rows
<1>9. db' = [db EXCEPT !["chats"] = rows]
  BY DEF rows, TakesChats
<1>10. \A c \in Id : \/ rows[c] = db["chats"][c]
                     \/ db["chats"][c].st = "live" /\ rows[c] = Dead(db["chats"][c], r)
  BY <1>6, <1>7
<1>11. Effect(r, {"chats"}) /\ db'["chats"] = rows
  BY <1>1, <1>3, <1>4, <1>8, <1>9, <1>10, DeadRows, ZenonT(30)
<1> QED
  BY <1>1, <1>4, <1>5, <1>6, <1>11 DEF Does, q

LEMMA RemoveUser ==
  ASSUME Base, NEW r \in Log, Honest(req[r]), At(r, "DeleteUser", "delete"),
         DeleteUserRow(r), Answer(r, "ok"), Aside
  PROVE  /\ Does(r, {"users"}) /\ A(r).op = "DeleteUser" /\ req'[r] = Finish(req[r], "ok")
         /\ db' = IF HasUser(A(r).id) THEN [db EXCEPT !["users"][A(r).id] = Dead(@, r)] ELSE db
<1>1. /\ req[r] \in Request /\ req[r].out = "pending" /\ A(r).op = "DeleteUser" /\ "users" \in Table
  BY InLog DEF At, Table
<1>2. Turn(r) /\ req'[r] = Finish(req[r], "ok")
  BY AnswerTurn DEF Outcome
<1>3. Honest(req'[r])
  BY <1>1, <1>2, FinishFields, HonestEnd DEF Outcome
<1>4. db' = IF HasUser(A(r).id) THEN [db EXCEPT !["users"][A(r).id] = Dead(@, r)] ELSE db
  BY DEF DeleteUserRow
<1>5. Effect(r, {"users"})
  <2>1. CASE ~ HasUser(A(r).id)
    BY <1>1, <1>2, <1>4, <2>1, StillEffect, AsideTypes, EffectOf
  <2>2. CASE HasUser(A(r).id)
    <3>1. A(r).id \in Id /\ db["users"][A(r).id].st = "live" /\ db["users"][A(r).id] \in Row
      BY <1>1, <2>2 DEF HasUser, Live, Base, ApiTypeOK
    <3>2. db' = [db EXCEPT !["users"][A(r).id] = Dead(db["users"][A(r).id], r)]
      BY <1>4, <2>2
    <3>3. RowStep(r, "users", db["users"][A(r).id], Dead(db["users"][A(r).id], r))
      BY <1>1, <3>1 DEF RowStep, Removals
    <3>4. Dead(db["users"][A(r).id], r) \in Row
      BY <3>1, DeadFields
    <3> QED
      BY <1>1, <1>2, <3>1, <3>2, <3>3, <3>4, RowEffect, AsideTypes
  <2> QED
    BY <2>1, <2>2
<1> QED
  BY <1>1, <1>2, <1>3, <1>4, <1>5 DEF Does

(* The tasks that are to be removed.                                       *)
ListsTasks(r) ==
  /\ At(r, "DeleteUser", "tasks")
  /\ req' = [req EXCEPT ![r].pc = "remove", ![r].ids = GetTasksByUserID(A(r).id)]
  /\ Quiet

LEMMA TasksToRemove ==
  ASSUME Base, NEW r \in Log, Honest(req[r]), ListsTasks(r)
  PROVE  /\ Does(r, {}) /\ A(r).op = "DeleteUser"
         /\ req'[r] = [req[r] EXCEPT !.pc = "remove", !.ids = GetTasksByUserID(A(r).id)]
<1>1. /\ req[r] \in Request /\ req[r].out = "pending" /\ req[r].ask.op = "DeleteUser"
      /\ req[r].ended = 0 /\ A(r).op = "DeleteUser" /\ "remove" \in Pc
      /\ req[r].pc = "tasks" /\ req[r].wrote \in BOOLEAN
  BY InLog, OpenFields DEF At, A, Pc, Request, ListsTasks
<1> DEFINE S == GetTasksByUserID(A(r).id)
           q == [req[r] EXCEPT !.pc = "remove", !.ids = S]
<1>2. S \subseteq Id
  BY DEF GetTasksByUserID, Live
<1>3. req' = [req EXCEPT ![r] = q] /\ Quiet
  BY DEF ListsTasks
<1> HIDE DEF S
<1>4. q \in Request /\ q.ask = req[r].ask /\ q.out = "pending" /\ q.ended = 0 /\ q.pc = "remove"
  BY <1>1, <1>2 DEF Request
<1> HIDE DEF q
<1>5. Turn(r) /\ req'[r] = q
  BY <1>1, <1>3, <1>4, TurnTo DEF A
<1>6. Honest(q)
  BY <1>1, <1>4, HonestGo DEF Late
<1> QED
  BY <1>1, <1>3, <1>5, <1>6, QuietEffect DEF Does, q, S

(* The statements of the deletion of a user.                               *)
LEMMA DeleteUserSteps ==
  ASSUME NEW r, DeleteUser(r)
  PROVE  \/ At(r, "DeleteUser", "start") /\ Reads(r, "users", "tasks")
         \/ ListsTasks(r)
         \/ At(r, "DeleteUser", "remove") /\ req[r].ids = {} /\ Go(r, "chats") /\ Quiet
         \/ \E t \in req[r].ids : TakesTask(r, t)
         \/ /\ At(r, "DeleteUser", "name") /\ Quiet
            /\ Go(r, IF HasMessengerName(req[r].item) THEN "publish" ELSE "remove")
         \/ /\ At(r, "DeleteUser", "publish")
            /\ armed' = armed \ {req[r].item} /\ Go(r, "remove")
            /\ UNCHANGED <<db, told, scene, failed>>
         \/ TakesChats(r)
         \/ At(r, "DeleteUser", "delete") /\ DeleteUserRow(r) /\ Answer(r, "ok") /\ Aside
BY DEF DeleteUser, DeletesTask, GetUserByID, ListsTasks, TakesTask, TakesChats

LEMMA DeleteUserDoes ==
  ASSUME Base, NEW r \in Log, Honest(req[r]), DeleteUser(r)
  PROVE  Does(r, {"tasks", "chats", "users"}) /\ A(r).op = "DeleteUser"
<1>1. CASE At(r, "DeleteUser", "start") /\ Reads(r, "users", "tasks")
  <2>1. At(r, "DeleteUser", "start") /\ Reads(r, "users", "tasks")
    BY <1>1
  <2>2. "DeleteUser" \in MayMiss /\ "users" \in Table /\ "tasks" \in Pc /\ ~ Late("DeleteUser", "start")
    BY DEF MayMiss, Table, Pc, Late
  <2>3. Does(r, {}) /\ A(r).op = "DeleteUser"
    BY <2>1, <2>2, ReadsDoes
  <2> QED
    BY <2>3, DoesOf
<1>2. CASE ListsTasks(r)
  <2>1. Does(r, {}) /\ A(r).op = "DeleteUser"
    BY <1>2, TasksToRemove
  <2> QED
    BY <2>1, DoesOf
<1>3. CASE At(r, "DeleteUser", "remove") /\ req[r].ids = {} /\ Go(r, "chats") /\ Quiet
  BY <1>3, RemoveDone, DoesOf
<1>4. CASE \E t \in req[r].ids : TakesTask(r, t)
  BY <1>4, RemoveTask, DoesOf
<1>5. CASE /\ At(r, "DeleteUser", "name") /\ Quiet
           /\ Go(r, IF HasMessengerName(req[r].item) THEN "publish" ELSE "remove")
  BY <1>5, RemoveName, DoesOf
<1>6. CASE /\ At(r, "DeleteUser", "publish")
           /\ armed' = armed \ {req[r].item} /\ Go(r, "remove")
           /\ UNCHANGED <<db, told, scene, failed>>
  <2>1. Does(r, {}) /\ A(r).op = "DeleteUser"
    BY <1>6, RemovePublish
  <2> QED
    BY <2>1, DoesOf
<1>7. CASE TakesChats(r)
  <2>1. Does(r, {"chats"}) /\ A(r).op = "DeleteUser"
    BY <1>7, RemoveChats
  <2> QED
    BY <2>1, DoesOf
<1>8. CASE At(r, "DeleteUser", "delete") /\ DeleteUserRow(r) /\ Answer(r, "ok") /\ Aside
  BY <1>8, RemoveUser, DoesOf
<1> QED
  BY <1>1, <1>2, <1>3, <1>4, <1>5, <1>6, <1>7, <1>8, DeleteUserSteps
-----------------------------------------------------------------------------
(* Messengers and chats.                                                   *)

LEMMA CreateMessengerDoes ==
  ASSUME Base, NEW r \in Log, Honest(req[r]), CreateMessenger(r)
  PROVE  Does(r, {"messengers"}) /\ A(r).op = "CreateMessenger"
<1>1. CASE At(r, "CreateMessenger", "start") /\ Answer(r, "internal") /\ Quiet /\ A(r).blank
  BY <1>1, AnswerDoes, DoesOf DEF Outcome
<1>2. CASE At(r, "CreateMessenger", "start") /\ Go(r, "insert") /\ Quiet
  BY <1>2, GoDoes, DoesOf DEF Late, Pc
<1>3. CASE At(r, "CreateMessenger", "insert") /\ InsertMessenger(r)
  <2> DEFINE row == [NoRow EXCEPT !.key = A(r).key]
             taken == NameTaken(A(r).key)
  <2>1. row \in Row /\ row.end = 0 /\ Owned(r, "messengers", row)
    BY InLog DEF NoRow, Row, AnyId, Ask, Owned
  <2>2. Inserts(r, "messengers", row, taken, "end") /\ taken \in BOOLEAN /\ "messengers" \in Table
    BY <1>3 DEF InsertMessenger, NameTaken, Table
  <2> HIDE DEF row, taken
  <2> QED
    BY <1>3, <2>1, <2>2, InsertsDoes DEF Creations
<1>4. CASE Replies(r, "CreateMessenger")
  BY <1>4, RepliesDoes, DoesOf
<1> QED
  BY <1>1, <1>2, <1>3, <1>4 DEF CreateMessenger

LEMMA GetMessengerDoes ==
  ASSUME Base, NEW r \in Log, Honest(req[r]), GetMessenger(r)
  PROVE  Does(r, {}) /\ A(r).op = "GetMessenger"
BY ShowsDoes DEF GetMessenger, GetMessengerByID, MayMiss, Late, Table

LEMMA GetMessengerIDByNameDoes ==
  ASSUME Base, NEW r \in Log, Honest(req[r]), GetMessengerIDByName(r)
  PROVE  Does(r, {}) /\ A(r).op = "GetMessengerIDByName"
<1>1. MessengersNamed(A(r).key) \subseteq AnyId
  BY DEF MessengersNamed, Live, AnyId
<1> QED
  BY <1>1, ShowsAnyDoes DEF GetMessengerIDByName, MayMiss, Late

LEMMA CreateMessengerRelatedUserDoes ==
  ASSUME Base, NEW r \in Log, Honest(req[r]), CreateMessengerRelatedUser(r)
  PROVE  Does(r, {"chats"}) /\ A(r).op = "CreateMessengerRelatedUser"
<1>1. CASE At(r, "CreateMessengerRelatedUser", "start") /\ Answer(r, "internal") /\ Quiet /\ A(r).blank
  BY <1>1, AnswerDoes, DoesOf DEF Outcome
<1>2. CASE /\ At(r, "CreateMessengerRelatedUser", "start")
           /\ Requires(r, A(r).user \in Live("users"), "unprocessable", "messenger")
  BY <1>2, RequiresDoes, DoesOf DEF Outcome, Pc, May, MayRefuse, Late
<1>3. CASE /\ At(r, "CreateMessengerRelatedUser", "messenger")
           /\ Requires(r, HasMessenger(A(r).ref), "unprocessable", "insert")
  BY <1>3, RequiresDoes, DoesOf DEF Outcome, Pc, May, MayRefuse, Late
<1>4. CASE At(r, "CreateMessengerRelatedUser", "insert") /\ InsertChat(r)
  <2> DEFINE row == [NoRow EXCEPT !.user = A(r).user, !.ref = A(r).ref, !.key = A(r).key]
             taken == ChatTaken(A(r))
  <2>1. row \in Row /\ row.end = 0 /\ Owned(r, "chats", row)
    BY InLog DEF NoRow, Row, AnyId, Ask, Owned
  <2>2. Inserts(r, "chats", row, taken, "touch") /\ taken \in BOOLEAN /\ "chats" \in Table
    BY <1>4 DEF InsertChat, ChatTaken, Table
  <2> HIDE DEF row, taken
  <2>3. Does(r, {"chats"}) /\ A(r).op = "CreateMessengerRelatedUser"
    BY <1>4, <2>1, <2>2, InsertsDoes DEF Creations
  <2> QED
    BY <2>3, DoesOf
<1>5. CASE A(r).op = "CreateMessengerRelatedUser" /\ Touch(r, A(r).user)
  BY <1>5, TouchDoes, DoesOf
<1> QED
  BY <1>1, <1>2, <1>3, <1>4, <1>5 DEF CreateMessengerRelatedUser

LEMMA GetMessengerRelatedUserDoes ==
  ASSUME Base, NEW r \in Log, Honest(req[r]), GetMessengerRelatedUser(r)
  PROVE  Does(r, {}) /\ A(r).op = "GetMessengerRelatedUser"
<1>1. CASE /\ At(r, "GetMessengerRelatedUser", "start")
           /\ Requires(r, A(r).user \in Live("users") \cup {NoId}, "unprocessable", "messenger")
  BY <1>1, RequiresDoes DEF Outcome, Pc, May, MayRefuse, Late
<1>2. CASE /\ At(r, "GetMessengerRelatedUser", "messenger")
           /\ Requires(r, A(r).ref \in Live("messengers") \cup {NoId}, "unprocessable", "chat")
  BY <1>2, RequiresDoes DEF Outcome, Pc, May, MayRefuse, Late
<1>3. CASE At(r, "GetMessengerRelatedUser", "chat") /\ ShowsAny(r, ChatsOf(A(r)))
  <2>1. ChatsOf(A(r)) \subseteq AnyId
    BY DEF ChatsOf, Live, AnyId
  <2> QED
    BY <1>3, <2>1, ShowsAnyDoes DEF MayMiss, Late
<1> QED
  BY <1>1, <1>2, <1>3 DEF GetMessengerRelatedUser

LEMMA GetUserIDDoes ==
  ASSUME Base, NEW r \in Log, Honest(req[r]), GetUserID(r)
  PROVE  Does(r, {}) /\ A(r).op = "GetUserID"
<1>1. \A c \in Id : db["chats"][c].user \in AnyId
  BY DEF Base, ApiTypeOK, Table, Row
<1>2. UsersOf(A(r).key) \subseteq AnyId
  BY <1>1 DEF UsersOf, ChatsOfMessengerUser, Live
<1> QED
  BY <1>2, ShowsAnyDoes DEF GetUserID, MayMiss, Late

LEMMA GetAllMessengersDoes ==
  ASSUME Base, NEW r \in Log, Honest(req[r]), GetAllMessengers(r)
  PROVE  Does(r, {}) /\ A(r).op = "GetAllMessengers"
<1>0. Live("messengers") \subseteq Id
  BY DEF Live
<1>1. CASE At(r, "GetAllMessengers", "start") /\ Counts(r, Live("messengers"))
  BY <1>1, <1>0, CountsDoes DEF Late
<1>2. CASE At(r, "GetAllMessengers", "page") /\ ShowsPage(r, Live("messengers"))
  BY <1>2, <1>0, ShowsPageDoes
<1> QED
  BY <1>1, <1>2 DEF GetAllMessengers

LEMMA GetAllMessengerRelatedUsersDoes ==
  ASSUME Base, NEW r \in Log, Honest(req[r]), GetAllMessengerRelatedUsers(r)
  PROVE  Does(r, {}) /\ A(r).op = "GetAllMessengerRelatedUsers"
<1>0. ChatsListed(A(r)) \subseteq Id
  BY DEF ChatsListed, Live
<1>1. CASE At(r, "GetAllMessengerRelatedUsers", "start") /\ Counts(r, ChatsListed(A(r)))
  BY <1>1, <1>0, CountsDoes DEF Late
<1>2. CASE At(r, "GetAllMessengerRelatedUsers", "page") /\ ShowsPage(r, ChatsListed(A(r)))
  BY <1>2, <1>0, ShowsPageDoes
<1> QED
  BY <1>1, <1>2 DEF GetAllMessengerRelatedUsers
-----------------------------------------------------------------------------
(* Task groups and bindings.                                               *)

LEMMA CreateTaskGroupDoes ==
  ASSUME Base, NEW r \in Log, Honest(req[r]), CreateTaskGroup(r)
  PROVE  Does(r, {"groups"}) /\ A(r).op = "CreateTaskGroup"
<1>1. CASE At(r, "CreateTaskGroup", "start") /\ Answer(r, "validation") /\ Quiet
  BY <1>1, AnswerDoes, DoesOf DEF Outcome, Late, May, MayReject
<1>2. CASE /\ At(r, "CreateTaskGroup", "start")
           /\ Requires(r, A(r).user \in Live("users"), "unprocessable", "insert")
  BY <1>2, RequiresDoes, DoesOf DEF Outcome, Pc, Late, May, MayRefuse
<1>3. CASE At(r, "CreateTaskGroup", "insert") /\ InsertTaskGroup(r)
  <2> DEFINE row == [NoRow EXCEPT !.user = A(r).user]
  <2>1. row \in Row /\ row.end = 0 /\ Owned(r, "groups", row)
    BY InLog DEF NoRow, Row, AnyId, Ask, Owned
  <2>2. Inserts(r, "groups", row, FALSE, "touch") /\ "groups" \in Table
    BY <1>3 DEF InsertTaskGroup, Table
  <2> HIDE DEF row
  <2>3. Does(r, {"groups"}) /\ A(r).op = "CreateTaskGroup"
    BY <1>3, <2>1, <2>2, InsertDoes DEF Creations
  <2> QED
    BY <2>3, DoesOf
<1>4. CASE A(r).op = "CreateTaskGroup" /\ Touch(r, A(r).user)
  BY <1>4, TouchDoes, DoesOf
<1> QED
  BY <1>1, <1>2, <1>3, <1>4 DEF CreateTaskGroup

LEMMA GetTaskGroupByIDDoes ==
  ASSUME Base, NEW r \in Log, Honest(req[r]), GetTaskGroupByID(r)
  PROVE  Does(r, {}) /\ A(r).op = "GetTaskGroupByID"
BY ShowsDoes DEF GetTaskGroupByID, MayMiss, Late, Table

LEMMA GetAllTaskGroupsDoes ==
  ASSUME Base, NEW r \in Log, Honest(req[r]), GetAllTaskGroups(r)
  PROVE  Does(r, {}) /\ A(r).op = "GetAllTaskGroups"
<1>0. GroupsListed(r) \subseteq Id
  BY DEF GroupsListed, Filtered, Live
<1>1. CASE At(r, "GetAllTaskGroups", "start") /\ Counts(r, GroupsListed(r))
  BY <1>1, <1>0, CountsDoes DEF Late
<1>2. CASE At(r, "GetAllTaskGroups", "page") /\ ShowsPage(r, GroupsListed(r))
  BY <1>2, <1>0, ShowsPageDoes
<1> QED
  BY <1>1, <1>2 DEF GetAllTaskGroups

LEMMA UpdateTaskGroupDoes ==
  ASSUME Base, NEW r \in Log, Honest(req[r]), UpdateTaskGroup(r)
  PROVE  Does(r, {"groups"}) /\ A(r).op = "UpdateTaskGroup"
<1>1. CASE At(r, "UpdateTaskGroup", "start") /\ GetGroup(r, "check")
  <2>1. At(r, "UpdateTaskGroup", "start") /\ Reads(r, "groups", "check")
    BY <1>1 DEF GetGroup
  <2>2. "UpdateTaskGroup" \in MayMiss /\ "groups" \in Table /\ "check" \in Pc /\ ~ Late("UpdateTaskGroup", "start")
    BY DEF MayMiss, Table, Pc, Late
  <2>3. Does(r, {}) /\ A(r).op = "UpdateTaskGroup"
    BY <2>1, <2>2, ReadsDoes
  <2> QED
    BY <2>3, DoesOf
<1>2. CASE /\ At(r, "UpdateTaskGroup", "check")
           /\ Requires(r, ~ A(r).blank, "validation", "write")
  BY <1>2, RequiresDoes, DoesOf DEF Outcome, Pc, Late, May, MayReject
<1>3. CASE At(r, "UpdateTaskGroup", "write") /\ UpdateGroupRow(r)
  <2>1. /\ req[r].copy \in Row /\ A(r).id \in Id /\ req[r].copy.st = "live" /\ req[r].copy.end = 0
        /\ SameRow("groups", db["groups"][A(r).id], req[r].copy)
    BY <1>3, InLog DEF At, Base, CopyOK, Rewriters, TableOf, Request
  <2>2. req[r].copy.key = db["groups"][A(r).id].key /\ req[r].copy.key \in Nat /\ "groups" \in Table
    BY <2>1 DEF SameRow, Row, Table
  <2>3. req[r].copy.key >= db["groups"][A(r).id].key
    BY <2>2
  <2>4. Does(r, {"groups"}) /\ A(r).op = "UpdateTaskGroup"
    BY <1>3, <2>1, <2>2, <2>3, UpdatesDoes DEF Rewriters, UpdateGroupRow
  <2> QED
    BY <2>4, DoesOf
<1>4. CASE A(r).op = "UpdateTaskGroup" /\ Touch(r, req[r].copy.user)
  BY <1>4, TouchDoes, DoesOf
<1> QED
  BY <1>1, <1>2, <1>3, <1>4 DEF UpdateTaskGroup

LEMMA DeleteTaskGroupDoes ==
  ASSUME Base, NEW r \in Log, Honest(req[r]), DeleteTaskGroup(r)
  PROVE  Does(r, {"groups"}) /\ A(r).op = "DeleteTaskGroup"
<1>1. CASE At(r, "DeleteTaskGroup", "start") /\ GetGroup(r, "bindings")
  <2>1. At(r, "DeleteTaskGroup", "start") /\ Reads(r, "groups", "bindings")
    BY <1>1 DEF GetGroup
  <2>2. "DeleteTaskGroup" \in MayMiss /\ "groups" \in Table /\ "bindings" \in Pc /\ ~ Late("DeleteTaskGroup", "start")
    BY DEF MayMiss, Table, Pc, Late
  <2>3. Does(r, {}) /\ A(r).op = "DeleteTaskGroup"
    BY <2>1, <2>2, ReadsDoes
  <2> QED
    BY <2>3, DoesOf
<1>2. CASE /\ At(r, "DeleteTaskGroup", "bindings")
           /\ Requires(r, BindingsOfGroup(A(r).id) = {}, "conflict", "delete")
  BY <1>2, RequiresDoes, DoesOf DEF Outcome, Pc, Late, May, MayClash
<1>3. CASE At(r, "DeleteTaskGroup", "delete") /\ DeleteGroupRow(r)
  <2>1. Does(r, {"groups"}) /\ A(r).op = "DeleteTaskGroup"
    BY <1>3, DeletesDoes DEF DeleteGroupRow, MayMiss, Removals, Late, Table
  <2> QED
    BY <2>1, DoesOf
<1>4. CASE A(r).op = "DeleteTaskGroup" /\ Touch(r, req[r].copy.user)
  BY <1>4, TouchDoes, DoesOf
<1> QED
  BY <1>1, <1>2, <1>3, <1>4 DEF DeleteTaskGroup

LEMMA CreateBindingDoes ==
  ASSUME Base, NEW r \in Log, Honest(req[r]), CreateBinding(r)
  PROVE  Does(r, {"bindings"}) /\ A(r).op = "CreateBinding"
<1>1. CASE /\ At(r, "CreateBinding", "start")
           /\ Requires(r, Connected(A(r).user), "unprocessable", "chat")
  BY <1>1, RequiresDoes, DoesOf DEF Outcome, Pc, Late, May, MayRefuse
<1>2. CASE At(r, "CreateBinding", "chat") /\ Answer(r, "validation") /\ Quiet
  BY <1>2, AnswerDoes, DoesOf DEF Outcome, Late, May, MayReject
<1>3. CASE At(r, "CreateBinding", "chat") /\ Answer(r, "unprocessable") /\ Quiet
  BY <1>3, AnswerDoes, DoesOf DEF Outcome, Late, May, MayRefuse
<1>4. CASE At(r, "CreateBinding", "chat") /\ Go(r, "insert") /\ Quiet
  BY <1>4, GoDoes, DoesOf DEF Late, Pc
<1>5. CASE At(r, "CreateBinding", "insert") /\ InsertBinding(r)
  <2> DEFINE row == [NoRow EXCEPT !.user = A(r).user, !.chat = A(r).chat, !.ref = A(r).ref,
                                  !.key = A(r).key]
             taken == BindingTaken(A(r))
  <2>1. row \in Row /\ row.end = 0 /\ Owned(r, "bindings", row)
    BY InLog DEF NoRow, Row, AnyId, Ask, Owned
  <2>2. Inserts(r, "bindings", row, taken, "end") /\ taken \in BOOLEAN /\ "bindings" \in Table
    BY <1>5 DEF InsertBinding, BindingTaken, Table
  <2> HIDE DEF row, taken
  <2> QED
    BY <1>5, <2>1, <2>2, InsertsDoes DEF Creations
<1>6. CASE Replies(r, "CreateBinding")
  BY <1>6, RepliesDoes, DoesOf
<1> QED
  BY <1>1, <1>2, <1>3, <1>4, <1>5, <1>6 DEF CreateBinding

LEMMA ListBindingsDoes ==
  ASSUME Base, NEW r \in Log, Honest(req[r]), ListBindings(r)
  PROVE  Does(r, {}) /\ A(r).op = "ListBindings"
<1> DEFINE S == BindingsOfUser(A(r).user)
<1>1. S \subseteq Id
  BY DEF BindingsOfUser, Live
<1>2. /\ At(r, "ListBindings", "start") /\ Quiet
      /\ req' = [req EXCEPT ![r] = [Finish(@, "ok") EXCEPT !.made = S]]
  BY DEF ListBindings
<1> HIDE DEF S
<1> QED
  BY <1>1, <1>2, SomeIds, MadeDoes DEF Outcome

LEMMA DeleteBindingDoes ==
  ASSUME Base, NEW r \in Log, Honest(req[r]), DeleteBinding(r)
  PROVE  Does(r, {"bindings"}) /\ A(r).op = "DeleteBinding"
<1>1. CASE /\ At(r, "DeleteBinding", "start")
           /\ Requires(r, A(r).id \in BindingsOfUser(A(r).user), "notfound", "read")
  BY <1>1, RequiresDoes, DoesOf DEF Outcome, Pc, Late, May, MayMiss
<1>2. CASE At(r, "DeleteBinding", "read") /\ Reads(r, "bindings", "delete")
  <2>1. At(r, "DeleteBinding", "read") /\ Reads(r, "bindings", "delete")
    BY <1>2
  <2>2. "DeleteBinding" \in MayMiss /\ "bindings" \in Table /\ "delete" \in Pc /\ ~ Late("DeleteBinding", "read")
    BY DEF MayMiss, Table, Pc, Late
  <2>3. Does(r, {}) /\ A(r).op = "DeleteBinding"
    BY <2>1, <2>2, ReadsDoes
  <2> QED
    BY <2>3, DoesOf
<1>3. CASE At(r, "DeleteBinding", "delete") /\ SoftDeleteBinding(r)
  <2>1. Does(r, {"bindings"}) /\ A(r).op = "DeleteBinding"
    BY <1>3, DeletesDoes DEF SoftDeleteBinding, MayMiss, Removals, Late, Table
  <2> QED
    BY <2>1, DoesOf
<1>4. CASE Replies(r, "DeleteBinding")
  BY <1>4, RepliesDoes, DoesOf
<1> QED
  BY <1>1, <1>2, <1>3, <1>4 DEF DeleteBinding
-----------------------------------------------------------------------------
(* Digest settings.                                                        *)

(* The worker is told, or not.                                             *)
LEMMA TellsDoes ==
  ASSUME Base, NEW r \in Log, Honest(req[r]), NEW op \in DigestOps, At(r, op, "publish"),
         NEW user, NEW chat, NEW mark \in Nat \cup {NotTold}, Tells(r, user, chat, mark)
  PROVE  Does(r, {}) /\ A(r).op = op
<1>1. /\ req[r] \in Request /\ req[r].out = "pending" /\ req[r].ask.op = op /\ A(r).op = op
      /\ op # "CreateBacklogsBatch"
  BY InLog DEF At, A, DigestOps
<1> DEFINE q == [req[r] EXCEPT !.pc = "touch"]
<1>2. Effect(r, {}) /\ req'[r] = q
  BY <1>1, TellsEffect
<1>3. q.ask = req[r].ask /\ q.out = "pending" /\ q.pc = "touch"
  BY <1>1 DEF Request
<1> HIDE DEF q
<1>4. Honest(q)
  BY <1>1, <1>3, HonestGo DEF Late
<1> QED
  BY <1>1, <1>2, <1>4 DEF Does

LEMMA DigestReadDoes ==
  ASSUME Base, NEW r \in Log, Honest(req[r]), NEW op \in MayMiss, At(r, op, "start"),
         NEW pc \in Pc, GetDigestSettingsByUserID(r, pc)
  PROVE  Does(r, {}) /\ A(r).op = op
<1>1. /\ req[r] \in Request /\ req[r].out = "pending" /\ req[r].ask.op = op /\ req[r].pc = "start"
      /\ req[r].wrote \in BOOLEAN /\ A(r).op = op
  BY InLog DEF At, A, Request
<1>2. ~ req[r].wrote
  BY <1>1, Unwritten DEF Late
<1>3. /\ Effect(r, {})
      /\ \/ req'[r] = Finish(req[r], "notfound")
         \/ \E d \in DigestsOf(A(r).user, A(r).chat) :
              req'[r] = [req[r] EXCEPT !.pc = pc, !.copy = db["digests"][d], !.item = d]
  BY <1>1, DigestReadEffect
<1>4. Honest(Finish(req[r], "notfound"))
  BY <1>1, <1>2, FinishFields, HonestEnd DEF May, Outcome
<1>5. ASSUME NEW d
      PROVE  Honest([req[r] EXCEPT !.pc = pc, !.copy = db["digests"][d], !.item = d])
  <2> DEFINE p == [req[r] EXCEPT !.pc = pc, !.copy = db["digests"][d], !.item = d]
  <2>1. p.ask = req[r].ask /\ p.out = "pending" /\ ~ p.wrote
    BY <1>1, <1>2 DEF Request
  <2> HIDE DEF p
  <2>2. Honest(p)
    BY <1>1, <2>1, HonestGo
  <2> QED
    BY <2>2 DEF p
<1>6. Honest(req'[r])
  <2>1. CASE req'[r] = Finish(req[r], "notfound")
    BY <1>4, <2>1
  <2>2. ASSUME NEW d, req'[r] = [req[r] EXCEPT !.pc = pc, !.copy = db["digests"][d], !.item = d]
        PROVE  Honest(req'[r])
    BY <1>5, <2>2
  <2> QED
    BY <1>3, <2>1, <2>2
<1> QED
  BY <1>1, <1>3, <1>6 DEF Does


LEMMA CreateDigestSettingsDoes ==
  ASSUME Base, NEW r \in Log, Honest(req[r]), CreateDigestSettings(r)
  PROVE  Does(r, {"digests"}) /\ A(r).op = "CreateDigestSettings"
<1>1. CASE /\ At(r, "CreateDigestSettings", "start")
           /\ Requires(r, A(r).user \in Live("users"), "unprocessable", "chat")
  BY <1>1, RequiresDoes, DoesOf DEF Outcome, Pc, Late, May, MayRefuse
<1>2. CASE /\ At(r, "CreateDigestSettings", "chat")
           /\ Requires(r, ChatGiven(A(r).chat), "unprocessable", "time")
  BY <1>2, RequiresDoes, DoesOf DEF Outcome, Pc, Late, May, MayRefuse
<1>3. CASE At(r, "CreateDigestSettings", "time") /\ Answer(r, "validation") /\ Quiet
  BY <1>3, AnswerDoes, DoesOf DEF Outcome, Late, May, MayReject
<1>4. CASE At(r, "CreateDigestSettings", "time") /\ Answer(r, "unprocessable") /\ Quiet
  BY <1>4, AnswerDoes, DoesOf DEF Outcome, Late, May, MayRefuse
<1>5. CASE At(r, "CreateDigestSettings", "time") /\ Go(r, "insert") /\ Quiet
  BY <1>5, GoDoes, DoesOf DEF Late, Pc
<1>6. CASE At(r, "CreateDigestSettings", "insert") /\ InsertDigest(r)
  <2> DEFINE row == [NoRow EXCEPT !.user = A(r).user, !.chat = A(r).chat]
             taken == DigestTaken(A(r).user, A(r).chat)
  <2>1. row \in Row /\ row.end = 0 /\ Owned(r, "digests", row)
    BY InLog DEF NoRow, Row, AnyId, Ask, Owned
  <2>2. Inserts(r, "digests", row, taken, "publish") /\ taken \in BOOLEAN /\ "digests" \in Table
    BY <1>6 DEF InsertDigest, DigestTaken, Table
  <2> HIDE DEF row, taken
  <2>3. Does(r, {"digests"}) /\ A(r).op = "CreateDigestSettings"
    BY <1>6, <2>1, <2>2, InsertsDoes DEF Creations
  <2> QED
    BY <2>3, DoesOf
<1>7. CASE /\ At(r, "CreateDigestSettings", "publish")
           /\ Tells(r, A(r).user, A(r).chat, r)
  <2>1. r \in Nat
    BY InLog
  <2>2. Does(r, {}) /\ A(r).op = "CreateDigestSettings"
    BY <1>7, <2>1, TellsDoes DEF DigestOps
  <2> QED
    BY <2>2, DoesOf
<1>8. CASE A(r).op = "CreateDigestSettings" /\ Touch(r, A(r).user)
  BY <1>8, TouchDoes, DoesOf
<1> QED
  BY <1>1, <1>2, <1>3, <1>4, <1>5, <1>6, <1>7, <1>8 DEF CreateDigestSettings

LEMMA GetDigestSettingsDoes ==
  ASSUME Base, NEW r \in Log, Honest(req[r]), GetDigestSettings(r)
  PROVE  Does(r, {}) /\ A(r).op = "GetDigestSettings"
<1>1. DigestsOf(A(r).user, A(r).chat) \subseteq AnyId
  BY DEF DigestsOf, Live, AnyId
<1> QED
  BY <1>1, ShowsAnyDoes DEF GetDigestSettings, MayMiss, Late

(* The digest is moved, in the copy.                                       *)
Moves(r) ==
  /\ At(r, "UpdateDigestSettings", "time") /\ A(r).ref \in Live("chats")
  /\ req' = [req EXCEPT ![r].pc = "write", ![r].copy.chat = A(r).ref]
  /\ Quiet

LEMMA MovesDoes ==
  ASSUME Base, NEW r \in Log, Honest(req[r]), Moves(r)
  PROVE  /\ Does(r, {}) /\ A(r).op = "UpdateDigestSettings"
         /\ req'[r] = [req[r] EXCEPT !.pc = "write", !.copy.chat = A(r).ref]
<1>1. /\ req[r] \in Request /\ req[r].out = "pending" /\ req[r].ask.op = "UpdateDigestSettings"
      /\ req[r].pc = "time" /\ req[r].ended = 0 /\ A(r).op = "UpdateDigestSettings"
      /\ req[r].wrote \in BOOLEAN /\ A(r).ref \in AnyId /\ "write" \in Pc
  BY InLog, OpenFields DEF Moves, At, A, Request, Ask, Pc
<1>2. ~ req[r].wrote
  BY <1>1, Unwritten DEF Late
<1> DEFINE q == [req[r] EXCEPT !.pc = "write", !.copy.chat = A(r).ref]
<1>3. /\ q \in Request /\ q.ask = req[r].ask /\ q.out = "pending" /\ q.ended = 0 /\ ~ q.wrote
      /\ q.ask = A(r)
  BY <1>1, <1>2 DEF Request, Row, A
<1>4. req' = [req EXCEPT ![r] = q] /\ Quiet
  BY DEF Moves
<1> HIDE DEF q
<1>5. Effect(r, {}) /\ req'[r] = q
  BY <1>1, <1>3, <1>4, RecordEffect
<1>6. Honest(q)
  BY <1>1, <1>3, HonestGo
<1> QED
  BY <1>1, <1>5, <1>6 DEF Does, q

LEMMA DigestUpdateDoes ==
  ASSUME Base, NEW r \in Log, Honest(req[r]), At(r, "UpdateDigestSettings", "write"),
         UpdateDigestRow(r)
  PROVE  Does(r, {"digests"}) /\ A(r).op = "UpdateDigestSettings"
<1>1. /\ req[r] \in Request /\ req[r].out = "pending" /\ A(r).op = "UpdateDigestSettings"
      /\ "publish" \in Pc /\ A(r).op \in Changes
  BY InLog DEF At, Pc, Changes
<1>2. /\ Effect(r, {"digests"})
      /\ \/ req'[r] = [Finish(req[r], "internal") EXCEPT !.hit = "unique"]
         \/ req'[r] = Written(req[r], "publish")
  BY <1>1, DigestUpdateEffect
<1>3. Honest([Finish(req[r], "internal") EXCEPT !.hit = "unique"])
  BY <1>1, RefusedHonest
<1>4. ASSUME req'[r] = Written(req[r], "publish") PROVE Honest(req'[r])
  BY <1>1, <1>4, WroteHonest
<1> QED
  BY <1>1, <1>2, <1>3, <1>4 DEF Does

LEMMA DigestDeleteDoes ==
  ASSUME Base, NEW r \in Log, Honest(req[r]), At(r, "DeleteDigestSettings", "delete"),
         DeleteDigestRows(r)
  PROVE  Does(r, {"digests"}) /\ A(r).op = "DeleteDigestSettings"
<1>1. /\ req[r] \in Request /\ req[r].out = "pending" /\ A(r).op = "DeleteDigestSettings"
      /\ "publish" \in Pc /\ req[r].wrote \in BOOLEAN /\ req[r].ask.op = "DeleteDigestSettings"
      /\ req[r].pc = "delete" /\ A(r).op \in Removals
  BY InLog DEF At, A, Pc, Request, Removals
<1>2. ~ req[r].wrote
  BY <1>1, Unwritten DEF Late
<1>3. /\ Effect(r, {"digests"})
      /\ req'[r] = Finish(req[r], "notfound") \/ req'[r] = Written(req[r], "publish")
  BY <1>1, DigestDeleteEffect
<1>4. Honest(Finish(req[r], "notfound"))
  BY <1>1, <1>2, FinishFields, HonestEnd DEF May, MayMiss, Outcome
<1>5. ASSUME req'[r] = Written(req[r], "publish") PROVE Honest(req'[r])
  BY <1>1, <1>5, WroteHonest
<1> QED
  BY <1>1, <1>3, <1>4, <1>5 DEF Does


LEMMA UpdateDigestSettingsDoes ==
  ASSUME Base, NEW r \in Log, Honest(req[r]), UpdateDigestSettings(r)
  PROVE  Does(r, {"digests"}) /\ A(r).op = "UpdateDigestSettings"
<1>1. CASE At(r, "UpdateDigestSettings", "start") /\ GetDigestSettingsByUserID(r, "time")
  <2>1. Does(r, {}) /\ A(r).op = "UpdateDigestSettings"
    BY <1>1, DigestReadDoes DEF MayMiss, Pc
  <2> QED
    BY <2>1, DoesOf
<1>2. CASE At(r, "UpdateDigestSettings", "time") /\ Answer(r, "validation") /\ Quiet
  BY <1>2, AnswerDoes, DoesOf DEF Outcome, Late, May, MayReject
<1>3. CASE At(r, "UpdateDigestSettings", "time") /\ Answer(r, "unprocessable") /\ Quiet
  BY <1>3, AnswerDoes, DoesOf DEF Outcome, Late, May, MayRefuse
<1>4. CASE At(r, "UpdateDigestSettings", "time") /\ Go(r, "write") /\ Quiet
  BY <1>4, GoDoes, DoesOf DEF Late, Pc
<1>5. CASE Moves(r)
  <2>1. Does(r, {}) /\ A(r).op = "UpdateDigestSettings"
    BY <1>5, MovesDoes
  <2> QED
    BY <2>1, DoesOf
<1>6. CASE At(r, "UpdateDigestSettings", "write") /\ UpdateDigestRow(r)
  <2>1. Does(r, {"digests"}) /\ A(r).op = "UpdateDigestSettings"
    BY <1>6, DigestUpdateDoes
  <2> QED
    BY <2>1, DoesOf
<1>7. CASE /\ At(r, "UpdateDigestSettings", "publish")
           /\ Tells(r, req[r].copy.user, req[r].copy.chat, r)
  <2> DEFINE user == req[r].copy.user
             chat == req[r].copy.chat
  <2>1. r \in Nat \cup {NotTold} /\ Tells(r, user, chat, r)
    BY <1>7, InLog
  <2> HIDE DEF user, chat
  <2>2. Does(r, {}) /\ A(r).op = "UpdateDigestSettings"
    BY <1>7, <2>1, TellsDoes DEF DigestOps
  <2> QED
    BY <2>2, DoesOf
<1>8. CASE A(r).op = "UpdateDigestSettings" /\ Touch(r, A(r).user)
  BY <1>8, TouchDoes, DoesOf
<1> QED
  BY <1>1, <1>2, <1>3, <1>4, <1>5, <1>6, <1>7, <1>8 DEF UpdateDigestSettings, Moves, HasChat

LEMMA DeleteDigestSettingsDoes ==
  ASSUME Base, NEW r \in Log, Honest(req[r]), DeleteDigestSettings(r)
  PROVE  Does(r, {"digests"}) /\ A(r).op = "DeleteDigestSettings"
<1>1. CASE At(r, "DeleteDigestSettings", "start") /\ GetDigestSettingsByUserID(r, "delete")
  <2>1. Does(r, {}) /\ A(r).op = "DeleteDigestSettings"
    BY <1>1, DigestReadDoes DEF MayMiss, Pc
  <2> QED
    BY <2>1, DoesOf
<1>2. CASE At(r, "DeleteDigestSettings", "delete") /\ DeleteDigestRows(r)
  <2>1. Does(r, {"digests"}) /\ A(r).op = "DeleteDigestSettings"
    BY <1>2, DigestDeleteDoes
  <2> QED
    BY <2>1, DoesOf
<1>3. CASE /\ At(r, "DeleteDigestSettings", "publish")
           /\ Tells(r, req[r].copy.user, req[r].copy.chat, NotTold)
  <2> DEFINE user == req[r].copy.user
             chat == req[r].copy.chat
  <2>1. NotTold \in Nat \cup {NotTold} /\ Tells(r, user, chat, NotTold)
    BY <1>3, InLog
  <2> HIDE DEF user, chat
  <2>2. Does(r, {}) /\ A(r).op = "DeleteDigestSettings"
    BY <1>3, <2>1, TellsDoes DEF DigestOps
  <2> QED
    BY <2>2, DoesOf
<1>4. CASE A(r).op = "DeleteDigestSettings" /\ Touch(r, A(r).user)
  BY <1>4, TouchDoes, DoesOf
<1> QED
  BY <1>1, <1>2, <1>3, <1>4 DEF DeleteDigestSettings

LEMMA GetAllDigestSettingsDoes ==
  ASSUME Base, NEW r \in Log, Honest(req[r]), GetAllDigestSettings(r)
  PROVE  Does(r, {}) /\ A(r).op = "GetAllDigestSettings"
<1>0. ChatsOfMessengerUser(A(r).key, A(r).user) \subseteq Id /\ Filtered("digests", r) \subseteq Id
  BY DEF ChatsOfMessengerUser, Filtered, Live
<1>1. CASE /\ At(r, "GetAllDigestSettings", "start")
           /\ ListsByChat(r, ChatsOfMessengerUser(A(r).key, A(r).user))
  BY <1>0, <1>1, ListsByChatDoes DEF Late
<1>2. CASE At(r, "GetAllDigestSettings", "count") /\ Counts(r, Filtered("digests", r))
  BY <1>0, <1>2, CountsDoes DEF Late
<1>3. CASE At(r, "GetAllDigestSettings", "page") /\ ShowsPage(r, Filtered("digests", r))
  BY <1>0, <1>3, ShowsPageDoes
<1> QED
  BY <1>1, <1>2, <1>3 DEF GetAllDigestSettings

(* The two counts of a digest.                                             *)
LEMMA GetDigestDoes ==
  ASSUME Base, NEW r \in Log, Honest(req[r]), GetDigest(r)
  PROVE  Does(r, {}) /\ A(r).op = "GetDigest"
<1>1. CASE /\ At(r, "GetDigest", "start")
           /\ Requires(r, A(r).user \in Live("users"), "unprocessable", "completed")
  BY <1>1, RequiresDoes DEF Outcome, Pc, Late, May, MayRefuse
<1>2. CASE At(r, "GetDigest", "completed") \/ At(r, "GetDigest", "targets")
  <2>1. /\ req[r] \in Request /\ req[r].out = "pending" /\ req[r].ask.op = "GetDigest"
        /\ req[r].pc \in {"completed", "targets"} /\ req[r].ended = 0 /\ A(r).op = "GetDigest"
        /\ req[r].wrote \in BOOLEAN /\ {"targets", "chat"} \subseteq Pc
    BY <1>2, InLog, OpenFields DEF At, A, Request, Pc
  <2>2. ~ req[r].wrote
    BY <2>1, Unwritten DEF Late
  <2>3. CASE At(r, "GetDigest", "completed")
    <3> DEFINE n == Cardinality(CompletedBacklogs(A(r).user))
               q == [req[r] EXCEPT !.pc = "targets", !.total = n]
    <3>1. CompletedBacklogs(A(r).user) \subseteq Id
      BY DEF CompletedBacklogs, Live
    <3>2. n \in Nat
      BY <3>1, SomeIds
    <3>3. req' = [req EXCEPT ![r] = q] /\ Quiet
      BY <1>2, <2>3 DEF GetDigest, At
    <3> HIDE DEF n
    <3>4. /\ q \in Request /\ q.ask = A(r) /\ q.ask = req[r].ask /\ q.out = "pending"
          /\ q.ended = 0 /\ ~ q.wrote
      BY <2>1, <2>2, <3>2 DEF Request, A
    <3> HIDE DEF q
    <3>5. Effect(r, {}) /\ req'[r] = q
      BY <2>1, <3>3, <3>4, RecordEffect
    <3>6. Honest(q)
      BY <2>1, <3>4, HonestGo
    <3> QED
      BY <2>1, <3>5, <3>6 DEF Does
  <2>4. CASE At(r, "GetDigest", "targets")
    <3> DEFINE S == Filtered("targets", r)
               q == [req[r] EXCEPT !.pc = "chat", !.made = S]
    <3>1. S \subseteq Id
      BY DEF Filtered, Live
    <3>2. req' = [req EXCEPT ![r] = q] /\ Quiet
      BY <1>2, <2>4 DEF GetDigest, At
    <3> HIDE DEF S
    <3>3. S \in SUBSET AnyId
      BY <3>1, SomeIds
    <3>4. /\ q \in Request /\ q.ask = A(r) /\ q.ask = req[r].ask /\ q.out = "pending"
          /\ q.ended = 0 /\ ~ q.wrote
      BY <2>1, <2>2, <3>3 DEF Request, A
    <3> HIDE DEF q
    <3>5. Effect(r, {}) /\ req'[r] = q
      BY <2>1, <3>2, <3>4, RecordEffect
    <3>6. Honest(q)
      BY <2>1, <3>4, HonestGo
    <3> QED
      BY <2>1, <3>5, <3>6 DEF Does
  <2> QED
    BY <1>2, <2>3, <2>4
<1>3. CASE /\ At(r, "GetDigest", "chat")
           /\ req' = [req EXCEPT ![r] = [Finish(@, "unprocessable") EXCEPT !.made = {}]]
           /\ Quiet
  <2> DEFINE S == {}
  <2>1. S \in SUBSET AnyId
    OBVIOUS
  <2>2. req' = [req EXCEPT ![r] = [Finish(@, "unprocessable") EXCEPT !.made = S]] /\ Quiet
    BY <1>3
  <2>3. /\ "unprocessable" \in Outcome \ {"pending"} /\ May("GetDigest", "unprocessable")
        /\ ~ Late("GetDigest", "chat")
    BY DEF Outcome, May, MayRefuse, Late
  <2>4. At(r, "GetDigest", "chat")
    BY <1>3
  <2> HIDE DEF S
  <2> QED
    BY <2>1, <2>2, <2>3, <2>4, MadeDoes
<1>4. CASE At(r, "GetDigest", "chat") /\ Answer(r, "ok") /\ Quiet
  BY <1>4, AnswerDoes DEF Outcome
<1> QED
  BY <1>1, <1>2, <1>3, <1>4 DEF GetDigest
-----------------------------------------------------------------------------
(* Backlogs, targets and tasks.                                            *)

LEMMA NewNoteRow ==
  ASSUME Base, NEW r \in Log
  PROVE  /\ NewNote(r) \in Row /\ NewNote(r).end = 0 /\ NewNote(r).user = A(r).user
         /\ NewNote(r).chat = A(r).chat /\ NewNote(r).done = FALSE
BY InLog DEF NewNote, NoRow, Row, AnyId, Ask

LEMMA OwnerDoes ==
  ASSUME Base, NEW r \in Log, Honest(req[r]), NEW op \in MayRefuse, NEW pc \in Pc,
         ChecksOwner(r, op, pc)
  PROVE  Does(r, {}) /\ A(r).op = op
<1>0. op # "DeleteUser"
  BY DEF MayRefuse
<1>1. CASE At(r, op, "start") /\ Requires(r, A(r).user \in Live("users"), "unprocessable", "chat")
  BY <1>0, <1>1, RequiresDoes DEF Outcome, Pc, May, Late
<1>2. CASE /\ At(r, op, "chat")
           /\ Requires(r, A(r).chat = NoId \/ HasChat(A(r).chat), "unprocessable", pc)
  BY <1>0, <1>2, RequiresDoes DEF Outcome, May, Late
<1> QED
  BY <1>1, <1>2 DEF ChecksOwner

LEMMA TitleDoes ==
  ASSUME Base, NEW r \in Log, Honest(req[r]), NEW op \in {"UpdateBacklog", "UpdateTarget"},
         NEW t \in Table, ReadsTitle(r, op, t)
  PROVE  Does(r, {}) /\ A(r).op = op
<1>1. CASE At(r, op, "start") /\ Reads(r, t, "check")
  BY <1>1, ReadsDoes DEF MayMiss, Late, Pc
<1>2. CASE At(r, op, "check") /\ Requires(r, ~ A(r).blank, "validation", "write")
  BY <1>2, RequiresDoes DEF Outcome, Pc, May, MayReject, Late
<1> QED
  BY <1>1, <1>2 DEF ReadsTitle

LEMMA NoteRowDoes ==
  ASSUME Base, NEW r \in Log, Honest(req[r]), NEW op \in {"UpdateBacklog", "UpdateTarget"},
         NEW t \in Table, t = TableOf(op), At(r, op, "write"), UpdateNoteRow(r, t)
  PROVE  Does(r, {t}) /\ A(r).op = op
<1> DEFINE row == [req[r].copy EXCEPT !.done = @ \/ A(r).done]
<1>1. Updates(r, t, row, "touch")
  BY DEF UpdateNoteRow
<1>2. t \notin {"users", "digests"}
  BY DEF TableOf
<1>3. /\ req[r].copy \in Row /\ A(r).id \in Id /\ req[r].copy.st = "live" /\ req[r].copy.end = 0
      /\ SameRow(t, db[t][A(r).id], req[r].copy) /\ A(r).done \in BOOLEAN
  BY InLog DEF At, Base, CopyOK, Rewriters, Request, Ask
<1>4. /\ row \in Row /\ row.st = "live" /\ row.end = 0 /\ row.key = req[r].copy.key
      /\ SameRow(t, db[t][A(r).id], row)
  BY <1>3 DEF Row, SameRow
<1> HIDE DEF row
<1>5. row.key = db[t][A(r).id].key /\ row.key \in Nat
  BY <1>2, <1>4 DEF SameRow, Row
<1>6. row.key >= db[t][A(r).id].key
  BY <1>5
<1> QED
  BY <1>1, <1>4, <1>6, UpdatesDoes DEF Rewriters

LEMMA CreateBacklogDoes ==
  ASSUME Base, NEW r \in Log, Honest(req[r]), CreateBacklog(r)
  PROVE  Does(r, {"backlogs"}) /\ A(r).op = "CreateBacklog"
<1>1. CASE ChecksOwner(r, "CreateBacklog", "insert")
  <2>1. Does(r, {}) /\ A(r).op = "CreateBacklog"
    BY <1>1, OwnerDoes DEF MayRefuse, Pc
  <2> QED
    BY <2>1, DoesOf
<1>2. CASE At(r, "CreateBacklog", "insert") /\ InsertBacklog(r)
  <2>1. Does(r, {"backlogs"}) /\ A(r).op = "CreateBacklog"
    BY <1>2, NewNoteRow, InsertDoes DEF Owned, InsertBacklog, Table, Creations
  <2> QED
    BY <2>1, DoesOf
<1>3. CASE A(r).op = "CreateBacklog" /\ Touch(r, A(r).user)
  BY <1>3, TouchDoes, DoesOf
<1> QED
  BY <1>1, <1>2, <1>3 DEF CreateBacklog

(* A line of a batch.                                                      *)
TakesLine(r, i) ==
  /\ At(r, "CreateBacklogsBatch", "lines") /\ req[r].total > 0 /\ i \in NextId("backlogs")
  /\ db' = [db EXCEPT !["backlogs"][i] = [NewNote(r) EXCEPT !.st = "live", !.by = r, !.mark = r]]
  /\ req' = [req EXCEPT ![r].total = @ - 1, ![r].made = @ \cup {i},
                        ![r].wrote = TRUE, ![r].stamp = Len(req)]
  /\ Aside

LEMMA LineDoes ==
  ASSUME Base, NEW r \in Log, Honest(req[r]), NEW i, TakesLine(r, i)
  PROVE  /\ Does(r, {"backlogs"}) /\ A(r).op = "CreateBacklogsBatch"
         /\ i \in Id /\ db["backlogs"][i].st = "none"
<1>1. /\ req[r] \in Request /\ req[r].out = "pending" /\ req[r].ask.op = "CreateBacklogsBatch"
      /\ req[r].ended = 0 /\ A(r).op = "CreateBacklogsBatch" /\ Len(req) \in Nat /\ r \in Nat
      /\ "backlogs" \in Table /\ req[r].pc = "lines" /\ i \in AnyId /\ i \in NextId("backlogs")
  BY InLog, OpenFields DEF TakesLine, At, A, Table, NextId, AnyId
<1>2. req[r].total - 1 \in Nat
  BY <1>1 DEF TakesLine, Request
<1> DEFINE n == req[r].total - 1
           q == [req[r] EXCEPT !.total = n, !.made = @ \cup {i}, !.wrote = TRUE,
                               !.stamp = Len(req)]
           new == [NewNote(r) EXCEPT !.st = "live", !.by = r, !.mark = r]
<1>3. /\ req' = [req EXCEPT ![r] = q] /\ db' = [db EXCEPT !["backlogs"][i] = new] /\ Aside
  BY DEF TakesLine
<1> HIDE DEF n
<1>4. /\ q \in Request /\ q.ask = A(r) /\ q.ask = req[r].ask /\ q.out = "pending" /\ q.ended = 0
      /\ q.pc = "lines" /\ q.made # {}
  BY <1>1, <1>2 DEF Request, A, n
<1>5. new \in Row /\ new.st = "live" /\ new.by = r /\ new.mark = r /\ new.end = 0
      /\ Owned(r, "backlogs", new) /\ A(r).op \in Creations
  BY <1>1, NewNoteRow DEF Row, Owned, Creations
<1> HIDE DEF q, new
<1>6. Effect(r, {"backlogs"}) /\ i \in Id /\ db["backlogs"][i].st = "none" /\ req'[r] = q
  BY <1>1, <1>3, <1>4, <1>5, InsertedEffect
<1>7. Honest(q)
  BY <1>1, <1>4, HonestGo DEF Late
<1> QED
  BY <1>1, <1>6, <1>7 DEF Does

(* The lines are counted.                                                  *)
Splits(r) ==
  /\ At(r, "CreateBacklogsBatch", "split")
  /\ req' = [req EXCEPT ![r].pc = "lines", ![r].total = A(r).key]
  /\ Quiet

LEMMA SplitsDoes ==
  ASSUME Base, NEW r \in Log, Honest(req[r]), Splits(r)
  PROVE  Does(r, {}) /\ A(r).op = "CreateBacklogsBatch"
<1>1. /\ req[r] \in Request /\ req[r].out = "pending" /\ req[r].ask.op = "CreateBacklogsBatch"
      /\ req[r].ended = 0 /\ A(r).op = "CreateBacklogsBatch" /\ req[r].pc = "split"
      /\ req[r].wrote \in BOOLEAN /\ A(r).key \in Nat /\ "lines" \in Pc
  BY InLog, OpenFields DEF Splits, At, A, Ask, Request, Pc
<1>2. ~ req[r].wrote
  BY <1>1, Unwritten DEF Late
<1> DEFINE q == [req[r] EXCEPT !.pc = "lines", !.total = A(r).key]
<1>3. req' = [req EXCEPT ![r] = q] /\ Quiet
  BY DEF Splits
<1>4. /\ q \in Request /\ q.ask = A(r) /\ q.ask = req[r].ask /\ q.out = "pending" /\ q.ended = 0
      /\ ~ q.wrote
  BY <1>1, <1>2 DEF Request, A
<1> HIDE DEF q
<1>5. Effect(r, {}) /\ req'[r] = q
  BY <1>1, <1>3, <1>4, RecordEffect
<1>6. Honest(q)
  BY <1>1, <1>4, HonestGo
<1> QED
  BY <1>1, <1>5, <1>6 DEF Does

(* Not one line became a row.                                              *)
LEMMA NoLineDoes ==
  ASSUME Base, NEW r \in Log, Honest(req[r]), At(r, "CreateBacklogsBatch", "lines"),
         req[r].made = {}, Answer(r, "unprocessable"), Quiet
  PROVE  Does(r, {}) /\ A(r).op = "CreateBacklogsBatch"
<1>1. /\ req[r] \in Request /\ req[r].out = "pending" /\ req[r].ask.op = "CreateBacklogsBatch"
      /\ A(r).op = "CreateBacklogsBatch" /\ req[r].wrote \in BOOLEAN
  BY InLog DEF At, A, Request
<1>2. ~ req[r].wrote
  BY <1>1 DEF Honest
<1>3. Effect(r, {}) /\ req'[r] = Finish(req[r], "unprocessable")
  BY <1>1, AnswerEffect DEF Outcome
<1>4. Honest(Finish(req[r], "unprocessable"))
  BY <1>1, <1>2, FinishFields, HonestEnd DEF Outcome, May, MayRefuse
<1> QED
  BY <1>1, <1>3, <1>4 DEF Does

LEMMA CreateBacklogsBatchDoes ==
  ASSUME Base, NEW r \in Log, Honest(req[r]), CreateBacklogsBatch(r)
  PROVE  Does(r, {"backlogs"}) /\ A(r).op = "CreateBacklogsBatch"
<1>1. CASE ChecksOwner(r, "CreateBacklogsBatch", "split")
  <2>1. Does(r, {}) /\ A(r).op = "CreateBacklogsBatch"
    BY <1>1, OwnerDoes DEF MayRefuse, Pc
  <2> QED
    BY <2>1, DoesOf
<1>2. CASE Splits(r)
  <2>1. Does(r, {}) /\ A(r).op = "CreateBacklogsBatch"
    BY <1>2, SplitsDoes
  <2> QED
    BY <2>1, DoesOf
<1>3. CASE BatchLine(r)
  <2>1. PICK i \in NextId("backlogs") : TakesLine(r, i)
    BY <1>3 DEF BatchLine, TakesLine
  <2>2. Does(r, {"backlogs"}) /\ A(r).op = "CreateBacklogsBatch"
    BY <2>1, LineDoes
  <2> QED
    BY <2>2, DoesOf
<1>4. CASE /\ At(r, "CreateBacklogsBatch", "lines") /\ req[r].made = {}
           /\ Answer(r, "unprocessable") /\ Quiet
  <2>1. Does(r, {}) /\ A(r).op = "CreateBacklogsBatch"
    BY <1>4, NoLineDoes
  <2> QED
    BY <2>1, DoesOf
<1>5. CASE At(r, "CreateBacklogsBatch", "lines") /\ Go(r, "touch") /\ Quiet
  BY <1>5, GoDoes, DoesOf DEF Late, Pc
<1>6. CASE A(r).op = "CreateBacklogsBatch" /\ Touch(r, A(r).user)
  BY <1>6, TouchDoes, DoesOf
<1> QED
  BY <1>1, <1>2, <1>3, <1>4, <1>5, <1>6 DEF CreateBacklogsBatch, Splits

LEMMA GetBacklogByIDDoes ==
  ASSUME Base, NEW r \in Log, Honest(req[r]), GetBacklogByID(r)
  PROVE  Does(r, {}) /\ A(r).op = "GetBacklogByID"
BY ShowsDoes DEF GetBacklogByID, MayMiss, Late, Table

LEMMA GetAllBacklogsDoes ==
  ASSUME Base, NEW r \in Log, Honest(req[r]), GetAllBacklogs(r)
  PROVE  Does(r, {}) /\ A(r).op = "GetAllBacklogs"
<1>0. ChatsOfMessengerUser(A(r).key, A(r).user) \subseteq Id /\ BacklogsListed(r) \subseteq Id
  BY DEF ChatsOfMessengerUser, BacklogsListed, Filtered, Live
<1>1. CASE /\ At(r, "GetAllBacklogs", "start")
           /\ ListsByChat(r, ChatsOfMessengerUser(A(r).key, A(r).user))
  BY <1>0, <1>1, ListsByChatDoes DEF Late
<1>2. CASE At(r, "GetAllBacklogs", "count") /\ Counts(r, BacklogsListed(r))
  BY <1>0, <1>2, CountsDoes DEF Late
<1>3. CASE At(r, "GetAllBacklogs", "page") /\ ShowsPage(r, BacklogsListed(r))
  BY <1>0, <1>3, ShowsPageDoes
<1> QED
  BY <1>1, <1>2, <1>3 DEF GetAllBacklogs

LEMMA UpdateBacklogDoes ==
  ASSUME Base, NEW r \in Log, Honest(req[r]), UpdateBacklog(r)
  PROVE  Does(r, {"backlogs"}) /\ A(r).op = "UpdateBacklog"
<1>1. CASE ReadsTitle(r, "UpdateBacklog", "backlogs")
  <2>1. Does(r, {}) /\ A(r).op = "UpdateBacklog"
    BY <1>1, TitleDoes DEF Table
  <2> QED
    BY <2>1, DoesOf
<1>2. CASE At(r, "UpdateBacklog", "write") /\ UpdateNoteRow(r, "backlogs")
  <2>1. Does(r, {"backlogs"}) /\ A(r).op = "UpdateBacklog"
    BY <1>2, NoteRowDoes DEF Table, TableOf
  <2> QED
    BY <2>1, DoesOf
<1>3. CASE A(r).op = "UpdateBacklog" /\ Touch(r, req[r].copy.user)
  BY <1>3, TouchDoes, DoesOf
<1> QED
  BY <1>1, <1>2, <1>3 DEF UpdateBacklog

LEMMA DeleteBacklogDoes ==
  ASSUME Base, NEW r \in Log, Honest(req[r]), DeleteBacklog(r)
  PROVE  Does(r, {"backlogs"}) /\ A(r).op = "DeleteBacklog"
<1>1. CASE At(r, "DeleteBacklog", "start") /\ Reads(r, "backlogs", "delete")
  BY <1>1, ReadsDoes, DoesOf, ZenonT(30) DEF MayMiss, Late, Table, Pc
<1>2. CASE At(r, "DeleteBacklog", "delete") /\ DeleteBacklogRow(r)
  <2>1. Does(r, {"backlogs"}) /\ A(r).op = "DeleteBacklog"
    BY <1>2, DeletesDoes DEF DeleteBacklogRow, MayMiss, Removals, Late, Table
  <2> QED
    BY <2>1, DoesOf
<1>3. CASE A(r).op = "DeleteBacklog" /\ Touch(r, req[r].copy.user)
  BY <1>3, TouchDoes, DoesOf
<1> QED
  BY <1>1, <1>2, <1>3 DEF DeleteBacklog

LEMMA CreateTargetDoes ==
  ASSUME Base, NEW r \in Log, Honest(req[r]), CreateTarget(r)
  PROVE  Does(r, {"targets"}) /\ A(r).op = "CreateTarget"
<1>1. CASE ChecksOwner(r, "CreateTarget", "insert")
  <2>1. Does(r, {}) /\ A(r).op = "CreateTarget"
    BY <1>1, OwnerDoes DEF MayRefuse, Pc
  <2> QED
    BY <2>1, DoesOf
<1>2. CASE At(r, "CreateTarget", "insert") /\ InsertTarget(r)
  <2>1. Does(r, {"targets"}) /\ A(r).op = "CreateTarget"
    BY <1>2, NewNoteRow, InsertDoes DEF Owned, InsertTarget, Table, Creations
  <2> QED
    BY <2>1, DoesOf
<1>3. CASE A(r).op = "CreateTarget" /\ Touch(r, A(r).user)
  BY <1>3, TouchDoes, DoesOf
<1> QED
  BY <1>1, <1>2, <1>3 DEF CreateTarget

LEMMA GetTargetByIDDoes ==
  ASSUME Base, NEW r \in Log, Honest(req[r]), GetTargetByID(r)
  PROVE  Does(r, {}) /\ A(r).op = "GetTargetByID"
BY ShowsDoes DEF GetTargetByID, MayMiss, Late, Table

LEMMA GetAllTargetsDoes ==
  ASSUME Base, NEW r \in Log, Honest(req[r]), GetAllTargets(r)
  PROVE  Does(r, {}) /\ A(r).op = "GetAllTargets"
<1>0. ChatsOfMessengerUser(A(r).key, A(r).user) \subseteq Id /\ TargetsListed(r) \subseteq Id
  BY DEF ChatsOfMessengerUser, TargetsListed, Filtered, Live
<1>1. CASE /\ At(r, "GetAllTargets", "start")
           /\ ListsByChat(r, ChatsOfMessengerUser(A(r).key, A(r).user))
  BY <1>0, <1>1, ListsByChatDoes DEF Late
<1>2. CASE At(r, "GetAllTargets", "count") /\ Counts(r, TargetsListed(r))
  BY <1>0, <1>2, CountsDoes DEF Late
<1>3. CASE At(r, "GetAllTargets", "page") /\ ShowsPage(r, TargetsListed(r))
  BY <1>0, <1>3, ShowsPageDoes
<1> QED
  BY <1>1, <1>2, <1>3 DEF GetAllTargets

LEMMA UpdateTargetDoes ==
  ASSUME Base, NEW r \in Log, Honest(req[r]), UpdateTarget(r)
  PROVE  Does(r, {"targets"}) /\ A(r).op = "UpdateTarget"
<1>1. CASE ReadsTitle(r, "UpdateTarget", "targets")
  <2>1. Does(r, {}) /\ A(r).op = "UpdateTarget"
    BY <1>1, TitleDoes DEF Table
  <2> QED
    BY <2>1, DoesOf
<1>2. CASE At(r, "UpdateTarget", "write") /\ UpdateNoteRow(r, "targets")
  <2>1. Does(r, {"targets"}) /\ A(r).op = "UpdateTarget"
    BY <1>2, NoteRowDoes DEF Table, TableOf
  <2> QED
    BY <2>1, DoesOf
<1>3. CASE A(r).op = "UpdateTarget" /\ Touch(r, req[r].copy.user)
  BY <1>3, TouchDoes, DoesOf
<1> QED
  BY <1>1, <1>2, <1>3 DEF UpdateTarget

LEMMA DeleteTargetDoes ==
  ASSUME Base, NEW r \in Log, Honest(req[r]), DeleteTarget(r)
  PROVE  Does(r, {"targets"}) /\ A(r).op = "DeleteTarget"
<1>1. CASE At(r, "DeleteTarget", "start") /\ Reads(r, "targets", "delete")
  BY <1>1, ReadsDoes, DoesOf, ZenonT(30) DEF MayMiss, Late, Table, Pc
<1>2. CASE At(r, "DeleteTarget", "delete") /\ DeleteTargetRow(r)
  <2>1. Does(r, {"targets"}) /\ A(r).op = "DeleteTarget"
    BY <1>2, DeletesDoes DEF DeleteTargetRow, MayMiss, Removals, Late, Table
  <2> QED
    BY <2>1, DoesOf
<1>3. CASE A(r).op = "DeleteTarget" /\ Touch(r, req[r].copy.user)
  BY <1>3, TouchDoes, DoesOf
<1> QED
  BY <1>1, <1>2, <1>3 DEF DeleteTarget

LEMMA CreateTaskDoes ==
  ASSUME Base, NEW r \in Log, Honest(req[r]), CreateTask(r)
  PROVE  Does(r, {"tasks"}) /\ A(r).op = "CreateTask"
<1>1. CASE ChecksOwner(r, "CreateTask", "insert")
  <2>1. Does(r, {}) /\ A(r).op = "CreateTask"
    BY <1>1, OwnerDoes DEF MayRefuse, Pc
  <2> QED
    BY <2>1, DoesOf
<1>2. CASE /\ At(r, "CreateTask", "insert")
           /\ Inserts(r, "tasks", [NewNote(r) EXCEPT !.done = A(r).done], FALSE, "touch")
  <2> DEFINE row == [NewNote(r) EXCEPT !.done = A(r).done]
  <2>1. row \in Row /\ row.end = 0 /\ Owned(r, "tasks", row)
    BY NewNoteRow, InLog DEF Row, Ask, Owned
  <2>2. Inserts(r, "tasks", row, FALSE, "touch") /\ "tasks" \in Table
    BY <1>2 DEF Table
  <2> HIDE DEF row
  <2>3. Does(r, {"tasks"}) /\ A(r).op = "CreateTask"
    BY <1>2, <2>1, <2>2, InsertDoes DEF Creations
  <2> QED
    BY <2>3, DoesOf
<1>3. CASE A(r).op = "CreateTask" /\ Touch(r, A(r).user)
  BY <1>3, TouchDoes, DoesOf
<1> QED
  BY <1>1, <1>2, <1>3 DEF CreateTask

(* A task is queued.                                                       *)
LEMMA QueuesDoes ==
  ASSUME Base, NEW r \in Log, Honest(req[r]), At(r, "QueueTask", "queue"), A(r).id \in Id,
         armed' = armed \cup {A(r).id}, Answer(r, "ok"), UNCHANGED <<db, told, scene, failed>>
  PROVE  Does(r, {}) /\ A(r).op = "QueueTask" /\ req'[r] = Finish(req[r], "ok")
<1>1. req[r] \in Request /\ req[r].out = "pending" /\ A(r).op = "QueueTask"
  BY InLog DEF At
<1>2. Turn(r) /\ req'[r] = Finish(req[r], "ok")
  BY AnswerTurn DEF Outcome
<1>3. Around(r) /\ UNCHANGED db
  BY <1>1 DEF Base, ApiTypeOK, Around
<1>4. Effect(r, {})
  BY <1>1, <1>2, <1>3, StillEffect
<1>5. Honest(req'[r])
  BY <1>1, <1>2, FinishFields, HonestEnd DEF Outcome
<1> QED
  BY <1>1, <1>2, <1>4, <1>5 DEF Does
-----------------------------------------------------------------------------
(* The entry of r after a statement, field by field.                       *)

Kept(r) == /\ req'[r].ask = req[r].ask /\ req'[r].made = req[r].made
           /\ req'[r].hit = req[r].hit /\ req'[r].total = req[r].total

(* It goes on at pc with what it holds.                                    *)
Goes(r, pc) == /\ req'[r].pc = pc /\ req'[r].out = "pending" /\ req'[r].ids = req[r].ids
               /\ req'[r].copy = req[r].copy /\ req'[r].item = req[r].item /\ Kept(r)

(* It goes on at pc with a copy of the row it asked for.                   *)
Took(r, t, pc) == /\ A(r).id \in Live(t) /\ req'[r].copy = db[t][A(r).id]
                  /\ req'[r].pc = pc /\ req'[r].out = "pending" /\ req'[r].ids = req[r].ids
                  /\ req'[r].item = req[r].item /\ Kept(r)

(* It is answered.                                                         *)
Ends(r, out) == req'[r].out = out /\ req'[r].pc = "end" /\ req'[r].ended = Len(req) /\ Kept(r)

LEMMA EndsOf ==
  ASSUME Base, NEW r \in Log, NEW out \in Outcome \ {"pending"}, Answer(r, out)
  PROVE  Ends(r, out)
<1>1. req[r] \in Request
  BY InLog
<1>2. LET f == Finish(req[r], out)
      IN  /\ f.ask = req[r].ask /\ f.pc = "end" /\ f.out = out /\ f.ended = Len(req)
          /\ f.made = req[r].made /\ f.hit = req[r].hit /\ f.total = req[r].total
  BY <1>1, FinishFields
<1>3. req'[r] = Finish(req[r], out)
  BY AnswerTurn
<1> QED
  BY <1>2, <1>3 DEF Ends, Kept

LEMMA GoesOf ==
  ASSUME Base, NEW r \in Log, req[r].out = "pending", NEW pc \in Pc, Go(r, pc)
  PROVE  Goes(r, pc)
<1>1. req[r] \in Request
  BY InLog
<1>2. req'[r] = [req[r] EXCEPT !.pc = pc]
  BY GoTurn
<1> QED
  BY <1>1, <1>2 DEF Goes, Kept, Request

LEMMA TookOf ==
  ASSUME Base, NEW r \in Log, req[r].out = "pending", NEW t \in Table, NEW pc \in Pc, Reads(r, t, pc)
  PROVE  Took(r, t, pc) \/ Ends(r, "notfound")
<1>1. req[r] \in Request
  BY InLog
<1>2. CASE A(r).id \in Live(t)
  <2>1. req'[r] = [req[r] EXCEPT !.pc = pc, !.copy = db[t][A(r).id]]
    BY <1>2, ReadsEffect
  <2> QED
    BY <1>1, <1>2, <2>1 DEF Took, Kept, Request
<1>3. CASE A(r).id \notin Live(t)
  BY <1>3, EndsOf DEF Reads, Outcome
<1> QED
  BY <1>2, <1>3

LEMMA RequiresOf ==
  ASSUME Base, NEW r \in Log, req[r].out = "pending", NEW found, NEW missing \in Outcome \ {"pending"},
         NEW pc \in Pc, Requires(r, found, missing, pc)
  PROVE  \/ found /\ Goes(r, pc)
         \/ ~ found /\ Ends(r, missing)
BY EndsOf, GoesOf DEF Requires

LEMMA WrittenOf ==
  ASSUME Base, NEW r \in Log, NEW pc \in Pc, req[r].out = "pending", req'[r] = Written(req[r], pc)
  PROVE  Goes(r, pc)
<1>1. req[r] \in Request
  BY InLog
<1> QED
  BY <1>1 DEF Goes, Kept, Written, Request

LEMMA UpdatesOf ==
  ASSUME Base, NEW r \in Log, req[r].out = "pending", NEW t, NEW row, NEW pc \in Pc,
         Updates(r, t, row, pc)
  PROVE  Goes(r, pc)
BY WroteTurn, WrittenOf DEF Updates

LEMMA DeletesOf ==
  ASSUME Base, NEW r \in Log, req[r].out = "pending", A(r).op \in Removals, NEW t \in Table,
         NEW pc \in Pc, Deletes(r, t, pc)
  PROVE  \/ /\ A(r).id \in Live(t) /\ Goes(r, pc)
            /\ db' = [db EXCEPT ![t][A(r).id] = Dead(@, r)]
         \/ A(r).id \notin Live(t) /\ db' = db /\ Ends(r, "notfound")
<1>1. CASE A(r).id \in Live(t)
  <2>1. req'[r] = Written(req[r], pc) /\ db' = [db EXCEPT ![t][A(r).id] = Dead(@, r)]
    BY <1>1, DeletesEffect
  <2> QED
    BY <1>1, <2>1, WrittenOf
<1>2. CASE A(r).id \notin Live(t)
  <2>1. Answer(r, "notfound") /\ UNCHANGED db
    BY <1>2 DEF Deletes
  <2> QED
    BY <1>2, <2>1, EndsOf DEF Outcome
<1> QED
  BY <1>1, <1>2

LEMMA TouchOf ==
  ASSUME Base, NEW r \in Log, NEW u, Touch(r, u)
  PROVE  req[r].pc = "touch" /\ req[r].out = "pending" /\ Ends(r, "ok")
BY EndsOf DEF Touch, Outcome
-----------------------------------------------------------------------------
(* What requests hold that look a row up by its id.                        *)

HeldBy(r) ==
  LET t == TableOf(A(r).op)
  IN  /\ req'[r].out = "pending" => Place(A(r).op, req'[r].pc)
      /\ Holds(req'[r]) => A(r).id \in Live(t) \/ Holds(req[r])
      /\ A(r).op \in Rewriters /\ req'[r].out = "pending" /\ req'[r].pc \in {"check", "write"}
         => \/ req[r].pc \in {"check", "write"} /\ req'[r].copy = req[r].copy
            \/ A(r).id \in Live(t) /\ req'[r].copy = db[t][A(r).id]

LEMMA GoesHeld ==
  ASSUME Base, NEW r \in Log, req[r].out = "pending", NEW pc, Goes(r, pc), Place(A(r).op, pc),
         req[r].pc \notin {"start", "read"} \/ pc = "read",
         pc \in {"check", "write"} => req[r].pc \in {"check", "write"}
  PROVE  HeldBy(r)
BY DEF Goes, HeldBy, Holds

LEMMA EndsHeld ==
  ASSUME Base, NEW r \in Log, req[r].out = "pending", NEW out, Ends(r, out), out # "pending",
         out # "ok" \/ req[r].pc \notin {"start", "read"}
  PROVE  HeldBy(r)
BY DEF Ends, HeldBy, Holds

LEMMA TookHeld ==
  ASSUME Base, NEW r \in Log, req[r].out = "pending", NEW t \in Table, NEW pc \in Pc, Reads(r, t, pc),
         t = TableOf(A(r).op), Place(A(r).op, pc)
  PROVE  HeldBy(r)
<1>1. CASE Took(r, t, pc)
  BY <1>1 DEF Took, HeldBy
<1>2. CASE Ends(r, "notfound")
  BY <1>2, EndsHeld
<1> QED
  BY <1>1, <1>2, TookOf

LEMMA RequiresHeld ==
  ASSUME Base, NEW r \in Log, req[r].out = "pending", NEW found, NEW missing \in Outcome \ {"pending", "ok"},
         NEW pc \in Pc, Requires(r, found, missing, pc), Place(A(r).op, pc),
         req[r].pc \notin {"start", "read"} \/ pc = "read",
         pc \in {"check", "write"} => req[r].pc \in {"check", "write"}
  PROVE  HeldBy(r)
<1>1. CASE Goes(r, pc)
  BY <1>1, GoesHeld
<1>2. CASE Ends(r, missing)
  BY <1>2, EndsHeld
<1> QED
  BY <1>1, <1>2, RequiresOf

LEMMA UpdatesHeld ==
  ASSUME Base, NEW r \in Log, req[r].out = "pending", NEW t, NEW row, Updates(r, t, row, "touch"),
         Place(A(r).op, "touch"), req[r].pc \notin {"start", "read"}
  PROVE  HeldBy(r)
BY UpdatesOf, GoesHeld DEF Pc

LEMMA DeletesHeld ==
  ASSUME Base, NEW r \in Log, req[r].out = "pending", A(r).op \in Removals, NEW t \in Table,
         NEW pc \in {"touch", "end"}, Deletes(r, t, pc), Place(A(r).op, pc),
         req[r].pc \notin {"start", "read"}
  PROVE  HeldBy(r)
<1>1. pc \in Pc
  BY DEF Pc
<1>2. CASE Goes(r, pc)
  BY <1>2, GoesHeld
<1>3. CASE Ends(r, "notfound")
  BY <1>3, EndsHeld
<1> QED
  BY <1>1, <1>2, <1>3, DeletesOf

LEMMA TouchHeld ==
  ASSUME Base, NEW r \in Log, NEW u, Touch(r, u)
  PROVE  HeldBy(r)
BY TouchOf, EndsHeld
-----------------------------------------------------------------------------
LEMMA UpdateUserHeld ==
  ASSUME Base, NEW r \in Log, UpdateUser(r)
  PROVE  HeldBy(r)
<1>1. CASE At(r, "UpdateUser", "start") /\ Reads(r, "users", "write")
  BY <1>1, TookHeld DEF At, TableOf, Place, Rewriters, Table, Pc
<1>2. CASE At(r, "UpdateUser", "write") /\ UpdateUserRow(r)
  <2> DEFINE row == [req[r].copy EXCEPT !.key = db["users"][A(r).id].key]
  <2>1. Updates(r, "users", row, "touch")
    BY <1>2 DEF UpdateUserRow
  <2> HIDE DEF row
  <2> QED
    BY <1>2, <2>1, UpdatesHeld DEF At, Place, Rewriters
<1>3. CASE Touch(r, A(r).id)
  BY <1>3, TouchHeld
<1> QED
  BY <1>1, <1>2, <1>3 DEF UpdateUser, GetUserByID

LEMMA UpdateTaskGroupHeld ==
  ASSUME Base, NEW r \in Log, UpdateTaskGroup(r)
  PROVE  HeldBy(r)
<1>1. CASE At(r, "UpdateTaskGroup", "start") /\ Reads(r, "groups", "check")
  BY <1>1, TookHeld DEF At, TableOf, Place, Rewriters, Table, Pc
<1>2. CASE /\ At(r, "UpdateTaskGroup", "check")
           /\ Requires(r, ~ A(r).blank, "validation", "write")
  BY <1>2, RequiresHeld DEF At, Place, Rewriters, Outcome, Pc
<1>3. CASE At(r, "UpdateTaskGroup", "write") /\ UpdateGroupRow(r)
  BY <1>3, UpdatesHeld DEF At, Place, Rewriters, UpdateGroupRow
<1>4. CASE Touch(r, req[r].copy.user)
  BY <1>4, TouchHeld
<1> QED
  BY <1>1, <1>2, <1>3, <1>4 DEF UpdateTaskGroup, GetGroup

LEMMA NoteHeld ==
  ASSUME Base, NEW r \in Log, NEW op \in {"UpdateBacklog", "UpdateTarget"}, NEW t, t = TableOf(op),
         \/ ReadsTitle(r, op, t)
         \/ At(r, op, "write") /\ UpdateNoteRow(r, t)
         \/ Touch(r, req[r].copy.user)
  PROVE  HeldBy(r)
<1>0. t \in Table /\ op \in Rewriters
  BY DEF TableOf, Table, Rewriters
<1>1. CASE At(r, op, "start") /\ Reads(r, t, "check")
  BY <1>0, <1>1, TookHeld DEF At, Place, Pc
<1>2. CASE At(r, op, "check") /\ Requires(r, ~ A(r).blank, "validation", "write")
  BY <1>0, <1>2, RequiresHeld DEF At, Place, Outcome, Pc
<1>3. CASE At(r, op, "write") /\ UpdateNoteRow(r, t)
  <2> DEFINE row == [req[r].copy EXCEPT !.done = @ \/ A(r).done]
  <2>1. Updates(r, t, row, "touch")
    BY <1>3 DEF UpdateNoteRow
  <2> HIDE DEF row
  <2> QED
    BY <1>0, <1>3, <2>1, UpdatesHeld DEF At, Place
<1>4. CASE Touch(r, req[r].copy.user)
  BY <1>4, TouchHeld
<1> QED
  BY <1>1, <1>2, <1>3, <1>4 DEF ReadsTitle

LEMMA UpdateBacklogHeld ==
  ASSUME Base, NEW r \in Log, UpdateBacklog(r)
  PROVE  HeldBy(r)
BY NoteHeld DEF UpdateBacklog, TableOf

LEMMA UpdateTargetHeld ==
  ASSUME Base, NEW r \in Log, UpdateTarget(r)
  PROVE  HeldBy(r)
BY NoteHeld DEF UpdateTarget, TableOf

LEMMA DeleteTaskGroupHeld ==
  ASSUME Base, NEW r \in Log, DeleteTaskGroup(r)
  PROVE  HeldBy(r)
<1>1. CASE At(r, "DeleteTaskGroup", "start") /\ Reads(r, "groups", "bindings")
  BY <1>1, TookHeld DEF At, TableOf, Place, Table, Pc
<1>2. CASE /\ At(r, "DeleteTaskGroup", "bindings")
           /\ Requires(r, BindingsOfGroup(A(r).id) = {}, "conflict", "delete")
  BY <1>2, RequiresHeld DEF At, Place, Outcome, Pc
<1>3. CASE At(r, "DeleteTaskGroup", "delete") /\ DeleteGroupRow(r)
  BY <1>3, DeletesHeld DEF At, Place, DeleteGroupRow, Removals, Table
<1>4. CASE Touch(r, req[r].copy.user)
  BY <1>4, TouchHeld
<1> QED
  BY <1>1, <1>2, <1>3, <1>4 DEF DeleteTaskGroup, GetGroup

LEMMA DeleteBindingHeld ==
  ASSUME Base, NEW r \in Log, DeleteBinding(r)
  PROVE  HeldBy(r)
<1>1. CASE /\ At(r, "DeleteBinding", "start")
           /\ Requires(r, A(r).id \in BindingsOfUser(A(r).user), "notfound", "read")
  BY <1>1, RequiresHeld DEF At, Place, Outcome, Pc
<1>2. CASE At(r, "DeleteBinding", "read") /\ Reads(r, "bindings", "delete")
  BY <1>2, TookHeld DEF At, TableOf, Place, Table, Pc
<1>3. CASE At(r, "DeleteBinding", "delete") /\ SoftDeleteBinding(r)
  BY <1>3, DeletesHeld DEF At, Place, SoftDeleteBinding, Removals, Table
<1>4. CASE Replies(r, "DeleteBinding")
  BY <1>4, EndsOf, EndsHeld DEF Replies, At, Outcome
<1> QED
  BY <1>1, <1>2, <1>3, <1>4 DEF DeleteBinding

LEMMA DeleteBacklogHeld ==
  ASSUME Base, NEW r \in Log, DeleteBacklog(r)
  PROVE  HeldBy(r)
<1>1. CASE At(r, "DeleteBacklog", "start") /\ Reads(r, "backlogs", "delete")
  BY <1>1, TookHeld DEF At, TableOf, Place, Table, Pc
<1>2. CASE At(r, "DeleteBacklog", "delete") /\ DeleteBacklogRow(r)
  BY <1>2, DeletesHeld DEF At, Place, DeleteBacklogRow, Removals, Table
<1>3. CASE Touch(r, req[r].copy.user)
  BY <1>3, TouchHeld
<1> QED
  BY <1>1, <1>2, <1>3 DEF DeleteBacklog

LEMMA DeleteTargetHeld ==
  ASSUME Base, NEW r \in Log, DeleteTarget(r)
  PROVE  HeldBy(r)
<1>1. CASE At(r, "DeleteTarget", "start") /\ Reads(r, "targets", "delete")
  BY <1>1, TookHeld DEF At, TableOf, Place, Table, Pc
<1>2. CASE At(r, "DeleteTarget", "delete") /\ DeleteTargetRow(r)
  BY <1>2, DeletesHeld DEF At, Place, DeleteTargetRow, Removals, Table
<1>3. CASE Touch(r, req[r].copy.user)
  BY <1>3, TouchHeld
<1> QED
  BY <1>1, <1>2, <1>3 DEF DeleteTarget

LEMMA QueueTaskHeld ==
  ASSUME Base, NEW r \in Log, QueueTask(r)
  PROVE  HeldBy(r)
<1>1. CASE At(r, "QueueTask", "start") /\ Reads(r, "tasks", "messenger")
  BY <1>1, TookHeld DEF At, TableOf, Place, Table, Pc
<1>2. CASE /\ At(r, "QueueTask", "messenger")
           /\ Requires(r, HasChat(req[r].copy.chat), "unprocessable", "queue")
  BY <1>2, RequiresHeld DEF At, Place, Outcome, Pc
<1>3. CASE At(r, "QueueTask", "queue") /\ Answer(r, "ok")
  BY <1>3, EndsOf, EndsHeld DEF At, Outcome
<1> QED
  BY <1>1, <1>2, <1>3 DEF QueueTask

LEMMA DeleteUserHeld ==
  ASSUME Base, NEW r \in Log, Honest(req[r]), DeleteUser(r)
  PROVE  HeldBy(r)
<1>1. CASE At(r, "DeleteUser", "start") /\ Reads(r, "users", "tasks")
  BY <1>1, TookHeld DEF At, TableOf, Place, Table, Pc
<1>2. CASE ListsTasks(r)
  <2>1. /\ At(r, "DeleteUser", "tasks") /\ req[r] \in Request
        /\ req'[r] = [req[r] EXCEPT !.pc = "remove", !.ids = GetTasksByUserID(A(r).id)]
    BY <1>2, TasksToRemove, InLog DEF ListsTasks
  <2>2. req'[r].pc = "remove" /\ req'[r].out = "pending"
    BY <2>1 DEF At, Request
  <2> QED
    BY <2>1, <2>2 DEF HeldBy, Holds, At, Place, Rewriters
<1>3. CASE At(r, "DeleteUser", "remove") /\ Go(r, "chats")
  BY <1>3, GoesOf, GoesHeld DEF At, Place, Pc
<1>4. CASE \E t \in req[r].ids : TakesTask(r, t)
  <2>1. At(r, "DeleteUser", "remove") /\ req'[r].pc = "name" /\ req'[r].out = "pending"
    BY <1>4, RemoveTask DEF TakesTask
  <2> QED
    BY <2>1 DEF HeldBy, Holds, At, Place, Rewriters
<1>5. CASE /\ At(r, "DeleteUser", "name")
           /\ Go(r, IF HasMessengerName(req[r].item) THEN "publish" ELSE "remove")
  <2>1. CASE Go(r, "publish")
    BY <1>5, <2>1, GoesOf, GoesHeld DEF At, Place, Pc
  <2>2. CASE Go(r, "remove")
    BY <1>5, <2>2, GoesOf, GoesHeld DEF At, Place, Pc
  <2> QED
    BY <1>5, <2>1, <2>2
<1>6. CASE At(r, "DeleteUser", "publish") /\ Go(r, "remove")
  BY <1>6, GoesOf, GoesHeld DEF At, Place, Pc
<1>7. CASE TakesChats(r)
  <2>1. /\ At(r, "DeleteUser", "chats") /\ req[r] \in Request
        /\ req'[r] = [req[r] EXCEPT !.pc = "delete", !.wrote = TRUE]
    BY <1>7, RemoveChats, InLog DEF TakesChats
  <2>2. req'[r].pc = "delete" /\ req'[r].out = "pending"
    BY <2>1 DEF At, Request
  <2> QED
    BY <2>1, <2>2 DEF HeldBy, Holds, At, Place, Rewriters
<1>8. CASE At(r, "DeleteUser", "delete") /\ Answer(r, "ok")
  BY <1>8, EndsOf, EndsHeld DEF At, Outcome
<1> QED
  BY <1>1, <1>2, <1>3, <1>4, <1>5, <1>6, <1>7, <1>8, DeleteUserSteps
-----------------------------------------------------------------------------
(* Any step of a request.                                                  *)

Writes(op, t) ==
  \/ t = "users"      /\ op \in {"CreateUser", "UpdateUser", "DeleteUser"}
  \/ t = "messengers" /\ op = "CreateMessenger"
  \/ t = "chats"      /\ op \in {"CreateMessengerRelatedUser", "DeleteUser"}
  \/ t = "tasks"      /\ op \in {"CreateTask", "DeleteUser"}
  \/ t = "groups"     /\ op \in {"CreateTaskGroup", "UpdateTaskGroup", "DeleteTaskGroup"}
  \/ t = "bindings"   /\ op \in {"CreateBinding", "DeleteBinding"}
  \/ t = "digests"    /\ op \in DigestOps
  \/ t = "backlogs"   /\ op \in {"CreateBacklog", "CreateBacklogsBatch", "UpdateBacklog",
                                  "DeleteBacklog"}
  \/ t = "targets"    /\ op \in {"CreateTarget", "UpdateTarget", "DeleteTarget"}

TablesOf(op) == {t \in Table : Writes(op, t)}

Moved(r) == Does(r, TablesOf(A(r).op)) /\ (A(r).op \in Keyed => HeldBy(r))

LEMMA MovedBy ==
  ASSUME NEW r, NEW T, Does(r, T), \A t \in T : t \in Table /\ Writes(A(r).op, t),
         A(r).op \in Keyed => HeldBy(r)
  PROVE  Moved(r)
<1>1. T \subseteq TablesOf(A(r).op)
  BY DEF TablesOf
<1> QED
  BY <1>1, DoesOf DEF Moved

LEMMA UserMoved ==
  ASSUME Base, NEW r \in Log, Honest(req[r]), UserStep(r)
  PROVE  Moved(r)
<1>1. CASE CreateUser(r)
  <2>1. Does(r, {"users"}) /\ A(r).op = "CreateUser"
    BY <1>1, CreateUserDoes
  <2> QED
    BY <2>1, MovedBy DEF Writes, Table, Keyed, Rewriters
<1>2. CASE GetUser(r)
  <2>1. Does(r, {}) /\ A(r).op = "GetUser"
    BY <1>2, GetUserDoes
  <2> QED
    BY <2>1, MovedBy DEF Keyed, Rewriters
<1>3. CASE UpdateUser(r)
  <2>1. Does(r, {"users"}) /\ A(r).op = "UpdateUser" /\ HeldBy(r)
    BY <1>3, UpdateUserDoes, UpdateUserHeld
  <2> QED
    BY <2>1, MovedBy DEF Writes, Table
<1>4. CASE DeleteUser(r)
  <2>1. Does(r, {"tasks", "chats", "users"}) /\ A(r).op = "DeleteUser" /\ HeldBy(r)
    BY <1>4, DeleteUserDoes, DeleteUserHeld
  <2> QED
    BY <2>1, MovedBy DEF Writes, Table
<1>5. CASE GetAllUsers(r)
  <2>1. Does(r, {}) /\ A(r).op = "GetAllUsers"
    BY <1>5, GetAllUsersDoes
  <2> QED
    BY <2>1, MovedBy DEF Keyed, Rewriters
<1>6. CASE GetRecentUserActivity(r)
  <2>1. Does(r, {}) /\ A(r).op = "GetRecentUserActivity"
    BY <1>6, GetRecentUserActivityDoes
  <2> QED
    BY <2>1, MovedBy DEF Keyed, Rewriters
<1> QED
  BY <1>1, <1>2, <1>3, <1>4, <1>5, <1>6 DEF UserStep

LEMMA MessengerMoved ==
  ASSUME Base, NEW r \in Log, Honest(req[r]), MessengerStep(r)
  PROVE  Moved(r)
<1>1. CASE CreateMessenger(r)
  <2>1. Does(r, {"messengers"}) /\ A(r).op = "CreateMessenger"
    BY <1>1, CreateMessengerDoes
  <2> QED
    BY <2>1, MovedBy DEF Writes, Table, Keyed, Rewriters
<1>2. CASE GetMessenger(r)
  <2>1. Does(r, {}) /\ A(r).op = "GetMessenger"
    BY <1>2, GetMessengerDoes
  <2> QED
    BY <2>1, MovedBy DEF Keyed, Rewriters
<1>3. CASE GetMessengerIDByName(r)
  <2>1. Does(r, {}) /\ A(r).op = "GetMessengerIDByName"
    BY <1>3, GetMessengerIDByNameDoes
  <2> QED
    BY <2>1, MovedBy DEF Keyed, Rewriters
<1>4. CASE CreateMessengerRelatedUser(r)
  <2>1. Does(r, {"chats"}) /\ A(r).op = "CreateMessengerRelatedUser"
    BY <1>4, CreateMessengerRelatedUserDoes
  <2> QED
    BY <2>1, MovedBy DEF Writes, Table, Keyed, Rewriters
<1>5. CASE GetMessengerRelatedUser(r)
  <2>1. Does(r, {}) /\ A(r).op = "GetMessengerRelatedUser"
    BY <1>5, GetMessengerRelatedUserDoes
  <2> QED
    BY <2>1, MovedBy DEF Keyed, Rewriters
<1>6. CASE GetUserID(r)
  <2>1. Does(r, {}) /\ A(r).op = "GetUserID"
    BY <1>6, GetUserIDDoes
  <2> QED
    BY <2>1, MovedBy DEF Keyed, Rewriters
<1>7. CASE GetAllMessengers(r)
  <2>1. Does(r, {}) /\ A(r).op = "GetAllMessengers"
    BY <1>7, GetAllMessengersDoes
  <2> QED
    BY <2>1, MovedBy DEF Keyed, Rewriters
<1>8. CASE GetAllMessengerRelatedUsers(r)
  <2>1. Does(r, {}) /\ A(r).op = "GetAllMessengerRelatedUsers"
    BY <1>8, GetAllMessengerRelatedUsersDoes
  <2> QED
    BY <2>1, MovedBy DEF Keyed, Rewriters
<1> QED
  BY <1>1, <1>2, <1>3, <1>4, <1>5, <1>6, <1>7, <1>8 DEF MessengerStep

LEMMA GroupMoved ==
  ASSUME Base, NEW r \in Log, Honest(req[r]), GroupStep(r)
  PROVE  Moved(r)
<1>1. CASE CreateTaskGroup(r)
  <2>1. Does(r, {"groups"}) /\ A(r).op = "CreateTaskGroup"
    BY <1>1, CreateTaskGroupDoes
  <2> QED
    BY <2>1, MovedBy DEF Writes, Table, Keyed, Rewriters
<1>2. CASE GetTaskGroupByID(r)
  <2>1. Does(r, {}) /\ A(r).op = "GetTaskGroupByID"
    BY <1>2, GetTaskGroupByIDDoes
  <2> QED
    BY <2>1, MovedBy DEF Keyed, Rewriters
<1>3. CASE GetAllTaskGroups(r)
  <2>1. Does(r, {}) /\ A(r).op = "GetAllTaskGroups"
    BY <1>3, GetAllTaskGroupsDoes
  <2> QED
    BY <2>1, MovedBy DEF Keyed, Rewriters
<1>4. CASE UpdateTaskGroup(r)
  <2>1. Does(r, {"groups"}) /\ A(r).op = "UpdateTaskGroup" /\ HeldBy(r)
    BY <1>4, UpdateTaskGroupDoes, UpdateTaskGroupHeld
  <2> QED
    BY <2>1, MovedBy DEF Writes, Table
<1>5. CASE DeleteTaskGroup(r)
  <2>1. Does(r, {"groups"}) /\ A(r).op = "DeleteTaskGroup" /\ HeldBy(r)
    BY <1>5, DeleteTaskGroupDoes, DeleteTaskGroupHeld
  <2> QED
    BY <2>1, MovedBy DEF Writes, Table
<1>6. CASE CreateBinding(r)
  <2>1. Does(r, {"bindings"}) /\ A(r).op = "CreateBinding"
    BY <1>6, CreateBindingDoes
  <2> QED
    BY <2>1, MovedBy DEF Writes, Table, Keyed, Rewriters
<1>7. CASE ListBindings(r)
  <2>1. Does(r, {}) /\ A(r).op = "ListBindings"
    BY <1>7, ListBindingsDoes
  <2> QED
    BY <2>1, MovedBy DEF Keyed, Rewriters
<1>8. CASE DeleteBinding(r)
  <2>1. Does(r, {"bindings"}) /\ A(r).op = "DeleteBinding" /\ HeldBy(r)
    BY <1>8, DeleteBindingDoes, DeleteBindingHeld
  <2> QED
    BY <2>1, MovedBy DEF Writes, Table
<1> QED
  BY <1>1, <1>2, <1>3, <1>4, <1>5, <1>6, <1>7, <1>8 DEF GroupStep

LEMMA DigestMoved ==
  ASSUME Base, NEW r \in Log, Honest(req[r]), DigestStep(r)
  PROVE  Moved(r)
<1>1. CASE CreateDigestSettings(r)
  <2>1. Does(r, {"digests"}) /\ A(r).op = "CreateDigestSettings"
    BY <1>1, CreateDigestSettingsDoes
  <2> QED
    BY <2>1, MovedBy DEF Writes, Table, DigestOps, Keyed, Rewriters
<1>2. CASE GetDigestSettings(r)
  <2>1. Does(r, {}) /\ A(r).op = "GetDigestSettings"
    BY <1>2, GetDigestSettingsDoes
  <2> QED
    BY <2>1, MovedBy DEF Keyed, Rewriters
<1>3. CASE UpdateDigestSettings(r)
  <2>1. Does(r, {"digests"}) /\ A(r).op = "UpdateDigestSettings"
    BY <1>3, UpdateDigestSettingsDoes
  <2> QED
    BY <2>1, MovedBy DEF Writes, Table, DigestOps, Keyed, Rewriters
<1>4. CASE DeleteDigestSettings(r)
  <2>1. Does(r, {"digests"}) /\ A(r).op = "DeleteDigestSettings"
    BY <1>4, DeleteDigestSettingsDoes
  <2> QED
    BY <2>1, MovedBy DEF Writes, Table, DigestOps, Keyed, Rewriters
<1>5. CASE GetAllDigestSettings(r)
  <2>1. Does(r, {}) /\ A(r).op = "GetAllDigestSettings"
    BY <1>5, GetAllDigestSettingsDoes
  <2> QED
    BY <2>1, MovedBy DEF Keyed, Rewriters
<1>6. CASE GetDigest(r)
  <2>1. Does(r, {}) /\ A(r).op = "GetDigest"
    BY <1>6, GetDigestDoes
  <2> QED
    BY <2>1, MovedBy DEF Keyed, Rewriters
<1> QED
  BY <1>1, <1>2, <1>3, <1>4, <1>5, <1>6 DEF DigestStep

LEMMA NoteMoved ==
  ASSUME Base, NEW r \in Log, Honest(req[r]), NoteStep(r)
  PROVE  Moved(r)
<1>1. CASE CreateBacklog(r)
  <2>1. Does(r, {"backlogs"}) /\ A(r).op = "CreateBacklog"
    BY <1>1, CreateBacklogDoes
  <2> QED
    BY <2>1, MovedBy DEF Writes, Table, Keyed, Rewriters
<1>2. CASE CreateBacklogsBatch(r)
  <2>1. Does(r, {"backlogs"}) /\ A(r).op = "CreateBacklogsBatch"
    BY <1>2, CreateBacklogsBatchDoes
  <2> QED
    BY <2>1, MovedBy DEF Writes, Table, Keyed, Rewriters
<1>3. CASE GetBacklogByID(r)
  <2>1. Does(r, {}) /\ A(r).op = "GetBacklogByID"
    BY <1>3, GetBacklogByIDDoes
  <2> QED
    BY <2>1, MovedBy DEF Keyed, Rewriters
<1>4. CASE GetAllBacklogs(r)
  <2>1. Does(r, {}) /\ A(r).op = "GetAllBacklogs"
    BY <1>4, GetAllBacklogsDoes
  <2> QED
    BY <2>1, MovedBy DEF Keyed, Rewriters
<1>5. CASE UpdateBacklog(r)
  <2>1. Does(r, {"backlogs"}) /\ A(r).op = "UpdateBacklog" /\ HeldBy(r)
    BY <1>5, UpdateBacklogDoes, UpdateBacklogHeld
  <2> QED
    BY <2>1, MovedBy DEF Writes, Table
<1>6. CASE DeleteBacklog(r)
  <2>1. Does(r, {"backlogs"}) /\ A(r).op = "DeleteBacklog" /\ HeldBy(r)
    BY <1>6, DeleteBacklogDoes, DeleteBacklogHeld
  <2> QED
    BY <2>1, MovedBy DEF Writes, Table
<1>7. CASE CreateTarget(r)
  <2>1. Does(r, {"targets"}) /\ A(r).op = "CreateTarget"
    BY <1>7, CreateTargetDoes
  <2> QED
    BY <2>1, MovedBy DEF Writes, Table, Keyed, Rewriters
<1>8. CASE GetTargetByID(r)
  <2>1. Does(r, {}) /\ A(r).op = "GetTargetByID"
    BY <1>8, GetTargetByIDDoes
  <2> QED
    BY <2>1, MovedBy DEF Keyed, Rewriters
<1>9. CASE GetAllTargets(r)
  <2>1. Does(r, {}) /\ A(r).op = "GetAllTargets"
    BY <1>9, GetAllTargetsDoes
  <2> QED
    BY <2>1, MovedBy DEF Keyed, Rewriters
<1>10. CASE UpdateTarget(r)
  <2>1. Does(r, {"targets"}) /\ A(r).op = "UpdateTarget" /\ HeldBy(r)
    BY <1>10, UpdateTargetDoes, UpdateTargetHeld
  <2> QED
    BY <2>1, MovedBy DEF Writes, Table
<1>11. CASE DeleteTarget(r)
  <2>1. Does(r, {"targets"}) /\ A(r).op = "DeleteTarget" /\ HeldBy(r)
    BY <1>11, DeleteTargetDoes, DeleteTargetHeld
  <2> QED
    BY <2>1, MovedBy DEF Writes, Table
<1> QED
  BY <1>1, <1>2, <1>3, <1>4, <1>5, <1>6, <1>7, <1>8, <1>9, <1>10, <1>11 DEF NoteStep

LEMMA StepMoved ==
  ASSUME Base, NEW r \in Log, Honest(req[r]), HeldOK(r), Step(r)
  PROVE  Moved(r)
<1>1. CASE CreateTask(r)
  <2>1. Does(r, {"tasks"}) /\ A(r).op = "CreateTask"
    BY <1>1, CreateTaskDoes
  <2> QED
    BY <2>1, MovedBy DEF Writes, Table, Keyed, Rewriters
<1>2. CASE QueueTask(r)
  <2>1. Does(r, {}) /\ A(r).op = "QueueTask" /\ HeldBy(r)
    <3>1. CASE At(r, "QueueTask", "start") /\ Reads(r, "tasks", "messenger")
      <4>1. /\ "QueueTask" \in MayMiss /\ "tasks" \in Table /\ "messenger" \in Pc
            /\ ~ Late("QueueTask", "start")
        BY DEF MayMiss, Table, Pc, Late
      <4>2. Does(r, {}) /\ A(r).op = "QueueTask"
        BY <3>1, <4>1, ReadsDoes
      <4> QED
        BY <1>2, <4>2, QueueTaskHeld
    <3>2. CASE /\ At(r, "QueueTask", "messenger")
               /\ Requires(r, HasChat(req[r].copy.chat), "unprocessable", "queue")
      <4>1. Does(r, {}) /\ A(r).op = "QueueTask"
        BY <3>2, RequiresDoes DEF Outcome, Pc, Late, May, MayRefuse
      <4> QED
        BY <1>2, <4>1, QueueTaskHeld
    <3>3. CASE /\ At(r, "QueueTask", "queue")
               /\ armed' = armed \cup {A(r).id} /\ Answer(r, "ok")
               /\ UNCHANGED <<db, told, scene, failed>>
      <4>1. A(r).id \in Id
        BY <3>3 DEF HeldOK, Holds, At, Keyed
      <4> QED
        BY <1>2, <3>3, <4>1, QueuesDoes, QueueTaskHeld
    <3> QED
      BY <1>2, <3>1, <3>2, <3>3 DEF QueueTask
  <2> QED
    BY <2>1, MovedBy
<1> QED
  BY <1>1, <1>2, UserMoved, MessengerMoved, GroupMoved, DigestMoved, NoteMoved DEF Step
-----------------------------------------------------------------------------
(* Any failure.                                                            *)

LEMMA FaultDoes ==
  ASSUME Base, NEW r \in Log, Honest(req[r]), req[r].out = "pending",
         NEW q \in Request, q.ask = A(r),
         IF q.out = "pending" THEN q.ended = 0 ELSE q.ended = Len(req) /\ q.pc = "end",
         req' = [req EXCEPT ![r] = q], Honest(q),
         UNCHANGED <<db, armed, told, scene>>, failed < MaxFault, failed' = failed + 1
  PROVE  Does(r, {}) /\ req'[r] = q
<1>1. Turn(r) /\ req'[r] = q
  BY TurnTo
<1> QED
  BY <1>1, FailsEffect DEF Does

LEMMA InternalMoved ==
  ASSUME Base, NEW r \in Log, Honest(req[r]), req[r].out = "pending",
         req' = [req EXCEPT ![r] = [Finish(@, "internal") EXCEPT !.hit = "fault"]],
         UNCHANGED <<db, armed, told, scene>>, failed < MaxFault, failed' = failed + 1
  PROVE  Moved(r)
<1>1. req[r] \in Request
  BY InLog
<1>2. Turn(r) /\ req'[r] = [Finish(req[r], "internal") EXCEPT !.hit = "fault"]
  BY RefusedTurn DEF Outcome
<1>3. Honest(req'[r])
  BY <1>1, <1>2, RefusedHonest
<1>4. Does(r, {})
  BY <1>2, <1>3, FailsEffect DEF Does
<1>5. LET f == Finish(req[r], "internal")
      IN  f \in Request /\ f.out = "internal"
  BY <1>1, FinishFields DEF Outcome
<1>6. req'[r].out = "internal"
  BY <1>2, <1>5 DEF Request
<1>7. HeldBy(r)
  BY <1>6 DEF HeldBy, Holds
<1> QED
  BY <1>4, <1>7, MovedBy

LEMMA TouchFailsMoved ==
  ASSUME Base, NEW r \in Log, Honest(req[r]), TouchFails(r)
  PROVE  Moved(r)
<1>1. /\ req[r].out = "pending" /\ req[r].pc = "touch" /\ Answer(r, "ok") /\ req[r] \in Request
      /\ UNCHANGED <<db, armed, told, scene>> /\ failed < MaxFault /\ failed' = failed + 1
  BY InLog DEF TouchFails, InFlight, Fails
<1>2. Turn(r) /\ req'[r] = Finish(req[r], "ok")
  BY <1>1, AnswerTurn DEF Outcome
<1>3. Honest(Finish(req[r], "ok"))
  BY <1>1, FinishFields, HonestEnd DEF Outcome
<1>4. Does(r, {})
  BY <1>1, <1>2, <1>3, FailsEffect DEF Does
<1>5. HeldBy(r)
  BY <1>1, EndsOf, EndsHeld DEF Outcome
<1> QED
  BY <1>4, <1>5, MovedBy

LEMMA TellFailsMoved ==
  ASSUME Base, NEW r \in Log, Honest(req[r]), HeldOK(r), TellFails(r)
  PROVE  Moved(r)
<1>1. /\ req[r].out = "pending" /\ req[r].pc = "publish" /\ A(r).op # "DeleteUser"
      /\ req[r] \in Request /\ req[r].ended = 0 /\ req[r].ask.op = A(r).op
      /\ UNCHANGED <<db, armed, told, scene>> /\ failed < MaxFault /\ failed' = failed + 1
  BY InLog, OpenFields DEF TellFails, InFlight, A
<1> DEFINE q == [req[r] EXCEPT !.pc = "touch", !.hit = "fault"]
<1>2. req' = [req EXCEPT ![r] = q]
  BY DEF TellFails
<1>3. /\ q \in Request /\ q.ask = req[r].ask /\ q.ask = A(r) /\ q.out = "pending" /\ q.ended = 0
      /\ q.pc = "touch" /\ q.made = req[r].made /\ q.wrote = req[r].wrote
  BY <1>1 DEF Request, A, Pc
<1> HIDE DEF q
<1>4. q.wrote => Late(q.ask.op, q.pc) /\ (req[r].ask.op = "CreateBacklogsBatch" => q.made # {})
  BY <1>1, <1>3 DEF Late, Honest
<1>5. Honest(q)
  BY <1>1, <1>3, <1>4, HonestGo
<1>6. Does(r, {})
  BY <1>1, <1>2, <1>3, <1>5, FaultDoes
<1>7. A(r).op \notin Keyed
  BY <1>1 DEF HeldOK, Place, Keyed
<1> QED
  BY <1>6, <1>7, MovedBy

LEMMA BatchLineFailsMoved ==
  ASSUME Base, NEW r \in Log, Honest(req[r]), BatchLineFails(r)
  PROVE  Moved(r)
<1>1. /\ req[r].out = "pending" /\ req[r].pc = "lines" /\ req[r].ask.op = "CreateBacklogsBatch"
      /\ req[r] \in Request /\ req[r].ended = 0 /\ A(r).op = req[r].ask.op /\ req[r].total > 0
      /\ UNCHANGED <<db, armed, told, scene>> /\ failed < MaxFault /\ failed' = failed + 1
  BY InLog, OpenFields DEF BatchLineFails, At, A
<1> DEFINE n == req[r].total - 1
           q == [req[r] EXCEPT !.total = n, !.hit = "fault"]
<1>2. req' = [req EXCEPT ![r] = q]
  BY DEF BatchLineFails
<1>3. n \in Nat
  BY <1>1 DEF Request
<1> HIDE DEF n
<1>4. /\ q \in Request /\ q.ask = req[r].ask /\ q.ask = A(r) /\ q.out = "pending" /\ q.ended = 0
      /\ q.pc = "lines" /\ q.made = req[r].made /\ q.wrote = req[r].wrote
  BY <1>1, <1>3 DEF Request, A
<1> HIDE DEF q
<1>5. q.wrote => Late(q.ask.op, q.pc) /\ (req[r].ask.op = "CreateBacklogsBatch" => q.made # {})
  BY <1>1, <1>4 DEF Late, Honest
<1>6. Honest(q)
  BY <1>1, <1>4, <1>5, HonestGo
<1>7. Does(r, {})
  BY <1>1, <1>2, <1>4, <1>6, FaultDoes
<1>8. A(r).op \notin Keyed
  BY <1>1 DEF Keyed, Rewriters
<1> QED
  BY <1>7, <1>8, MovedBy

(* The task is skipped, or its messenger is not found.                     *)
LosesTask(r, t) ==
  /\ t \in req[r].ids
  /\ req' = [req EXCEPT ![r].pc = "name", ![r].item = t, ![r].ids = @ \ {t}, ![r].hit = "fault"]

LEMMA DeleteTaskFailsMoved ==
  ASSUME Base, NEW r \in Log, Honest(req[r]), DeleteTaskFails(r)
  PROVE  Moved(r)
<1>1. /\ req[r].out = "pending" /\ req[r].pc \in {"remove", "name"} /\ req[r].ask.op = "DeleteUser"
      /\ req[r] \in Request /\ req[r].ended = 0 /\ A(r).op = req[r].ask.op
      /\ UNCHANGED <<db, armed, told, scene>> /\ failed < MaxFault /\ failed' = failed + 1
  BY InLog, OpenFields DEF DeleteTaskFails, Fails, At, A
<1>2. ASSUME NEW q \in Request, q.ask = req[r].ask, q.out = "pending", q.ended = 0,
             q.pc \in {"remove", "name"}, req' = [req EXCEPT ![r] = q]
      PROVE  Moved(r)
  <2>1. Honest(q)
    BY <1>1, <1>2, HonestGo DEF Late
  <2>2. Does(r, {}) /\ req'[r] = q
    BY <1>1, <1>2, <2>1, FaultDoes DEF A
  <2>3. HeldBy(r)
    BY <1>1, <1>2, <2>2 DEF HeldBy, Holds, Place, Rewriters
  <2> QED
    BY <2>2, <2>3, MovedBy
<1>3. ASSUME NEW t, LosesTask(r, t)
      PROVE  Moved(r)
  <2> DEFINE q == [req[r] EXCEPT !.pc = "name", !.item = t, !.ids = @ \ {t}, !.hit = "fault"]
  <2>1. t \in AnyId
    BY <1>1, <1>3 DEF LosesTask, Request, AnyId
  <2>2. q \in Request /\ q.ask = req[r].ask /\ q.out = "pending" /\ q.ended = 0 /\ q.pc = "name"
    BY <1>1, <2>1 DEF Request, Pc
  <2>3. req' = [req EXCEPT ![r] = q]
    BY <1>3 DEF LosesTask
  <2> HIDE DEF q
  <2> QED
    BY <1>2, <2>2, <2>3
<1>4. CASE req' = [req EXCEPT ![r].pc = "remove", ![r].hit = "fault"]
  <2> DEFINE q == [req[r] EXCEPT !.pc = "remove", !.hit = "fault"]
  <2>1. q \in Request /\ q.ask = req[r].ask /\ q.out = "pending" /\ q.ended = 0 /\ q.pc = "remove"
    BY <1>1 DEF Request, Pc
  <2>2. req' = [req EXCEPT ![r] = q]
    BY <1>4
  <2> HIDE DEF q
  <2> QED
    BY <1>2, <2>1, <2>2
<1> QED
  BY <1>3, <1>4 DEF DeleteTaskFails, LosesTask

LEMMA FaultMoved ==
  ASSUME Base, NEW r \in Log, Honest(req[r]), HeldOK(r), Fault(r)
  PROVE  Moved(r)
<1>1. CASE StatementFails(r)
  BY <1>1, InternalMoved DEF StatementFails, Fails, InFlight
<1>2. CASE DeletePublishFails(r)
  BY <1>2, InternalMoved DEF DeletePublishFails, Fails, At
<1> QED
  BY <1>1, <1>2, TouchFailsMoved, TellFailsMoved, BatchLineFailsMoved, DeleteTaskFailsMoved
  DEF Fault
-----------------------------------------------------------------------------
(* The invariant.                                                          *)

Inv == Base /\ \A r \in Log : Honest(req[r]) /\ HeldOK(r)

(* A step of r leaves the others of the log where they are.                *)
LEMMA LogMoved ==
  ASSUME Base, NEW r \in Log, Turn(r)
  PROVE  /\ req' \in Seq(Request) /\ Len(req') = Len(req) /\ Log' = Log
         /\ \A s \in Log : s # r => req'[s] = req[s]
         /\ \A s \in Log : req'[s].ask = req[s].ask
<1>1. req \in Seq(Request) /\ r \in 1..Len(req) /\ req'[r] \in Request /\ req'[r].ask = req[r].ask
  BY DEF Base, ApiTypeOK, Log, Turn
<1>2. PICK q \in Request : q = req'[r]
  BY <1>1
<1>3. req' = [req EXCEPT ![r] = q]
  BY <1>2 DEF Turn
<1>4. /\ req' \in Seq(Request) /\ Len(req') = Len(req)
      /\ \A s \in 1..Len(req) : req'[s] = IF s = r THEN q ELSE req[s]
  BY <1>1, <1>3, ExceptSeq
<1> QED
  BY <1>1, <1>2, <1>4 DEF Log

(* What no step takes from a row that was there.                           *)
LEMMA RowKept ==
  ASSUME NEW r, NEW t, NEW x \in Row, NEW y \in Row, RowStep(r, t, x, y)
  PROVE  /\ x.st # "none" => y.st # "none" /\ SameRow(t, x, y)
         /\ x.st = "gone" => y = x
         /\ y.key >= x.key \/ x.st = "none"
<1>1. CASE y = x
  BY <1>1 DEF SameRow, Row
<1>2. CASE Seen(t, x, y)
  BY <1>2 DEF Seen, SameRow
<1>3. CASE y = Dead(x, r)
  <2>1. /\ y.st = "gone" /\ y.by = x.by /\ y.user = x.user /\ y.chat = x.chat /\ y.ref = x.ref
        /\ y.key = x.key
    BY <1>3 DEF Dead, Row
  <2>2. CASE x.st = "live"
    BY <2>1, <2>2 DEF SameRow, Row
  <2>3. CASE x.st # "live"
    BY <2>3 DEF RowStep, Seen, SameRow, Row
  <2> QED
    BY <2>2, <2>3
<1>4. CASE y # x /\ ~ Seen(t, x, y) /\ y # Dead(x, r)
  BY <1>4 DEF RowStep
<1> QED
  BY <1>1, <1>2, <1>3, <1>4

(* The rows after a step of r.                                             *)
LEMMA RowsMoved ==
  ASSUME Base, NEW r \in Log, NEW T, Effect(r, T), NEW t \in Table, NEW i \in Id
  PROVE  /\ db[t][i] \in Row /\ db'[t][i] \in Row /\ RowOK(db'[t][i])
         /\ db'[t][i].by \in 0..Len(req) /\ db'[t][i].end \in 0..Len(req)
         /\ db'[t][i].mark \in 0..Len(req)
<1> DEFINE x == db[t][i]
           y == db'[t][i]
<1>1. /\ x \in Row /\ y \in Row /\ RowStep(r, t, x, y) /\ RowOK(x)
      /\ x.by \in 0..Len(req) /\ x.end \in 0..Len(req) /\ x.mark \in 0..Len(req)
  BY DEF Base, ApiTypeOK, Effect
<1>2. r \in 0..Len(req)
  BY InLog
<1> HIDE DEF x, y
<1>3. RowOK(y) /\ y.by \in 0..Len(req) /\ y.end \in 0..Len(req) /\ y.mark \in 0..Len(req)
  <2>1. CASE y = x
    BY <1>1, <2>1
  <2>2. CASE Seen(t, x, y)
    BY <1>1, <2>2 DEF Seen, RowOK
  <2>3. CASE y = Dead(x, r)
    <3>1. y.st = "gone" /\ y.by = x.by /\ y.end = r /\ y.mark = x.mark
      BY <1>1, <2>3 DEF Dead, Row
    <3> QED
      BY <1>1, <1>2, <3>1 DEF RowOK
  <2>4. CASE y.st = "live" /\ y.by = r /\ y.end = 0 /\ y.mark = r
    BY <1>2, <2>4 DEF RowOK
  <2>5. CASE y.st = "live" /\ y.by = x.by /\ y.end = 0 /\ y.mark = r
    BY <1>1, <1>2, <2>5 DEF RowOK
  <2> QED
    BY <1>1, <2>1, <2>2, <2>3, <2>4, <2>5 DEF RowStep, SameRow
<1> QED
  BY <1>1, <1>3 DEF x, y

LEMMA TableOfKeyed ==
  ASSUME NEW op \in Keyed
  PROVE  TableOf(op) \in Table
BY DEF Keyed, Rewriters, TableOf, Table

(* The copy of a request that did not move is still a copy of its row.     *)
LEMMA CopyKept ==
  ASSUME Base, NEW r \in Log, NEW T, Effect(r, T), NEW t \in Table, NEW i \in Id,
         db[t][i].st # "none", NEW copy, SameRow(t, db[t][i], copy)
  PROVE  db'[t][i].st # "none" /\ SameRow(t, db'[t][i], copy)
<1>1. db[t][i] \in Row /\ db'[t][i] \in Row /\ RowStep(r, t, db[t][i], db'[t][i])
  BY RowsMoved DEF Effect
<1>2. db'[t][i].st # "none" /\ SameRow(t, db[t][i], db'[t][i])
  BY <1>1, RowKept
<1> QED
  BY <1>2 DEF SameRow

LEMMA OwnMoved ==
  ASSUME Base, NEW r \in Log, HeldOK(r), Moved(r)
  PROVE  EndOK(r)' /\ CopyOK(r)' /\ Honest(req'[r]) /\ HeldOK(r)'
<1> DEFINE op == A(r).op
           T == TablesOf(op)
           t == TableOf(op)
           i == A(r).id
<1>1. Effect(r, T) /\ Honest(req'[r]) /\ (op \in Keyed => HeldBy(r))
  BY DEF Moved, Does
<1>2. /\ Turn(r) /\ r \in Nat \ {0} /\ Len(req) \in Nat /\ r <= Len(req) /\ Len(req') = Len(req)
      /\ A(r)' = A(r) /\ req[r].out = "pending"
  BY <1>1, InLog, LogMoved DEF Effect, A
<1>3. EndOK(r)'
  BY <1>2 DEF EndOK, Turn
<1>4. op \in Rewriters => op \in Keyed
  BY DEF Keyed
<1>5. op \in Keyed => t \in Table
  BY TableOfKeyed
<1>6. op \in Keyed /\ i \in Id /\ db[t][i].st # "none" => db'[t][i].st # "none"
  BY <1>1, <1>5, CopyKept, RowsMoved DEF SameRow
<1>7. ASSUME op \in Keyed, Holds(req'[r])
      PROVE  i \in Id /\ db[t][i].st # "none"
  <2>1. CASE i \in Live(t)
    BY <2>1 DEF Live
  <2>2. CASE Holds(req[r])
    BY <1>7, <2>2 DEF HeldOK
  <2> QED
    BY <1>1, <1>7, <2>1, <2>2 DEF HeldBy
<1>8. HeldOK(r)'
  BY <1>1, <1>2, <1>6, <1>7 DEF HeldOK, HeldBy
<1>9. CopyOK(r)'
  <2> SUFFICES ASSUME op \in Rewriters, req'[r].out = "pending", req'[r].pc \in {"check", "write"}
               PROVE  /\ i \in Id /\ req'[r].copy.st = "live" /\ req'[r].copy.end = 0
                      /\ db'[t][i].st # "none" /\ SameRow(t, db'[t][i], req'[r].copy)
    BY <1>2 DEF CopyOK
  <2>1. CASE req[r].pc \in {"check", "write"} /\ req'[r].copy = req[r].copy
    <3>1. /\ i \in Id /\ req[r].copy.st = "live" /\ req[r].copy.end = 0
          /\ db[t][i].st # "none" /\ SameRow(t, db[t][i], req[r].copy)
      BY <1>2, <2>1 DEF Base, CopyOK
    <3> QED
      BY <1>1, <1>4, <1>5, <2>1, <3>1, CopyKept
  <2>2. CASE i \in Live(t) /\ req'[r].copy = db[t][i]
    <3>1. i \in Id /\ db[t][i].st = "live" /\ db[t][i].end = 0
      BY <1>4, <1>5, <2>2 DEF Live, Base, RowOK
    <3>2. SameRow(t, db[t][i], db[t][i])
      BY DEF SameRow
    <3> QED
      BY <1>1, <1>4, <1>5, <2>2, <3>1, <3>2, CopyKept
  <2> QED
    BY <1>1, <1>4, <2>1, <2>2 DEF HeldBy
<1> QED
  BY <1>1, <1>3, <1>8, <1>9

LEMMA OtherMoved ==
  ASSUME Base, NEW r \in Log, NEW T, Effect(r, T), NEW s \in Log, s # r, Honest(req[s]), HeldOK(s)
  PROVE  EndOK(s)' /\ CopyOK(s)' /\ Honest(req'[s]) /\ HeldOK(s)'
<1> DEFINE op == A(s).op
           t == TableOf(op)
           i == A(s).id
<1>1. req'[s] = req[s] /\ A(s)' = A(s) /\ Len(req') = Len(req)
  BY LogMoved DEF Effect, A
<1>2. EndOK(s)'
  BY <1>1 DEF EndOK, Base
<1>3. op \in Keyed => t \in Table
  BY TableOfKeyed
<1>4. op \in Keyed /\ i \in Id /\ db[t][i].st # "none" => db'[t][i].st # "none"
  BY <1>3, CopyKept, RowsMoved DEF SameRow
<1>5. HeldOK(s)'
  BY <1>1, <1>4 DEF HeldOK
<1>6. CopyOK(s)'
  <2> SUFFICES ASSUME op \in Rewriters, req[s].out = "pending", req[s].pc \in {"check", "write"}
               PROVE  /\ i \in Id /\ req[s].copy.st = "live" /\ req[s].copy.end = 0
                      /\ db'[t][i].st # "none" /\ SameRow(t, db'[t][i], req[s].copy)
    BY <1>1 DEF CopyOK
  <2>1. /\ i \in Id /\ req[s].copy.st = "live" /\ req[s].copy.end = 0
        /\ db[t][i].st # "none" /\ SameRow(t, db[t][i], req[s].copy)
    BY DEF Base, CopyOK
  <2>2. t \in Table
    BY <1>3 DEF Keyed
  <2> QED
    BY <2>1, <2>2, CopyKept
<1> QED
  BY <1>1, <1>2, <1>5, <1>6

LEMMA MovedInv ==
  ASSUME Inv, NEW r \in Log, Moved(r)
  PROVE  Inv'
<1>1. PICK T : T = TablesOf(A(r).op)
  OBVIOUS
<1>2. Base /\ Honest(req[r]) /\ HeldOK(r) /\ Effect(r, T) /\ Turn(r)
  BY <1>1 DEF Inv, Moved, Does, Effect
<1>3. /\ req' \in Seq(Request) /\ Len(req') = Len(req) /\ Log' = Log
  BY <1>2, LogMoved
<1>4. ApiTypeOK'
  BY <1>2, <1>3 DEF ApiTypeOK, Base, Effect, Around
<1>5. \A t \in Table, i \in Id : /\ RowOK(db'[t][i])
                                 /\ db'[t][i].by \in 0..Len(req) /\ db'[t][i].end \in 0..Len(req)
                                 /\ db'[t][i].mark \in 0..Len(req)
  BY <1>2, RowsMoved
<1>6. \A s \in Log : EndOK(s)' /\ CopyOK(s)' /\ Honest(req'[s]) /\ HeldOK(s)'
  <2>1. EndOK(r)' /\ CopyOK(r)' /\ Honest(req'[r]) /\ HeldOK(r)'
    BY <1>2, OwnMoved
  <2>2. ASSUME NEW s \in Log, s # r
        PROVE  EndOK(s)' /\ CopyOK(s)' /\ Honest(req'[s]) /\ HeldOK(s)'
    <3>1. Honest(req[s]) /\ HeldOK(s)
      BY DEF Inv
    <3> QED
      BY <1>2, <2>2, <3>1, OtherMoved
  <2> QED
    BY <2>1, <2>2
<1> QED
  BY <1>3, <1>4, <1>5, <1>6 DEF Inv, Base
-----------------------------------------------------------------------------
LEMMA SceneTypes ==
  ASSUME NEW i \in DOMAIN Scenario
  PROVE  Scenario[i] \in ScenarioType /\ Scenario[i].width > 0 /\ Fresh(Scenario[i].start)
<1>1. Scenario \in Seq(ScenarioType)
  BY ApiAssumption
<1>2. i \in 1..Len(Scenario)
  BY <1>1, LenProperties
<1> QED
  BY <1>1, <1>2, ElementOfSeq, ApiAssumption

LEMMA ArriveLog ==
  ASSUME Base, NEW a \in Sc.asks, Arrive(a)
  PROVE  /\ a \in Ask /\ req' \in Seq(Request) /\ Len(req') = Len(req) + 1 /\ Len(req) \in Nat
         /\ \A s \in Log : req'[s] = req[s]
         /\ LET n == Len(req) + 1
            IN  /\ req'[n].ask = a /\ req'[n].made = {} /\ ~ req'[n].wrote /\ req'[n].hit = "no"
                /\ IF a.bad THEN req'[n].out = "validation" /\ req'[n].ended = n /\ req'[n].pc = "end"
                   ELSE req'[n].out = "pending" /\ req'[n].ended = 0 /\ req'[n].pc = "start"
<1>1. a \in Ask
  BY SceneTypes DEF Sc, Base, ApiTypeOK, ScenarioType
<1>2. req \in Seq(Request) /\ Len(req) \in Nat
  BY LenProperties DEF Base, ApiTypeOK
<1>0. PICK n \in Nat : n = Len(req) + 1
  BY <1>2
<1> DEFINE q == NewRequest(a)
           f == Finish(q, "validation")
           b == [f EXCEPT !.ended = n]
           e == IF a.bad THEN b ELSE q
<1>3. NoRow \in Row /\ "start" \in Pc /\ 0 \in AnyId /\ {} \in SUBSET Id /\ NoId = 0
      /\ {} \in SUBSET AnyId
  BY DEF NoRow, Row, Pc, AnyId, NoId
<1>4. /\ q \in Request /\ q.ask = a /\ q.made = {} /\ ~ q.wrote /\ q.hit = "no"
      /\ q.out = "pending" /\ q.ended = 0 /\ q.pc = "start"
  BY <1>1, <1>3 DEF NewRequest, Request, Outcome, NoId
<1> HIDE DEF q
<1>5. /\ f \in Request /\ f.ask = a /\ f.made = {} /\ ~ f.wrote /\ f.hit = "no"
      /\ f.out = "validation" /\ f.pc = "end"
  BY <1>4, FinishFields DEF Outcome
<1> HIDE DEF f
<1>6. /\ b \in Request /\ b.ask = a /\ b.made = {} /\ ~ b.wrote /\ b.hit = "no"
      /\ b.out = "validation" /\ b.ended = n /\ b.pc = "end"
  BY <1>5 DEF Request
<1>7. req' = Append(req, e)
  BY <1>0 DEF Arrive, f, q
<1> HIDE DEF b
<1>8. e \in Request
  BY <1>4, <1>6
<1> HIDE DEF e
<1>9. /\ req' \in Seq(Request) /\ Len(req') = n /\ req'[n] = e
      /\ \A s \in 1..Len(req) : req'[s] = req[s]
  BY <1>0, <1>2, <1>7, <1>8, AppendProperties
<1> QED
  BY <1>0, <1>1, <1>2, <1>4, <1>6, <1>9 DEF e, Log

LEMMA ArriveInv ==
  ASSUME Inv, NEW a \in Sc.asks, Arrive(a)
  PROVE  Inv'
<1>1. Base
  BY DEF Inv
<1>0. PICK n : n = Len(req) + 1
  OBVIOUS
<1>2. /\ a \in Ask /\ req' \in Seq(Request) /\ Len(req') = n /\ Len(req) \in Nat
      /\ \A s \in Log : req'[s] = req[s]
      /\ req'[n].ask = a /\ req'[n].made = {} /\ ~ req'[n].wrote /\ req'[n].hit = "no"
      /\ IF a.bad THEN req'[n].out = "validation" /\ req'[n].ended = n /\ req'[n].pc = "end"
         ELSE req'[n].out = "pending" /\ req'[n].ended = 0 /\ req'[n].pc = "start"
  BY <1>0, <1>1, ArriveLog
<1>3. UNCHANGED db /\ armed' = armed /\ told' = told /\ scene' = scene /\ failed' = failed
  BY DEF Arrive
<1>4. ApiTypeOK'
  BY <1>1, <1>2, <1>3 DEF Base, ApiTypeOK
<1>5. Log' = Log \cup {n} /\ n \notin Log
  BY <1>0, <1>2 DEF Log
<1>6. \A t \in Table, i \in Id : /\ RowOK(db[t][i])
                                 /\ db[t][i].by \in 0..n /\ db[t][i].end \in 0..n
                                 /\ db[t][i].mark \in 0..n
  BY <1>0, <1>1, <1>2 DEF Base
<1>7. ASSUME NEW s \in Log
      PROVE  EndOK(s)' /\ CopyOK(s)' /\ Honest(req'[s]) /\ HeldOK(s)'
  <2>1. EndOK(s) /\ CopyOK(s) /\ Honest(req[s]) /\ HeldOK(s) /\ req'[s] = req[s]
    BY <1>2 DEF Inv, Base
  <2>2. s \in 1..Len(req)
    BY DEF Log
  <2> QED
    BY <1>0, <1>2, <1>3, <2>1, <2>2 DEF EndOK, CopyOK, HeldOK, A
<1>8. EndOK(n)' /\ CopyOK(n)' /\ Honest(req'[n]) /\ HeldOK(n)'
  <2>1. EndOK(n)'
    BY <1>2 DEF EndOK
  <2>2. CopyOK(n)'
    BY <1>2 DEF CopyOK
  <2>3. HeldOK(n)'
    BY <1>2 DEF HeldOK, Holds, Place
  <2>4. Honest(req'[n])
    BY <1>2 DEF Honest
  <2> QED
    BY <2>1, <2>2, <2>3, <2>4
<1> QED
  BY <1>2, <1>3, <1>4, <1>5, <1>6, <1>7, <1>8 DEF Inv, Base

LEMMA InitInv ==
  ASSUME Init
  PROVE  Inv
<1>1. scene \in DOMAIN Scenario /\ db = Scenario[scene].start /\ req = <<>> /\ failed = 0
  BY DEF Init
<1>2. db \in [Table -> [Id -> Row]] /\ Fresh(db)
  BY <1>1, SceneTypes DEF ScenarioType
<1>3. req \in Seq(Request) /\ Len(req) = 0 /\ Log = {}
  BY <1>1 DEF Log
<1>4. armed \subseteq Id /\ told \in [Id \X AnyId -> Nat \cup {NotTold}] /\ failed \in 0..MaxFault
  BY ApiAssumption DEF Init, Live
<1>5. ApiTypeOK
  BY <1>1, <1>2, <1>3, <1>4 DEF ApiTypeOK
<1>6. \A t \in Table, i \in Id : /\ RowOK(db[t][i])
                                 /\ db[t][i].by \in 0..Len(req) /\ db[t][i].end \in 0..Len(req)
                                 /\ db[t][i].mark \in 0..Len(req)
  BY <1>2, <1>3 DEF Fresh, RowOK
<1> QED
  BY <1>3, <1>5, <1>6 DEF Inv, Base

LEMMA StutterInv ==
  ASSUME Inv, UNCHANGED vars
  PROVE  Inv'
<1>1. db' = db /\ armed' = armed /\ told' = told /\ req' = req /\ scene' = scene /\ failed' = failed
  BY DEF vars
<1>2. Log' = Log
  BY <1>1 DEF Log
<1>3. \A s \in Log : (EndOK(s)' <=> EndOK(s)) /\ (CopyOK(s)' <=> CopyOK(s)) /\ (HeldOK(s)' <=> HeldOK(s))
  BY <1>1 DEF EndOK, CopyOK, HeldOK, A
<1>4. ApiTypeOK' <=> ApiTypeOK
  BY <1>1 DEF ApiTypeOK
<1> QED
  BY <1>1, <1>2, <1>3, <1>4 DEF Inv, Base

(* Every step is a request that arrives, or one that moves.                *)
LEMMA NextMoved ==
  ASSUME Inv, Next
  PROVE  \/ \E a \in Sc.asks : Arrive(a)
         \/ \E r \in Log : Moved(r)
<1>1. ASSUME NEW r \in Log, Step(r) \/ Fault(r)
      PROVE  Moved(r)
  BY <1>1, StepMoved, FaultMoved DEF Inv
<1> QED
  BY <1>1 DEF Next

LEMMA InvStep ==
  ASSUME Inv, [Next]_vars
  PROVE  Inv'
BY NextMoved, MovedInv, ArriveInv, StutterInv

LEMMA InvCorrect == Spec => []Inv
<1>1. Init => Inv
  BY InitInv
<1>2. Inv /\ [Next]_vars => Inv'
  BY InvStep
<1> QED
  BY <1>1, <1>2, PTL DEF Spec

(* The tables, the worker and every request of the log keep their types,   *)
(* however many requests there are and whatever fails.                     *)
THEOREM ApiTypeCorrect == Spec => []ApiTypeOK
<1>1. Inv => ApiTypeOK
  BY DEF Inv, Base
<1> QED
  BY <1>1, InvCorrect, PTL
-----------------------------------------------------------------------------
(* What the statuses say.                                                  *)

Told(op, out, status) ==
  /\ out = "ok" => status \in {200, 201, 204}
  /\ out = "internal" => status = 500
  /\ May(op, out) => status \in {400, 404, 409, 422}

LEMMA StatusTold ==
  ASSUME NEW op, NEW success \in {200, 201, 204}, NEW known, NEW out,
         "internal" \notin known, \A o : May(op, o) => o \in known
  PROVE  Told(op, out, Status(success, known, out))
BY DEF Told, Status, Code, May

LEMMA HandlerTold ==
  ASSUME NEW op \in Op, NEW out
  PROVE  Told(op, out, Handler(op, out))
<1>1. CASE op = "CreateUser"
  <2>1. Handler(op, out) = CreateUserHandler(out)
    BY <1>1 DEF Handler
  <2> QED
    BY <1>1, <2>1, StatusTold DEF CreateUserHandler, May, MayMiss, MayClash, MayReject, MayRefuse
<1>2. CASE op = "GetUser"
  <2>1. Handler(op, out) = GetUserHandler(out)
    BY <1>2 DEF Handler
  <2> QED
    BY <1>2, <2>1, StatusTold DEF GetUserHandler, May, MayMiss, MayClash, MayReject, MayRefuse
<1>3. CASE op = "UpdateUser"
  <2>1. Handler(op, out) = UpdateUserHandler(out)
    BY <1>3 DEF Handler
  <2> QED
    BY <1>3, <2>1, StatusTold DEF UpdateUserHandler, May, MayMiss, MayClash, MayReject, MayRefuse
<1>4. CASE op = "DeleteUser"
  <2>1. Handler(op, out) = DeleteUserHandler(out)
    BY <1>4 DEF Handler
  <2> QED
    BY <1>4, <2>1, StatusTold DEF DeleteUserHandler, May, MayMiss, MayClash, MayReject, MayRefuse
<1>5. CASE op = "GetAllUsers"
  <2>1. Handler(op, out) = GetAllUsersHandler(out)
    BY <1>5 DEF Handler
  <2> QED
    BY <1>5, <2>1, StatusTold DEF GetAllUsersHandler, May, MayMiss, MayClash, MayReject, MayRefuse
<1>6. CASE op = "GetRecentUserActivity"
  <2>1. Handler(op, out) = GetRecentUserActivityHandler(out)
    BY <1>6 DEF Handler
  <2> QED
    BY <1>6, <2>1, StatusTold DEF GetRecentUserActivityHandler, May, MayMiss, MayClash, MayReject, MayRefuse
<1>7. CASE op = "CreateMessenger"
  <2>1. Handler(op, out) = CreateMessengerHandler(out)
    BY <1>7 DEF Handler
  <2> QED
    BY <1>7, <2>1, StatusTold DEF CreateMessengerHandler, May, MayMiss, MayClash, MayReject, MayRefuse
<1>8. CASE op = "GetMessenger"
  <2>1. Handler(op, out) = GetMessengerHandler(out)
    BY <1>8 DEF Handler
  <2> QED
    BY <1>8, <2>1, StatusTold DEF GetMessengerHandler, May, MayMiss, MayClash, MayReject, MayRefuse
<1>9. CASE op = "GetMessengerIDByName"
  <2>1. Handler(op, out) = GetMessengerIDByNameHandler(out)
    BY <1>9 DEF Handler
  <2> QED
    BY <1>9, <2>1, StatusTold DEF GetMessengerIDByNameHandler, May, MayMiss, MayClash, MayReject, MayRefuse
<1>10. CASE op = "CreateMessengerRelatedUser"
  <2>1. Handler(op, out) = CreateMessengerRelatedUserHandler(out)
    BY <1>10 DEF Handler
  <2> QED
    BY <1>10, <2>1, StatusTold DEF CreateMessengerRelatedUserHandler, May, MayMiss, MayClash, MayReject, MayRefuse
<1>11. CASE op = "GetMessengerRelatedUser"
  <2>1. Handler(op, out) = GetMessengerRelatedUserHandler(out)
    BY <1>11 DEF Handler
  <2> QED
    BY <1>11, <2>1, StatusTold DEF GetMessengerRelatedUserHandler, May, MayMiss, MayClash, MayReject, MayRefuse
<1>12. CASE op = "GetUserID"
  <2>1. Handler(op, out) = GetUserIDHandler(out)
    BY <1>12 DEF Handler
  <2> QED
    BY <1>12, <2>1, StatusTold DEF GetUserIDHandler, May, MayMiss, MayClash, MayReject, MayRefuse
<1>13. CASE op = "GetAllMessengers"
  <2>1. Handler(op, out) = GetAllMessengersHandler(out)
    BY <1>13 DEF Handler
  <2> QED
    BY <1>13, <2>1, StatusTold DEF GetAllMessengersHandler, May, MayMiss, MayClash, MayReject, MayRefuse
<1>14. CASE op = "GetAllMessengerRelatedUsers"
  <2>1. Handler(op, out) = GetAllMessengerRelatedUsersHandler(out)
    BY <1>14 DEF Handler
  <2> QED
    BY <1>14, <2>1, StatusTold DEF GetAllMessengerRelatedUsersHandler, May, MayMiss, MayClash, MayReject, MayRefuse
<1>15. CASE op = "CreateTaskGroup"
  <2>1. Handler(op, out) = CreateTaskGroupHandler(out)
    BY <1>15 DEF Handler
  <2> QED
    BY <1>15, <2>1, StatusTold DEF CreateTaskGroupHandler, May, MayMiss, MayClash, MayReject, MayRefuse
<1>16. CASE op = "GetTaskGroupByID"
  <2>1. Handler(op, out) = GetTaskGroupHandler(out)
    BY <1>16 DEF Handler
  <2> QED
    BY <1>16, <2>1, StatusTold DEF GetTaskGroupHandler, May, MayMiss, MayClash, MayReject, MayRefuse
<1>17. CASE op = "GetAllTaskGroups"
  <2>1. Handler(op, out) = GetAllTaskGroupsHandler(out)
    BY <1>17 DEF Handler
  <2> QED
    BY <1>17, <2>1, StatusTold DEF GetAllTaskGroupsHandler, May, MayMiss, MayClash, MayReject, MayRefuse
<1>18. CASE op = "UpdateTaskGroup"
  <2>1. Handler(op, out) = UpdateTaskGroupHandler(out)
    BY <1>18 DEF Handler
  <2> QED
    BY <1>18, <2>1, StatusTold DEF UpdateTaskGroupHandler, May, MayMiss, MayClash, MayReject, MayRefuse
<1>19. CASE op = "DeleteTaskGroup"
  <2>1. Handler(op, out) = DeleteTaskGroupHandler(out)
    BY <1>19 DEF Handler
  <2> QED
    BY <1>19, <2>1, StatusTold DEF DeleteTaskGroupHandler, May, MayMiss, MayClash, MayReject, MayRefuse
<1>20. CASE op = "CreateBinding"
  <2>1. Handler(op, out) = BindingHandler(201, out)
    BY <1>20 DEF Handler
  <2> QED
    BY <1>20, <2>1, StatusTold DEF BindingHandler, May, MayMiss, MayClash, MayReject, MayRefuse
<1>21. CASE op = "ListBindings"
  <2>1. Handler(op, out) = BindingHandler(200, out)
    BY <1>21 DEF Handler
  <2> QED
    BY <1>21, <2>1, StatusTold DEF BindingHandler, May, MayMiss, MayClash, MayReject, MayRefuse
<1>22. CASE op = "DeleteBinding"
  <2>1. Handler(op, out) = BindingHandler(204, out)
    BY <1>22 DEF Handler
  <2> QED
    BY <1>22, <2>1, StatusTold DEF BindingHandler, May, MayMiss, MayClash, MayReject, MayRefuse
<1>23. CASE op = "CreateDigestSettings"
  <2>1. Handler(op, out) = CreateDigestSettingsHandler(out)
    BY <1>23 DEF Handler
  <2> QED
    BY <1>23, <2>1, StatusTold DEF CreateDigestSettingsHandler, May, MayMiss, MayClash, MayReject, MayRefuse
<1>24. CASE op = "GetDigestSettings"
  <2>1. Handler(op, out) = GetDigestSettingsHandler(out)
    BY <1>24 DEF Handler
  <2> QED
    BY <1>24, <2>1, StatusTold DEF GetDigestSettingsHandler, May, MayMiss, MayClash, MayReject, MayRefuse
<1>25. CASE op = "UpdateDigestSettings"
  <2>1. Handler(op, out) = UpdateDigestSettingsHandler(out)
    BY <1>25 DEF Handler
  <2> QED
    BY <1>25, <2>1, StatusTold DEF UpdateDigestSettingsHandler, May, MayMiss, MayClash, MayReject, MayRefuse
<1>26. CASE op = "DeleteDigestSettings"
  <2>1. Handler(op, out) = DeleteDigestSettingsHandler(out)
    BY <1>26 DEF Handler
  <2> QED
    BY <1>26, <2>1, StatusTold DEF DeleteDigestSettingsHandler, May, MayMiss, MayClash, MayReject, MayRefuse
<1>27. CASE op = "GetAllDigestSettings"
  <2>1. Handler(op, out) = GetAllDigestSettingsHandler(out)
    BY <1>27 DEF Handler
  <2> QED
    BY <1>27, <2>1, StatusTold, SMTT(30)
       DEF GetAllDigestSettingsHandler, May, MayMiss, MayClash, MayReject, MayRefuse
<1>28. CASE op = "GetDigest"
  <2>1. Handler(op, out) = GetDigestHandler(out)
    BY <1>28 DEF Handler
  <2> QED
    BY <1>28, <2>1, StatusTold DEF GetDigestHandler, May, MayMiss, MayClash, MayReject, MayRefuse
<1>29. CASE op = "CreateBacklog"
  <2>1. Handler(op, out) = CreateBacklogHandler(out)
    BY <1>29 DEF Handler
  <2> QED
    BY <1>29, <2>1, StatusTold DEF CreateBacklogHandler, May, MayMiss, MayClash, MayReject, MayRefuse
<1>30. CASE op = "CreateBacklogsBatch"
  <2>1. Handler(op, out) = CreateBacklogsBatchHandler(out)
    BY <1>30 DEF Handler
  <2> QED
    BY <1>30, <2>1, StatusTold, SMTT(30)
       DEF CreateBacklogsBatchHandler, May, MayMiss, MayClash, MayReject, MayRefuse
<1>31. CASE op = "GetBacklogByID"
  <2>1. Handler(op, out) = GetBacklogHandler(out)
    BY <1>31 DEF Handler
  <2> QED
    BY <1>31, <2>1, StatusTold DEF GetBacklogHandler, May, MayMiss, MayClash, MayReject, MayRefuse
<1>32. CASE op = "GetAllBacklogs"
  <2>1. Handler(op, out) = GetAllBacklogsHandler(out)
    BY <1>32 DEF Handler
  <2> QED
    BY <1>32, <2>1, StatusTold DEF GetAllBacklogsHandler, May, MayMiss, MayClash, MayReject, MayRefuse
<1>33. CASE op = "UpdateBacklog"
  <2>1. Handler(op, out) = UpdateBacklogHandler(out)
    BY <1>33 DEF Handler
  <2> QED
    BY <1>33, <2>1, StatusTold DEF UpdateBacklogHandler, May, MayMiss, MayClash, MayReject, MayRefuse
<1>34. CASE op = "DeleteBacklog"
  <2>1. Handler(op, out) = DeleteBacklogHandler(out)
    BY <1>34 DEF Handler
  <2> QED
    BY <1>34, <2>1, StatusTold DEF DeleteBacklogHandler, May, MayMiss, MayClash, MayReject, MayRefuse
<1>35. CASE op = "CreateTarget"
  <2>1. Handler(op, out) = CreateTargetHandler(out)
    BY <1>35 DEF Handler
  <2> QED
    BY <1>35, <2>1, StatusTold DEF CreateTargetHandler, May, MayMiss, MayClash, MayReject, MayRefuse
<1>36. CASE op = "GetTargetByID"
  <2>1. Handler(op, out) = GetTargetHandler(out)
    BY <1>36 DEF Handler
  <2> QED
    BY <1>36, <2>1, StatusTold DEF GetTargetHandler, May, MayMiss, MayClash, MayReject, MayRefuse
<1>37. CASE op = "GetAllTargets"
  <2>1. Handler(op, out) = GetAllTargetsHandler(out)
    BY <1>37 DEF Handler
  <2> QED
    BY <1>37, <2>1, StatusTold DEF GetAllTargetsHandler, May, MayMiss, MayClash, MayReject, MayRefuse
<1>38. CASE op = "UpdateTarget"
  <2>1. Handler(op, out) = UpdateTargetHandler(out)
    BY <1>38 DEF Handler
  <2> QED
    BY <1>38, <2>1, StatusTold DEF UpdateTargetHandler, May, MayMiss, MayClash, MayReject, MayRefuse
<1>39. CASE op = "DeleteTarget"
  <2>1. Handler(op, out) = DeleteTargetHandler(out)
    BY <1>39 DEF Handler
  <2> QED
    BY <1>39, <2>1, StatusTold DEF DeleteTargetHandler, May, MayMiss, MayClash, MayReject, MayRefuse
<1>40. CASE op \in {"CreateTask", "QueueTask"}
  <2>1. Handler(op, out) = Status(200, {"validation", "notfound", "unprocessable"}, out)
    BY <1>40 DEF Handler
  <2> QED
    BY <1>40, <2>1, StatusTold DEF May, MayMiss, MayClash, MayReject, MayRefuse
<1> QED
  BY <1>1, <1>2, <1>3, <1>4, <1>5, <1>6, <1>7, <1>8, <1>9, <1>10, <1>11, <1>12, <1>13, <1>14, <1>15, <1>16, <1>17, <1>18, <1>19, <1>20, <1>21, <1>22, <1>23, <1>24, <1>25, <1>26, <1>27, <1>28, <1>29, <1>30, <1>31, <1>32, <1>33, <1>34, <1>35, <1>36, <1>37, <1>38, <1>39, <1>40
  DEF Op, Creations, Changes, Removals, Views, Lists

(* An answer that blames the client comes from a request that has written  *)
(* nothing, and an answer 500 has a cause.                                 *)
THEOREM StatusIsHonestCorrect == Spec => []StatusIsHonest
<1>1. ASSUME Inv, NEW r \in Log \ InFlight
      PROVE  /\ StatusOf(r) \in 400..499 => ~ req[r].wrote
             /\ StatusOf(r) = 500 => req[r].hit # "no" \/ A(r).blank
  <2>1. /\ Base /\ Honest(req[r]) /\ req[r].out # "pending" /\ req[r] \in Request
        /\ A(r) = req[r].ask /\ A(r).op \in Op /\ req[r].wrote \in BOOLEAN
    BY <1>1, InLog DEF Inv, InFlight, A, Request, Ask
  <2>2. CASE A(r).bad
    BY <2>1, <2>2 DEF StatusOf, Honest
  <2>3. CASE ~ A(r).bad
    <3> DEFINE status == Handler(A(r).op, req[r].out)
    <3>1. Told(A(r).op, req[r].out, status)
      BY <2>1, HandlerTold
    <3>2. StatusOf(r) = status
      BY <2>3 DEF StatusOf
    <3> HIDE DEF status
    <3>3. CASE req[r].out = "ok"
      <4>1. status \in {200, 201, 204}
        BY <3>1, <3>3 DEF Told
      <4> QED
        BY <3>2, <4>1
    <3>4. CASE req[r].out = "internal"
      <4>1. status = 500
        BY <3>1, <3>4 DEF Told
      <4> QED
        BY <2>1, <3>2, <3>4, <4>1 DEF Honest
    <3>5. CASE req[r].out \notin {"ok", "internal"}
      <4>1. May(A(r).op, req[r].out) /\ ~ req[r].wrote
        BY <2>1, <2>3, <3>5 DEF Honest
      <4>2. status \in {400, 404, 409, 422}
        BY <3>1, <4>1 DEF Told
      <4> QED
        BY <3>2, <4>1, <4>2
    <3> QED
      BY <3>3, <3>4, <3>5
  <2> QED
    BY <2>2, <2>3
<1>2. Inv => StatusIsHonest
  BY <1>1 DEF StatusIsHonest
<1> QED
  BY <1>2, InvCorrect, PTL

(* A row that is gone stays as it is, and the time a user was last seen    *)
(* never becomes an older one, whatever requests run beside each other.    *)
THEOREM NothingGoesBackCorrect == Spec => NothingGoesBack
<1> DEFINE Kept2 == /\ \A t \in Table, i \in Id : db[t][i].st = "gone" => db'[t][i] = db[t][i]
                    /\ \A u \in Id : db'["users"][u].key >= db["users"][u].key
<1>1. ASSUME Inv, Next
      PROVE  Kept2
  <2>0. Base
    BY <1>1 DEF Inv
  <2>1. CASE \E a \in Sc.asks : Arrive(a)
    <3>1. db' = db
      BY <2>1 DEF Arrive
    <3>2. \A u \in Id : db["users"][u].key \in Nat
      BY <2>0 DEF Base, ApiTypeOK, Row, Table
    <3> QED
      BY <3>1, <3>2
  <2>2. ASSUME NEW r \in Log, Moved(r)
        PROVE  Kept2
    <3>1. PICK T : T = TablesOf(A(r).op)
      OBVIOUS
    <3>2. Effect(r, T)
      BY <2>2, <3>1 DEF Moved, Does
    <3>3. ASSUME NEW t \in Table, NEW i \in Id
          PROVE  /\ db[t][i].st = "gone" => db'[t][i] = db[t][i]
                 /\ db'[t][i].key >= db[t][i].key
      <4>1. /\ db[t][i] \in Row /\ db'[t][i] \in Row /\ RowStep(r, t, db[t][i], db'[t][i])
            /\ RowOK(db[t][i])
        BY <2>0, <3>2, RowsMoved DEF Effect, Base
      <4>2. /\ db[t][i].st = "gone" => db'[t][i] = db[t][i]
            /\ db'[t][i].key >= db[t][i].key \/ db[t][i].st = "none"
        BY <4>1, RowKept
      <4>3. db[t][i].st = "none" => db[t][i].key = 0
        BY <4>1 DEF RowOK, NoRow
      <4>4. db[t][i].key \in Nat /\ db'[t][i].key \in Nat
        BY <4>1 DEF Row
      <4> QED
        BY <4>2, <4>3, <4>4
    <3> QED
      BY <3>3 DEF Table
  <2> QED
    BY <1>1, <2>1, <2>2, NextMoved
<1>2. Inv /\ [Next]_vars => [Kept2]_vars
  BY <1>1
<1> QED
  BY <1>2, InvCorrect, PTL DEF Spec, NothingGoesBack
=============================================================================
