----------------------------- MODULE ImportProofs -----------------------------
(***************************************************************************)
(* Theorems about CalendarImport: its types; that what was removed stays   *)
(* removed, whatever a sync that runs on writes back; that an event has one*)
(* task; that a removed binding leaves nothing behind; that the saved token*)
(* is never ahead of the tasks; and that the worker was told what the rows *)
(* say.  The last four rest on FlowInv, which says what a sync has in its  *)
(* hand between two of its statements, and on AloneInv, which says that    *)
(* nobody is beside it.                                                    *)
(***************************************************************************)
EXTENDS ImportProperties, FiniteSetTheorems, TLAPS

USE ImportAssumption

(* Steps that have a task at hand have one.                                *)
HasTask == {"link", "write", "tell", "drop", "mute"}

SyncOK(s) == sync[s] \in Sync /\ (sync[s].pc \in HasTask => sync[s].id # NoTask)

RemovalOK == removal \in Removal /\ (Half(removal.pc) => removal.id # NoTask)

ImportInv ==
  /\ ImportTypeOK
  /\ \A s \in Syncer : SyncOK(s)
  /\ RemovalOK

-----------------------------------------------------------------------------
(* Operators.                                                              *)

LEMMA DivNat ==
  ASSUME NEW a \in Nat
  PROVE  a \div Period \in Nat
  BY Z3

LEMMA TimesNat ==
  ASSUME NEW a \in Nat, NEW b \in Nat
  PROVE  a * b \in Nat
  BY Z3

LEMMA ScenarioHasType ==
  ASSUME scene \in DOMAIN Scenario
  PROVE  Sc \in ScenarioType
  BY DEF Sc

LEMMA SomeEvent == (CHOOSE e \in Event : TRUE) \in Event
  OBVIOUS

LEMMA ConstantTypes ==
  /\ NoSync \in Sync /\ NoRemoval \in Removal /\ NewBinding \in BindingRow
  /\ NoRow \in TaskRow /\ NoEvent \in EventRow /\ NoLink \in LinkRow
<1>1. NoRow \in TaskRow
  BY SomeEvent DEF NoRow, TaskRow
<1>2. NewBinding \in BindingRow
  BY DEF NewBinding, BindingRow, NoToken
<1>3. NoLink \in LinkRow
  BY DEF NoLink, LinkRow, NoTask
<1>4. NoEvent \in EventRow
  BY DEF NoEvent, EventRow, NoTask
<1>5. NoSync \in Sync
  BY <1>1, <1>2, <1>3, SomeEvent DEF NoSync, Sync, NoTask
<1>6. NoRemoval \in Removal
  BY <1>1 DEF NoRemoval, Removal, NoTask
<1> QED
  BY <1>1, <1>2, <1>3, <1>4, <1>5, <1>6

LEMMA FieldsType ==
  ASSUME ImportTypeOK, NEW x \in Listed
  PROVE  Fields(x) \in TaskRow
<1>1. x.row \in EventRow /\ x.ev \in Event /\ now \in Nat /\ x.row.start \in Nat
  BY DEF Listed, ImportTypeOK, Time, EventRow
<1>2. StartOf(x.row) \in Nat
  <2>1. CASE x.row.series /\ x.row.start <= now
    <3>1. now - x.row.start \in Nat
      BY <1>1, <2>1
    <3>2. (now - x.row.start) \div Period + 1 \in Nat
      BY <3>1, DivNat, SMTT(30)
    <3>3. Period * ((now - x.row.start) \div Period + 1) \in Nat
      BY <3>2, TimesNat
    <3> QED
      BY <1>1, <2>1, <3>3 DEF StartOf, NextStart
  <2> QED
    BY <1>1, <2>1 DEF StartOf
<1>3. Sc.chat \in BOOLEAN
  BY ScenarioHasType DEF ImportTypeOK, ScenarioType
<1> QED
  BY <1>1, <1>2, <1>3 DEF Fields, TaskRow, EventRow

LEMMA ListEventsType ==
  ASSUME ImportTypeOK, NEW token
  PROVE  ListEvents(token) \in SUBSET Listed
  BY DEF ListEvents, Listed, ImportTypeOK

LEMMA MergedType ==
  ASSUME NEW row \in TaskRow, NEW f \in TaskRow, NEW o
  PROVE  Merged(row, f, o) \in TaskRow
  BY DEF Merged, TaskRow

LEMMA UpdateTaskType ==
  ASSUME ImportTypeOK, NEW t, NEW row \in TaskRow
  PROVE  UpdateTask(t, row) \in [TaskId -> TaskRow]
<1>1. CASE Exists(t) /\ t \in TaskId
  <2>1. [row EXCEPT !.chat = tasks[t].chat] \in TaskRow
    BY <1>1 DEF TaskRow, ImportTypeOK
  <2> QED
    BY <2>1 DEF UpdateTask, ImportTypeOK
<1>2. CASE ~(Exists(t) /\ t \in TaskId)
  BY <1>2 DEF UpdateTask, ImportTypeOK
<1> QED
  BY <1>1, <1>2

LEMMA DeleteTaskType ==
  ASSUME ImportTypeOK, NEW t \in TaskId \cup {NoTask}
  PROVE  DeleteTask(t) \in [TaskId -> TaskRow]
<1>1. CASE t \in TaskId
  <2>1. [tasks[t] EXCEPT !.st = "gone"] \in TaskRow
    <3>1. tasks[t] \in TaskRow
      BY <1>1 DEF ImportTypeOK
    <3> QED
      BY <3>1 DEF TaskRow
  <2>2. DeleteTask(t) = tasks
          \/ DeleteTask(t) = [tasks EXCEPT ![t] = [tasks[t] EXCEPT !.st = "gone"]]
    BY DEF DeleteTask
  <2> QED
    BY <2>1, <2>2 DEF ImportTypeOK
<1>2. CASE t \notin TaskId
  BY <1>2 DEF DeleteTask, Exists, ImportTypeOK
<1> QED
  BY <1>1, <1>2

LEMMA PublishTypes ==
  ASSUME ImportTypeOK, NEW t, NEW row \in TaskRow
  PROVE  /\ PublishSchedule(t, row) \in [TaskId -> Nat \cup {Never}]
         /\ PublishDelete(t, row) \in [TaskId -> Nat \cup {Never}]
  BY DEF PublishSchedule, PublishDelete, ImportTypeOK, TaskRow

LEMMA BackoffNat ==
  ASSUME NEW n \in Nat \ {0}
  PROVE  BindingSyncBackoff(n) \in Nat
<1>1. Len(BackoffSteps) \in Nat \ {0}
  BY ImportAssumption
<1>2. (IF n > Len(BackoffSteps) THEN Len(BackoffSteps) ELSE n) \in 1..Len(BackoffSteps)
  BY <1>1
<1> QED
  BY <1>2 DEF BindingSyncBackoff

LEMMA SyncedType ==
  ASSUME ImportInv, NEW s \in Syncer
  PROVE  Synced(s) \in BindingRow
<1>1. sync[s].copy \in BindingRow /\ sync[s].upto \in Nat
  BY DEF ImportInv, SyncOK, Sync
<1>2. PICK b \in BindingRow : b = sync[s].copy
  BY <1>1
<1>3. Synced(s) = [b EXCEPT !.st = "active", !.attempts = 0, !.next = 0, !.token = sync[s].upto]
  BY <1>2 DEF Synced
<1>4. PICK u \in Nat : u = sync[s].upto
  BY <1>1
<1>5. [b EXCEPT !.st = "active", !.attempts = 0, !.next = 0, !.token = u] \in BindingRow
  BY DEF BindingRow
<1> QED
  BY <1>3, <1>4, <1>5

LEMMA ErroredType ==
  ASSUME ImportInv, NEW s \in Syncer
  PROVE  Errored(s) \in BindingRow
<1>1. sync[s].copy \in BindingRow /\ sync[s].copy.attempts + 1 \in Nat \ {0}
  BY DEF ImportInv, SyncOK, Sync, BindingRow
<1>2. now \in Nat /\ Sc.time \in Nat
  BY ScenarioHasType DEF ImportInv, ImportTypeOK, ScenarioType, Time
<1>3. BindingSyncBackoff(sync[s].copy.attempts + 1) \in Nat
  BY <1>1, BackoffNat
<1> DEFINE n == sync[s].copy.attempts + 1
           retry == now + BindingSyncBackoff(n)
           next == IF retry > Sc.time THEN Sc.time ELSE retry
<1>4. n \in Nat /\ next \in Nat
  BY <1>1, <1>2, <1>3
<1>5. Errored(s) = [sync[s].copy EXCEPT !.st = "error", !.attempts = n, !.next = next]
  BY DEF Errored
<1> HIDE DEF n, next
<1> QED
  BY <1>1, <1>4, <1>5 DEF BindingRow

LEMMA UpdateBindingType ==
  ASSUME ImportTypeOK, NEW copy \in BindingRow
  PROVE  UpdateBinding(copy) \in BindingRow
  BY DEF UpdateBinding, ImportTypeOK

(* The next state of a sync keeps the types.                               *)
LEMMA NextSyncs ==
  ASSUME ImportInv, NEW s \in Syncer
  PROVE  /\ Fail(s) \in Sync /\ Fail(s).pc = "failed"
         /\ NextEvent(s) \in Sync /\ NextEvent(s).pc = "next"
         /\ AfterTell(s) \in Sync /\ AfterTell(s).pc \in {"next", "relink"}
<1>1. sync[s] \in Sync
  BY DEF ImportInv, SyncOK
<1>2. Fail(s) \in Sync /\ Fail(s).pc = "failed"
  BY <1>1, ConstantTypes DEF Fail, Sync
<1>3. NextEvent(s) \in Sync /\ NextEvent(s).pc = "next"
  BY <1>1, ConstantTypes DEF NextEvent, Sync
<1>4. Go(s, "relink") \in Sync /\ Go(s, "relink").pc = "relink"
  BY <1>1 DEF Go, Sync
<1> QED
  BY <1>2, <1>3, <1>4 DEF AfterTell

LEMMA SyncMoves ==
  ASSUME ImportInv, NEW s \in Syncer, NEW q \in Sync, q.pc \in HasTask => q.id # NoTask,
         sync' = [sync EXCEPT ![s] = q]
  PROVE  sync' \in [Syncer -> Sync] /\ \A r \in Syncer : SyncOK(r)'
  BY DEF ImportInv, ImportTypeOK, SyncOK
(* What a step writes has its type.                                        *)
Written ==
  /\ binding' \in BindingRow /\ revoked' \in BOOLEAN
  /\ links' \in [Event -> LinkRow] /\ tasks' \in [TaskId -> TaskRow]
  /\ armed' \in [TaskId -> Nat \cup {Never}]
  /\ scene' = scene /\ budget' \in Nat /\ mixed' \in BOOLEAN /\ cut' \in BOOLEAN
  /\ untold' \subseteq TaskId /\ dropped' \subseteq TaskId \cup {NoTask}

LEMMA SyncKeeps ==
  ASSUME ImportInv, NEW s \in Syncer, NEW q \in Sync, q.pc \in HasTask => q.id # NoTask,
         sync' = [sync EXCEPT ![s] = q], UNCHANGED <<world, removal>>, Written
  PROVE  ImportInv'
<1>1. sync' \in [Syncer -> Sync] /\ \A r \in Syncer : SyncOK(r)'
  BY SyncMoves
<1>2. RemovalOK'
  BY DEF ImportInv, RemovalOK, Half
<1>3. /\ now' = now /\ google' = google /\ edits' = edits /\ summary' = summary
      /\ removal' = removal
  BY DEF world
<1>4. ImportTypeOK'
  BY <1>1, <1>3 DEF ImportInv, ImportTypeOK, Written
<1> QED
  BY <1>1, <1>2, <1>4 DEF ImportInv

LEMMA RemovalKeeps ==
  ASSUME ImportInv, removal' \in Removal, Half(removal'.pc) => removal'.id # NoTask,
         UNCHANGED <<world, sync>>, Written
  PROVE  ImportInv'
<1>1. \A r \in Syncer : SyncOK(r)'
  BY DEF ImportInv, SyncOK
<1>2. RemovalOK'
  BY DEF RemovalOK
<1>3. /\ now' = now /\ google' = google /\ edits' = edits /\ summary' = summary
      /\ sync' = sync
  BY DEF world
<1>4. ImportTypeOK'
  BY <1>3 DEF ImportInv, ImportTypeOK, Written
<1> QED
  BY <1>1, <1>2, <1>4 DEF ImportInv

LEMMA NothingWritten ==
  ASSUME ImportInv, UNCHANGED <<rows, notes>>
  PROVE  Written
  BY DEF ImportInv, ImportTypeOK, Written, rows, notes

-----------------------------------------------------------------------------
(* The steps of a sync.                                                    *)

LEMMA BeginKeeps ==
  ASSUME ImportInv, Poll \/ ForceSync
  PROVE  ImportInv'
<1>1. PICK s \in Syncer : Begin(s) /\ budget' \in Nat
  BY DEF Poll, ForceSync, ImportInv, ImportTypeOK, Syncer
<1> DEFINE q == [sync[s] EXCEPT !.pc = "open", !.copy = binding]
<1>2. sync' = [sync EXCEPT ![s] = q]
  BY <1>1 DEF Begin, ImportInv, ImportTypeOK
<1>3. q \in Sync /\ q.pc = "open"
  BY ZenonT(30) DEF ImportInv, ImportTypeOK, SyncOK, Sync
<1>4. Written
  BY <1>1 DEF Begin, ImportInv, ImportTypeOK, Written, rows, Busy
<1>5. UNCHANGED <<world, removal>>
  BY <1>1 DEF Begin
<1> HIDE DEF q
<1> QED
  BY <1>2, <1>3, <1>4, <1>5, SyncKeeps DEF HasTask

LEMMA LookKeeps ==
  ASSUME ImportInv, NEW s \in Syncer, Open(s) \/ Refresh(s) \/ List(s) \/ TokenInvalid(s)
  PROVE  ImportInv'
<1>1. sync[s] \in Sync
  BY DEF ImportInv, SyncOK
<1>2. CASE Open(s)
  <2>1. PICK q : q = IF Connected THEN Go(s, "refresh") ELSE Fail(s)
    OBVIOUS
  <2>2. q \in Sync /\ q.pc \notin HasTask
    <3>1. Go(s, "refresh") \in Sync /\ Go(s, "refresh").pc = "refresh"
      BY <1>1 DEF Go, Sync
    <3> QED
      BY <2>1, <3>1, NextSyncs DEF HasTask
  <2>3. sync' = [sync EXCEPT ![s] = q] /\ UNCHANGED <<world, removal>> /\ UNCHANGED <<rows, notes>>
    BY <1>2, <2>1 DEF Open, Step
  <2> QED
    BY <2>2, <2>3, NothingWritten, SyncKeeps
<1>3. CASE Refresh(s)
  <2>1. PICK c : c = [sync[s].copy EXCEPT !.summary = summary]
    OBVIOUS
  <2>2. c \in BindingRow
    BY <1>1, <2>1 DEF Sync, BindingRow, ImportInv, ImportTypeOK
  <2>3. PICK q : q = [sync[s] EXCEPT !.pc = "list", !.copy = c]
    OBVIOUS
  <2>4. q \in Sync /\ q.pc = "list"
    BY <1>1, <2>2, <2>3 DEF Sync
  <2>5. /\ sync' = [sync EXCEPT ![s] = q]
        /\ binding' = binding \/ binding' = UpdateBinding(c)
        /\ UNCHANGED <<world, revoked, links, tasks, armed, removal, notes>>
    BY <1>3, <2>1, <2>3 DEF Refresh, Step
  <2>6. Written
    BY <2>2, <2>5, UpdateBindingType DEF Written, ImportInv, ImportTypeOK, notes
  <2> QED
    BY <2>4, <2>5, <2>6, SyncKeeps DEF HasTask
<1>4. CASE List(s)
  <2>1. PICK q : q = [sync[s] EXCEPT !.pc = "next", !.upto = edits,
                                     !.todo = ListEvents(sync[s].copy.token)]
    OBVIOUS
  <2>2. q \in Sync /\ q.pc = "next"
    BY <1>1, <2>1, ListEventsType DEF Sync, ImportInv, ImportTypeOK
  <2>3. sync' = [sync EXCEPT ![s] = q] /\ UNCHANGED <<world, removal>> /\ UNCHANGED <<rows, notes>>
    BY <1>4, <2>1 DEF List, Step
  <2> QED
    BY <2>2, <2>3, NothingWritten, SyncKeeps DEF HasTask
<1>5. CASE TokenInvalid(s)
  <2>1. PICK c : c = [sync[s].copy EXCEPT !.token = NoToken]
    OBVIOUS
  <2>2. c \in BindingRow
    BY <1>1, <2>1 DEF Sync, BindingRow
  <2>3. PICK q : q = [sync[s] EXCEPT !.copy = c]
    OBVIOUS
  <2>4. q \in Sync /\ q.pc = "list"
    BY <1>1, <1>5, <2>2, <2>3 DEF Sync, TokenInvalid, Step
  <2>5. PICK b : b = [binding EXCEPT !.token = NoToken]
    OBVIOUS
  <2>6. b \in BindingRow
    BY <2>5 DEF BindingRow, ImportInv, ImportTypeOK
  <2>7. /\ sync' = [sync EXCEPT ![s] = [sync[s] EXCEPT !.copy.token = NoToken]]
        /\ binding' = UpdateBinding(b) /\ budget > 0 /\ budget' = budget - 1
        /\ UNCHANGED <<world, revoked, links, tasks, armed, removal, scene, mixed, cut, untold, dropped>>
    BY <1>5, <2>5 DEF TokenInvalid, Step, ClearSyncToken
  <2>8. sync' = [sync EXCEPT ![s] = q]
    BY <2>1, <2>3, <2>7
  <2>9. Written
    BY <2>6, <2>7, UpdateBindingType DEF Written, ImportInv, ImportTypeOK
  <2> QED
    BY <2>4, <2>7, <2>8, <2>9, SyncKeeps DEF HasTask
<1> QED
  BY <1>2, <1>3, <1>4, <1>5

LEMMA TakeKeeps ==
  ASSUME ImportInv, NEW s \in Syncer, Take(s)
  PROVE  ImportInv'
<1>1. sync[s] \in Sync /\ links \in [Event -> LinkRow]
  BY DEF ImportInv, SyncOK, ImportTypeOK
<1>2. PICK x \in sync[s].todo :
        LET skipped == [sync[s] EXCEPT !.todo = @ \ {x}]
            taken  == [sync[s] EXCEPT !.todo = @ \ {x}, !.of = x.ev]
            fields == [taken EXCEPT !.row = Fields(x)]
            with(e) == [fields EXCEPT !.of = e, !.link = links[e], !.id = links[e].task]
        IN
        /\ UNCHANGED <<world, binding, revoked, tasks, armed, removal, notes>>
        /\ \/ /\ x.row.st = "cancelled" /\ ~HasLink(x.ev)
              /\ Step(s, "next", skipped)
              /\ UNCHANGED links
           \/ /\ x.row.st = "cancelled" /\ HasLink(x.ev)
              /\ Step(s, "next", [taken EXCEPT !.pc = "policy", !.link = links[x.ev],
                                               !.id = links[x.ev].task])
              /\ UNCHANGED links
           \/ /\ x.row.st = "live" /\ LinkedEvents(x) = {} /\ x.row.tag # NoTask
              /\ Step(s, "next", skipped)
              /\ links' = [links EXCEPT ![x.ev] = [task |-> x.row.tag, origin |-> "exported"]]
           \/ /\ x.row.st = "live" /\ LinkedEvents(x) = {} /\ x.row.tag = NoTask
              /\ Step(s, "next", IF x.row.bad THEN Fail(s)
                                 ELSE [fields EXCEPT !.pc = "create"])
              /\ UNCHANGED links
           \/ \E e \in LinkedEvents(x) :
              /\ x.row.st = "live"
              /\ Step(s, "next", IF x.row.bad THEN Fail(s)
                                 ELSE [with(e) EXCEPT !.pc = "read"])
              /\ UNCHANGED links
  BY DEF Take
<1>3. x \in Listed /\ x.ev \in Event /\ x.row.tag \in TaskId \cup {NoTask}
  BY <1>1 DEF Sync, Listed, EventRow
<1>4. PICK skipped : skipped = [sync[s] EXCEPT !.todo = @ \ {x}]
  OBVIOUS
<1>5. PICK taken : taken = [sync[s] EXCEPT !.todo = @ \ {x}, !.of = x.ev]
  OBVIOUS
<1>6. PICK f : f = Fields(x)
  OBVIOUS
<1>7. PICK fields : fields = [taken EXCEPT !.row = f]
  OBVIOUS
<1>8. /\ skipped \in Sync /\ skipped.pc = sync[s].pc
      /\ taken \in Sync /\ fields \in Sync
  <2>1. skipped \in Sync /\ skipped.pc = sync[s].pc
    BY <1>1, <1>4 DEF Sync
  <2>2. taken \in Sync
    BY <1>1, <1>3, <1>5 DEF Sync
  <2>3. f \in TaskRow
    BY <1>3, <1>6, FieldsType DEF ImportInv
  <2> QED
    BY <2>1, <2>2, <2>3, <1>7 DEF Sync
<1>9. \A t, l : t \in TaskId \cup {NoTask} /\ l = [task |-> t, origin |-> "exported"]
        => l \in LinkRow
  BY DEF LinkRow
<1>10. /\ UNCHANGED <<world, removal>>
       /\ links' \in [Event -> LinkRow] => Written
  BY <1>2 DEF Written, ImportInv, ImportTypeOK, notes
<1>11. \E q \in Sync : q.pc \notin HasTask /\ sync' = [sync EXCEPT ![s] = q]
  <2>1. CASE Step(s, "next", skipped)
    BY <1>8, <2>1 DEF Step, HasTask
  <2>2. CASE Step(s, "next", [taken EXCEPT !.pc = "policy", !.link = links[x.ev],
                                           !.id = links[x.ev].task])
    <3>1. PICK q : q = [taken EXCEPT !.pc = "policy", !.link = links[x.ev],
                                     !.id = links[x.ev].task]
      OBVIOUS
    <3>2. q \in Sync /\ q.pc = "policy"
      BY <1>1, <1>3, <1>8, <3>1 DEF Sync, LinkRow
    <3> QED
      BY <2>2, <3>1, <3>2 DEF Step, HasTask
  <2>3. CASE Step(s, "next", IF x.row.bad THEN Fail(s) ELSE [fields EXCEPT !.pc = "create"])
    <3>1. PICK q : q = [fields EXCEPT !.pc = "create"]
      OBVIOUS
    <3>2. q \in Sync /\ q.pc = "create"
      BY <1>8, <3>1 DEF Sync
    <3> QED
      BY <2>3, <3>1, <3>2, NextSyncs DEF Step, HasTask
  <2>4. ASSUME NEW e \in Event,
               Step(s, "next", IF x.row.bad THEN Fail(s)
                   ELSE [fields EXCEPT !.of = e, !.link = links[e], !.id = links[e].task,
                                       !.pc = "read"])
        PROVE  \E q \in Sync : q.pc \notin HasTask /\ sync' = [sync EXCEPT ![s] = q]
    <3>1. PICK q : q = [fields EXCEPT !.of = e, !.link = links[e], !.id = links[e].task,
                                      !.pc = "read"]
      OBVIOUS
    <3>2. q \in Sync /\ q.pc = "read"
      BY <1>1, <1>8, <3>1 DEF Sync, LinkRow
    <3> QED
      BY <2>4, <3>1, <3>2, NextSyncs DEF Step, HasTask
  <2>5. LinkedEvents(x) \subseteq Event
    BY <1>3 DEF LinkedEvents
  <2> QED
    BY <1>2, <1>4, <1>5, <1>6, <1>7, <2>1, <2>2, <2>3, <2>4, <2>5
<1>12. links' \in [Event -> LinkRow]
  <2>1. PICK l : l = [task |-> x.row.tag, origin |-> "exported"]
    OBVIOUS
  <2>2. l \in LinkRow
    BY <1>3, <1>9, <2>1
  <2>3. links' = links \/ links' = [links EXCEPT ![x.ev] = l]
    BY <1>2, <2>1
  <2> QED
    BY <1>1, <2>2, <2>3
<1> QED
  BY <1>10, <1>11, <1>12, SyncKeeps

LEMMA MakeKeeps ==
  ASSUME ImportInv, NEW s \in Syncer, CreateTask(s) \/ CreateLink(s) \/ ReadTask(s) \/ WriteTask(s)
  PROVE  ImportInv'
<1>1. sync[s] \in Sync /\ links \in [Event -> LinkRow] /\ tasks \in [TaskId -> TaskRow]
  BY DEF ImportInv, SyncOK, ImportTypeOK
<1>2. \A pc : Go(s, pc).pc = pc /\ Go(s, pc).id = sync[s].id
  BY <1>1 DEF Go, Sync
<1>3. CASE CreateTask(s)
  <2>1. PICK t \in Free :
          /\ Step(s, "create", [sync[s] EXCEPT !.id = t, !.tell = "schedule",
                             !.pc = IF sync[s].link = NoLink THEN "link" ELSE "tell"])
          /\ tasks' = [tasks EXCEPT ![t] = sync[s].row]
          /\ UNCHANGED <<world, binding, revoked, links, armed, removal, notes>>
    BY <1>3 DEF CreateTask
  <2>2. PICK q : q = [sync[s] EXCEPT !.id = t, !.tell = "schedule",
                             !.pc = IF sync[s].link = NoLink THEN "link" ELSE "tell"]
    OBVIOUS
  <2>3. t \in TaskId /\ t # NoTask
    BY DEF Free, TaskId, NoTask
  <2>4. q \in Sync /\ q.id # NoTask
    BY <1>1, <2>2, <2>3 DEF Sync
  <2>5. Written
    <3>1. sync[s].row \in TaskRow
      BY <1>1 DEF Sync
    <3>2. tasks' \in [TaskId -> TaskRow]
      BY <1>1, <2>1, <3>1
    <3> QED
      BY <2>1, <3>2 DEF Written, ImportInv, ImportTypeOK, notes
  <2>6. sync' = [sync EXCEPT ![s] = q] /\ UNCHANGED <<world, removal>>
    BY <2>1, <2>2 DEF Step
  <2> QED
    BY <2>4, <2>5, <2>6, SyncKeeps
<1>4. CASE CreateLink(s)
  <2>1. PICK q : q = IF HasLink(sync[s].of) THEN Fail(s) ELSE Go(s, "tell")
    OBVIOUS
  <2>2. q \in Sync /\ (q.pc \in HasTask => q.id # NoTask)
    <3>1. sync[s].pc = "link"
      BY <1>4 DEF CreateLink, Step
    <3>2. Go(s, "tell") \in Sync
      BY <1>1 DEF Go, Sync
    <3>3. sync[s].id # NoTask
      BY <3>1 DEF ImportInv, SyncOK, HasTask
    <3> QED
      BY <1>2, <2>1, <3>2, <3>3, NextSyncs DEF HasTask
  <2>3. PICK l : l = [task |-> sync[s].id, origin |-> "imported"]
    OBVIOUS
  <2>4. l \in LinkRow
    BY <1>1, <2>3 DEF LinkRow, Sync
  <2>5. /\ sync' = [sync EXCEPT ![s] = q]
        /\ links' = links \/ links' = [links EXCEPT ![sync[s].of] = l]
        /\ UNCHANGED <<world, binding, revoked, tasks, armed, removal, notes>>
    BY <1>4, <2>1, <2>3 DEF CreateLink, Step
  <2>6. links' \in [Event -> LinkRow]
    BY <1>1, <2>4, <2>5
  <2>7. Written
    BY <2>5, <2>6 DEF Written, ImportInv, ImportTypeOK, notes
  <2> QED
    BY <2>2, <2>5, <2>7, SyncKeeps
<1>5. CASE ReadTask(s)
  <2>1. PICK r : r = Merged(tasks[sync[s].id], sync[s].row, sync[s].link.origin)
    OBVIOUS
  <2>2. PICK tell : tell = TellOf(tasks[sync[s].id], sync[s].row, sync[s].link.origin)
    OBVIOUS
  <2>3. PICK pc : pc = IF r # tasks[sync[s].id] THEN "write"
                      ELSE IF tell # "none" THEN "tell" ELSE "relink"
    OBVIOUS
  <2>4. PICK q : q = IF ~Exists(sync[s].id) THEN Go(s, "create")
                     ELSE [sync[s] EXCEPT !.row = r, !.tell = tell, !.pc = pc]
    OBVIOUS
  <2>5. sync' = [sync EXCEPT ![s] = q] /\ UNCHANGED <<world, removal>> /\ UNCHANGED <<rows, notes>>
    BY <1>5, <2>1, <2>2, <2>3, <2>4 DEF ReadTask, Step
  <2>6. q \in Sync /\ (q.pc \in HasTask => q.id # NoTask)
    <3>1. CASE ~Exists(sync[s].id)
      <4>1. Go(s, "create") \in Sync
        BY <1>1 DEF Go, Sync
      <4> QED
        BY <1>2, <2>4, <3>1, <4>1 DEF HasTask
    <3>2. CASE Exists(sync[s].id)
      <4>1. sync[s].id \in TaskId /\ sync[s].id # NoTask /\ sync[s].row \in TaskRow
        BY <1>1, <3>2 DEF Exists, Sync
      <4>2. r \in TaskRow
        BY <1>1, <2>1, <4>1, MergedType
      <4>3. tell \in {"none", "schedule", "delete"}
        BY <2>2 DEF TellOf
      <4>4. pc \in {"write", "tell", "relink"}
        BY <2>3
      <4> QED
        BY <1>1, <2>4, <3>2, <4>1, <4>2, <4>3, <4>4 DEF Sync
    <3> QED
      BY <3>1, <3>2
  <2> QED
    BY <2>5, <2>6, NothingWritten, SyncKeeps
<1>6. CASE WriteTask(s)
  <2>1. PICK q : q = Go(s, IF sync[s].tell = "none" THEN "relink" ELSE "tell")
    OBVIOUS
  <2>2. /\ sync' = [sync EXCEPT ![s] = q] /\ sync[s].pc = "write"
        /\ tasks' = UpdateTask(sync[s].id, sync[s].row)
        /\ UNCHANGED <<world, binding, revoked, links, armed, removal, notes>>
    BY <1>6, <2>1 DEF WriteTask, Step
  <2>3. q \in Sync /\ q.id # NoTask
    <3>1. sync[s].id # NoTask
      BY <2>2 DEF ImportInv, SyncOK, HasTask
    <3> QED
      BY <1>1, <1>2, <2>1, <3>1 DEF Go, Sync
  <2>4. tasks' \in [TaskId -> TaskRow]
    BY <1>1, <2>2, UpdateTaskType DEF ImportInv, Sync
  <2>5. Written
    BY <2>2, <2>4 DEF Written, ImportInv, ImportTypeOK, notes
  <2> QED
    BY <2>2, <2>3, <2>5, SyncKeeps
<1> QED
  BY <1>3, <1>4, <1>5, <1>6

LEMMA TellKeeps ==
  ASSUME ImportInv, NEW s \in Syncer, Tell(s) \/ PublishFails(s)
  PROVE  ImportInv'
<1>1. sync[s] \in Sync
  BY DEF ImportInv, SyncOK
<1>2. PICK q : q = AfterTell(s)
  OBVIOUS
<1>3. q \in Sync /\ q.pc \notin HasTask
  BY <1>2, NextSyncs DEF HasTask
<1>4. sync' = [sync EXCEPT ![s] = q] /\ sync[s].pc = "tell" /\ UNCHANGED <<world, removal>>
  BY <1>2 DEF Tell, PublishFails, Step
<1>5. sync[s].id \in TaskId /\ sync[s].row \in TaskRow
  BY <1>1, <1>4 DEF ImportInv, SyncOK, HasTask, Sync
<1>6. untold \cup {sync[s].id} \subseteq TaskId
  BY <1>5 DEF ImportInv, ImportTypeOK
<1>7. Written
  <2>1. CASE Tell(s)
    <3>1. armed' \in [TaskId -> Nat \cup {Never}]
      BY <1>5, <2>1, PublishTypes DEF Tell, ImportInv
    <3>2. untold' \subseteq TaskId
      BY <1>6, <2>1 DEF Tell, ImportInv, ImportTypeOK
    <3> QED
      BY <2>1, <3>1, <3>2 DEF Tell, Written, ImportInv, ImportTypeOK
  <2>2. CASE PublishFails(s)
    <3>1. budget' \in Nat /\ untold' \subseteq TaskId
      BY <1>6, <2>2 DEF PublishFails, Act, ImportInv, ImportTypeOK
    <3> QED
      BY <2>2, <3>1 DEF PublishFails, Written, ImportInv, ImportTypeOK, rows
  <2> QED
    BY <2>1, <2>2
<1> QED
  BY <1>3, <1>4, <1>7, SyncKeeps

LEMMA SilencedType ==
  ASSUME ImportInv, NEW t \in TaskId
  PROVE  Silenced(t) \in [TaskId -> Nat \cup {Never}]
<1>1. tasks[t] \in TaskRow /\ armed \in [TaskId -> Nat \cup {Never}]
  BY DEF ImportInv, ImportTypeOK
<1> QED
  BY <1>1, PublishTypes DEF Silenced, ImportInv

LEMMA PolicyKeeps ==
  ASSUME ImportInv, NEW s \in Syncer, Policy(s)
  PROVE  ImportInv'
<1>1. sync[s] \in Sync /\ tasks \in [TaskId -> TaskRow]
  BY DEF ImportInv, SyncOK, ImportTypeOK
<1>2. PICK t : t = sync[s].id
  OBVIOUS
<1>3. Exists(t) => t \in TaskId /\ t # NoTask /\ tasks[t] \in TaskRow
  BY <1>1, <1>2 DEF Exists, Sync
<1>4. PolicyPc(t) \in {"drop", "mute", "next"}
  BY DEF PolicyPc
<1>5. PICK q : q = IF ~Exists(t) THEN Go(s, "unlink")
                   ELSE IF PolicyPc(t) = "next" THEN NextEvent(s)
                   ELSE [sync[s] EXCEPT !.pc = PolicyPc(t), !.row = tasks[t]]
  OBVIOUS
<1>6. q \in Sync /\ (q.pc \in HasTask => q.id # NoTask)
  <2>1. CASE ~Exists(t)
    <3>1. Go(s, "unlink") \in Sync /\ Go(s, "unlink").pc = "unlink"
      BY <1>1 DEF Go, Sync
    <3> QED
      BY <1>5, <2>1, <3>1 DEF HasTask
  <2>2. CASE Exists(t) /\ PolicyPc(t) = "next"
    BY <1>5, <2>2, NextSyncs DEF HasTask
  <2>3. CASE Exists(t) /\ PolicyPc(t) # "next"
    <3>1. q = [sync[s] EXCEPT !.pc = PolicyPc(t), !.row = tasks[t]]
      BY <1>5, <2>3
    <3> QED
      BY <1>1, <1>2, <1>3, <1>4, <2>3, <3>1 DEF Sync
  <2> QED
    BY <2>1, <2>2, <2>3
<1>7. sync' = [sync EXCEPT ![s] = q]
  BY <1>2, <1>5 DEF Policy, Step
<1>8. Written
  <2>1. armed' \in [TaskId -> Nat \cup {Never}]
    BY <1>2, <1>3, SilencedType DEF Policy, ImportInv, ImportTypeOK
  <2> QED
    BY <2>1 DEF Policy, Written, ImportInv, ImportTypeOK, notes
<1> QED
  BY <1>6, <1>7, <1>8, SyncKeeps DEF Policy

LEMMA EndKeeps ==
  ASSUME ImportInv, NEW s \in Syncer,
         Relink(s) \/ Unlink(s) \/ Drop(s) \/ Mute(s) \/ MarkSynced(s) \/ MarkError(s)
  PROVE  ImportInv'
<1>1. sync[s] \in Sync
  BY DEF ImportInv, SyncOK
<1>2. \E q \in Sync : q.pc \notin HasTask /\ sync' = [sync EXCEPT ![s] = q]
  <2>1. NoSync \in Sync /\ NoSync.pc = "idle"
    BY ConstantTypes DEF NoSync
  <2> QED
    BY <2>1, NextSyncs DEF Relink, Unlink, Drop, Mute, MarkSynced, MarkError, Step, HasTask
<1>3. UNCHANGED <<world, removal>>
  BY DEF Relink, Unlink, Drop, Mute, MarkSynced, MarkError
<1>4. Written
  <2>1. CASE Relink(s)
    BY <2>1, NothingWritten DEF Relink
  <2>2. CASE Unlink(s)
    <3>1. links' \in [Event -> LinkRow]
      BY <2>2, ConstantTypes DEF Unlink, ImportInv, ImportTypeOK
    <3> QED
      BY <2>2, <3>1 DEF Unlink, Written, ImportInv, ImportTypeOK, notes
  <2>3. CASE Drop(s)
    <3>1. sync[s].id \in TaskId \cup {NoTask}
      BY <1>1 DEF Sync
    <3>2. tasks' \in [TaskId -> TaskRow]
      BY <2>3, <3>1, DeleteTaskType DEF Drop, ImportInv
    <3> QED
      BY <2>3, <3>2 DEF Drop, Written, ImportInv, ImportTypeOK, notes
  <2>4. CASE Mute(s)
    <3>1. [sync[s].row EXCEPT !.muted = TRUE] \in TaskRow
      BY <1>1 DEF Sync, TaskRow
    <3>2. tasks' \in [TaskId -> TaskRow]
      BY <2>4, <3>1, UpdateTaskType DEF Mute, ImportInv
    <3> QED
      BY <2>4, <3>2 DEF Mute, Written, ImportInv, ImportTypeOK, notes
  <2>5. CASE MarkSynced(s) \/ MarkError(s)
    <3>1. binding' \in BindingRow
      BY <2>5, SyncedType, ErroredType, UpdateBindingType DEF MarkSynced, MarkError, ImportInv
    <3> QED
      BY <2>5, <3>1 DEF MarkSynced, MarkError, Written, ImportInv, ImportTypeOK, notes
  <2> QED
    BY <2>1, <2>2, <2>3, <2>4, <2>5
<1> QED
  BY <1>2, <1>3, <1>4, SyncKeeps

-----------------------------------------------------------------------------
(* Removals and the world.                                                 *)

LEMMA StartRemovalKeeps ==
  ASSUME ImportInv, NEW op \in {"delete", "disconnect"}, StartRemoval(op)
  PROVE  ImportInv'
<1>1. PICK pc : pc = IF op = "disconnect" /\ binding.st = "disconnected" THEN "revoke" ELSE "binding"
  OBVIOUS
<1>2. removal' = [NoRemoval EXCEPT !.op = op, !.pc = pc] /\ UNCHANGED <<world, sync>>
  BY <1>1 DEF StartRemoval, Rm
<1>3. removal' \in Removal /\ ~Half(removal'.pc)
  BY <1>1, <1>2, ConstantTypes DEF Removal, Half
<1>4. Written
  BY DEF StartRemoval, Written, ImportInv, ImportTypeOK, Busy, rows
<1> QED
  BY <1>2, <1>3, <1>4, RemovalKeeps

LEMMA RemovalStepKeeps ==
  ASSUME ImportInv, RemovalStep
  PROVE  ImportInv'
<1>1. removal \in Removal /\ NoRemoval \in Removal /\ ~Half(NoRemoval.pc)
  BY ConstantTypes DEF ImportInv, RemovalOK, NoRemoval, Half
<1>2. UNCHANGED <<world, sync>>
  BY DEF RemovalStep, RmBinding, RmLinks, RmRead, RmTask, RmLast, RmRevoke
<1>3. CASE RmBinding
  <2>1. [removal EXCEPT !.pc = "links"] \in Removal /\ [removal EXCEPT !.pc = "links"].pc = "links"
    BY <1>1 DEF Removal
  <2>2. removal' \in Removal /\ ~Half(removal'.pc) /\ UNCHANGED <<rows, notes>>
    BY <1>1, <1>3, <2>1 DEF RmBinding, Rm, Half
  <2> QED
    BY <1>2, <2>2, NothingWritten, RemovalKeeps
<1>4. CASE RmLinks
  <2>1. RemovedTasks \in SUBSET TaskId
    BY DEF RemovedTasks, HasLink, ImportInv, ImportTypeOK, LinkRow
  <2>2. removal' \in Removal /\ ~Half(removal'.pc) /\ UNCHANGED <<rows, notes>>
    BY <1>1, <1>4, <2>1 DEF RmLinks, Rm, Removal, Half
  <2> QED
    BY <1>2, <2>2, NothingWritten, RemovalKeeps
<1>5. CASE RmRead
  <2>1. PICK t \in removal.todo :
          /\ Rm("read", [removal EXCEPT !.todo = @ \ {t}, !.id = t, !.row = tasks[t],
                     !.pc = IF ~Exists(t) \/ PolicyPc(t) = "next" THEN "read" ELSE PolicyPc(t)])
          /\ armed' = IF Exists(t) THEN Silenced(t) ELSE armed
          /\ UNCHANGED <<world, binding, revoked, links, tasks, sync, notes>>
    BY <1>5 DEF RmRead
  <2>2. t \in TaskId /\ t # NoTask /\ tasks[t] \in TaskRow
    BY <1>1 DEF Removal, TaskId, NoTask, ImportInv, ImportTypeOK
  <2>3. PICK pc : pc = IF ~Exists(t) \/ PolicyPc(t) = "next" THEN "read" ELSE PolicyPc(t)
    OBVIOUS
  <2>4. pc \in {"read", "drop", "mute"}
    BY <2>3 DEF PolicyPc
  <2>5. removal' \in Removal /\ removal'.id # NoTask
    BY <1>1, <2>1, <2>2, <2>3, <2>4 DEF Rm, Removal
  <2>6. armed' \in [TaskId -> Nat \cup {Never}]
    BY <2>1, <2>2, SilencedType DEF ImportInv, ImportTypeOK
  <2>7. Written
    BY <2>1, <2>6 DEF Written, ImportInv, ImportTypeOK, notes
  <2> QED
    BY <1>2, <2>5, <2>7, RemovalKeeps
<1>6. CASE RmTask
  <2>1. /\ Half(removal.pc) /\ removal' = [removal EXCEPT !.pc = "read"]
        /\ tasks' = DeleteTask(removal.id)
             \/ tasks' = UpdateTask(removal.id, [removal.row EXCEPT !.muted = TRUE])
        /\ dropped' = dropped \/ dropped' = dropped \cup {removal.id}
        /\ UNCHANGED <<binding, revoked, links, armed, scene, budget, mixed, cut, untold>>
    BY <1>6 DEF RmTask, Rm, Half
  <2>2. removal' \in Removal /\ removal'.pc = "read" /\ removal.id \in TaskId
    BY <1>1, <2>1 DEF Removal, ImportInv, RemovalOK
  <2>3. [removal.row EXCEPT !.muted = TRUE] \in TaskRow
    BY <1>1 DEF Removal, TaskRow
  <2>4. tasks' \in [TaskId -> TaskRow]
    BY <2>1, <2>2, <2>3, DeleteTaskType, UpdateTaskType DEF ImportInv
  <2>5. Written
    BY <2>1, <2>2, <2>4 DEF Written, ImportInv, ImportTypeOK
  <2> QED
    BY <1>2, <2>2, <2>5, RemovalKeeps DEF Half
<1>7. CASE RmLast
  <2>1. [removal EXCEPT !.pc = "revoke"] \in Removal /\ [removal EXCEPT !.pc = "revoke"].pc = "revoke"
    BY <1>1 DEF Removal
  <2>2. removal' \in Removal /\ ~Half(removal'.pc)
    BY <1>1, <1>7, <2>1 DEF RmLast, Rm, Half
  <2>3. [binding EXCEPT !.st = "disconnected"] \in BindingRow
    BY DEF BindingRow, ImportInv, ImportTypeOK
  <2>4. Written
    BY <1>7, <2>3 DEF RmLast, Written, ImportInv, ImportTypeOK, notes
  <2> QED
    BY <1>2, <2>2, <2>4, RemovalKeeps
<1>8. CASE RmRevoke
  <2>1. removal' \in Removal /\ ~Half(removal'.pc)
    BY <1>1, <1>8 DEF RmRevoke, Rm
  <2>2. Written
    BY <1>8 DEF RmRevoke, Written, ImportInv, ImportTypeOK, notes
  <2> QED
    BY <1>2, <2>1, <2>2, RemovalKeeps
<1> QED
  BY <1>3, <1>4, <1>5, <1>6, <1>7, <1>8 DEF RemovalStep

(* The world writes no types either.                                       *)
LEMMA WorldRows ==
  ASSUME ImportInv, UNCHANGED <<binding, revoked, links, scene, sync, removal>>,
         now' \in Time, edits' \in Nat, summary' \in Nat, google' \in [Event -> EventRow],
         tasks' \in [TaskId -> TaskRow], armed' \in [TaskId -> Nat \cup {Never}],
         budget' \in Nat, mixed' \in BOOLEAN, cut' = cut, untold' = untold,
         dropped' \subseteq TaskId \cup {NoTask}
  PROVE  ImportInv'
<1>1. \A r \in Syncer : SyncOK(r)'
  BY DEF ImportInv, SyncOK
<1>2. RemovalOK'
  BY DEF ImportInv, RemovalOK, Half
<1>3. ImportTypeOK'
  BY DEF ImportInv, ImportTypeOK
<1> QED
  BY <1>1, <1>2, <1>3 DEF ImportInv

LEMMA ActKeeps ==
  ASSUME ImportInv, NEW a, Act(a)
  PROVE  budget' \in Nat
  BY DEF Act, ImportInv, ImportTypeOK

LEMMA WorldKeeps ==
  ASSUME ImportInv,
         \/ Tick \/ Rename
         \/ \E e \in Event : EditEvent(e)
         \/ \E t \in TaskId : UserCompletes(t) \/ UserDeletes(t)
  PROVE  ImportInv'
<1>1. CASE Tick
  <2>1. now' \in Time
    <3>1. Sc.time \in 0..MaxTime /\ now \in 0..MaxTime
      BY ScenarioHasType DEF ScenarioType, ImportInv, ImportTypeOK, Time
    <3> QED
      BY <1>1, <3>1 DEF Tick, Time
  <2>2. armed' \in [TaskId -> Nat \cup {Never}]
    BY <1>1 DEF Tick, ImportInv, ImportTypeOK
  <2> QED
    BY <1>1, <2>1, <2>2, WorldRows DEF Tick, notes, ImportInv, ImportTypeOK
<1>2. CASE Rename
  <2>1. budget' \in Nat /\ summary' \in Nat
    BY <1>2, ActKeeps DEF Rename, ImportInv, ImportTypeOK
  <2> QED
    BY <1>2, <2>1, WorldRows DEF Rename, rows, ImportInv, ImportTypeOK
<1>3. CASE \E e \in Event : EditEvent(e)
  <2>1. PICK e \in Event : EditEvent(e)
    BY <1>3
  <2>2. PICK row : Edit(e, row) /\ \/ row = google[e]
                                   \/ row = [google[e] EXCEPT !.st = "cancelled"]
                                   \/ \E t \in Time : row = [google[e] EXCEPT !.start = t, !.st = "live"]
    BY <2>1 DEF EditEvent
  <2>3. row \in EventRow
    <3>1. google[e] \in EventRow
      BY DEF ImportInv, ImportTypeOK
    <3>2. CASE row = [google[e] EXCEPT !.st = "cancelled"]
      BY <3>1, <3>2 DEF EventRow
    <3>3. CASE \E t \in Time : row = [google[e] EXCEPT !.start = t, !.st = "live"]
      <4>1. PICK t \in Time : row = [google[e] EXCEPT !.start = t, !.st = "live"]
        BY <3>3
      <4>2. t \in Nat
        BY DEF Time
      <4> QED
        BY <3>1, <4>1, <4>2 DEF EventRow
    <3> QED
      BY <2>2, <3>1, <3>2, <3>3
  <2>4. edits' \in Nat
    <3>1. edits' = edits + 1
      BY <2>2, Zenon DEF Edit
    <3> QED
      BY <3>1 DEF ImportInv, ImportTypeOK
  <2>5. [row EXCEPT !.ver = edits'] \in EventRow
    BY <2>3, <2>4 DEF EventRow
  <2>6. google' \in [Event -> EventRow]
    BY <2>2, <2>5 DEF Edit, ImportInv, ImportTypeOK
  <2> QED
    BY <2>2, <2>4, <2>6, WorldRows DEF Edit, rows, notes, ImportInv, ImportTypeOK
<1>4. CASE \E t \in TaskId : UserCompletes(t) \/ UserDeletes(t)
  <2>1. PICK t \in TaskId : UserCompletes(t) \/ UserDeletes(t)
    BY <1>4
  <2>2. tasks' \in [TaskId -> TaskRow]
    <3>1. CASE UserCompletes(t)
      <4>1. tasks[t] \in TaskRow
        BY DEF ImportInv, ImportTypeOK
      <4>2. [tasks[t] EXCEPT !.done = TRUE] \in TaskRow
        BY <4>1 DEF TaskRow
      <4>3. tasks' = [tasks EXCEPT ![t] = [tasks[t] EXCEPT !.done = TRUE]]
        BY <3>1 DEF UserCompletes
      <4> QED
        BY <4>2, <4>3 DEF ImportInv, ImportTypeOK
    <3>2. CASE UserDeletes(t)
      BY <3>2, DeleteTaskType DEF UserDeletes, ImportInv
    <3> QED
      BY <2>1, <3>1, <3>2
  <2>3. /\ armed' \in [TaskId -> Nat \cup {Never}] /\ mixed' \in BOOLEAN
        /\ dropped' \subseteq TaskId \cup {NoTask}
    BY <2>1 DEF UserCompletes, UserDeletes, ImportInv, ImportTypeOK, Busy
  <2>4. budget' \in Nat
    BY <2>1, ActKeeps DEF UserCompletes, UserDeletes
  <2> QED
    BY <2>1, <2>2, <2>3, <2>4, WorldRows
       DEF UserCompletes, UserDeletes, world, ImportInv, ImportTypeOK
<1> QED
  BY <1>1, <1>2, <1>3, <1>4

LEMMA FailureKeeps ==
  ASSUME ImportInv, Crash \/ RemovalFails \/ \E s \in Syncer : SyncFails(s)
  PROVE  ImportInv'
<1>1. budget' \in Nat
  BY ActKeeps DEF Crash, RemovalFails, SyncFails
<1>2. \A s \in Syncer : Half(sync[s].pc) => sync[s].id \in TaskId
  BY DEF ImportInv, SyncOK, Half, HasTask, Sync
<1>3. Half(removal.pc) => removal.id \in TaskId
  BY DEF ImportInv, RemovalOK, Removal
<1>4. untold' \subseteq TaskId
  <2>1. CASE Crash
    BY <1>2, <1>3, <2>1 DEF Crash, InHalf, ImportInv, ImportTypeOK
  <2>2. CASE RemovalFails
    BY <1>3, <2>2 DEF RemovalFails, ImportInv, ImportTypeOK
  <2>3. ASSUME NEW s \in Syncer, SyncFails(s) PROVE untold' \subseteq TaskId
    <3>1. untold' = untold \cup (IF Half(sync[s].pc) THEN {sync[s].id} ELSE {})
      BY <2>3, Zenon DEF SyncFails
    <3> QED
      BY <1>2, <3>1 DEF ImportInv, ImportTypeOK
  <2> QED
    BY <2>1, <2>2, <2>3
<1>5. Written
  BY <1>1, <1>4 DEF Crash, RemovalFails, SyncFails, Written, rows, ImportInv, ImportTypeOK
<1>6. NoRemoval \in Removal /\ ~Half(NoRemoval.pc) /\ NoSync \in Sync /\ NoSync.pc = "idle"
  BY ConstantTypes DEF NoRemoval, NoSync, Half
<1>7. CASE Crash
  <2>1. sync' \in [Syncer -> Sync] /\ \A s \in Syncer : SyncOK(s)'
    BY <1>6, <1>7 DEF Crash, SyncOK, HasTask
  <2>2. removal' \in Removal /\ RemovalOK'
    BY <1>6, <1>7 DEF Crash, RemovalOK
  <2>3. now' = now /\ google' = google /\ edits' = edits /\ summary' = summary
    BY <1>7 DEF Crash, world
  <2>4. ImportTypeOK'
    BY <1>5, <2>1, <2>2, <2>3 DEF Written, ImportInv, ImportTypeOK
  <2> QED
    BY <2>1, <2>2, <2>4 DEF ImportInv
<1>8. CASE RemovalFails
  BY <1>5, <1>6, <1>8, RemovalKeeps DEF RemovalFails
<1>9. CASE \E s \in Syncer : SyncFails(s)
  <2>1. PICK s \in Syncer : SyncFails(s)
    BY <1>9
  <2>2. PICK q : q = IF sync[s].pc = "refresh" THEN Go(s, "list")
       ELSE IF sync[s].pc = "failed" \/ (sync[s].pc = "next" /\ sync[s].todo = {}) THEN NoSync
       ELSE Fail(s)
    OBVIOUS
  <2>3. q \in Sync /\ q.pc \notin HasTask
    <3>1. Go(s, "list") \in Sync /\ Go(s, "list").pc = "list"
      BY DEF Go, Sync, ImportInv, SyncOK
    <3> QED
      BY <1>6, <2>2, <3>1, NextSyncs DEF HasTask
  <2>4. sync' = [sync EXCEPT ![s] = q] /\ UNCHANGED <<world, removal>>
    BY <2>1, <2>2 DEF SyncFails
  <2> QED
    BY <1>5, <2>3, <2>4, SyncKeeps
<1> QED
  BY <1>7, <1>8, <1>9

LEMMA ImportStep == ImportInv /\ [Next]_vars => ImportInv'
<1> SUFFICES ASSUME ImportInv, [Next]_vars PROVE ImportInv'
  OBVIOUS
<1>1. CASE Poll \/ ForceSync
  BY <1>1, BeginKeeps
<1>2. CASE \E s \in Syncer : SyncStep(s)
  BY <1>2, LookKeeps, TakeKeeps, MakeKeeps, TellKeeps, PolicyKeeps, EndKeeps DEF SyncStep
<1>3. CASE \E op \in {"delete", "disconnect"} : StartRemoval(op)
  BY <1>3, StartRemovalKeeps
<1>4. CASE RemovalStep
  BY <1>4, RemovalStepKeeps
<1>5. CASE World
  BY <1>5, WorldKeeps, FailureKeeps, TellKeeps DEF World
<1>6. CASE UNCHANGED vars
  <2>1. ImportTypeOK'
    BY <1>6 DEF vars, ImportInv, ImportTypeOK
  <2>2. RemovalOK' /\ \A s \in Syncer : SyncOK(s)'
    BY <1>6 DEF vars, ImportInv, RemovalOK, SyncOK, Half
  <2> QED
    BY <2>1, <2>2 DEF ImportInv
<1> QED
  BY <1>1, <1>2, <1>3, <1>4, <1>5, <1>6 DEF Next

LEMMA ImportStart == Init => ImportInv
<1> SUFFICES ASSUME Init PROVE ImportInv
  OBVIOUS
<1>1. scene \in DOMAIN Scenario /\ Sc \in ScenarioType
  BY ScenarioHasType DEF Init
<1>2. sync \in [Syncer -> Sync] /\ \A s \in Syncer : SyncOK(s)
  BY ConstantTypes DEF Init, SyncOK, NoSync, HasTask
<1>3. removal \in Removal /\ RemovalOK
  BY ConstantTypes DEF Init, RemovalOK, NoRemoval, Half
<1>4. armed \in [TaskId -> Nat \cup {Never}]
  <2>1. armed = [t \in TaskId |-> ReminderOf(Sc.tasks[t])]
    BY DEF Init
  <2>2. ASSUME NEW t \in TaskId
        PROVE  ReminderOf(Sc.tasks[t]) \in Nat \cup {Never}
    <3>1. Sc.tasks[t] \in TaskRow
      BY <1>1 DEF ScenarioType
    <3>2. Sc.tasks[t].start \in Nat
      BY <3>1 DEF TaskRow
    <3> QED
      BY <3>2, Zenon DEF ReminderOf
  <2> QED
    BY <2>1, <2>2, Zenon
<1>5. now \in Time
  BY DEF Init, Time
<1>6. ImportTypeOK
  BY <1>1, <1>2, <1>3, <1>4, <1>5, ConstantTypes DEF Init, ImportTypeOK, ScenarioType
<1> QED
  BY <1>2, <1>3, <1>6 DEF ImportInv

(* The variables of the import have their types, and a step that writes a  *)
(* task, a link or a message has the task it is for.                       *)
THEOREM ImportTypeCorrect == Spec => []ImportTypeOK
<1>1. ImportInv => ImportTypeOK
  BY DEF ImportInv
<1> QED
  BY <1>1, ImportStart, ImportStep, PTL DEF Spec

-----------------------------------------------------------------------------
(* What was removed stays removed.                                         *)

(* An account is only revoked when its binding is left behind.             *)
RevokedLast == removal.pc = "revoke" \/ revoked => binding.st = "disconnected"

(* No write of a sync, a removal or a user touches a row that was deleted. *)
Gentle ==
  /\ binding.st = "disconnected" => binding' = binding
  /\ \A t \in TaskId : tasks[t].st = "gone" => tasks'[t] = tasks[t]

LEMMA GentleWrites ==
  ASSUME ImportInv
  PROVE  /\ \A copy : binding.st = "disconnected" => UpdateBinding(copy) = binding
         /\ \A t \in TaskId : \A u, row : tasks[t].st = "gone" => UpdateTask(u, row)[t] = tasks[t]
         /\ \A t \in TaskId : \A u : tasks[t].st = "gone" => DeleteTask(u)[t] = tasks[t]
         /\ \A t \in Free : tasks[t].st = "none"
  BY DEF UpdateBinding, UpdateTask, DeleteTask, Exists, Free, ImportInv, ImportTypeOK

LEMMA SyncIsGentle ==
  ASSUME ImportInv, NEW s \in Syncer, SyncStep(s)
  PROVE  Gentle /\ revoked' = revoked /\ removal' = removal
<1>1. CASE Open(s) \/ List(s) \/ Relink(s) \/ ReadTask(s)
  BY <1>1 DEF Open, List, Relink, ReadTask, Gentle, rows
<1>2. CASE Refresh(s)
  BY <1>2, GentleWrites DEF Refresh, Gentle
<1>3. CASE TokenInvalid(s)
  BY <1>3, GentleWrites DEF TokenInvalid, ClearSyncToken, Gentle
<1>4. CASE Take(s)
  BY <1>4 DEF Take, Gentle
<1>5. CASE CreateTask(s)
  <2>1. PICK t \in Free : /\ tasks' = [tasks EXCEPT ![t] = sync[s].row]
                          /\ UNCHANGED <<binding, revoked, removal>>
    BY <1>5 DEF CreateTask
  <2>2. tasks[t].st = "none"
    BY GentleWrites
  <2> QED
    BY <2>1, <2>2 DEF Gentle, ImportInv, ImportTypeOK
<1>6. CASE CreateLink(s) \/ Tell(s) \/ Policy(s) \/ Unlink(s)
  BY <1>6 DEF CreateLink, Tell, Policy, Unlink, Gentle
<1>7. CASE WriteTask(s) \/ Drop(s) \/ Mute(s)
  BY <1>7, GentleWrites DEF WriteTask, Drop, Mute, Gentle
<1>8. CASE MarkSynced(s) \/ MarkError(s)
  BY <1>8, GentleWrites DEF MarkSynced, MarkError, Gentle
<1> QED
  BY <1>1, <1>2, <1>3, <1>4, <1>5, <1>6, <1>7, <1>8 DEF SyncStep

LEMMA RevokedStep ==
  ASSUME ImportInv, RevokedLast, [Next]_vars
  PROVE  Gentle /\ RevokedLast'
<1>1. Gentle /\ revoked' = revoked /\ removal' = removal => RevokedLast'
  BY DEF Gentle, RevokedLast
<1>2. CASE Poll \/ ForceSync
  BY <1>1, <1>2 DEF Poll, ForceSync, Begin, rows, Gentle
<1>3. CASE \E s \in Syncer : SyncStep(s)
  BY <1>1, <1>3, SyncIsGentle
<1>4. CASE \E op \in {"delete", "disconnect"} : StartRemoval(op)
  BY <1>4 DEF StartRemoval, Rm, NoRemoval, rows, Gentle, RevokedLast
<1>5. CASE RemovalStep
  <2>1. removal \in Removal
    BY DEF ImportInv, RemovalOK
  <2>2. Gentle
    <3>1. CASE RmTask
      BY <3>1, GentleWrites DEF RmTask, Gentle
    <3>2. CASE RmLast
      BY <3>2 DEF RmLast, Gentle
    <3>3. CASE RmBinding \/ RmLinks \/ RmRead \/ RmRevoke
      <4>1. UNCHANGED <<binding, tasks>>
        BY <3>3 DEF RmBinding, RmLinks, RmRead, RmRevoke, rows
      <4> QED
        BY <4>1 DEF Gentle
    <3> QED
      BY <1>5, <3>1, <3>2, <3>3 DEF RemovalStep
  <2>3. CASE RmRevoke
    BY <2>2, <2>3 DEF RmRevoke, Rm, RevokedLast, Gentle
  <2>4. CASE RmLast
    <3>1. binding' = IF binding.st = "disconnected" THEN binding
                     ELSE [binding EXCEPT !.st = "disconnected"]
      BY <2>4, Zenon DEF RmLast
    <3>2. binding'.st = "disconnected"
      BY <3>1 DEF ImportInv, ImportTypeOK, BindingRow
    <3> QED
      BY <2>2, <3>2 DEF RevokedLast
  <2>5. CASE RmBinding \/ RmLinks \/ RmRead \/ RmTask
    <3>1. removal'.pc # "revoke"
      <4>1. CASE RmBinding
        BY <2>1, <4>1 DEF RmBinding, Rm, NoRemoval, Removal
      <4>2. CASE RmLinks
        BY <2>1, <4>2 DEF RmLinks, Rm, Removal
      <4>3. CASE RmRead
        <5>1. PICK t \in removal.todo : Rm("read", [removal EXCEPT !.todo = @ \ {t}, !.id = t,
                !.row = tasks[t],
                !.pc = IF ~Exists(t) \/ PolicyPc(t) = "next" THEN "read" ELSE PolicyPc(t)])
          BY <4>3 DEF RmRead
        <5>2. PolicyPc(t) \in {"drop", "mute", "next"}
          BY DEF PolicyPc
        <5> QED
          BY <2>1, <5>1, <5>2 DEF Rm, Removal
      <4>4. CASE RmTask
        BY <2>1, <4>4 DEF RmTask, Rm, Removal
      <4> QED
        BY <2>5, <4>1, <4>2, <4>3, <4>4
    <3>2. revoked' = revoked /\ binding' = binding
      BY <2>5 DEF RmBinding, RmLinks, RmRead, RmTask, rows
    <3> QED
      BY <2>2, <3>1, <3>2 DEF RevokedLast
  <2> QED
    BY <1>5, <2>2, <2>3, <2>4, <2>5 DEF RemovalStep
<1>6. CASE World
  <2>1. Gentle /\ revoked' = revoked
    <3>1. CASE \E t \in TaskId : UserCompletes(t) \/ UserDeletes(t)
      BY <3>1, GentleWrites
         DEF UserCompletes, UserDeletes, Gentle, Exists, ImportInv, ImportTypeOK
    <3> QED
      BY <1>6, <3>1 DEF World, Tick, Rename, Crash, RemovalFails, EditEvent, Edit, SyncFails,
                        PublishFails, rows, Gentle
  <2>2. removal' = removal \/ removal' = NoRemoval
    BY <1>6 DEF World, Tick, Rename, Crash, RemovalFails, EditEvent, Edit, SyncFails,
                PublishFails, UserCompletes, UserDeletes
  <2> QED
    BY <2>1, <2>2 DEF RevokedLast, Gentle, NoRemoval
<1>7. CASE UNCHANGED vars
  BY <1>1, <1>7 DEF vars, Gentle
<1> QED
  BY <1>2, <1>3, <1>4, <1>5, <1>6, <1>7 DEF Next

(* A binding that was deleted, and a task that is gone, are written by     *)
(* nobody any more, whatever row a sync or a removal that overlapped the   *)
(* deletion, and read it before, still holds; and an account is revoked    *)
(* only when its binding is deleted.                                       *)
THEOREM RemovedStaysCorrect == Spec => RemovedStays
<1> DEFINE I == ImportInv /\ RevokedLast
<1>1. Init => I
  BY ImportStart DEF Init, RevokedLast, NoRemoval
<1>2. I /\ [Next]_vars => I'
  BY ImportStep, RevokedStep
<1>3. I /\ [Next]_vars =>
        [ /\ binding.st = "disconnected" => binding' = binding
          /\ \A t \in TaskId : tasks[t].st = "gone" => tasks'[t] = tasks[t]
          /\ revoked' => binding'.st = "disconnected" ]_vars
  BY RevokedStep DEF Gentle, RevokedLast
<1> HIDE DEF I
<1> QED
  BY <1>1, <1>2, <1>3, PTL DEF Spec, RemovedStays

-----------------------------------------------------------------------------
(* What a sync has in its hand.                                            *)

(* Task t was made for event e, whatever became of it.                     *)
IsTask(e, t) == t # NoTask /\ tasks[t].st # "none" /\ tasks[t].event = e

(* The calendar: what changes is newer than every token that was given;    *)
(* an event that was exported has its task.                                *)
CalOK(e) ==
  /\ google[e].ver <= edits /\ google[e].tag = Sc.events[e].tag
  /\ Kept(e) => google[e].st # "cancelled"
  /\ google[e].tag # NoTask => IsTask(e, google[e].tag)

(* A link is between an event and a task of that event.                    *)
LinkOK(e) == IF HasLink(e) THEN IsTask(e, links[e].task) ELSE links[e] = NoLink

Taken == {"create", "link", "read", "write", "tell", "relink"}
Left  == {"policy", "unlink", "drop", "mute"}
Past  == Taken \cup Left \cup {"next"}

(* The event, the link, the task and the row a sync holds fit each other.  *)
Hand(q) ==
  /\ q.pc \in {"idle", "open", "refresh", "list", "next", "link"} => q.link = NoLink
  /\ q.pc \in {"create", "link", "read", "write", "mute"} => q.row.event = q.of /\ q.row.st = "live"
  /\ q.pc \in Left \cup {"link", "read", "write", "tell"} => IsTask(q.of, q.id)
  /\ q.pc = "unlink" => tasks[q.id].st = "gone"
  /\ q.pc \in {"read", "write"} => q.link # NoLink /\ q.link.task = q.id
  /\ q.pc = "create" /\ q.link # NoLink =>
       IsTask(q.of, q.link.task) /\ tasks[q.link.task].st = "gone"
  /\ q.pc \in {"create", "link"} /\ q.link = NoLink => google[q.of].tag = NoTask

(* Something listed is what the calendar still says, if that did not       *)
(* change since.                                                           *)
ListedOf(x, upto) ==
  /\ x.row.tag = google[x.ev].tag /\ x.row.st # "none"
  /\ Kept(x.ev) => x.row.st # "cancelled"
  /\ google[x.ev].ver <= upto => x.row = google[x.ev]

(* What a sync has of the calendar: a token it got, what was listed, and   *)
(* in its hand the event as it was listed.                                 *)
Listing(q) ==
  /\ q.copy.token <= edits /\ q.upto <= edits
  /\ q.pc \in Past => q.copy.token <= q.upto
  /\ \A x \in q.todo : ListedOf(x, q.upto)
  /\ q.pc \in Left =>
       ~Kept(q.of) /\ (google[q.of].ver <= q.upto => google[q.of].st = "cancelled")
  /\ q.pc \in Taken /\ google[q.of].ver <= q.upto => google[q.of].st = "live"
  /\ q.pc \in {"create", "read", "write"} /\ google[q.of].ver <= q.upto
       => q.row.text = google[q.of].ver

(* So has a removal.                                                       *)
RemovalHand ==
  /\ \A t \in removal.todo : tasks[t].st # "none"
  /\ removal.pc \in {"drop", "mute"} =>
       /\ tasks[removal.id].st # "none"
       /\ removal.row.event = tasks[removal.id].event /\ removal.row.st = "live"

FlowInv ==
  /\ ImportInv
  /\ \A e \in Event : CalOK(e) /\ LinkOK(e)
  /\ \A s \in Syncer : Hand(sync[s]) /\ Listing(sync[s])
  /\ RemovalHand
  /\ binding.token <= edits

(* No task is forgotten or comes back, and its event stays the same.       *)
TasksGrow ==
  \A t \in TaskId : tasks[t].st # "none" =>
    /\ tasks'[t].st # "none" /\ tasks'[t].event = tasks[t].event
    /\ tasks[t].st = "gone" => tasks'[t].st = "gone"

(* A change of the calendar is newer than every token.                     *)
CalGrows ==
  /\ scene' = scene /\ edits' >= edits
  /\ \A e \in Event : google'[e] # google[e] =>
       /\ google'[e].ver > edits /\ google'[e].ver <= edits' /\ google'[e].tag = google[e].tag
       /\ Kept(e) => google'[e].st # "cancelled"

LEMMA FlowTypes ==
  ASSUME FlowInv
  PROVE  /\ tasks \in [TaskId -> TaskRow] /\ links \in [Event -> LinkRow]
         /\ google \in [Event -> EventRow] /\ edits \in Nat
         /\ binding \in BindingRow /\ binding.token \in Int
         /\ removal \in Removal /\ sync \in [Syncer -> Sync]
         /\ \A s \in Syncer : sync[s] \in Sync /\ sync[s].copy.token \in Int /\ sync[s].upto \in Nat
         /\ \A e \in Event : google[e] \in EventRow /\ google[e].ver \in Nat
         /\ scene \in DOMAIN Scenario
<1>1. ImportTypeOK /\ \A s \in Syncer : sync[s] \in Sync
  BY DEF FlowInv, ImportInv, SyncOK
<1>2. /\ binding \in BindingRow /\ removal \in Removal /\ sync \in [Syncer -> Sync]
      /\ google \in [Event -> EventRow] /\ scene \in DOMAIN Scenario
      /\ tasks \in [TaskId -> TaskRow] /\ links \in [Event -> LinkRow] /\ edits \in Nat
  BY <1>1 DEF ImportTypeOK
<1>3. \A b \in BindingRow : b.token \in Int
  BY DEF BindingRow, NoToken
<1>4. \A s \in Syncer : sync[s].copy \in BindingRow /\ sync[s].upto \in Nat
  BY <1>1 DEF Sync
<1>5. \A e \in Event : google[e] \in EventRow /\ google[e].ver \in Nat
  BY <1>2 DEF EventRow
<1> QED
  BY <1>1, <1>2, <1>3, <1>4, <1>5

LEMMA TaskStays ==
  ASSUME TasksGrow, NEW e, NEW t \in TaskId, IsTask(e, t)
  PROVE  IsTask(e, t)' /\ (tasks[t].st = "gone" => tasks'[t].st = "gone")
  BY DEF TasksGrow, IsTask

LEMMA CalStays ==
  ASSUME FlowInv, CalGrows, TasksGrow, edits' \in Nat
  PROVE  \A e \in Event : CalOK(e)'
<1> SUFFICES ASSUME NEW e \in Event PROVE CalOK(e)'
  OBVIOUS
<1>1. CalOK(e) /\ google[e] \in EventRow /\ edits \in Nat /\ google[e].ver \in Nat
  BY FlowTypes DEF FlowInv
<1>2. Kept(e)' <=> Kept(e)
  BY DEF CalGrows, Kept, Sc
<1>3. Sc' = Sc
  BY DEF CalGrows, Sc
<1>4. google'[e].tag = google[e].tag
  BY DEF CalGrows
<1>5. google'[e].ver <= edits'
  <2>1. CASE google'[e] = google[e]
    BY <1>1, <2>1 DEF CalGrows, CalOK
  <2>2. CASE google'[e] # google[e]
    BY <2>2 DEF CalGrows
  <2> QED
    BY <2>1, <2>2
<1>6. Kept(e) => google'[e].st # "cancelled"
  BY <1>1 DEF CalGrows, CalOK
<1>7. google[e].tag # NoTask => IsTask(e, google[e].tag)'
  <2>1. google[e].tag # NoTask => google[e].tag \in TaskId /\ IsTask(e, google[e].tag)
    BY <1>1 DEF CalOK, EventRow
  <2>2. PICK t : t = google[e].tag
    OBVIOUS
  <2>3. t # NoTask => IsTask(e, t)'
    BY <2>1, <2>2, TaskStays
  <2> QED
    BY <1>4, <2>2, <2>3 DEF IsTask
<1> QED
  BY <1>1, <1>2, <1>3, <1>4, <1>5, <1>6, <1>7 DEF CalOK, IsTask

LEMMA LinksStay ==
  ASSUME FlowInv, TasksGrow, links' = links
  PROVE  \A e \in Event : LinkOK(e)'
<1> SUFFICES ASSUME NEW e \in Event PROVE LinkOK(e)'
  OBVIOUS
<1>1. LinkOK(e) /\ links[e] \in LinkRow
  BY FlowTypes DEF FlowInv
<1>2. PICK t : t = links[e].task
  OBVIOUS
<1>3. t # NoTask => t \in TaskId /\ IsTask(e, t)
  BY <1>1, <1>2 DEF LinkOK, HasLink, LinkRow
<1>4. t # NoTask => IsTask(e, t)'
  BY <1>3, TaskStays
<1> QED
  BY <1>1, <1>2, <1>4 DEF LinkOK, HasLink, IsTask

LEMMA HandStays ==
  ASSUME TasksGrow, \A e \in Event : google'[e].tag = google[e].tag, NEW q \in Sync, Hand(q)
  PROVE  Hand(q)'
<1>1. /\ q.of \in Event /\ q.id \in TaskId \cup {NoTask} /\ q.link \in LinkRow
      /\ q.link.task \in TaskId \cup {NoTask}
  BY DEF Sync, LinkRow
<1>2. PICK t : t = q.id
  OBVIOUS
<1>3. PICK u : u = q.link.task
  OBVIOUS
<1>4. IsTask(q.of, t) => IsTask(q.of, t)' /\ (tasks[t].st = "gone" => tasks'[t].st = "gone")
  BY <1>1, <1>2, TaskStays DEF IsTask
<1>5. IsTask(q.of, u) => IsTask(q.of, u)' /\ (tasks[u].st = "gone" => tasks'[u].st = "gone")
  BY <1>1, <1>3, TaskStays DEF IsTask
<1> QED
  BY <1>1, <1>2, <1>3, <1>4, <1>5 DEF Hand, Left

LEMMA ListingStays ==
  ASSUME FlowInv, CalGrows, edits' \in Nat, \A e \in Event : google'[e].ver \in Nat,
         NEW q \in Sync, Listing(q)
  PROVE  Listing(q)'
<1>1. /\ q.of \in Event /\ q.upto \in Nat /\ q.copy.token \in Int
      /\ \A x \in q.todo : x.ev \in Event
  BY DEF Sync, BindingRow, NoToken, Listed
<1>2. edits \in Nat /\ edits' >= edits /\ \A e \in Event : google[e].ver \in Nat
  BY FlowTypes DEF CalGrows
<1>3. q.copy.token <= edits' /\ q.upto <= edits'
  BY <1>1, <1>2 DEF Listing
<1>4. \A e \in Event : google'[e].ver <= q.upto => google'[e] = google[e]
  BY <1>1, <1>2 DEF CalGrows, Listing
<1>5. \A e \in Event : (Kept(e)' <=> Kept(e)) /\ google'[e].tag = google[e].tag
  BY DEF CalGrows, Kept, Sc
<1>6. \A x \in q.todo : ListedOf(x, q.upto)'
  BY <1>1, <1>4, <1>5, SMTT(30) DEF ListedOf, Listing
<1>7. q.pc \in Left => ~Kept(q.of)'
  BY <1>1, <1>5 DEF Listing
<1>8. google'[q.of].ver <= q.upto => google'[q.of] = google[q.of]
  BY <1>1, <1>4
<1> QED
  BY <1>3, <1>6, <1>7, <1>8 DEF Listing

LEMMA RemovalStays ==
  ASSUME FlowInv, TasksGrow, removal' = removal
  PROVE  RemovalHand'
<1>1. removal \in Removal /\ removal.todo \subseteq TaskId
  BY FlowTypes DEF Removal
<1>2. removal.pc \in {"drop", "mute"} => removal.id \in TaskId
  BY <1>1 DEF FlowInv, ImportInv, RemovalOK, Half, Removal
<1> QED
  BY <1>1, <1>2 DEF TasksGrow, RemovalHand, FlowInv

(* A step keeps the invariant if it keeps what it changes itself.          *)
LEMMA FlowKeeps ==
  ASSUME FlowInv, ImportInv', TasksGrow, CalGrows, \A e \in Event : LinkOK(e)', RemovalHand',
         binding'.token <= edits',
         \A s \in Syncer : \/ sync'[s] = sync[s]
                           \/ \E q \in Sync : sync'[s] = q /\ Hand(q)' /\ Listing(q)'
  PROVE  FlowInv'
<1>1. edits' \in Nat /\ \A e \in Event : google'[e].ver \in Nat
  BY DEF ImportInv, ImportTypeOK, EventRow
<1>2. \A e \in Event : google'[e].tag = google[e].tag
  BY DEF CalGrows
<1>3. \A e \in Event : CalOK(e)'
  BY <1>1, CalStays
<1>4. ASSUME NEW s \in Syncer PROVE Hand(sync[s])' /\ Listing(sync[s])'
  <2>1. PICK q \in Sync : sync'[s] = q /\ Hand(q)' /\ Listing(q)'
    <3>1. CASE sync'[s] = sync[s]
      <4>1. PICK q : q = sync[s]
        OBVIOUS
      <4>2. q \in Sync /\ Hand(q) /\ Listing(q)
        BY <4>1, FlowTypes DEF FlowInv
      <4> QED
        BY <1>1, <1>2, <3>1, <4>1, <4>2, HandStays, ListingStays
    <3> QED
      BY <3>1
  <2>2. Hand(sync[s])'
    BY <2>1 DEF Hand, IsTask
  <2>3. Listing(sync[s])'
    BY <2>1 DEF Listing
  <2> QED
    BY <2>2, <2>3
<1> QED
  BY <1>3, <1>4 DEF FlowInv

LEMMA WorldStill ==
  ASSUME FlowInv, UNCHANGED world, scene' = scene
  PROVE  /\ CalGrows /\ edits' = edits
         /\ \A q : Listing(q)' <=> Listing(q)
<1>1. edits' = edits /\ google' = google /\ edits \in Nat
  BY FlowTypes DEF world
<1>2. \A e : Kept(e)' <=> Kept(e)
  BY DEF Kept, Sc
<1>3. \A x, u : ListedOf(x, u)' <=> ListedOf(x, u)
  BY <1>1, <1>2 DEF ListedOf
<1> QED
  BY <1>1, <1>2, <1>3 DEF CalGrows, Listing

LEMMA SyncFlow ==
  ASSUME FlowInv, ImportInv', NEW s \in Syncer, NEW q \in Sync, sync' = [sync EXCEPT ![s] = q],
         Hand(q)', Listing(q), UNCHANGED world, scene' = scene, removal' = removal,
         TasksGrow, \A e \in Event : LinkOK(e)', binding'.token <= edits
  PROVE  FlowInv'
<1>1. CalGrows /\ edits' = edits /\ Listing(q)'
  BY WorldStill
<1>2. RemovalHand'
  BY RemovalStays
<1>3. ASSUME NEW r \in Syncer
      PROVE  \/ sync'[r] = sync[r]
             \/ \E p \in Sync : sync'[r] = p /\ Hand(p)' /\ Listing(p)'
  <2>1. CASE r = s
    <3>1. sync'[r] = q
      BY <2>1, FlowTypes
    <3> QED
      BY <1>1, <3>1
  <2>2. CASE r # s
    BY <2>2, FlowTypes
  <2> QED
    BY <2>1, <2>2
<1> QED
  BY <1>1, <1>2, <1>3, FlowKeeps

LEMMA QuietHand ==
  ASSUME NEW q, \/ q.pc \in {"failed", "relink"}
                \/ q.pc \in {"idle", "open", "refresh", "list", "next"} /\ q.link = NoLink
  PROVE  Hand(q) /\ Hand(q)'
  BY DEF Hand, Left

(* How a sync goes on when it is through with an event, or ends.           *)
LEMMA SyncEnds ==
  ASSUME FlowInv, NEW s \in Syncer
  PROVE  /\ NoSync \in Sync /\ Listing(NoSync) /\ NoSync.pc = "idle" /\ NoSync.link = NoLink
         /\ Fail(s) \in Sync /\ Listing(Fail(s)) /\ Fail(s).pc = "failed"
         /\ NextEvent(s) \in Sync /\ NextEvent(s).pc = "next" /\ NextEvent(s).link = NoLink
         /\ sync[s].pc \in Past => Listing(NextEvent(s))
<1>1. /\ NoSync \in Sync /\ Fail(s) \in Sync /\ NextEvent(s) \in Sync
      /\ Fail(s).pc = "failed" /\ NextEvent(s).pc = "next"
  BY ConstantTypes, NextSyncs DEF FlowInv
<1>2. /\ NoSync.pc = "idle" /\ NoSync.link = NoLink /\ NoSync.todo = {} /\ NoSync.upto = 0
      /\ NoSync.copy.token = NoToken
  BY DEF NoSync, NewBinding
<1>3. /\ Fail(s).todo = {} /\ Fail(s).upto = 0 /\ Fail(s).copy = sync[s].copy
      /\ NextEvent(s).link = NoLink /\ NextEvent(s).todo = sync[s].todo
      /\ NextEvent(s).upto = sync[s].upto /\ NextEvent(s).copy = sync[s].copy
  BY DEF Fail, NextEvent, NoSync
<1>4. edits \in Nat /\ Listing(sync[s])
  BY FlowTypes DEF FlowInv
<1>5. Listing(NoSync)
  BY <1>2, <1>4 DEF Listing, Past, Left, Taken, NoToken
<1>6. Listing(Fail(s))
  BY <1>1, <1>3, <1>4 DEF Listing, Past, Left, Taken
<1>7. sync[s].pc \in Past => Listing(NextEvent(s))
  BY <1>1, <1>3, <1>4 DEF Listing, Left, Taken
<1> QED
  BY <1>1, <1>2, <1>3, <1>5, <1>6, <1>7

LEMMA SameTasks ==
  ASSUME FlowInv, tasks' = tasks
  PROVE  TasksGrow
  BY DEF TasksGrow

LEMMA BeginFlow ==
  ASSUME FlowInv, ImportInv', Poll \/ ForceSync
  PROVE  FlowInv'
<1>1. PICK s \in Syncer : Begin(s)
  BY DEF Poll, ForceSync, Syncer
<1>2. PICK q : q = [sync[s] EXCEPT !.pc = "open", !.copy = binding]
  OBVIOUS
<1>3. sync[s] \in Sync /\ sync[s].pc = "idle" /\ Hand(sync[s]) /\ Listing(sync[s])
  BY <1>1, FlowTypes DEF FlowInv, Begin
<1>4. /\ q \in Sync /\ q.pc = "open" /\ q.link = sync[s].link /\ q.todo = sync[s].todo
      /\ q.upto = sync[s].upto /\ q.copy = binding
  BY <1>2, <1>3, FlowTypes DEF Sync
<1>5. sync' = [sync EXCEPT ![s] = q]
  BY <1>1, <1>2, FlowTypes DEF Begin
<1>6. Hand(q)'
  BY <1>3, <1>4, QuietHand DEF Hand
<1>7. Listing(q)
  BY <1>3, <1>4 DEF Listing, Past, Left, Taken, FlowInv
<1>8. UNCHANGED <<world, rows, removal, scene>>
  BY <1>1 DEF Begin
<1>9. TasksGrow /\ (\A e \in Event : LinkOK(e)') /\ binding'.token <= edits
  BY <1>8, SameTasks, LinksStay DEF rows, FlowInv
<1> QED
  BY <1>4, <1>5, <1>6, <1>7, <1>8, <1>9, SyncFlow

LEMMA LookFlow ==
  ASSUME FlowInv, ImportInv', NEW s \in Syncer, Open(s) \/ Refresh(s) \/ List(s) \/ TokenInvalid(s)
  PROVE  FlowInv'
<1>1. sync[s] \in Sync /\ Hand(sync[s]) /\ Listing(sync[s])
  BY FlowTypes DEF FlowInv
<1>2. /\ UNCHANGED <<world, links, tasks, removal, scene>>
      /\ sync[s].pc \in {"open", "refresh", "list"} /\ sync[s].link = NoLink
  <2>1. UNCHANGED <<world, links, tasks, removal, scene>> /\ sync[s].pc \in {"open", "refresh", "list"}
    BY DEF Open, Refresh, List, TokenInvalid, Step, rows, notes
  <2> QED
    BY <1>1, <2>1 DEF Hand
<1>3. TasksGrow /\ \A e \in Event : LinkOK(e)'
  BY <1>2, SameTasks, LinksStay
<1>4. /\ UpdateBinding(binding) = binding
      /\ \A b \in BindingRow : b.token <= edits => UpdateBinding(b).token <= edits
  BY DEF UpdateBinding, FlowInv
<1>5. CASE Open(s)
  <2>1. PICK q : q = IF Connected THEN Go(s, "refresh") ELSE Fail(s)
    OBVIOUS
  <2>2. q \in Sync /\ Listing(q) /\ Hand(q)'
    <3>1. CASE q = Fail(s)
      BY <3>1, SyncEnds, QuietHand
    <3>2. CASE q = Go(s, "refresh")
      <4>1. /\ q \in Sync /\ q.pc = "refresh" /\ q.link = NoLink /\ q.copy = sync[s].copy
            /\ q.todo = sync[s].todo /\ q.upto = sync[s].upto
        BY <1>1, <1>2, <3>2 DEF Go, Sync
      <4>2. Listing(q)
        BY <1>1, <4>1 DEF Listing, Past, Left, Taken
      <4> QED
        BY <4>1, <4>2, QuietHand
    <3> QED
      BY <2>1, <3>1, <3>2
  <2>3. sync' = [sync EXCEPT ![s] = q] /\ binding' = binding
    BY <1>5, <2>1 DEF Open, Step, rows
  <2> QED
    BY <1>2, <1>3, <2>2, <2>3, SyncFlow DEF FlowInv
<1>6. CASE Refresh(s)
  <2>1. PICK c : c = [sync[s].copy EXCEPT !.summary = summary]
    OBVIOUS
  <2>2. c \in BindingRow /\ c.token = sync[s].copy.token
    BY <1>1, <2>1 DEF Sync, BindingRow, FlowInv, ImportInv, ImportTypeOK
  <2>3. PICK q : q = [sync[s] EXCEPT !.pc = "list", !.copy = c]
    OBVIOUS
  <2>4. /\ q \in Sync /\ q.pc = "list" /\ q.copy = c /\ q.link = NoLink
        /\ q.todo = sync[s].todo /\ q.upto = sync[s].upto
    BY <1>1, <1>2, <2>2, <2>3 DEF Sync
  <2>5. sync' = [sync EXCEPT ![s] = q] /\ (binding' = binding \/ binding' = UpdateBinding(c))
    BY <1>6, <2>1, <2>3 DEF Refresh, Step
  <2>6. Listing(q) /\ c.token <= edits
    BY <1>1, <2>2, <2>4 DEF Listing, Past, Left, Taken
  <2>7. binding'.token <= edits
    BY <1>4, <2>2, <2>5, <2>6 DEF FlowInv
  <2>8. Hand(q)'
    BY <2>4, QuietHand
  <2> QED
    BY <1>2, <1>3, <2>4, <2>5, <2>6, <2>7, <2>8, SyncFlow
<1>7. CASE List(s)
  <2>1. PICK q : q = [sync[s] EXCEPT !.pc = "next", !.upto = edits,
                                     !.todo = ListEvents(sync[s].copy.token)]
    OBVIOUS
  <2>2. ListEvents(sync[s].copy.token) \in SUBSET Listed
    BY ListEventsType DEF FlowInv, ImportInv
  <2>3. /\ q \in Sync /\ q.pc = "next" /\ q.link = NoLink /\ q.copy = sync[s].copy
        /\ q.todo = ListEvents(sync[s].copy.token) /\ q.upto = edits
    BY <1>1, <1>2, <2>1, <2>2, FlowTypes DEF Sync
  <2>4. ASSUME NEW x \in q.todo PROVE ListedOf(x, edits)
    <3>1. PICK e \in Event : x = [ev |-> e, row |-> google[e]] /\ google[e].st # "none"
      BY <2>3 DEF ListEvents
    <3> QED
      BY <3>1 DEF ListedOf, FlowInv, CalOK
  <2>5. Listing(q)
    BY <1>1, <2>3, <2>4, FlowTypes DEF Listing, Left, Taken
  <2>6. sync' = [sync EXCEPT ![s] = q] /\ binding' = binding
    BY <1>7, <2>1 DEF List, Step, rows
  <2>7. Hand(q)'
    BY <2>3, QuietHand
  <2> QED
    BY <1>2, <1>3, <2>3, <2>5, <2>6, <2>7, SyncFlow DEF FlowInv
<1>8. CASE TokenInvalid(s)
  <2>1. PICK c : c = [sync[s].copy EXCEPT !.token = NoToken]
    OBVIOUS
  <2>2. c \in BindingRow /\ c.token = NoToken
    BY <1>1, <2>1 DEF Sync, BindingRow
  <2>3. PICK q : q = [sync[s] EXCEPT !.copy = c]
    OBVIOUS
  <2>4. /\ q \in Sync /\ q.pc = "list" /\ q.copy = c /\ q.link = NoLink
        /\ q.todo = sync[s].todo /\ q.upto = sync[s].upto
    BY <1>1, <1>2, <1>8, <2>2, <2>3 DEF Sync, TokenInvalid, Step
  <2>5. PICK b : b = [binding EXCEPT !.token = NoToken]
    OBVIOUS
  <2>6. b \in BindingRow /\ b.token = NoToken
    BY <2>5, FlowTypes DEF BindingRow
  <2>7. /\ sync' = [sync EXCEPT ![s] = [sync[s] EXCEPT !.copy.token = NoToken]]
        /\ binding' = UpdateBinding(b)
    BY <1>8, <2>5 DEF TokenInvalid, Step, ClearSyncToken
  <2>8. sync' = [sync EXCEPT ![s] = q]
    BY <2>1, <2>3, <2>7
  <2>9. NoToken <= edits
    BY FlowTypes DEF NoToken
  <2>10. Listing(q)
    BY <1>1, <2>2, <2>4, <2>9 DEF Listing, Past, Left, Taken
  <2>11. Hand(q)'
    BY <2>4, QuietHand
  <2>12. binding'.token <= edits
    BY <1>4, <2>6, <2>7, <2>9
  <2> QED
    BY <1>2, <1>3, <2>4, <2>8, <2>10, <2>11, <2>12, SyncFlow
<1> QED
  BY <1>5, <1>6, <1>7, <1>8

(* The link an event is taken for is its own.                              *)
LEMMA OwnLink ==
  ASSUME FlowInv, NEW x \in Listed, x.row.tag = google[x.ev].tag, NEW e \in LinkedEvents(x)
  PROVE  e = x.ev /\ HasLink(x.ev) /\ IsTask(x.ev, links[x.ev].task)
<1>1. x.ev \in Event /\ e \in Event
  BY DEF Listed, LinkedEvents
<1>2. LinkOK(x.ev) /\ LinkOK(e) /\ CalOK(x.ev)
  BY <1>1 DEF FlowInv
<1>3. CASE HasLink(x.ev)
  BY <1>2, <1>3 DEF LinkedEvents, LinkOK
<1>4. CASE ~HasLink(x.ev)
  <2>1. x.row.tag # NoTask /\ links[e].task = x.row.tag
    BY <1>4 DEF LinkedEvents
  <2>2. HasLink(e) /\ IsTask(e, x.row.tag) /\ IsTask(x.ev, x.row.tag)
    BY <1>2, <2>1 DEF LinkOK, HasLink, CalOK
  <2> QED
    BY <1>4, <2>2 DEF IsTask
<1> QED
  BY <1>3, <1>4

LEMMA TakeFlow ==
  ASSUME FlowInv, ImportInv', NEW s \in Syncer, Take(s)
  PROVE  FlowInv'
<1>1. sync[s] \in Sync /\ Hand(sync[s]) /\ Listing(sync[s]) /\ links \in [Event -> LinkRow]
  BY FlowTypes DEF FlowInv
<1>2. PICK x \in sync[s].todo :
        LET skipped == [sync[s] EXCEPT !.todo = @ \ {x}]
            taken  == [sync[s] EXCEPT !.todo = @ \ {x}, !.of = x.ev]
            fields == [taken EXCEPT !.row = Fields(x)]
            with(e) == [fields EXCEPT !.of = e, !.link = links[e], !.id = links[e].task]
        IN
        /\ UNCHANGED <<world, binding, revoked, tasks, armed, removal, notes>>
        /\ \/ /\ x.row.st = "cancelled" /\ ~HasLink(x.ev)
              /\ Step(s, "next", skipped)
              /\ UNCHANGED links
           \/ /\ x.row.st = "cancelled" /\ HasLink(x.ev)
              /\ Step(s, "next", [taken EXCEPT !.pc = "policy", !.link = links[x.ev],
                                               !.id = links[x.ev].task])
              /\ UNCHANGED links
           \/ /\ x.row.st = "live" /\ LinkedEvents(x) = {} /\ x.row.tag # NoTask
              /\ Step(s, "next", skipped)
              /\ links' = [links EXCEPT ![x.ev] = [task |-> x.row.tag, origin |-> "exported"]]
           \/ /\ x.row.st = "live" /\ LinkedEvents(x) = {} /\ x.row.tag = NoTask
              /\ Step(s, "next", IF x.row.bad THEN Fail(s)
                                 ELSE [fields EXCEPT !.pc = "create"])
              /\ UNCHANGED links
           \/ \E e \in LinkedEvents(x) :
              /\ x.row.st = "live"
              /\ Step(s, "next", IF x.row.bad THEN Fail(s)
                                 ELSE [with(e) EXCEPT !.pc = "read"])
              /\ UNCHANGED links
  BY DEF Take
<1>3. x \in Listed /\ x.ev \in Event /\ ListedOf(x, sync[s].upto)
  BY <1>1 DEF Sync, Listed, Listing
<1>4. sync[s].pc = "next" /\ sync[s].link = NoLink
  <2>1. sync[s].pc = "next"
    BY <1>2 DEF Step
  <2> QED
    BY <1>1, <2>1 DEF Hand
<1>5. UNCHANGED <<world, binding, tasks, removal, scene>>
  BY <1>2 DEF notes
<1>6. PICK skipped : skipped = [sync[s] EXCEPT !.todo = @ \ {x}]
  OBVIOUS
<1>7. PICK taken : taken = [sync[s] EXCEPT !.todo = @ \ {x}, !.of = x.ev]
  OBVIOUS
<1>8. PICK f : f = Fields(x)
  OBVIOUS
<1>9. f \in TaskRow /\ f.event = x.ev /\ f.st = "live" /\ f.text = x.row.ver
  <2>1. f \in TaskRow
    BY <1>3, <1>8, FieldsType DEF FlowInv, ImportInv
  <2> QED
    BY <1>8, <2>1 DEF Fields
<1>10. /\ skipped \in Sync /\ skipped.pc = "next" /\ skipped.link = NoLink
       /\ skipped.todo \subseteq sync[s].todo
       /\ skipped.upto = sync[s].upto /\ skipped.copy = sync[s].copy
  BY <1>1, <1>4, <1>6 DEF Sync
<1>11. /\ taken \in Sync /\ taken.pc = "next" /\ taken.link = NoLink /\ taken.of = x.ev
       /\ taken.todo \subseteq sync[s].todo
       /\ taken.upto = sync[s].upto /\ taken.copy = sync[s].copy
  BY <1>1, <1>3, <1>4, <1>7 DEF Sync
<1>12. TasksGrow /\ binding'.token <= edits
  BY <1>5, SameTasks DEF FlowInv
<1>13. links' = links => \A e \in Event : LinkOK(e)'
  BY <1>12, LinksStay
<1>14. Hand(skipped)' /\ Listing(skipped)
  BY <1>1, <1>10, <1>4, QuietHand DEF Listing, Past, Left, Taken
<1>15. \A t : IsTask(x.ev, t)' <=> IsTask(x.ev, t)
  BY <1>5 DEF IsTask
<1>16. sync[s].copy.token <= sync[s].upto
  BY <1>1, <1>4 DEF Listing, Past
<1>17. CASE Step(s, "next", skipped) /\ links' = links
  BY <1>5, <1>10, <1>12, <1>13, <1>14, <1>17, SyncFlow DEF Step
<1>18. CASE /\ x.row.tag # NoTask /\ Step(s, "next", skipped)
            /\ links' = [links EXCEPT ![x.ev] = [task |-> x.row.tag, origin |-> "exported"]]
  <2>1. PICK t : t = x.row.tag
    OBVIOUS
  <2>2. IsTask(x.ev, t)
    BY <1>3, <1>18, <2>1 DEF ListedOf, FlowInv, CalOK
  <2>3. ASSUME NEW e \in Event PROVE LinkOK(e)'
    <3>1. CASE e = x.ev
      <4>1. links'[e] = [task |-> t, origin |-> "exported"] /\ t # NoTask
        BY <1>1, <1>3, <1>18, <2>1, <3>1
      <4> QED
        BY <1>15, <2>2, <3>1, <4>1 DEF LinkOK, HasLink, IsTask
    <3>2. CASE e # x.ev
      <4>1. links'[e] = links[e]
        BY <1>1, <1>3, <1>18, <3>2
      <4> QED
        BY <1>5, <4>1 DEF LinkOK, HasLink, IsTask, FlowInv
    <3> QED
      BY <3>1, <3>2
  <2> QED
    BY <1>5, <1>10, <1>12, <1>14, <1>18, <2>3, SyncFlow DEF Step
<1>19. CASE /\ x.row.st = "cancelled" /\ HasLink(x.ev) /\ links' = links
            /\ Step(s, "next", [taken EXCEPT !.pc = "policy", !.link = links[x.ev],
                                             !.id = links[x.ev].task])
  <2>1. PICK t : t = links[x.ev].task
    OBVIOUS
  <2>2. PICK q : q = [taken EXCEPT !.pc = "policy", !.link = links[x.ev], !.id = t]
    OBVIOUS
  <2>3. t \in TaskId \cup {NoTask} /\ links[x.ev] \in LinkRow
    BY <1>1, <1>3, <2>1 DEF LinkRow
  <2>4. /\ q \in Sync /\ q.pc = "policy" /\ q.of = x.ev /\ q.id = t
        /\ q.todo \subseteq sync[s].todo /\ q.upto = sync[s].upto /\ q.copy = sync[s].copy
    BY <1>11, <2>2, <2>3 DEF Sync
  <2>5. IsTask(x.ev, t)
    BY <1>3, <1>19, <2>1 DEF FlowInv, LinkOK
  <2>6. Hand(q)'
    BY <1>15, <2>4, <2>5 DEF Hand, Left
  <2>7. Listing(q)
    BY <1>1, <1>3, <1>16, <1>19, <2>4 DEF Listing, ListedOf, Left, Taken
  <2>8. sync' = [sync EXCEPT ![s] = q]
    BY <1>19, <2>1, <2>2 DEF Step
  <2> QED
    BY <1>5, <1>12, <1>13, <1>19, <2>4, <2>6, <2>7, <2>8, SyncFlow
<1>20. ASSUME sync' = [sync EXCEPT ![s] = Fail(s)], links' = links PROVE FlowInv'
  <2>1. PICK q : q = Fail(s)
    OBVIOUS
  <2>2. q \in Sync /\ Listing(q) /\ Hand(q)' /\ sync' = [sync EXCEPT ![s] = q]
    BY <1>20, <2>1, SyncEnds, QuietHand
  <2> QED
    BY <1>5, <1>12, <1>13, <1>20, <2>2, SyncFlow
<1>21. CASE /\ x.row.st = "live" /\ x.row.tag = NoTask /\ links' = links
            /\ Step(s, "next", [[taken EXCEPT !.row = f] EXCEPT !.pc = "create"])
  <2>1. PICK q : q = [[taken EXCEPT !.row = f] EXCEPT !.pc = "create"]
    OBVIOUS
  <2>2. /\ q \in Sync /\ q.pc = "create" /\ q.of = x.ev /\ q.row = f /\ q.link = NoLink
        /\ q.todo \subseteq sync[s].todo /\ q.upto = sync[s].upto /\ q.copy = sync[s].copy
    BY <1>9, <1>11, <2>1 DEF Sync
  <2>3. google' = google /\ google[x.ev].tag = NoTask
    BY <1>3, <1>5, <1>21 DEF world, ListedOf
  <2>4. Hand(q)'
    BY <1>9, <2>2, <2>3 DEF Hand, Left
  <2>5. Listing(q)
    BY <1>1, <1>3, <1>9, <1>16, <1>21, <2>2 DEF Listing, ListedOf, Left
  <2>6. sync' = [sync EXCEPT ![s] = q]
    BY <1>21, <2>1 DEF Step
  <2> QED
    BY <1>5, <1>12, <1>13, <1>21, <2>2, <2>4, <2>5, <2>6, SyncFlow
<1>22. ASSUME NEW e \in LinkedEvents(x), x.row.st = "live", links' = links,
              Step(s, "next", [[[taken EXCEPT !.row = f] EXCEPT
                       !.of = e, !.link = links[e], !.id = links[e].task] EXCEPT !.pc = "read"])
       PROVE  FlowInv'
  <2>1. PICK t : t = links[e].task
    OBVIOUS
  <2>2. PICK l : l = links[e]
    OBVIOUS
  <2>3. e = x.ev /\ HasLink(x.ev) /\ IsTask(x.ev, t)
    BY <1>3, <2>1, OwnLink DEF ListedOf
  <2>4. l \in LinkRow /\ l.task = t /\ t \in TaskId /\ l # NoLink
    <3>1. l \in LinkRow /\ l.task = t /\ t # NoTask
      BY <1>1, <1>3, <2>1, <2>2, <2>3 DEF HasLink
    <3> QED
      BY <3>1 DEF LinkRow, NoLink
  <2>5. PICK q : q = [[[taken EXCEPT !.row = f] EXCEPT !.of = e, !.link = l, !.id = t]
                        EXCEPT !.pc = "read"]
    OBVIOUS
  <2>6. /\ q \in Sync /\ q.pc = "read" /\ q.of = x.ev /\ q.row = f /\ q.link = l /\ q.id = t
        /\ q.todo \subseteq sync[s].todo /\ q.upto = sync[s].upto /\ q.copy = sync[s].copy
    BY <1>3, <1>9, <1>11, <2>3, <2>4, <2>5 DEF Sync
  <2>7. Hand(q)'
    BY <1>9, <1>15, <2>3, <2>4, <2>6 DEF Hand, Left
  <2>8. Listing(q)
    BY <1>1, <1>3, <1>9, <1>16, <1>22, <2>6 DEF Listing, ListedOf, Left
  <2>9. sync' = [sync EXCEPT ![s] = q]
    BY <1>22, <2>1, <2>2, <2>5 DEF Step
  <2> QED
    BY <1>5, <1>12, <1>13, <1>22, <2>6, <2>7, <2>8, <2>9, SyncFlow
<1> QED
  BY <1>2, <1>6, <1>7, <1>8, <1>17, <1>18, <1>19, <1>20, <1>21, <1>22 DEF Step

LEMMA UpdateGrows ==
  ASSUME FlowInv, NEW t \in TaskId, NEW row \in TaskRow, row.event = tasks[t].event, row.st = "live",
         tasks' = UpdateTask(t, row)
  PROVE  TasksGrow
<1>1. tasks \in [TaskId -> TaskRow]
  BY FlowTypes
<1>2. CASE Exists(t)
  <2>1. PICK r : r = [row EXCEPT !.chat = tasks[t].chat]
    OBVIOUS
  <2>2. r.st = "live" /\ r.event = row.event
    BY <2>1 DEF TaskRow
  <2>3. tasks' = [tasks EXCEPT ![t] = r]
    BY <1>2, <2>1 DEF UpdateTask
  <2>4. \A u \in TaskId : tasks'[u] = IF u = t THEN r ELSE tasks[u]
    BY <1>1, <2>3
  <2> QED
    BY <1>2, <2>2, <2>4 DEF TasksGrow, Exists
<1>3. CASE ~Exists(t)
  BY <1>3, SameTasks DEF UpdateTask
<1> QED
  BY <1>2, <1>3

LEMMA DeleteGrows ==
  ASSUME FlowInv, NEW t \in TaskId \cup {NoTask}, tasks' = DeleteTask(t)
  PROVE  TasksGrow
<1>1. tasks \in [TaskId -> TaskRow]
  BY FlowTypes
<1>2. CASE Exists(t)
  <2>1. t \in TaskId
    BY <1>2 DEF Exists
  <2>2. PICK r : r = [tasks[t] EXCEPT !.st = "gone"]
    OBVIOUS
  <2>3. tasks[t] \in TaskRow
    BY <1>1, <2>1
  <2>4. r.st = "gone" /\ r.event = tasks[t].event
    BY <2>2, <2>3 DEF TaskRow
  <2>5. tasks' = [tasks EXCEPT ![t] = r]
    BY <1>2, <2>2 DEF DeleteTask
  <2>6. \A u \in TaskId : tasks'[u] = IF u = t THEN r ELSE tasks[u]
    BY <1>1, <2>5
  <2> QED
    BY <1>2, <2>4, <2>6 DEF TasksGrow, Exists
<1>3. CASE ~Exists(t)
  BY <1>3, SameTasks DEF DeleteTask
<1> QED
  BY <1>2, <1>3

LEMMA HandTask ==
  ASSUME FlowInv, NEW s \in Syncer, IsTask(sync[s].of, sync[s].id)
  PROVE  /\ sync[s].id \in TaskId /\ sync[s].of \in Event
         /\ tasks[sync[s].id].event = sync[s].of /\ tasks[sync[s].id] \in TaskRow
  BY FlowTypes DEF IsTask, Sync

LEMMA CreateFlow ==
  ASSUME FlowInv, ImportInv', NEW s \in Syncer, CreateTask(s)
  PROVE  FlowInv'
<1>1. /\ sync[s] \in Sync /\ Hand(sync[s]) /\ Listing(sync[s]) /\ sync[s].row \in TaskRow
      /\ sync[s].of \in Event
  BY FlowTypes DEF FlowInv, Sync
<1>2. PICK t \in Free :
        /\ Step(s, "create", [sync[s] EXCEPT !.id = t, !.tell = "schedule",
                           !.pc = IF sync[s].link = NoLink THEN "link" ELSE "tell"])
        /\ tasks' = [tasks EXCEPT ![t] = sync[s].row]
        /\ UNCHANGED <<world, binding, revoked, links, armed, removal, notes>>
  BY DEF CreateTask
<1>3. PICK pc : pc = IF sync[s].link = NoLink THEN "link" ELSE "tell"
  OBVIOUS
<1>4. PICK q : q = [sync[s] EXCEPT !.id = t, !.tell = "schedule", !.pc = pc]
  OBVIOUS
<1>5. t \in TaskId /\ t # NoTask /\ tasks[t].st = "none"
  BY DEF Free, TaskId, NoTask
<1>6. /\ q \in Sync /\ q.pc = pc /\ pc \in {"link", "tell"} /\ q.id = t /\ q.of = sync[s].of
      /\ q.row = sync[s].row /\ q.link = sync[s].link /\ q.todo = sync[s].todo
      /\ q.upto = sync[s].upto /\ q.copy = sync[s].copy
  BY <1>1, <1>3, <1>4, <1>5 DEF Sync
<1>7. sync[s].pc = "create" /\ sync' = [sync EXCEPT ![s] = q]
  BY <1>2, <1>3, <1>4 DEF Step
<1>8. sync[s].row.event = sync[s].of /\ sync[s].row.st = "live"
  BY <1>1, <1>7 DEF Hand
<1>9. \A u \in TaskId : tasks'[u] = IF u = t THEN sync[s].row ELSE tasks[u]
  BY <1>2, <1>5, FlowTypes
<1>10. TasksGrow
  BY <1>5, <1>9 DEF TasksGrow
<1>11. UNCHANGED <<world, binding, links, removal, scene>> /\ google' = google
  BY <1>2 DEF notes, world
<1>12. IsTask(q.of, t)'
  BY <1>5, <1>6, <1>8, <1>9 DEF IsTask
<1>13. Hand(q)'
  BY <1>1, <1>3, <1>6, <1>7, <1>8, <1>11, <1>12 DEF Hand, Left, IsTask
<1>14. Listing(q)
  BY <1>1, <1>6, <1>7 DEF Listing, Past, Left, Taken
<1>15. \A e \in Event : LinkOK(e)'
  BY <1>10, <1>11, LinksStay
<1>16. binding'.token <= edits
  BY <1>11 DEF FlowInv
<1> QED
  BY <1>6, <1>7, <1>10, <1>11, <1>13, <1>14, <1>15, <1>16, SyncFlow

LEMMA LinkFlow ==
  ASSUME FlowInv, ImportInv', NEW s \in Syncer, CreateLink(s)
  PROVE  FlowInv'
<1>1. sync[s] \in Sync /\ Hand(sync[s]) /\ Listing(sync[s]) /\ sync[s].pc = "link"
  BY FlowTypes DEF FlowInv, CreateLink, Step
<1>2. IsTask(sync[s].of, sync[s].id)
  BY <1>1 DEF Hand
<1>3. sync[s].of \in Event /\ links \in [Event -> LinkRow]
  BY <1>2, HandTask, FlowTypes
<1>4. PICK t : t = sync[s].id
  OBVIOUS
<1>5. UNCHANGED <<world, binding, tasks, removal, scene>>
  BY DEF CreateLink, notes
<1>6. PICK q : q = IF HasLink(sync[s].of) THEN Fail(s) ELSE Go(s, "tell")
  OBVIOUS
<1>7. sync' = [sync EXCEPT ![s] = q]
  BY <1>6 DEF CreateLink, Step
<1>8. q \in Sync /\ Hand(q)' /\ Listing(q)
  <2>1. CASE q = Fail(s)
    BY <2>1, SyncEnds, QuietHand
  <2>2. CASE q = Go(s, "tell")
    <3>1. /\ q \in Sync /\ q.pc = "tell" /\ q.of = sync[s].of /\ q.id = t /\ q.todo = sync[s].todo
          /\ q.upto = sync[s].upto /\ q.copy = sync[s].copy
      BY <1>1, <1>4, <2>2 DEF Go, Sync
    <3>2. IsTask(q.of, q.id)'
      BY <1>2, <1>4, <1>5, <3>1 DEF IsTask
    <3>3. Hand(q)'
      BY <3>1, <3>2 DEF Hand, Left
    <3>4. Listing(q)
      BY <1>1, <3>1 DEF Listing, Past, Left, Taken
    <3> QED
      BY <3>1, <3>3, <3>4
  <2> QED
    BY <1>6, <2>1, <2>2
<1>9. ASSUME NEW e \in Event PROVE LinkOK(e)'
  <2>1. CASE e = sync[s].of /\ ~HasLink(e)
    <3>1. links'[e] = [task |-> t, origin |-> "imported"]
      BY <1>3, <1>4, <2>1 DEF CreateLink
    <3>2. IsTask(e, t)'
      BY <1>2, <1>4, <1>5, <2>1 DEF IsTask
    <3> QED
      BY <3>1, <3>2 DEF LinkOK, HasLink, IsTask
  <2>2. CASE ~(e = sync[s].of /\ ~HasLink(e))
    <3>1. links'[e] = links[e]
      BY <1>3, <2>2 DEF CreateLink
    <3> QED
      BY <1>5, <3>1 DEF LinkOK, HasLink, IsTask, FlowInv
  <2> QED
    BY <2>1, <2>2
<1>10. TasksGrow /\ binding'.token <= edits
  BY <1>5, SameTasks DEF FlowInv
<1> QED
  BY <1>5, <1>7, <1>8, <1>9, <1>10, SyncFlow

LEMMA ReadFlow ==
  ASSUME FlowInv, ImportInv', NEW s \in Syncer, ReadTask(s)
  PROVE  FlowInv'
<1>1. sync[s] \in Sync /\ Hand(sync[s]) /\ Listing(sync[s]) /\ sync[s].pc = "read"
  BY FlowTypes DEF FlowInv, ReadTask, Step
<1>2. IsTask(sync[s].of, sync[s].id)
  BY <1>1 DEF Hand, Left
<1>3. /\ sync[s].row \in TaskRow /\ sync[s].id \in TaskId
      /\ tasks[sync[s].id] \in TaskRow /\ tasks[sync[s].id].event = sync[s].of
  BY <1>1, <1>2, HandTask DEF Sync
<1>4. PICK t, o : t = sync[s].id /\ o = sync[s].of
  OBVIOUS
<1>5. UNCHANGED <<world, binding, links, tasks, removal, scene>>
  BY DEF ReadTask, rows, notes
<1>6. TasksGrow /\ (\A e \in Event : LinkOK(e)') /\ binding'.token <= edits
  BY <1>5, SameTasks, LinksStay DEF FlowInv
<1>7. PICK r : r = Merged(tasks[sync[s].id], sync[s].row, sync[s].link.origin)
  OBVIOUS
<1>8. PICK tell : tell = TellOf(tasks[sync[s].id], sync[s].row, sync[s].link.origin)
  OBVIOUS
<1>9. PICK pc : pc = IF r # tasks[sync[s].id] THEN "write"
                     ELSE IF tell # "none" THEN "tell" ELSE "relink"
  OBVIOUS
<1>10. PICK q : q = IF ~Exists(sync[s].id) THEN Go(s, "create")
                    ELSE [sync[s] EXCEPT !.row = r, !.tell = tell, !.pc = pc]
  OBVIOUS
<1>11. sync' = [sync EXCEPT ![s] = q]
  BY <1>7, <1>8, <1>9, <1>10 DEF ReadTask, Step
<1>12. IsTask(o, t)' /\ (tasks[t].st = "gone" => tasks'[t].st = "gone")
  BY <1>2, <1>4, <1>5 DEF IsTask
<1>13. q \in Sync /\ Hand(q)' /\ Listing(q)
  <2>1. CASE ~Exists(sync[s].id)
    <3>1. /\ q \in Sync /\ q.pc = "create" /\ q.of = o /\ q.id = t /\ q.todo = sync[s].todo
          /\ q.upto = sync[s].upto /\ q.copy = sync[s].copy /\ q.link = sync[s].link
          /\ q.row = sync[s].row
      BY <1>1, <1>4, <1>10, <2>1 DEF Go, Sync
    <3>2. tasks[t].st = "gone"
      BY <1>2, <1>3, <1>4, <2>1 DEF Exists, IsTask, TaskRow
    <3>3. q.row.event = q.of /\ q.row.st = "live" /\ q.link # NoLink /\ q.link.task = t
      BY <1>1, <1>4, <3>1 DEF Hand
    <3>4. Hand(q)'
      BY <1>12, <3>1, <3>2, <3>3 DEF Hand, Left, IsTask
    <3>5. Listing(q)
      BY <1>1, <1>4, <3>1 DEF Listing, Past, Left, Taken
    <3> QED
      BY <3>1, <3>4, <3>5
  <2>2. CASE Exists(sync[s].id)
    <3>1. r \in TaskRow
      BY <1>3, <1>7, MergedType
    <3>2. r.event = sync[s].of /\ r.st = "live" /\ r.text = sync[s].row.text
      <4>1. /\ r.event = tasks[sync[s].id].event /\ r.st = tasks[sync[s].id].st
            /\ r.text = sync[s].row.text
        BY <1>3, <1>7 DEF Merged, TaskRow
      <4> QED
        BY <1>3, <2>2, <4>1 DEF Exists
    <3>3. tell \in {"none", "schedule", "delete"} /\ pc \in {"write", "tell", "relink"}
      BY <1>8, <1>9 DEF TellOf
    <3>4. /\ q \in Sync /\ q.pc = pc /\ q.of = o /\ q.id = t /\ q.todo = sync[s].todo
          /\ q.upto = sync[s].upto /\ q.copy = sync[s].copy /\ q.link = sync[s].link
          /\ q.row = r
      BY <1>1, <1>4, <1>10, <2>2, <3>1, <3>3 DEF Sync
    <3>5. Hand(q)'
      BY <1>1, <1>4, <1>12, <3>2, <3>3, <3>4 DEF Hand, Left, IsTask
    <3>6. Listing(q)
      BY <1>1, <1>4, <3>2, <3>3, <3>4 DEF Listing, Past, Left, Taken
    <3> QED
      BY <3>4, <3>5, <3>6
  <2> QED
    BY <2>1, <2>2
<1> QED
  BY <1>5, <1>6, <1>11, <1>13, SyncFlow

LEMMA WriteFlow ==
  ASSUME FlowInv, ImportInv', NEW s \in Syncer, WriteTask(s)
  PROVE  FlowInv'
<1>1. sync[s] \in Sync /\ Hand(sync[s]) /\ Listing(sync[s]) /\ sync[s].pc = "write"
  BY FlowTypes DEF FlowInv, WriteTask, Step
<1>2. IsTask(sync[s].of, sync[s].id) /\ sync[s].row.event = sync[s].of /\ sync[s].row.st = "live"
  BY <1>1 DEF Hand, Left
<1>3. sync[s].row \in TaskRow /\ sync[s].id \in TaskId /\ tasks[sync[s].id].event = sync[s].of
  BY <1>1, <1>2, HandTask DEF Sync
<1>4. TasksGrow
  BY <1>2, <1>3, UpdateGrows DEF WriteTask
<1>5. UNCHANGED <<world, binding, links, removal, scene>>
  BY DEF WriteTask, notes
<1>6. (\A e \in Event : LinkOK(e)') /\ binding'.token <= edits
  BY <1>4, <1>5, LinksStay DEF FlowInv
<1>7. PICK t, o : t = sync[s].id /\ o = sync[s].of
  OBVIOUS
<1>8. PICK q : q = Go(s, IF sync[s].tell = "none" THEN "relink" ELSE "tell")
  OBVIOUS
<1>9. /\ q \in Sync /\ q.pc \in {"relink", "tell"} /\ q.of = o /\ q.id = t
      /\ q.todo = sync[s].todo /\ q.upto = sync[s].upto /\ q.copy = sync[s].copy
      /\ q.link = sync[s].link
  BY <1>1, <1>7, <1>8 DEF Go, Sync
<1>10. IsTask(o, t)'
  <2>1. IsTask(o, t) /\ t \in TaskId
    BY <1>2, <1>3, <1>7
  <2> QED
    BY <1>4, <2>1, TaskStays
<1>11. Hand(q)'
  BY <1>9, <1>10 DEF Hand, Left, IsTask
<1>12. Listing(q)
  BY <1>1, <1>7, <1>9 DEF Listing, Past, Left, Taken
<1>13. sync' = [sync EXCEPT ![s] = q]
  BY <1>8 DEF WriteTask, Step
<1> QED
  BY <1>4, <1>5, <1>6, <1>9, <1>11, <1>12, <1>13, SyncFlow

(* The steps after which a sync is through with an event, or with all.     *)
LEMMA EndFlow ==
  ASSUME FlowInv, ImportInv', NEW s \in Syncer,
         \/ Tell(s) \/ PublishFails(s) \/ Relink(s) \/ Unlink(s) \/ Drop(s) \/ Mute(s)
         \/ MarkSynced(s) \/ MarkError(s)
  PROVE  FlowInv'
<1>1. sync[s] \in Sync /\ Hand(sync[s]) /\ Listing(sync[s])
  BY FlowTypes DEF FlowInv
<1>2. UNCHANGED <<world, removal, scene>>
  BY DEF Tell, PublishFails, Relink, Unlink, Drop, Mute, MarkSynced, MarkError, notes
<1>3. \E q \in Sync : sync' = [sync EXCEPT ![s] = q] /\ Hand(q)' /\ Listing(q)
  <2>1. \E q \in {NextEvent(s), Fail(s), NoSync, Go(s, "relink")} :
          /\ sync' = [sync EXCEPT ![s] = q]
          /\ q = NextEvent(s) => sync[s].pc \in Past
          /\ q = Go(s, "relink") => sync[s].pc \in Taken
    <3>1. CASE Tell(s) \/ PublishFails(s)
      BY <3>1 DEF Tell, PublishFails, Step, AfterTell, Past, Taken
    <3>2. CASE Relink(s) \/ Unlink(s) \/ Drop(s) \/ Mute(s)
      <4>1. /\ sync[s].pc \in {"relink", "unlink", "drop", "mute"}
            /\ sync' = [sync EXCEPT ![s] = NextEvent(s)] \/ sync' = [sync EXCEPT ![s] = Fail(s)]
        BY <3>2 DEF Relink, Unlink, Drop, Mute, Step
      <4>2. Fail(s) # Go(s, "relink") /\ NextEvent(s) # Go(s, "relink") /\ NextEvent(s) # Fail(s)
        <5>1. Go(s, "relink").pc = "relink"
          BY <1>1 DEF Go, Sync
        <5> QED
          BY <5>1, SyncEnds
      <4> QED
        BY <4>1, <4>2 DEF Past, Left, Taken
    <3>3. CASE MarkSynced(s) \/ MarkError(s)
      <4>1. NoSync # Go(s, "relink") /\ NextEvent(s) # NoSync
        <5>1. Go(s, "relink").pc = "relink"
          BY <1>1 DEF Go, Sync
        <5> QED
          BY <5>1, SyncEnds
      <4> QED
        BY <3>3, <4>1 DEF MarkSynced, MarkError, Step
    <3> QED
      BY <3>1, <3>2, <3>3
  <2>2. PICK q : /\ q \in {NextEvent(s), Fail(s), NoSync, Go(s, "relink")}
                 /\ sync' = [sync EXCEPT ![s] = q]
                 /\ q = NextEvent(s) => sync[s].pc \in Past
                 /\ q = Go(s, "relink") => sync[s].pc \in Taken
    BY <2>1
  <2>3. CASE q = Go(s, "relink")
    <3>1. /\ q \in Sync /\ q.pc = "relink" /\ q.of = sync[s].of /\ q.todo = sync[s].todo
          /\ q.upto = sync[s].upto /\ q.copy = sync[s].copy
      BY <1>1, <2>3 DEF Go, Sync
    <3>2. Listing(q)
      BY <1>1, <2>2, <2>3, <3>1 DEF Listing, Past, Left, Taken
    <3> QED
      BY <2>2, <3>1, <3>2, QuietHand
  <2>4. CASE q \in {NextEvent(s), Fail(s), NoSync}
    BY <2>2, <2>4, SyncEnds, QuietHand
  <2> QED
    BY <2>2, <2>3, <2>4
<1>4. TasksGrow
  <2>1. CASE Drop(s)
    BY <1>1, <2>1, DeleteGrows DEF Drop, Sync
  <2>2. CASE Mute(s)
    <3>1. sync[s].pc = "mute"
      BY <2>2 DEF Mute, Step
    <3>2. IsTask(sync[s].of, sync[s].id) /\ sync[s].row.event = sync[s].of /\ sync[s].row.st = "live"
      BY <1>1, <3>1 DEF Hand, Left
    <3>3. /\ sync[s].row \in TaskRow /\ sync[s].id \in TaskId
          /\ tasks[sync[s].id].event = sync[s].of
      BY <1>1, <3>2, HandTask DEF Sync
    <3>4. PICK r : r = [sync[s].row EXCEPT !.muted = TRUE]
      OBVIOUS
    <3>5. r \in TaskRow /\ r.event = sync[s].of /\ r.st = "live"
      BY <3>2, <3>3, <3>4 DEF TaskRow
    <3>6. tasks' = UpdateTask(sync[s].id, r)
      BY <2>2, <3>4 DEF Mute
    <3> QED
      BY <3>3, <3>5, <3>6, UpdateGrows
  <2>3. CASE Tell(s) \/ PublishFails(s) \/ Relink(s) \/ Unlink(s) \/ MarkSynced(s) \/ MarkError(s)
    BY <2>3, SameTasks DEF Tell, PublishFails, Relink, Unlink, MarkSynced, MarkError, rows
  <2> QED
    BY <2>1, <2>2, <2>3
<1>5. \A e \in Event : LinkOK(e)'
  <2>1. CASE Unlink(s)
    <3>1. /\ tasks' = tasks /\ \A e \in Event : links'[e] = links[e] \/ links'[e] = NoLink
      BY <2>1, FlowTypes DEF Unlink
    <3> QED
      BY <3>1 DEF LinkOK, HasLink, NoLink, IsTask, FlowInv
  <2>2. CASE ~Unlink(s)
    <3>1. links' = links
      BY <2>2 DEF Tell, PublishFails, Relink, Drop, Mute, MarkSynced, MarkError, rows
    <3> QED
      BY <1>4, <3>1, LinksStay
  <2> QED
    BY <2>1, <2>2
<1>6. binding'.token <= edits
  <2>1. CASE MarkSynced(s) \/ MarkError(s)
    <3>1. sync[s].copy \in BindingRow /\ sync[s].upto \in Nat
      BY <1>1 DEF Sync
    <3>2. Synced(s).token = sync[s].upto /\ Errored(s).token = sync[s].copy.token
      BY <3>1 DEF Synced, Errored, BindingRow
    <3>3. binding' = binding \/ binding' = Synced(s) \/ binding' = Errored(s)
      BY <2>1 DEF MarkSynced, MarkError, UpdateBinding
    <3> QED
      BY <1>1, <3>2, <3>3 DEF Listing, FlowInv
  <2>2. CASE Tell(s) \/ PublishFails(s) \/ Relink(s) \/ Unlink(s) \/ Drop(s) \/ Mute(s)
    <3>1. binding' = binding
      BY <2>2 DEF Tell, PublishFails, Relink, Unlink, Drop, Mute, rows
    <3> QED
      BY <3>1 DEF FlowInv
  <2> QED
    BY <2>1, <2>2
<1> QED
  BY <1>2, <1>3, <1>4, <1>5, <1>6, SyncFlow

LEMMA PolicyFlow ==
  ASSUME FlowInv, ImportInv', NEW s \in Syncer, Policy(s)
  PROVE  FlowInv'
<1>1. sync[s] \in Sync /\ Hand(sync[s]) /\ Listing(sync[s]) /\ sync[s].pc = "policy"
  BY FlowTypes DEF FlowInv, Policy, Step
<1>2. IsTask(sync[s].of, sync[s].id)
  BY <1>1 DEF Hand, Left
<1>3. PICK t, o : t = sync[s].id /\ o = sync[s].of
  OBVIOUS
<1>4. t \in TaskId /\ tasks[t].event = o /\ tasks[t] \in TaskRow /\ IsTask(o, t)
  BY <1>2, <1>3, HandTask
<1>5. UNCHANGED <<world, binding, links, tasks, removal, scene>>
  BY DEF Policy, notes
<1>6. TasksGrow /\ (\A e \in Event : LinkOK(e)') /\ binding'.token <= edits
  BY <1>5, SameTasks, LinksStay DEF FlowInv
<1>7. PICK q : q = IF ~Exists(t) THEN Go(s, "unlink")
                   ELSE IF PolicyPc(t) = "next" THEN NextEvent(s)
                   ELSE [sync[s] EXCEPT !.pc = PolicyPc(t), !.row = tasks[t]]
  OBVIOUS
<1>8. sync' = [sync EXCEPT ![s] = q]
  BY <1>3, <1>7 DEF Policy, Step
<1>9. IsTask(o, t)' /\ tasks'[t] = tasks[t]
  BY <1>4, <1>5 DEF IsTask
<1>10. q \in Sync /\ Hand(q)' /\ Listing(q)
  <2>1. CASE ~Exists(t)
    <3>1. /\ q \in Sync /\ q.pc = "unlink" /\ q.of = o /\ q.id = t /\ q.todo = sync[s].todo
          /\ q.upto = sync[s].upto /\ q.copy = sync[s].copy
      BY <1>1, <1>3, <1>7, <2>1 DEF Go, Sync
    <3>2. tasks[t].st = "gone"
      BY <1>4, <2>1 DEF Exists, IsTask, TaskRow
    <3>3. Hand(q)'
      BY <1>9, <3>1, <3>2 DEF Hand, Left, IsTask
    <3>4. Listing(q)
      BY <1>1, <1>3, <3>1 DEF Listing, Past, Left, Taken
    <3> QED
      BY <3>1, <3>3, <3>4
  <2>2. CASE Exists(t) /\ PolicyPc(t) = "next"
    BY <1>1, <1>7, <2>2, SyncEnds, QuietHand DEF Past, Left
  <2>3. CASE Exists(t) /\ PolicyPc(t) # "next"
    <3>1. PICK pc : pc = PolicyPc(t)
      OBVIOUS
    <3>2. pc \in {"drop", "mute"}
      BY <2>3, <3>1 DEF PolicyPc
    <3>3. PICK r : r = tasks[t]
      OBVIOUS
    <3>4. q = [sync[s] EXCEPT !.pc = pc, !.row = r] /\ r \in TaskRow /\ r.event = o /\ r.st = "live"
      BY <1>4, <1>7, <2>3, <3>1, <3>3 DEF Exists
    <3>5. /\ q \in Sync /\ q.pc = pc /\ q.of = o /\ q.id = t /\ q.todo = sync[s].todo
          /\ q.upto = sync[s].upto /\ q.copy = sync[s].copy /\ q.row = r
      BY <1>1, <1>3, <3>2, <3>4 DEF Sync
    <3>6. Hand(q)'
      BY <1>9, <3>2, <3>4, <3>5 DEF Hand, Left, IsTask
    <3>7. Listing(q)
      BY <1>1, <1>3, <3>2, <3>5 DEF Listing, Past, Left, Taken
    <3> QED
      BY <3>5, <3>6, <3>7
  <2> QED
    BY <2>1, <2>2, <2>3
<1> QED
  BY <1>5, <1>6, <1>8, <1>10, SyncFlow

(* A removal, the user and the world keep what the syncs have.             *)
LEMMA OtherFlow ==
  ASSUME FlowInv, ImportInv', CalGrows, TasksGrow, links' = links, sync' = sync,
         binding'.token = binding.token, RemovalHand'
  PROVE  FlowInv'
<1>1. \A e \in Event : LinkOK(e)'
  BY LinksStay
<1>2. binding'.token <= edits'
  <2>1. binding.token \in Int /\ edits \in Nat /\ edits' \in Nat
    BY FlowTypes DEF ImportInv, ImportTypeOK
  <2> QED
    BY <2>1 DEF CalGrows, FlowInv
<1> QED
  BY <1>1, <1>2, FlowKeeps

LEMMA RemovalFlow ==
  ASSUME FlowInv, ImportInv',
         RemovalStep \/ RemovalFails \/ \E op \in {"delete", "disconnect"} : StartRemoval(op)
  PROVE  FlowInv'
<1>1. removal \in Removal /\ RemovalHand /\ tasks \in [TaskId -> TaskRow]
  BY FlowTypes DEF FlowInv
<1>2. UNCHANGED <<world, links, sync, scene>>
  BY DEF RemovalStep, RmBinding, RmLinks, RmRead, RmTask, RmLast, RmRevoke, RemovalFails,
         StartRemoval, rows, notes
<1>3. CalGrows
  BY <1>2, WorldStill
<1>4. binding'.token = binding.token
  <2>1. CASE RmLast
    BY <2>1, FlowTypes DEF RmLast, BindingRow
  <2>2. CASE ~RmLast
    BY <2>2 DEF RemovalStep, RmBinding, RmLinks, RmRead, RmTask, RmRevoke, RemovalFails,
                StartRemoval, rows
  <2> QED
    BY <2>1, <2>2
<1>5. NoRemoval.todo = {} /\ NoRemoval.pc = "idle"
  BY DEF NoRemoval
<1>6. CASE RmRead
  <2>1. PICK t \in removal.todo :
          /\ Rm("read", [removal EXCEPT !.todo = @ \ {t}, !.id = t, !.row = tasks[t],
                     !.pc = IF ~Exists(t) \/ PolicyPc(t) = "next" THEN "read" ELSE PolicyPc(t)])
          /\ tasks' = tasks
    BY <1>6 DEF RmRead
  <2>2. PICK pc : pc = IF ~Exists(t) \/ PolicyPc(t) = "next" THEN "read" ELSE PolicyPc(t)
    OBVIOUS
  <2>3. PICK r : r = tasks[t]
    OBVIOUS
  <2>4. /\ removal'.todo \subseteq removal.todo /\ removal'.id = t
        /\ removal'.row = r /\ removal'.pc = pc
    BY <1>1, <2>1, <2>2, <2>3 DEF Rm, Removal
  <2>5. pc \in {"drop", "mute"} => r.st = "live"
    BY <2>2, <2>3 DEF Exists
  <2>6. RemovalHand'
    BY <1>1, <2>1, <2>3, <2>4, <2>5 DEF RemovalHand
  <2> QED
    BY <1>2, <1>3, <1>4, <2>1, <2>6, SameTasks, OtherFlow
<1>7. CASE RmTask
  <2>1. /\ removal.pc \in {"drop", "mute"} /\ removal' = [removal EXCEPT !.pc = "read"]
        /\ \/ tasks' = DeleteTask(removal.id)
           \/ removal.pc = "mute" /\ tasks' = UpdateTask(removal.id, [removal.row EXCEPT !.muted = TRUE])
    BY <1>7 DEF RmTask, Rm
  <2>2. removal.id \in TaskId /\ removal.row \in TaskRow
    BY <1>1, <2>1 DEF Removal, FlowInv, ImportInv, RemovalOK, Half
  <2>3. TasksGrow
    <3>1. CASE tasks' = DeleteTask(removal.id)
      BY <2>2, <3>1, DeleteGrows
    <3>2. CASE tasks' = UpdateTask(removal.id, [removal.row EXCEPT !.muted = TRUE])
      <4>1. PICK r : r = [removal.row EXCEPT !.muted = TRUE]
        OBVIOUS
      <4>2. r \in TaskRow /\ r.event = tasks[removal.id].event /\ r.st = "live"
        BY <1>1, <2>1, <2>2, <4>1 DEF TaskRow, RemovalHand
      <4> QED
        BY <2>2, <3>2, <4>1, <4>2, UpdateGrows
    <3> QED
      BY <2>1, <3>1, <3>2
  <2>4. removal'.pc = "read" /\ removal'.todo = removal.todo /\ removal.todo \subseteq TaskId
    BY <1>1, <2>1 DEF Removal
  <2>5. RemovalHand'
    BY <1>1, <2>3, <2>4 DEF RemovalHand, TasksGrow
  <2> QED
    BY <1>2, <1>3, <1>4, <2>3, <2>5, OtherFlow
<1>8. CASE RmLinks
  <2>1. removal'.todo = RemovedTasks /\ removal'.pc = "read" /\ tasks' = tasks
    BY <1>1, <1>8 DEF RmLinks, Rm, rows, Removal
  <2>2. \A t \in RemovedTasks : tasks[t].st # "none"
    BY DEF RemovedTasks, FlowInv, LinkOK, IsTask
  <2>3. RemovalHand'
    <3>1. PICK S : S = RemovedTasks
      OBVIOUS
    <3> QED
      BY <2>1, <2>2, <3>1 DEF RemovalHand
  <2> QED
    BY <1>2, <1>3, <1>4, <2>1, <2>3, SameTasks, OtherFlow
<1>9. CASE ~RmRead /\ ~RmTask /\ ~RmLinks
  <2>1. tasks' = tasks
    BY <1>9 DEF RemovalStep, RmBinding, RmLast, RmRevoke, RemovalFails, StartRemoval, rows
  <2>2. removal'.todo \subseteq removal.todo /\ removal'.pc \notin {"drop", "mute"}
    <3>1. CASE \E op \in {"delete", "disconnect"} : StartRemoval(op)
      <4>1. PICK op, pc : /\ removal' = [NoRemoval EXCEPT !.op = op, !.pc = pc]
                          /\ pc \in {"revoke", "binding"}
        BY <3>1 DEF StartRemoval, Rm
      <4>2. removal'.todo = {} /\ removal'.pc = pc
        BY <4>1 DEF NoRemoval
      <4> QED
        BY <4>1, <4>2
    <3>2. CASE RmBinding \/ RmLast
      <4>1. \/ removal' = NoRemoval
            \/ removal' = [removal EXCEPT !.pc = "links"]
            \/ removal' = [removal EXCEPT !.pc = "revoke"]
        BY <3>2 DEF RmBinding, RmLast, Rm
      <4> QED
        BY <1>1, <1>5, <4>1 DEF Removal
    <3>3. CASE RmRevoke \/ RemovalFails
      BY <1>5, <3>3 DEF RmRevoke, RemovalFails, Rm
    <3> QED
      BY <1>9, <3>1, <3>2, <3>3 DEF RemovalStep
  <2>3. RemovalHand'
    BY <1>1, <2>1, <2>2 DEF RemovalHand
  <2> QED
    BY <1>2, <1>3, <1>4, <2>1, <2>3, SameTasks, OtherFlow
<1> QED
  BY <1>6, <1>7, <1>8, <1>9

LEMMA EditGrows ==
  ASSUME FlowInv, NEW e \in Event, EditEvent(e)
  PROVE  CalGrows /\ UNCHANGED <<rows, sync, removal, notes>>
<1>1. google[e] \in EventRow /\ edits \in Nat /\ google \in [Event -> EventRow]
  BY FlowTypes
<1>2. PICK row : /\ Edit(e, row)
                 /\ \/ row = google[e] /\ row.st = "live"
                    \/ row = [google[e] EXCEPT !.st = "cancelled"] /\ "cancel" \in Sc.acts
                    \/ \E t \in Time : row = [google[e] EXCEPT !.start = t, !.st = "live"]
  BY DEF EditEvent
<1>3. row.tag = google[e].tag /\ row \in EventRow /\ (row.st = "cancelled" => ~Kept(e))
  <2>1. CASE row = google[e] /\ row.st = "live"
    BY <1>1, <2>1
  <2>2. CASE row = [google[e] EXCEPT !.st = "cancelled"] /\ "cancel" \in Sc.acts
    BY <1>1, <2>2 DEF EventRow, Kept
  <2>3. CASE \E t \in Time : row = [google[e] EXCEPT !.start = t, !.st = "live"]
    <3>1. PICK t \in Time : row = [google[e] EXCEPT !.start = t, !.st = "live"]
      BY <2>3
    <3>2. t \in Nat
      BY DEF Time
    <3> QED
      BY <1>1, <3>1, <3>2 DEF EventRow
  <2> QED
    BY <1>2, <2>1, <2>2, <2>3
<1>4. PICK n : n = edits + 1
  OBVIOUS
<1>5. PICK new : new = [row EXCEPT !.ver = n]
  OBVIOUS
<1>6. new.ver = n /\ new.tag = google[e].tag /\ new.st = row.st
  BY <1>3, <1>5 DEF EventRow
<1>7. edits' = n /\ google' = [google EXCEPT ![e] = new] /\ UNCHANGED <<rows, sync, removal, notes>>
  <2>1. edits' = edits + 1 /\ google' = [google EXCEPT ![e] = [row EXCEPT !.ver = edits']]
    BY <1>2, Zenon DEF Edit
  <2> QED
    BY <1>2, <1>4, <1>5, <2>1 DEF Edit
<1>8. \A d \in Event : google'[d] = IF d = e THEN new ELSE google[d]
  BY <1>1, <1>7
<1>9. CalGrows
  BY <1>1, <1>3, <1>4, <1>6, <1>7, <1>8 DEF CalGrows, notes
<1> QED
  BY <1>7, <1>9

LEMMA EditFlow ==
  ASSUME FlowInv, ImportInv', NEW e \in Event, EditEvent(e)
  PROVE  FlowInv'
  BY EditGrows, SameTasks, RemovalStays, OtherFlow DEF rows

LEMMA WorldFlow ==
  ASSUME FlowInv, ImportInv',
         Tick \/ Rename \/ \E t \in TaskId : UserCompletes(t) \/ UserDeletes(t)
  PROVE  FlowInv'
<1>1. /\ google' = google /\ edits' = edits /\ scene' = scene /\ links' = links /\ sync' = sync
      /\ removal' = removal /\ binding' = binding
  BY DEF Tick, Rename, UserCompletes, UserDeletes, world, rows, notes
<1>2. CalGrows
  BY <1>1, FlowTypes DEF CalGrows
<1>3. TasksGrow
  <2>1. CASE Tick \/ Rename
    BY <2>1, SameTasks DEF Tick, Rename, rows
  <2>2. ASSUME NEW t \in TaskId, UserCompletes(t) PROVE TasksGrow
    <3>1. PICK r : r = [tasks[t] EXCEPT !.done = TRUE]
      OBVIOUS
    <3>2. tasks[t] \in TaskRow
      BY FlowTypes
    <3>3. r.st = tasks[t].st /\ r.event = tasks[t].event
      BY <3>1, <3>2 DEF TaskRow
    <3>4. tasks' = [tasks EXCEPT ![t] = r]
      BY <2>2, <3>1 DEF UserCompletes
    <3>5. \A u \in TaskId : tasks'[u] = IF u = t THEN r ELSE tasks[u]
      BY <3>4, FlowTypes
    <3> QED
      BY <3>3, <3>5 DEF TasksGrow
  <2>3. ASSUME NEW t \in TaskId, UserDeletes(t) PROVE TasksGrow
    BY <2>3, DeleteGrows DEF UserDeletes
  <2> QED
    BY <2>1, <2>2, <2>3
<1> QED
  BY <1>1, <1>2, <1>3, RemovalStays, OtherFlow

LEMMA FailureFlow ==
  ASSUME FlowInv, ImportInv', Crash \/ \E s \in Syncer : SyncFails(s)
  PROVE  FlowInv'
<1>1. UNCHANGED <<world, rows, scene>>
  BY DEF Crash, SyncFails
<1>2. TasksGrow /\ (\A e \in Event : LinkOK(e)') /\ binding'.token <= edits /\ CalGrows /\ edits' = edits
  BY <1>1, SameTasks, LinksStay, WorldStill DEF rows, FlowInv
<1>3. CASE Crash
  <2>1. PICK n : n = NoSync
    OBVIOUS
  <2>2. \A s \in Syncer : sync'[s] = n
    BY <1>3, <2>1 DEF Crash
  <2>3. n \in Sync /\ Hand(n)' /\ Listing(n)
    BY <2>1, SyncEnds, QuietHand DEF Syncer
  <2>4. Listing(n)'
    BY <1>1, <2>3, WorldStill
  <2>5. RemovalHand'
    BY <1>3 DEF Crash, RemovalHand, NoRemoval
  <2> QED
    BY <1>2, <2>2, <2>3, <2>4, <2>5, FlowKeeps
<1>4. ASSUME NEW s \in Syncer, SyncFails(s) PROVE FlowInv'
  <2>1. removal' = removal
    BY <1>4 DEF SyncFails
  <2>2. PICK q : q = IF sync[s].pc = "refresh" THEN Go(s, "list")
       ELSE IF sync[s].pc = "failed" \/ (sync[s].pc = "next" /\ sync[s].todo = {}) THEN NoSync
       ELSE Fail(s)
    OBVIOUS
  <2>3. sync' = [sync EXCEPT ![s] = q]
    BY <1>4, <2>2 DEF SyncFails
  <2>4. q \in Sync /\ Hand(q)' /\ Listing(q)
    <3>1. CASE sync[s].pc = "refresh"
      <4>1. sync[s] \in Sync /\ Hand(sync[s]) /\ Listing(sync[s])
        BY FlowTypes DEF FlowInv
      <4>2. /\ q \in Sync /\ q.pc = "list" /\ q.link = NoLink /\ q.copy = sync[s].copy
            /\ q.todo = sync[s].todo /\ q.upto = sync[s].upto
        BY <2>2, <3>1, <4>1 DEF Go, Sync, Hand
      <4>3. Listing(q)
        BY <4>1, <4>2 DEF Listing, Past, Left, Taken
      <4> QED
        BY <4>2, <4>3, QuietHand
    <3>2. CASE q = NoSync \/ q = Fail(s)
      BY <3>2, SyncEnds, QuietHand
    <3> QED
      BY <2>2, <3>1, <3>2
  <2> QED
    BY <1>1, <1>2, <2>1, <2>3, <2>4, SyncFlow
<1> QED
  BY <1>3, <1>4

LEMMA FlowStep ==
  ASSUME FlowInv, [Next]_vars
  PROVE  FlowInv'
<1>1. ImportInv'
  BY ImportStep DEF FlowInv
<1>2. CASE Poll \/ ForceSync
  BY <1>1, <1>2, BeginFlow
<1>3. CASE \E s \in Syncer : SyncStep(s)
  BY <1>1, <1>3, LookFlow, TakeFlow, CreateFlow, LinkFlow, ReadFlow, WriteFlow, EndFlow, PolicyFlow
     DEF SyncStep
<1>4. CASE RemovalStep \/ RemovalFails \/ \E op \in {"delete", "disconnect"} : StartRemoval(op)
  BY <1>1, <1>4, RemovalFlow
<1>5. CASE World
  BY <1>1, <1>5, RemovalFlow, EditFlow, WorldFlow, FailureFlow, EndFlow DEF World
<1>6. CASE UNCHANGED vars
  <2>1. /\ google' = google /\ edits' = edits /\ scene' = scene /\ links' = links /\ sync' = sync
        /\ removal' = removal /\ binding' = binding /\ tasks' = tasks
    BY <1>6 DEF vars
  <2>2. CalGrows
    BY <2>1, FlowTypes DEF CalGrows
  <2> QED
    BY <1>1, <2>1, <2>2, SameTasks, RemovalStays, OtherFlow
<1> QED
  BY <1>2, <1>3, <1>4, <1>5, <1>6 DEF Next

LEMMA ScenarioStarts ==
  ASSUME scene \in DOMAIN Scenario
  PROVE  Starts(Sc)
  BY DEF Sc

LEMMA FlowStart == Init => FlowInv
<1> SUFFICES ASSUME Init PROVE FlowInv
  OBVIOUS
<1>1. ImportInv
  BY ImportStart
<1>2. Starts(Sc) /\ Sc \in ScenarioType
  BY ScenarioStarts, ScenarioHasType DEF Init
<1>3. google = Sc.events /\ links = Sc.links /\ tasks = Sc.tasks /\ edits = 0
  BY DEF Init
<1>4. ASSUME NEW e \in Event PROVE CalOK(e) /\ LinkOK(e)
  <2>1. /\ Sc.events[e].ver = 0 /\ (Sc.links[e] # NoLink => Sc.links[e].task # NoTask)
        /\ \A t \in {Sc.links[e].task, Sc.events[e].tag} \ {NoTask} :
             Sc.tasks[t].st = "live" /\ Sc.tasks[t].event = e
    BY <1>2 DEF Starts
  <2>2. links[e] \in LinkRow /\ google[e] \in EventRow
    BY <1>1 DEF ImportInv, ImportTypeOK
  <2>3. LinkOK(e)
    <3>1. CASE HasLink(e)
      BY <1>3, <2>1, <3>1 DEF LinkOK, HasLink, IsTask
    <3>2. CASE ~HasLink(e)
      BY <1>3, <2>1, <3>2 DEF LinkOK, HasLink
    <3> QED
      BY <3>1, <3>2
  <2>4. CalOK(e)
    BY <1>3, <2>1 DEF CalOK, Kept, IsTask
  <2> QED
    BY <2>3, <2>4
<1>5. \A s \in Syncer : Hand(sync[s]) /\ Listing(sync[s])
  <2>1. Hand(NoSync) /\ NoSync.pc = "idle" /\ NoSync.todo = {} /\ NoSync.upto = 0
        /\ NoSync.copy.token = NoToken
    BY QuietHand DEF NoSync, NewBinding
  <2>2. Listing(NoSync)
    BY <1>3, <2>1 DEF Listing, Past, Left, Taken, NoToken
  <2> QED
    BY <2>1, <2>2 DEF Init
<1>6. RemovalHand /\ binding.token <= edits
  BY <1>3 DEF Init, RemovalHand, NoRemoval, NewBinding, NoToken
<1> QED
  BY <1>1, <1>4, <1>5, <1>6 DEF FlowInv

-----------------------------------------------------------------------------
(* What each step does to its sync, field by field.                        *)

Others(s) == \A r \in Syncer : r # s => sync'[r] = sync[r]

Held(s) ==
  /\ sync'[s].copy = sync[s].copy /\ sync'[s].upto = sync[s].upto
  /\ sync'[s].of = sync[s].of /\ sync'[s].todo = sync[s].todo

(* Through with an event, or with the list.                                *)
Ended(s) ==
  \/ sync'[s].pc = "failed" /\ sync'[s].copy = sync[s].copy /\ sync'[s].link = NoLink
  \/ /\ sync'[s].pc = "next" /\ sync'[s].todo = sync[s].todo /\ sync'[s].link = NoLink
     /\ sync'[s].copy = sync[s].copy /\ sync'[s].upto = sync[s].upto

LEMMA SyncOthers ==
  ASSUME FlowInv, NEW s \in Syncer, SyncStep(s) \/ SyncFails(s) \/ PublishFails(s)
  PROVE  /\ Others(s) /\ sync[s].pc # "idle"
         /\ removal' = removal /\ mixed' = mixed /\ scene' = scene /\ dropped' = dropped
         /\ google' = google /\ edits' = edits
         /\ cut' \in {cut, TRUE}
<1>1. \E q : sync' = [sync EXCEPT ![s] = q]
  <2>1. CASE SyncFails(s) \/ PublishFails(s)
    BY <2>1 DEF SyncFails, PublishFails, Step
  <2>2. CASE SyncStep(s)
    BY <2>2 DEF SyncStep, Open, Refresh, List, TokenInvalid, Take, CreateTask,
       CreateLink, ReadTask, WriteTask, Tell, Relink, Policy, Unlink, Drop, Mute, MarkSynced,
       MarkError, Step
  <2> QED
    BY <2>1, <2>2
<1>2. Others(s)
  BY <1>1, FlowTypes DEF Others
<1>3. sync[s].pc # "idle"
  BY DEF SyncStep, SyncFails, PublishFails, Open, Refresh, List, TokenInvalid, Take, CreateTask,
         CreateLink, ReadTask, WriteTask, Tell, Relink, Policy, Unlink, Drop, Mute, MarkSynced,
         MarkError, Step
<1>4. /\ removal' = removal /\ mixed' = mixed /\ scene' = scene /\ dropped' = dropped
      /\ google' = google /\ edits' = edits /\ cut' \in {cut, TRUE}
  BY DEF SyncStep, SyncFails, PublishFails, Open, Refresh, List, TokenInvalid, Take, CreateTask,
         CreateLink, ReadTask, WriteTask, Tell, Relink, Policy, Unlink, Drop, Mute, MarkSynced,
         MarkError, notes, world
<1> QED
  BY <1>2, <1>3, <1>4

LEMMA Becomes ==
  ASSUME FlowInv, NEW s \in Syncer, NEW q, sync' = [sync EXCEPT ![s] = q]
  PROVE  sync'[s] = q
  BY FlowTypes

LEMMA Quiet ==
  NoSync.pc = "idle" /\ \A s : Fail(s).pc = "failed" /\ Fail(s).copy = sync[s].copy
  BY DEF NoSync, Fail

LEMMA FailEnds ==
  ASSUME FlowInv, NEW s \in Syncer, \/ sync' = [sync EXCEPT ![s] = Fail(s)]
                                    \/ sync' = [sync EXCEPT ![s] = NextEvent(s)]
  PROVE  Ended(s)
<1>1. /\ Fail(s).pc = "failed" /\ Fail(s).copy = sync[s].copy /\ Fail(s).link = NoLink
      /\ NextEvent(s).pc = "next" /\ NextEvent(s).todo = sync[s].todo /\ NextEvent(s).link = NoLink
      /\ NextEvent(s).copy = sync[s].copy /\ NextEvent(s).upto = sync[s].upto
  BY SyncEnds DEF Fail, NextEvent, NoSync
<1>2. sync'[s] = Fail(s) \/ sync'[s] = NextEvent(s)
  BY Becomes
<1> QED
  BY <1>1, <1>2 DEF Ended

LEMMA GoDoes ==
  ASSUME FlowInv, NEW s \in Syncer, NEW pc, sync' = [sync EXCEPT ![s] = Go(s, pc)]
  PROVE  /\ sync'[s].pc = pc /\ Held(s) /\ sync'[s].link = sync[s].link
         /\ sync'[s].id = sync[s].id /\ sync'[s].row = sync[s].row /\ sync'[s].tell = sync[s].tell
<1>1. sync[s] \in Sync
  BY FlowTypes
<1>2. PICK q : q = Go(s, pc)
  OBVIOUS
<1>3. /\ q.pc = pc /\ q.copy = sync[s].copy /\ q.upto = sync[s].upto /\ q.of = sync[s].of
      /\ q.todo = sync[s].todo /\ q.link = sync[s].link /\ q.id = sync[s].id
      /\ q.row = sync[s].row /\ q.tell = sync[s].tell
  BY <1>1, <1>2 DEF Go, Sync
<1>4. sync'[s] = q
  BY <1>2, Becomes
<1> QED
  BY <1>3, <1>4 DEF Held

LEMMA LookDoes ==
  ASSUME FlowInv, NEW s \in Syncer, Open(s) \/ Refresh(s) \/ List(s) \/ TokenInvalid(s)
  PROVE  /\ tasks' = tasks /\ links' = links /\ sync'[s].link = NoLink
         /\ sync'[s].copy.st = sync[s].copy.st
         /\ binding.st # "disconnected" =>
              \/ binding' = binding /\ sync'[s].copy.token = sync[s].copy.token
              \/ binding'.st \in {binding.st, sync[s].copy.st} /\ binding'.token = sync'[s].copy.token
         /\ \/ sync'[s].pc \in {"refresh", "list", "failed"}
            \/ /\ sync'[s].pc = "next" /\ sync'[s].todo = ListEvents(sync[s].copy.token)
               /\ sync'[s].upto = edits
<1>1. sync[s] \in Sync /\ sync[s].copy \in BindingRow /\ sync[s].pc \in {"open", "refresh", "list"}
      /\ sync[s].link = NoLink
  <2>1. sync[s].pc \in {"open", "refresh", "list"}
    BY DEF Open, Refresh, List, TokenInvalid, Step
  <2> QED
    BY <2>1, FlowTypes DEF Sync, FlowInv, Hand
<1>2. tasks' = tasks /\ links' = links
  BY DEF Open, Refresh, List, TokenInvalid, rows
<1>3. CASE Open(s)
  <2>1. binding' = binding
    BY <1>3 DEF Open, rows
  <2>2. \/ sync' = [sync EXCEPT ![s] = Fail(s)]
        \/ sync' = [sync EXCEPT ![s] = Go(s, "refresh")]
    BY <1>3 DEF Open, Step
  <2>3. CASE sync' = [sync EXCEPT ![s] = Fail(s)]
    <3>1. sync'[s] = Fail(s)
      BY <2>3, Becomes
    <3>2. Fail(s).pc = "failed" /\ Fail(s).copy = sync[s].copy /\ Fail(s).link = NoLink
      BY SyncEnds DEF Fail, NoSync
    <3> QED
      BY <1>2, <2>1, <3>1, <3>2
  <2>4. CASE sync' = [sync EXCEPT ![s] = Go(s, "refresh")]
    BY <1>1, <1>2, <2>1, <2>4, GoDoes DEF Held
  <2> QED
    BY <2>2, <2>3, <2>4
<1>4. CASE Refresh(s)
  <2>1. PICK c : c = [sync[s].copy EXCEPT !.summary = summary]
    OBVIOUS
  <2>2. c.token = sync[s].copy.token /\ c.st = sync[s].copy.st
    BY <1>1, <2>1 DEF BindingRow
  <2>3. PICK q : q = [sync[s] EXCEPT !.pc = "list", !.copy = c]
    OBVIOUS
  <2>4. q.pc = "list" /\ q.copy = c /\ q.link = NoLink
    BY <1>1, <2>3 DEF Sync
  <2>5. sync' = [sync EXCEPT ![s] = q] /\ (binding' = binding \/ binding' = UpdateBinding(c))
    BY <1>4, <2>1, <2>3 DEF Refresh, Step
  <2>6. sync'[s] = q
    BY <2>5, Becomes
  <2> QED
    BY <1>2, <2>2, <2>4, <2>5, <2>6 DEF UpdateBinding
<1>5. CASE List(s)
  <2>1. PICK q : q = [sync[s] EXCEPT !.pc = "next", !.upto = edits,
                                     !.todo = ListEvents(sync[s].copy.token)]
    OBVIOUS
  <2>2. q.pc = "next" /\ q.copy = sync[s].copy /\ q.link = NoLink /\ q.upto = edits
        /\ q.todo = ListEvents(sync[s].copy.token)
    BY <1>1, <2>1 DEF Sync
  <2>3. sync' = [sync EXCEPT ![s] = q] /\ binding' = binding
    BY <1>5, <2>1 DEF List, Step, rows
  <2>4. sync'[s] = q
    BY <2>3, Becomes
  <2> QED
    BY <1>2, <2>2, <2>3, <2>4
<1>6. CASE TokenInvalid(s)
  <2>1. PICK c, b : /\ c = [sync[s].copy EXCEPT !.token = NoToken]
                    /\ b = [binding EXCEPT !.token = NoToken]
    OBVIOUS
  <2>2. c.token = NoToken /\ c.st = sync[s].copy.st /\ b.token = NoToken /\ b.st = binding.st
    BY <1>1, <2>1, FlowTypes DEF BindingRow
  <2>3. PICK q : q = [sync[s] EXCEPT !.copy = c]
    OBVIOUS
  <2>4. q.copy = c /\ q.link = NoLink /\ q.pc = "list"
    BY <1>1, <1>6, <2>3 DEF Sync, TokenInvalid, Step
  <2>5. /\ sync' = [sync EXCEPT ![s] = [sync[s] EXCEPT !.copy.token = NoToken]]
        /\ binding' = UpdateBinding(b)
    BY <1>6, <2>1 DEF TokenInvalid, Step, ClearSyncToken
  <2>6. sync' = [sync EXCEPT ![s] = q]
    BY <2>1, <2>3, <2>5
  <2>7. sync'[s] = q
    BY <2>6, Becomes
  <2> QED
    BY <1>2, <2>2, <2>4, <2>5, <2>7 DEF UpdateBinding
<1> QED
  BY <1>3, <1>4, <1>5, <1>6

LEMMA TakeDoes ==
  ASSUME FlowInv, NEW s \in Syncer, Take(s)
  PROVE  /\ tasks' = tasks /\ binding' = binding /\ sync[s].pc = "next"
         /\ sync'[s].copy = sync[s].copy
         /\ \/ sync'[s].pc = "failed" /\ links' = links
            \/ \E x \in sync[s].todo :
                 /\ x \in Listed /\ ListedOf(x, sync[s].upto)
                 /\ sync'[s].todo = sync[s].todo \ {x} /\ sync'[s].upto = sync[s].upto
                 /\ \/ /\ sync'[s].pc = "next" /\ links' = links
                       /\ x.row.st = "cancelled" /\ ~HasLink(x.ev)
                    \/ /\ sync'[s].pc = "next" /\ x.row.st = "live"
                       /\ ~HasLink(x.ev) /\ x.row.tag # NoTask
                       /\ links' = [links EXCEPT ![x.ev] = [task |-> x.row.tag, origin |-> "exported"]]
                    \/ /\ sync'[s].pc = "policy" /\ links' = links /\ sync'[s].of = x.ev
                       /\ x.row.st = "cancelled" /\ HasLink(x.ev)
                       /\ sync'[s].id = links[x.ev].task
                    \/ /\ sync'[s].pc = "create" /\ links' = links /\ sync'[s].of = x.ev
                       /\ x.row.st = "live" /\ ~HasLink(x.ev) /\ x.row.tag = NoTask
                       /\ sync'[s].row = Fields(x) /\ sync'[s].row.text = x.row.ver
                       /\ sync'[s].link = NoLink
                    \/ /\ sync'[s].pc = "read" /\ links' = links /\ sync'[s].of = x.ev
                       /\ x.row.st = "live" /\ HasLink(x.ev)
                       /\ sync'[s].row = Fields(x) /\ sync'[s].row.text = x.row.ver
                       /\ sync'[s].id = links[x.ev].task
                       /\ sync'[s].link = links[x.ev]
<1>1. sync[s] \in Sync /\ Hand(sync[s]) /\ Listing(sync[s]) /\ links \in [Event -> LinkRow]
  BY FlowTypes DEF FlowInv
<1>2. PICK x \in sync[s].todo :
        LET skipped == [sync[s] EXCEPT !.todo = @ \ {x}]
            taken  == [sync[s] EXCEPT !.todo = @ \ {x}, !.of = x.ev]
            fields == [taken EXCEPT !.row = Fields(x)]
            with(e) == [fields EXCEPT !.of = e, !.link = links[e], !.id = links[e].task]
        IN
        /\ UNCHANGED <<world, binding, revoked, tasks, armed, removal, notes>>
        /\ \/ /\ x.row.st = "cancelled" /\ ~HasLink(x.ev)
              /\ Step(s, "next", skipped)
              /\ UNCHANGED links
           \/ /\ x.row.st = "cancelled" /\ HasLink(x.ev)
              /\ Step(s, "next", [taken EXCEPT !.pc = "policy", !.link = links[x.ev],
                                               !.id = links[x.ev].task])
              /\ UNCHANGED links
           \/ /\ x.row.st = "live" /\ LinkedEvents(x) = {} /\ x.row.tag # NoTask
              /\ Step(s, "next", skipped)
              /\ links' = [links EXCEPT ![x.ev] = [task |-> x.row.tag, origin |-> "exported"]]
           \/ /\ x.row.st = "live" /\ LinkedEvents(x) = {} /\ x.row.tag = NoTask
              /\ Step(s, "next", IF x.row.bad THEN Fail(s)
                                 ELSE [fields EXCEPT !.pc = "create"])
              /\ UNCHANGED links
           \/ \E e \in LinkedEvents(x) :
              /\ x.row.st = "live"
              /\ Step(s, "next", IF x.row.bad THEN Fail(s)
                                 ELSE [with(e) EXCEPT !.pc = "read"])
              /\ UNCHANGED links
  BY DEF Take
<1>3. x \in Listed /\ x.ev \in Event /\ ListedOf(x, sync[s].upto)
  BY <1>1 DEF Sync, Listed, Listing
<1>4. sync[s].pc = "next" /\ sync[s].link = NoLink /\ tasks' = tasks /\ binding' = binding
  <2>1. sync[s].pc = "next" /\ tasks' = tasks /\ binding' = binding
    BY <1>2 DEF Step
  <2> QED
    BY <1>1, <2>1 DEF Hand
<1>5. LinkedEvents(x) = {} => ~HasLink(x.ev)
  BY DEF LinkedEvents
<1>6. PICK skipped : skipped = [sync[s] EXCEPT !.todo = @ \ {x}]
  OBVIOUS
<1>7. PICK taken : taken = [sync[s] EXCEPT !.todo = @ \ {x}, !.of = x.ev]
  OBVIOUS
<1>8. PICK f : f = Fields(x)
  OBVIOUS
<1>9. f \in TaskRow /\ f.text = x.row.ver
  <2>1. f \in TaskRow
    BY <1>3, <1>8, FieldsType DEF FlowInv, ImportInv
  <2> QED
    BY <1>8, <2>1 DEF Fields
<1>10. /\ skipped.pc = "next" /\ skipped.todo = sync[s].todo \ {x}
       /\ skipped.upto = sync[s].upto /\ skipped.copy = sync[s].copy
  BY <1>1, <1>4, <1>6 DEF Sync
<1>11. /\ taken \in Sync /\ taken.link = NoLink /\ taken.of = x.ev
       /\ taken.todo = sync[s].todo \ {x}
       /\ taken.upto = sync[s].upto /\ taken.copy = sync[s].copy
  BY <1>1, <1>3, <1>4, <1>7 DEF Sync
<1>12. CASE /\ x.row.st = "cancelled" /\ ~HasLink(x.ev)
            /\ Step(s, "next", skipped) /\ UNCHANGED links
  <2>1. sync'[s] = skipped
    BY <1>12, Becomes DEF Step
  <2> QED
    BY <1>3, <1>4, <1>10, <1>12, <2>1
<1>13. CASE /\ x.row.st = "live" /\ LinkedEvents(x) = {} /\ x.row.tag # NoTask
            /\ Step(s, "next", skipped)
            /\ links' = [links EXCEPT ![x.ev] = [task |-> x.row.tag, origin |-> "exported"]]
  <2>1. sync'[s] = skipped
    BY <1>13, Becomes DEF Step
  <2> QED
    BY <1>3, <1>4, <1>5, <1>10, <1>13, <2>1
<1>14. CASE /\ x.row.st = "cancelled" /\ HasLink(x.ev) /\ links' = links
            /\ Step(s, "next", [taken EXCEPT !.pc = "policy", !.link = links[x.ev],
                                             !.id = links[x.ev].task])
  <2>1. PICK t : t = links[x.ev].task
    OBVIOUS
  <2>2. PICK q : q = [taken EXCEPT !.pc = "policy", !.link = links[x.ev], !.id = t]
    OBVIOUS
  <2>3. /\ q.pc = "policy" /\ q.of = x.ev /\ q.id = t
        /\ q.todo = sync[s].todo \ {x} /\ q.upto = sync[s].upto /\ q.copy = sync[s].copy
    BY <1>11, <2>2 DEF Sync
  <2>4. sync' = [sync EXCEPT ![s] = q]
    BY <1>14, <2>1, <2>2 DEF Step
  <2>5. sync'[s] = q
    BY <2>4, Becomes
  <2> QED
    BY <1>3, <1>4, <1>14, <2>1, <2>3, <2>5
<1>15. ASSUME sync' = [sync EXCEPT ![s] = Fail(s)], links' = links
       PROVE  sync'[s].pc = "failed" /\ sync'[s].copy = sync[s].copy /\ links' = links
  <2>1. sync'[s] = Fail(s)
    BY <1>15, Becomes
  <2> QED
    BY <1>15, <2>1, Quiet
<1>16. CASE /\ x.row.st = "live" /\ x.row.tag = NoTask /\ links' = links /\ LinkedEvents(x) = {}
            /\ Step(s, "next", [[taken EXCEPT !.row = f] EXCEPT !.pc = "create"])
  <2>1. PICK q : q = [[taken EXCEPT !.row = f] EXCEPT !.pc = "create"]
    OBVIOUS
  <2>2. /\ q.pc = "create" /\ q.of = x.ev /\ q.row = f /\ q.link = NoLink
        /\ q.todo = sync[s].todo \ {x} /\ q.upto = sync[s].upto /\ q.copy = sync[s].copy
    BY <1>11, <2>1 DEF Sync
  <2>3. sync' = [sync EXCEPT ![s] = q]
    BY <1>16, <2>1 DEF Step
  <2>4. sync'[s] = q
    BY <2>3, Becomes
  <2> QED
    BY <1>3, <1>4, <1>5, <1>8, <1>9, <1>16, <2>2, <2>4
<1>17. ASSUME NEW e \in LinkedEvents(x), x.row.st = "live", links' = links,
              Step(s, "next", [[[taken EXCEPT !.row = f] EXCEPT
                       !.of = e, !.link = links[e], !.id = links[e].task] EXCEPT !.pc = "read"])
       PROVE  \E y \in sync[s].todo :
                 /\ y \in Listed /\ ListedOf(y, sync[s].upto)
                 /\ sync'[s].todo = sync[s].todo \ {y} /\ sync'[s].upto = sync[s].upto
                 /\ sync'[s].copy = sync[s].copy
                 /\ sync'[s].pc = "read" /\ links' = links /\ sync'[s].of = y.ev
                 /\ y.row.st = "live" /\ HasLink(y.ev)
                 /\ sync'[s].row = Fields(y) /\ sync'[s].row.text = y.row.ver
                 /\ sync'[s].id = links[y.ev].task
                 /\ sync'[s].link = links[y.ev]
  <2>1. PICK t, l : t = links[e].task /\ l = links[e]
    OBVIOUS
  <2>2. e = x.ev /\ HasLink(x.ev)
    BY <1>3, OwnLink DEF ListedOf
  <2>3. PICK q : q = [[[taken EXCEPT !.row = f] EXCEPT !.of = e, !.link = l, !.id = t]
                        EXCEPT !.pc = "read"]
    OBVIOUS
  <2>4. /\ q.pc = "read" /\ q.of = x.ev /\ q.row = f /\ q.link = l /\ q.id = t
        /\ q.todo = sync[s].todo \ {x} /\ q.upto = sync[s].upto /\ q.copy = sync[s].copy
    BY <1>11, <2>2, <2>3 DEF Sync
  <2>5. sync' = [sync EXCEPT ![s] = q]
    BY <1>17, <2>1, <2>3 DEF Step
  <2>6. sync'[s] = q
    BY <2>5, Becomes
  <2> QED
    BY <1>3, <1>8, <1>9, <1>17, <2>1, <2>2, <2>4, <2>6
<1>18. CASE \E e \in LinkedEvents(x) :
              /\ x.row.st = "live" /\ links' = links
              /\ \/ Step(s, "next", Fail(s))
                 \/ Step(s, "next", [[[taken EXCEPT !.row = f] EXCEPT
                       !.of = e, !.link = links[e], !.id = links[e].task] EXCEPT !.pc = "read"])
  <2>1. PICK e \in LinkedEvents(x) :
              /\ x.row.st = "live" /\ links' = links
              /\ \/ Step(s, "next", Fail(s))
                 \/ Step(s, "next", [[[taken EXCEPT !.row = f] EXCEPT
                       !.of = e, !.link = links[e], !.id = links[e].task] EXCEPT !.pc = "read"])
    BY <1>18
  <2>2. CASE Step(s, "next", Fail(s))
    BY <1>4, <1>15, <2>1, <2>2 DEF Step
  <2>3. CASE Step(s, "next", [[[taken EXCEPT !.row = f] EXCEPT
                       !.of = e, !.link = links[e], !.id = links[e].task] EXCEPT !.pc = "read"])
    <3>1. PICK y \in sync[s].todo :
                 /\ y \in Listed /\ ListedOf(y, sync[s].upto)
                 /\ sync'[s].todo = sync[s].todo \ {y} /\ sync'[s].upto = sync[s].upto
                 /\ sync'[s].copy = sync[s].copy
                 /\ sync'[s].pc = "read" /\ links' = links /\ sync'[s].of = y.ev
                 /\ y.row.st = "live" /\ HasLink(y.ev)
                 /\ sync'[s].row = Fields(y) /\ sync'[s].row.text = y.row.ver
                 /\ sync'[s].id = links[y.ev].task
                 /\ sync'[s].link = links[y.ev]
      BY <1>17, <2>1, <2>3
    <3> QED
      BY <1>4, <3>1
  <2> QED
    BY <2>1, <2>2, <2>3
<1>19. CASE Step(s, "next", Fail(s)) /\ links' = links
  BY <1>4, <1>15, <1>19 DEF Step
<1> QED
  BY <1>2, <1>6, <1>7, <1>8, <1>12, <1>13, <1>14, <1>16, <1>18, <1>19

LEMMA CreateDoes ==
  ASSUME FlowInv, NEW s \in Syncer, CreateTask(s)
  PROVE  /\ links' = links /\ binding' = binding /\ sync[s].pc = "create" /\ Held(s)
         /\ sync'[s].link = sync[s].link /\ sync'[s].id \in TaskId
         /\ sync'[s].pc = IF sync[s].link = NoLink THEN "link" ELSE "tell"
         /\ tasks[sync'[s].id].st = "none"
         /\ tasks'[sync'[s].id] = sync[s].row
         /\ \A u \in TaskId : u # sync'[s].id => tasks'[u] = tasks[u]
<1>1. PICK t \in Free :
        /\ Step(s, "create", [sync[s] EXCEPT !.id = t, !.tell = "schedule",
                           !.pc = IF sync[s].link = NoLink THEN "link" ELSE "tell"])
        /\ tasks' = [tasks EXCEPT ![t] = sync[s].row]
        /\ UNCHANGED <<world, binding, revoked, links, armed, removal, notes>>
  BY DEF CreateTask
<1>2. PICK pc : pc = IF sync[s].link = NoLink THEN "link" ELSE "tell"
  OBVIOUS
<1>3. PICK q : q = [sync[s] EXCEPT !.id = t, !.tell = "schedule", !.pc = pc]
  OBVIOUS
<1>4. t \in TaskId /\ tasks[t].st = "none"
  BY DEF Free
<1>5. /\ q.pc = pc /\ q.id = t /\ q.of = sync[s].of /\ q.link = sync[s].link
      /\ q.todo = sync[s].todo /\ q.upto = sync[s].upto /\ q.copy = sync[s].copy
  BY <1>3, FlowTypes DEF Sync
<1>6. sync' = [sync EXCEPT ![s] = q] /\ sync[s].pc = "create"
  BY <1>1, <1>2, <1>3 DEF Step
<1>7. sync'[s] = q
  BY <1>6, Becomes
<1>8. \A u \in TaskId : tasks'[u] = IF u = t THEN sync[s].row ELSE tasks[u]
  BY <1>1, <1>4, FlowTypes
<1> QED
  BY <1>1, <1>2, <1>4, <1>5, <1>6, <1>7, <1>8 DEF Held

LEMMA CreateLinkDoes ==
  ASSUME FlowInv, NEW s \in Syncer, CreateLink(s)
  PROVE  /\ tasks' = tasks /\ binding' = binding /\ sync[s].pc = "link" /\ sync[s].of \in Event
         /\ \/ HasLink(sync[s].of) /\ links' = links /\ Ended(s)
            \/ /\ ~HasLink(sync[s].of) /\ Held(s) /\ sync'[s].pc = "tell"
               /\ sync'[s].id = sync[s].id /\ sync'[s].link = sync[s].link
               /\ links' = [links EXCEPT ![sync[s].of] = [task |-> sync[s].id, origin |-> "imported"]]
<1>1. tasks' = tasks /\ binding' = binding /\ sync[s].pc = "link" /\ sync[s].of \in Event
  BY FlowTypes DEF CreateLink, Step, Sync
<1>2. CASE HasLink(sync[s].of)
  <2>1. links' = links /\ sync' = [sync EXCEPT ![s] = Fail(s)]
    BY <1>2 DEF CreateLink, Step
  <2> QED
    BY <1>1, <1>2, <2>1, FailEnds
<1>3. CASE ~HasLink(sync[s].of)
  <2>1. /\ sync' = [sync EXCEPT ![s] = Go(s, "tell")]
        /\ links' = [links EXCEPT ![sync[s].of] = [task |-> sync[s].id, origin |-> "imported"]]
    BY <1>3 DEF CreateLink, Step
  <2> QED
    BY <1>1, <1>3, <2>1, GoDoes
<1> QED
  BY <1>2, <1>3

LEMMA ReadDoes ==
  ASSUME FlowInv, NEW s \in Syncer, ReadTask(s)
  PROVE  /\ tasks' = tasks /\ links' = links /\ binding' = binding
         /\ sync[s].pc = "read" /\ Held(s)
         /\ sync'[s].link = sync[s].link /\ sync'[s].id = sync[s].id
         /\ \/ /\ sync'[s].pc = "create" /\ sync'[s].row = sync[s].row /\ ~Exists(sync[s].id)
            \/ /\ sync'[s].pc = "write" /\ Exists(sync[s].id)
               /\ sync'[s].row.text = sync[s].row.text
            \/ /\ sync'[s].pc \in {"tell", "relink"} /\ Exists(sync[s].id)
               /\ tasks[sync[s].id].text = sync[s].row.text
<1>1. sync[s] \in Sync /\ Hand(sync[s]) /\ sync[s].pc = "read" /\ sync[s].row \in TaskRow
  BY FlowTypes DEF FlowInv, ReadTask, Step, Sync
<1>2. IsTask(sync[s].of, sync[s].id)
  BY <1>1 DEF Hand, Left
<1>3. tasks[sync[s].id] \in TaskRow
  BY <1>2, HandTask
<1>4. tasks' = tasks /\ links' = links /\ binding' = binding
  BY DEF ReadTask, rows
<1>5. CASE ~Exists(sync[s].id)
  <2>1. sync' = [sync EXCEPT ![s] = Go(s, "create")]
    BY <1>5 DEF ReadTask, Step
  <2> QED
    BY <1>1, <1>4, <1>5, <2>1, GoDoes
<1>6. CASE Exists(sync[s].id)
  <2>1. PICK r : r = Merged(tasks[sync[s].id], sync[s].row, sync[s].link.origin)
    OBVIOUS
  <2>2. PICK tell : tell = TellOf(tasks[sync[s].id], sync[s].row, sync[s].link.origin)
    OBVIOUS
  <2>3. PICK pc : pc = IF r # tasks[sync[s].id] THEN "write"
                      ELSE IF tell # "none" THEN "tell" ELSE "relink"
    OBVIOUS
  <2>4. PICK q : q = [sync[s] EXCEPT !.row = r, !.tell = tell, !.pc = pc]
    OBVIOUS
  <2>5. sync' = [sync EXCEPT ![s] = q]
    BY <1>6, <2>1, <2>2, <2>3, <2>4 DEF ReadTask, Step
  <2>6. sync'[s] = q
    BY <2>5, Becomes
  <2>7. /\ q.pc = pc /\ q.id = sync[s].id /\ q.of = sync[s].of /\ q.link = sync[s].link
        /\ q.todo = sync[s].todo /\ q.upto = sync[s].upto /\ q.copy = sync[s].copy /\ q.row = r
    BY <1>1, <2>4 DEF Sync
  <2>8. r.text = sync[s].row.text
    BY <1>3, <2>1 DEF Merged, TaskRow
  <2>9. pc \in {"write", "tell", "relink"} /\ (pc # "write" => r = tasks[sync[s].id])
    BY <2>3
  <2>10. Held(s) /\ sync'[s].link = sync[s].link /\ sync'[s].id = sync[s].id
    BY <2>6, <2>7 DEF Held
  <2> QED
    BY <1>1, <1>4, <1>6, <2>6, <2>7, <2>8, <2>9, <2>10
<1> QED
  BY <1>5, <1>6

LEMMA WriteDoes ==
  ASSUME FlowInv, NEW s \in Syncer, WriteTask(s)
  PROVE  /\ links' = links /\ binding' = binding /\ sync[s].pc = "write" /\ Held(s)
         /\ sync'[s].pc \in {"relink", "tell"}
         /\ sync'[s].link = sync[s].link /\ sync'[s].id = sync[s].id
         /\ tasks' = UpdateTask(sync[s].id, sync[s].row)
<1>1. /\ links' = links /\ binding' = binding /\ sync[s].pc = "write"
      /\ tasks' = UpdateTask(sync[s].id, sync[s].row)
  BY DEF WriteTask, Step
<1>2. PICK pc \in {"relink", "tell"} : sync' = [sync EXCEPT ![s] = Go(s, pc)]
  BY DEF WriteTask, Step
<1> QED
  BY <1>1, <1>2, GoDoes

LEMMA TellDoes ==
  ASSUME FlowInv, NEW s \in Syncer, Tell(s) \/ PublishFails(s)
  PROVE  /\ tasks' = tasks /\ links' = links /\ binding' = binding
         /\ sync[s].pc = "tell" /\ sync'[s].copy = sync[s].copy
         /\ sync'[s].todo = sync[s].todo /\ sync'[s].upto = sync[s].upto
         /\ \/ sync[s].link = NoLink /\ sync'[s].pc = "next"
            \/ /\ sync[s].link # NoLink /\ sync'[s].pc = "relink" /\ Held(s)
               /\ sync'[s].id = sync[s].id /\ sync'[s].link = sync[s].link
<1>1. /\ tasks' = tasks /\ links' = links /\ binding' = binding /\ sync[s].pc = "tell"
      /\ sync' = [sync EXCEPT ![s] = AfterTell(s)]
  BY DEF Tell, PublishFails, Step, rows
<1>2. CASE sync[s].link = NoLink
  <2>1. sync' = [sync EXCEPT ![s] = NextEvent(s)]
    BY <1>1, <1>2 DEF AfterTell
  <2>2. sync'[s] = NextEvent(s)
    BY <2>1, Becomes
  <2>3. /\ NextEvent(s).pc = "next" /\ NextEvent(s).todo = sync[s].todo
        /\ NextEvent(s).upto = sync[s].upto /\ NextEvent(s).copy = sync[s].copy
    BY DEF NextEvent, NoSync
  <2> QED
    BY <1>1, <1>2, <2>2, <2>3
<1>3. CASE sync[s].link # NoLink
  <2>1. sync' = [sync EXCEPT ![s] = Go(s, "relink")]
    BY <1>1, <1>3 DEF AfterTell
  <2>2. Held(s) /\ sync'[s].pc = "relink" /\ sync'[s].id = sync[s].id /\ sync'[s].link = sync[s].link
    BY <2>1, GoDoes
  <2> QED
    BY <1>1, <1>3, <2>2 DEF Held
<1> QED
  BY <1>2, <1>3

LEMMA RelinkDoes ==
  ASSUME FlowInv, NEW s \in Syncer, Relink(s)
  PROVE  /\ tasks' = tasks /\ links' = links /\ binding' = binding
         /\ sync[s].pc = "relink" /\ Ended(s)
<1>1. /\ tasks' = tasks /\ links' = links /\ binding' = binding /\ sync[s].pc = "relink"
      /\ sync' = [sync EXCEPT ![s] = NextEvent(s)] \/ sync' = [sync EXCEPT ![s] = Fail(s)]
  BY DEF Relink, Step, rows
<1> QED
  BY <1>1, FailEnds

LEMMA PolicyDoes ==
  ASSUME FlowInv, NEW s \in Syncer, Policy(s)
  PROVE  /\ tasks' = tasks /\ links' = links /\ binding' = binding /\ sync[s].pc = "policy"
         /\ \/ /\ sync'[s].pc = "unlink" /\ ~Exists(sync[s].id) /\ Held(s)
               /\ sync'[s].id = sync[s].id
            \/ /\ Exists(sync[s].id) /\ PolicyPc(sync[s].id) = "next" /\ Ended(s)
            \/ /\ Exists(sync[s].id) /\ Held(s) /\ sync'[s].id = sync[s].id
               /\ sync'[s].pc = PolicyPc(sync[s].id) /\ sync'[s].pc \in {"drop", "mute"}
<1>1. /\ tasks' = tasks /\ links' = links /\ binding' = binding /\ sync[s].pc = "policy"
      /\ sync[s] \in Sync
  BY FlowTypes DEF Policy, Step
<1>2. CASE ~Exists(sync[s].id)
  <2>1. sync' = [sync EXCEPT ![s] = Go(s, "unlink")]
    BY <1>2 DEF Policy, Step
  <2> QED
    BY <1>1, <1>2, <2>1, GoDoes
<1>3. CASE Exists(sync[s].id) /\ PolicyPc(sync[s].id) = "next"
  <2>1. sync' = [sync EXCEPT ![s] = NextEvent(s)]
    BY <1>3 DEF Policy, Step
  <2> QED
    BY <1>1, <1>3, <2>1, FailEnds
<1>4. CASE Exists(sync[s].id) /\ PolicyPc(sync[s].id) # "next"
  <2>1. PICK pc, r, t : t = sync[s].id /\ pc = PolicyPc(t) /\ r = tasks[t]
    OBVIOUS
  <2>2. PICK q : q = [sync[s] EXCEPT !.pc = pc, !.row = r]
    OBVIOUS
  <2>3. sync' = [sync EXCEPT ![s] = q]
    BY <1>4, <2>1, <2>2 DEF Policy, Step
  <2>4. sync'[s] = q
    BY <2>3, Becomes
  <2>5. /\ q.pc = pc /\ q.id = t /\ q.of = sync[s].of
        /\ q.todo = sync[s].todo /\ q.upto = sync[s].upto /\ q.copy = sync[s].copy
    BY <1>1, <2>1, <2>2 DEF Sync
  <2>6. pc \in {"drop", "mute"}
    BY <1>4, <2>1 DEF PolicyPc
  <2> QED
    BY <1>1, <1>4, <2>1, <2>4, <2>5, <2>6 DEF Held
<1> QED
  BY <1>2, <1>3, <1>4

LEMMA LeaveDoes ==
  ASSUME FlowInv, NEW s \in Syncer, Unlink(s) \/ Drop(s) \/ Mute(s)
  PROVE  /\ binding' = binding /\ Ended(s)
         /\ \/ /\ sync[s].pc = "unlink" /\ tasks' = tasks
               /\ links' = [links EXCEPT ![sync[s].of] = NoLink]
            \/ sync[s].pc = "drop" /\ tasks' = DeleteTask(sync[s].id) /\ links' = links
            \/ /\ sync[s].pc = "mute" /\ links' = links
               /\ tasks' = UpdateTask(sync[s].id, [sync[s].row EXCEPT !.muted = TRUE])
<1>1. sync' = [sync EXCEPT ![s] = NextEvent(s)] \/ sync' = [sync EXCEPT ![s] = Fail(s)]
  BY DEF Unlink, Drop, Mute, Step
<1>2. Ended(s)
  BY <1>1, FailEnds
<1> QED
  BY <1>2 DEF Unlink, Drop, Mute, Step

LEMMA MarkDoes ==
  ASSUME FlowInv, NEW s \in Syncer, MarkSynced(s) \/ MarkError(s)
  PROVE  /\ tasks' = tasks /\ links' = links /\ sync'[s] = NoSync
         /\ \/ binding' = binding
            \/ /\ sync[s].pc = "next" /\ sync[s].todo = {} /\ binding'.token = sync[s].upto
               /\ binding'.st = "active" /\ binding.st # "disconnected"
            \/ /\ sync[s].pc = "failed" /\ binding'.token = sync[s].copy.token
               /\ binding'.st = "error" /\ binding.st # "disconnected"
<1>1. tasks' = tasks /\ links' = links /\ sync[s].copy \in BindingRow
  BY FlowTypes DEF MarkSynced, MarkError, Sync
<1>2. sync' = [sync EXCEPT ![s] = NoSync]
  BY DEF MarkSynced, MarkError, Step
<1>3. sync'[s] = NoSync
  BY <1>2, Becomes
<1>4. /\ Synced(s).token = sync[s].upto /\ Synced(s).st = "active"
      /\ Errored(s).token = sync[s].copy.token /\ Errored(s).st = "error"
  BY <1>1 DEF Synced, Errored, BindingRow
<1> QED
  BY <1>1, <1>3, <1>4 DEF MarkSynced, MarkError, UpdateBinding, Step

LEMMA FailsDoes ==
  ASSUME FlowInv, NEW s \in Syncer, SyncFails(s)
  PROVE  /\ tasks' = tasks /\ links' = links /\ binding' = binding /\ cut' = TRUE
         /\ \/ sync'[s].pc = "list" /\ sync'[s].copy = sync[s].copy /\ sync'[s].link = NoLink
            \/ sync'[s] = NoSync
            \/ sync'[s].pc = "failed" /\ sync'[s].copy = sync[s].copy /\ sync'[s].link = NoLink
<1>1. tasks' = tasks /\ links' = links /\ binding' = binding /\ cut' = TRUE
  BY DEF SyncFails, rows
<1>2. \/ sync[s].pc = "refresh" /\ sync' = [sync EXCEPT ![s] = Go(s, "list")]
      \/ sync' = [sync EXCEPT ![s] = NoSync]
      \/ sync' = [sync EXCEPT ![s] = Fail(s)]
  BY DEF SyncFails
<1>3. CASE sync[s].pc = "refresh" /\ sync' = [sync EXCEPT ![s] = Go(s, "list")]
  <2>1. sync[s].link = NoLink
    BY <1>3 DEF FlowInv, Hand
  <2> QED
    BY <1>1, <1>3, <2>1, GoDoes DEF Held
<1>4. CASE sync' = [sync EXCEPT ![s] = NoSync]
  BY <1>1, <1>4, Becomes
<1>5. CASE sync' = [sync EXCEPT ![s] = Fail(s)]
  <2>1. sync'[s] = Fail(s)
    BY <1>5, Becomes
  <2> QED
    BY <1>1, <2>1, SyncEnds DEF Fail, NoSync
<1> QED
  BY <1>2, <1>3, <1>4, <1>5

-----------------------------------------------------------------------------
(* Nobody beside it.                                                       *)

(* As long as no two actors met, a sync runs alone, and the binding has    *)
(* the token the sync goes on from.                                        *)
AloneInv ==
  Alone =>
    \A s \in Syncer : sync[s].pc # "idle" =>
      /\ \A r \in Syncer : r # s => sync[r].pc = "idle"
      /\ removal.pc = "idle"
      /\ binding.st # "disconnected" /\ sync[s].copy.st # "disconnected"
      /\ binding.token = sync[s].copy.token

LEMMA AloneSync ==
  ASSUME FlowInv, AloneInv, NEW s \in Syncer, mixed' = mixed, removal' = removal,
         sync[s].pc # "idle", Others(s),
         \/ sync'[s].pc = "idle"
         \/ /\ binding.st # "disconnected" /\ sync[s].copy.st # "disconnected"
              /\ binding.token = sync[s].copy.token
            => /\ binding'.st # "disconnected" /\ sync'[s].copy.st # "disconnected"
               /\ binding'.token = sync'[s].copy.token
  PROVE  AloneInv'
<1> SUFFICES ASSUME Alone, NEW r \in Syncer, sync'[r].pc # "idle"
             PROVE  /\ \A p \in Syncer : p # r => sync'[p].pc = "idle"
                    /\ removal'.pc = "idle"
                    /\ binding'.st # "disconnected" /\ sync'[r].copy.st # "disconnected"
                    /\ binding'.token = sync'[r].copy.token
  BY DEF AloneInv, Alone
<1>1. /\ \A p \in Syncer : p # s => sync[p].pc = "idle"
      /\ removal.pc = "idle" /\ binding.st # "disconnected" /\ sync[s].copy.st # "disconnected"
      /\ binding.token = sync[s].copy.token
  BY DEF AloneInv
<1>2. r = s
  BY <1>1 DEF Others
<1> QED
  BY <1>1, <1>2 DEF Others

LEMMA AloneSyncStep ==
  ASSUME FlowInv, AloneInv, NEW s \in Syncer, SyncStep(s) \/ SyncFails(s) \/ PublishFails(s)
  PROVE  AloneInv'
<1>1. /\ Others(s) /\ sync[s].pc # "idle" /\ mixed' = mixed /\ removal' = removal
  BY SyncOthers
<1>2. ASSUME binding' = binding, sync'[s].copy = sync[s].copy PROVE AloneInv'
  BY <1>1, <1>2, AloneSync
<1>3. ASSUME sync'[s] = NoSync PROVE AloneInv'
  <2>1. sync'[s].pc = "idle"
    BY <1>3 DEF NoSync
  <2> QED
    BY <1>1, <2>1, AloneSync
<1>4. CASE Open(s) \/ Refresh(s) \/ List(s) \/ TokenInvalid(s)
  BY <1>1, <1>4, LookDoes, AloneSync
<1>5. CASE Take(s)
  BY <1>2, <1>5, TakeDoes
<1>6. CASE CreateTask(s)
  BY <1>2, <1>6, CreateDoes DEF Held
<1>7. CASE CreateLink(s)
  BY <1>2, <1>7, CreateLinkDoes DEF Held, Ended
<1>8. CASE ReadTask(s)
  BY <1>2, <1>8, ReadDoes DEF Held
<1>9. CASE WriteTask(s)
  BY <1>2, <1>9, WriteDoes DEF Held
<1>10. CASE Tell(s) \/ PublishFails(s)
  BY <1>2, <1>10, TellDoes
<1>11. CASE Relink(s)
  BY <1>2, <1>11, RelinkDoes DEF Ended
<1>12. CASE Policy(s)
  BY <1>2, <1>12, PolicyDoes DEF Held, Ended
<1>13. CASE Unlink(s) \/ Drop(s) \/ Mute(s)
  BY <1>2, <1>13, LeaveDoes DEF Ended
<1>14. CASE MarkSynced(s) \/ MarkError(s)
  BY <1>3, <1>14, MarkDoes
<1>15. CASE SyncFails(s)
  BY <1>2, <1>3, <1>15, FailsDoes
<1> QED
  BY <1>4, <1>5, <1>6, <1>7, <1>8, <1>9, <1>10, <1>11, <1>12, <1>13, <1>14, <1>15 DEF SyncStep

LEMMA BeginDoes ==
  ASSUME FlowInv, Poll \/ ForceSync
  PROVE  \E s \in Syncer :
           /\ sync[s].pc = "idle" /\ Others(s) /\ sync'[s].pc = "open" /\ sync'[s].copy = binding
           /\ sync'[s].link = NoLink /\ sync'[s].todo = sync[s].todo
           /\ binding.st # "disconnected" /\ mixed' = (mixed \/ Busy)
           /\ UNCHANGED <<world, rows, removal, scene, cut, dropped>>
<1>1. PICK s \in Syncer : Begin(s) /\ binding.st # "disconnected"
  BY DEF Poll, ForceSync, Due, Syncer
<1>2. PICK q : q = [sync[s] EXCEPT !.pc = "open", !.copy = binding]
  OBVIOUS
<1>3. sync[s] \in Sync /\ sync[s].pc = "idle" /\ sync[s].link = NoLink
  BY <1>1, FlowTypes DEF FlowInv, Begin, Hand
<1>4. q.pc = "open" /\ q.copy = binding /\ q.link = NoLink /\ q.todo = sync[s].todo
  BY <1>2, <1>3 DEF Sync
<1>5. sync' = [sync EXCEPT ![s] = q]
  BY <1>1, <1>2, FlowTypes DEF Begin
<1>6. Others(s) /\ sync'[s] = q
  BY <1>5, FlowTypes DEF Others
<1>7. mixed' = (mixed \/ Busy) /\ UNCHANGED <<world, rows, removal, scene, cut, dropped>>
  BY <1>1 DEF Begin
<1> QED
  BY <1>1, <1>3, <1>4, <1>6, <1>7

LEMMA Meets ==
  ASSUME FlowInv, Alone', mixed' = (mixed \/ Busy)
  PROVE  Alone /\ removal.pc = "idle" /\ \A s \in Syncer : sync[s].pc = "idle"
  BY DEF Alone, Busy, Running, FlowInv, ImportInv, ImportTypeOK

(* What is neither a step of a sync nor the begin of one leaves the syncs. *)
LEMMA OthersDo ==
  ASSUME FlowInv,
         \/ RemovalStep \/ RemovalFails \/ Tick \/ Rename
         \/ \E op \in {"delete", "disconnect"} : StartRemoval(op)
         \/ \E e \in Event : EditEvent(e)
         \/ \E t \in TaskId : UserCompletes(t) \/ UserDeletes(t)
  PROVE  /\ sync' = sync /\ links' = links /\ scene' = scene
         /\ mixed' = mixed \/ mixed' = (mixed \/ Busy)
         /\ cut' \in {cut, TRUE}
<1>1. CASE RemovalStep
  BY <1>1 DEF RemovalStep, RmBinding, RmLinks, RmRead, RmTask, RmLast, RmRevoke, rows, notes
<1>2. CASE RemovalFails \/ Tick \/ Rename
  BY <1>2 DEF RemovalFails, Tick, Rename, rows, notes
<1>3. CASE \E op \in {"delete", "disconnect"} : StartRemoval(op)
  <2>1. PICK op \in {"delete", "disconnect"} : StartRemoval(op)
    BY <1>3
  <2> QED
    BY <2>1 DEF StartRemoval, rows
<1>4. CASE \E e \in Event : EditEvent(e)
  <2>1. PICK e : \E row : Edit(e, row)
    BY <1>4 DEF EditEvent
  <2> QED
    BY <2>1, Zenon DEF Edit, rows, notes
<1>5. CASE \E t \in TaskId : UserCompletes(t) \/ UserDeletes(t)
  <2>1. PICK t \in TaskId : UserCompletes(t) \/ UserDeletes(t)
    BY <1>5
  <2> QED
    BY <2>1 DEF UserCompletes, UserDeletes
<1> QED
  BY <1>1, <1>2, <1>3, <1>4, <1>5

LEMMA AloneStep ==
  ASSUME FlowInv, AloneInv, [Next]_vars
  PROVE  AloneInv'
<1>1. CASE Poll \/ ForceSync
  <2>1. PICK s \in Syncer :
           /\ sync[s].pc = "idle" /\ Others(s) /\ sync'[s].pc = "open" /\ sync'[s].copy = binding
           /\ binding.st # "disconnected" /\ mixed' = (mixed \/ Busy)
           /\ UNCHANGED <<world, rows, removal, scene, cut, dropped>>
    BY <1>1, BeginDoes
  <2>2. ASSUME Alone' PROVE \A r \in Syncer : r # s => sync'[r].pc = "idle"
    BY <2>1, <2>2, Meets DEF Others
  <2>3. Alone' => removal.pc = "idle"
    BY <2>1, Meets
  <2> QED
    BY <2>1, <2>2, <2>3 DEF AloneInv, rows
<1>2. CASE \E s \in Syncer : SyncStep(s) \/ SyncFails(s) \/ PublishFails(s)
  BY <1>2, AloneSyncStep
<1>3. CASE \E op \in {"delete", "disconnect"} : StartRemoval(op)
  <2>1. mixed' = (mixed \/ Busy) /\ sync' = sync
    BY <1>3 DEF StartRemoval
  <2> QED
    BY <2>1, Meets DEF AloneInv
<1>4. CASE RemovalStep
  <2>1. removal.pc # "idle" /\ mixed' = mixed /\ sync' = sync
    BY <1>4 DEF RemovalStep, RmBinding, RmLinks, RmRead, RmTask, RmLast, RmRevoke, Rm, notes
  <2> QED
    BY <2>1 DEF AloneInv, Alone
<1>5. CASE Crash
  <2>1. \A s \in Syncer : sync'[s].pc = "idle"
    BY <1>5 DEF Crash, NoSync
  <2> QED
    BY <2>1 DEF AloneInv
<1>6. CASE RemovalFails
  <2>1. removal.pc # "idle" /\ mixed' = mixed /\ sync' = sync
    BY <1>6 DEF RemovalFails
  <2> QED
    BY <2>1 DEF AloneInv, Alone
<1>7. CASE Tick \/ Rename
  BY <1>7 DEF Tick, Rename, rows, notes, AloneInv, Alone
<1>8. CASE \E e \in Event : EditEvent(e)
  <2>1. PICK e : \E row : Edit(e, row)
    BY <1>8 DEF EditEvent
  <2>2. sync' = sync /\ removal' = removal /\ binding' = binding /\ mixed' = mixed
    BY <2>1, Zenon DEF Edit, rows, notes
  <2> QED
    BY <2>2 DEF AloneInv, Alone
<1>9. CASE \E t \in TaskId : UserCompletes(t) \/ UserDeletes(t)
  <2>1. sync' = sync /\ mixed' = (mixed \/ Busy)
    BY <1>9 DEF UserCompletes, UserDeletes
  <2> QED
    BY <2>1, Meets DEF AloneInv
<1>10. CASE UNCHANGED vars
  BY <1>10 DEF vars, AloneInv, Alone
<1> QED
  BY <1>1, <1>2, <1>3, <1>4, <1>5, <1>6, <1>7, <1>8, <1>9, <1>10 DEF Next, World

-----------------------------------------------------------------------------
(* One task for every event.                                               *)

(* A task of the event is gone.                                            *)
Lost(e) == \E u \in TaskId : IsTask(e, u) /\ tasks[u].st = "gone"

(* A task of the event that another one can be kept from being made for:   *)
(* by its link, by the tag, or because it is being linked.                 *)
Claimed(e, t) ==
  \/ Lost(e) \/ links[e].task = t \/ google[e].tag = t
  \/ \E s \in Syncer : sync[s].pc = "link" /\ sync[s].id = t

(* A task is only made for an event that has no link.                      *)
Unlinked(s) ==
  sync[s].pc \in {"create", "link"} /\ sync[s].link = NoLink => ~HasLink(sync[s].of)

OneInv ==
  Alone /\ ~cut =>
    /\ \A s \in Syncer : Unlinked(s)
    /\ \A e \in Event, t \in TaskId : IsTask(e, t) => Claimed(e, t)
    /\ \A e \in Event, t, u \in TaskId : IsTask(e, t) /\ IsTask(e, u) => t = u \/ Lost(e)

NoNew == \A t \in TaskId : tasks[t].st = "none" => tasks'[t].st = "none"

LEMMA UpdateMakesNone ==
  ASSUME FlowInv, NEW t \in TaskId \cup {NoTask}, NEW row \in TaskRow,
         tasks' = UpdateTask(t, row) \/ tasks' = DeleteTask(t)
  PROVE  NoNew
<1>1. CASE Exists(t)
  <2>1. t \in TaskId /\ tasks[t].st = "live"
    BY <1>1 DEF Exists
  <2>2. \A u \in TaskId : u # t => tasks'[u] = tasks[u]
    BY <1>1, <2>1, FlowTypes DEF UpdateTask, DeleteTask
  <2> QED
    BY <2>1, <2>2 DEF NoNew
<1>2. CASE ~Exists(t)
  BY <1>2 DEF UpdateTask, DeleteTask, NoNew
<1> QED
  BY <1>1, <1>2

(* No step forgets a task, and only CreateTask makes one.                  *)
LEMMA StepGrows ==
  ASSUME FlowInv, [Next]_vars
  PROVE  /\ TasksGrow
         /\ NoNew \/ \E s \in Syncer : CreateTask(s)
<1>1. ASSUME tasks' = tasks PROVE TasksGrow /\ NoNew
  BY <1>1, SameTasks DEF NoNew
<1>2. ASSUME NEW s \in Syncer, SyncStep(s) \/ SyncFails(s) \/ PublishFails(s)
      PROVE  TasksGrow /\ (NoNew \/ CreateTask(s))
  <2>1. /\ sync[s].row \in TaskRow /\ sync[s].id \in TaskId \cup {NoTask}
        /\ sync[s] \in Sync /\ Hand(sync[s])
    BY FlowTypes DEF Sync, FlowInv
  <2>2. CASE CreateTask(s)
    <3>1. PICK t : /\ t = sync'[s].id /\ t \in TaskId /\ tasks[t].st = "none"
                   /\ \A u \in TaskId : u # t => tasks'[u] = tasks[u]
      BY <2>2, CreateDoes
    <3> QED
      BY <2>2, <3>1 DEF TasksGrow
  <2>3. CASE WriteTask(s)
    <3>1. sync[s].pc = "write" /\ tasks' = UpdateTask(sync[s].id, sync[s].row)
      BY <2>3, WriteDoes
    <3>2. IsTask(sync[s].of, sync[s].id) /\ sync[s].row.event = sync[s].of /\ sync[s].row.st = "live"
      BY <2>1, <3>1 DEF Hand, Left
    <3>3. sync[s].id \in TaskId /\ tasks[sync[s].id].event = sync[s].of
      BY <3>2, HandTask
    <3> QED
      BY <2>1, <3>1, <3>2, <3>3, UpdateGrows, UpdateMakesNone
  <2>4. CASE Drop(s)
    BY <2>1, <2>4, DeleteGrows, UpdateMakesNone DEF Drop
  <2>5. CASE Mute(s)
    <3>1. sync[s].pc = "mute"
      BY <2>5 DEF Mute, Step
    <3>2. IsTask(sync[s].of, sync[s].id) /\ sync[s].row.event = sync[s].of /\ sync[s].row.st = "live"
      BY <2>1, <3>1 DEF Hand, Left
    <3>3. sync[s].id \in TaskId /\ tasks[sync[s].id].event = sync[s].of
      BY <3>2, HandTask
    <3>4. PICK r : r = [sync[s].row EXCEPT !.muted = TRUE]
      OBVIOUS
    <3>5. r \in TaskRow /\ r.event = sync[s].of /\ r.st = "live"
      BY <2>1, <3>2, <3>4 DEF TaskRow
    <3>6. tasks' = UpdateTask(sync[s].id, r)
      BY <2>5, <3>4 DEF Mute
    <3> QED
      BY <2>1, <3>3, <3>5, <3>6, UpdateGrows, UpdateMakesNone
  <2>6. CASE ~CreateTask(s) /\ ~WriteTask(s) /\ ~Drop(s) /\ ~Mute(s)
    <3>1. tasks' = tasks
      BY <1>2, <2>6 DEF SyncStep, SyncFails, PublishFails, Open, Refresh, List, TokenInvalid, Take,
         CreateLink, ReadTask, Tell, Relink, Policy, Unlink, MarkSynced, MarkError, rows
    <3> QED
      BY <1>1, <3>1
  <2> QED
    BY <2>2, <2>3, <2>4, <2>5, <2>6
<1>3. CASE RmTask
  <2>1. /\ removal.pc \in {"drop", "mute"}
        /\ \/ tasks' = DeleteTask(removal.id)
           \/ removal.pc = "mute" /\ tasks' = UpdateTask(removal.id, [removal.row EXCEPT !.muted = TRUE])
    BY <1>3 DEF RmTask, Rm
  <2>2. removal.id \in TaskId /\ removal.row \in TaskRow
    BY <2>1, FlowTypes DEF Removal, FlowInv, ImportInv, RemovalOK, Half
  <2>3. PICK r : r = [removal.row EXCEPT !.muted = TRUE]
    OBVIOUS
  <2>4. r \in TaskRow /\ (removal.pc = "mute" => r.event = tasks[removal.id].event /\ r.st = "live")
    BY <2>2, <2>3 DEF TaskRow, RemovalHand, FlowInv
  <2> QED
    BY <2>1, <2>2, <2>3, <2>4, DeleteGrows, UpdateGrows, UpdateMakesNone
<1>4. ASSUME NEW t \in TaskId, UserDeletes(t) PROVE TasksGrow /\ NoNew
  <2>1. tasks' = DeleteTask(t) /\ NoRow \in TaskRow
    BY <1>4, ConstantTypes DEF UserDeletes
  <2> QED
    BY <2>1, DeleteGrows, UpdateMakesNone
<1>5. ASSUME NEW t \in TaskId, UserCompletes(t) PROVE TasksGrow /\ NoNew
  <2>1. PICK r : r = [tasks[t] EXCEPT !.done = TRUE]
    OBVIOUS
  <2>2. tasks[t] \in TaskRow
    BY FlowTypes
  <2>3. r.st = tasks[t].st /\ r.event = tasks[t].event
    BY <2>1, <2>2 DEF TaskRow
  <2>4. tasks' = [tasks EXCEPT ![t] = r]
    BY <1>5, <2>1 DEF UserCompletes
  <2>5. \A u \in TaskId : tasks'[u] = IF u = t THEN r ELSE tasks[u]
    BY <2>4, FlowTypes
  <2> QED
    BY <2>3, <2>5 DEF TasksGrow, NoNew
<1>6. ASSUME NEW e \in Event, EditEvent(e) PROVE TasksGrow /\ NoNew
  <2>1. PICK row : Edit(e, row)
    BY <1>6 DEF EditEvent
  <2>2. tasks' = tasks
    BY <2>1, Zenon DEF Edit, rows
  <2> QED
    BY <1>1, <2>2
<1>7. CASE \/ Poll \/ ForceSync \/ Tick \/ Rename \/ Crash \/ RemovalFails
           \/ \E op \in {"delete", "disconnect"} : StartRemoval(op)
  BY <1>1, <1>7 DEF Poll, ForceSync, Begin, Tick, Rename, Crash, RemovalFails, StartRemoval, rows
<1>8. CASE RmBinding \/ RmLinks \/ RmRead \/ RmLast \/ RmRevoke
  BY <1>1, <1>8 DEF RmBinding, RmLinks, RmRead, RmLast, RmRevoke, rows
<1>9. CASE UNCHANGED vars
  BY <1>1, <1>9 DEF vars
<1> QED
  BY <1>2, <1>3, <1>4, <1>5, <1>6, <1>7, <1>8, <1>9 DEF Next, World, RemovalStep

LEMMA TagsStay ==
  ASSUME FlowInv, FlowInv', scene' = scene
  PROVE  \A e \in Event : google'[e].tag = google[e].tag
  BY DEF FlowInv, CalOK, Sc

LEMMA LostStays ==
  ASSUME TasksGrow, NEW e, Lost(e)
  PROVE  Lost(e)'
<1>1. PICK u \in TaskId : IsTask(e, u) /\ tasks[u].st = "gone"
  BY DEF Lost
<1>2. IsTask(e, u)' /\ tasks'[u].st = "gone"
  BY <1>1, TaskStays
<1> QED
  BY <1>2 DEF Lost, IsTask

LEMMA OneKeeps ==
  ASSUME FlowInv, OneInv, TasksGrow, NoNew,
         Alone' /\ ~cut' =>
           /\ Alone /\ ~cut
           /\ \A s \in Syncer : Unlinked(s)'
           /\ \A e \in Event, t \in TaskId : IsTask(e, t) /\ Claimed(e, t) => Claimed(e, t)'
  PROVE  OneInv'
<1> SUFFICES ASSUME Alone', ~cut'
             PROVE  /\ \A s \in Syncer : Unlinked(s)'
                    /\ \A e \in Event, t \in TaskId : IsTask(e, t)' => Claimed(e, t)'
                    /\ \A e \in Event, t, u \in TaskId : IsTask(e, t)' /\ IsTask(e, u)' => t = u \/ Lost(e)'
  BY DEF OneInv
<1>1. \A e \in Event, t \in TaskId : IsTask(e, t)' => IsTask(e, t)
  BY DEF IsTask, TasksGrow, NoNew
<1>2. \A e \in Event : Lost(e) => Lost(e)'
  BY LostStays
<1> QED
  BY <1>1, <1>2 DEF OneInv

LEMMA OneSync ==
  ASSUME FlowInv, FlowInv', OneInv, TasksGrow, NoNew, NEW s \in Syncer, Others(s),
         mixed' = mixed, scene' = scene, cut' \in {cut, TRUE}, links' = links,
         sync[s].pc # "link",
         sync'[s].pc \in {"create", "link"} =>
           sync'[s].link # NoLink \/ ~HasLink(sync'[s].of)
  PROVE  OneInv'
<1>1. \A e \in Event : google'[e].tag = google[e].tag
  BY TagsStay
<1>2. Alone' /\ ~cut' => Alone /\ ~cut
  BY DEF Alone, FlowInv, ImportInv, ImportTypeOK
<1>3. ASSUME Alone, ~cut, NEW r \in Syncer PROVE Unlinked(r)'
  <2>1. CASE r = s
    BY <2>1 DEF Unlinked, HasLink
  <2>2. CASE r # s
    BY <1>3, <2>2 DEF Unlinked, HasLink, Others, OneInv
  <2> QED
    BY <2>1, <2>2
<1>4. ASSUME NEW e \in Event, NEW t \in TaskId, Claimed(e, t) PROVE Claimed(e, t)'
  <2>1. CASE Lost(e)
    BY <2>1, LostStays DEF Claimed
  <2>2. CASE links[e].task = t \/ google[e].tag = t
    BY <1>1, <2>2 DEF Claimed
  <2>3. CASE \E r \in Syncer : sync[r].pc = "link" /\ sync[r].id = t
    BY <2>3 DEF Claimed, Others
  <2> QED
    BY <1>4, <2>1, <2>2, <2>3 DEF Claimed
<1> QED
  BY <1>2, <1>3, <1>4, OneKeeps

LEMMA OneTake ==
  ASSUME FlowInv, FlowInv', AloneInv, OneInv, NEW s \in Syncer, Take(s)
  PROVE  OneInv'
<1>1. SyncStep(s) /\ [Next]_vars
  BY DEF SyncStep, Next
<1>2. /\ Others(s) /\ sync[s].pc = "next" /\ mixed' = mixed /\ scene' = scene /\ cut' \in {cut, TRUE}
      /\ tasks' = tasks
  BY <1>1, SyncOthers, TakeDoes
<1>3. TasksGrow /\ NoNew
  BY <1>2, SameTasks DEF NoNew
<1>4. CASE links' = links /\ (sync'[s].pc = "create" => ~HasLink(sync'[s].of)) /\ sync'[s].pc # "link"
  BY <1>2, <1>3, <1>4, OneSync
<1>5. CASE \E x \in Listed :
             /\ sync'[s].pc = "next" /\ ~HasLink(x.ev) /\ x.row.tag # NoTask
             /\ links' = [links EXCEPT ![x.ev] = [task |-> x.row.tag, origin |-> "exported"]]
  <2>1. PICK x \in Listed :
             /\ sync'[s].pc = "next" /\ ~HasLink(x.ev) /\ x.row.tag # NoTask
             /\ links' = [links EXCEPT ![x.ev] = [task |-> x.row.tag, origin |-> "exported"]]
    BY <1>5
  <2>2. Alone' /\ ~cut' => Alone /\ ~cut
    BY <1>2 DEF Alone, FlowInv, ImportInv, ImportTypeOK
  <2>3. ASSUME Alone, NEW r \in Syncer PROVE Unlinked(r)'
    <3>1. sync'[r].pc \in {"next", "idle"}
      BY <1>2, <2>1, <2>3 DEF AloneInv, Others
    <3> QED
      BY <3>1 DEF Unlinked
  <2>4. ASSUME NEW e \in Event, NEW t \in TaskId, IsTask(e, t), Claimed(e, t) PROVE Claimed(e, t)'
    <3>1. CASE Lost(e)
      BY <1>3, <3>1, LostStays DEF Claimed
    <3>2. CASE links[e].task = t
      <4>1. e # x.ev
        BY <2>1, <2>4, <3>2 DEF HasLink, IsTask
      <4>2. links'[e] = links[e]
        BY <2>1, <4>1, FlowTypes
      <4> QED
        BY <3>2, <4>2 DEF Claimed
    <3>3. CASE google[e].tag = t
      BY <1>2, <3>3, TagsStay DEF Claimed
    <3>4. CASE \E r \in Syncer : sync[r].pc = "link" /\ sync[r].id = t
      BY <1>2, <3>4 DEF Claimed, Others
    <3> QED
      BY <2>4, <3>1, <3>2, <3>3, <3>4 DEF Claimed
  <2> QED
    BY <1>3, <2>2, <2>3, <2>4, OneKeeps
<1>6. \/ links' = links /\ (sync'[s].pc = "create" => ~HasLink(sync'[s].of)) /\ sync'[s].pc # "link"
      \/ \E x \in Listed :
             /\ sync'[s].pc = "next" /\ ~HasLink(x.ev) /\ x.row.tag # NoTask
             /\ links' = [links EXCEPT ![x.ev] = [task |-> x.row.tag, origin |-> "exported"]]
  BY TakeDoes
<1> QED
  BY <1>4, <1>5, <1>6

LEMMA OneCreate ==
  ASSUME FlowInv, FlowInv', AloneInv, OneInv, NEW s \in Syncer, CreateTask(s)
  PROVE  OneInv'
<1>1. SyncStep(s) /\ [Next]_vars
  BY DEF SyncStep, Next
<1>2. /\ Others(s) /\ sync[s].pc = "create" /\ mixed' = mixed /\ scene' = scene /\ cut' \in {cut, TRUE}
      /\ links' = links /\ Held(s) /\ sync'[s].link = sync[s].link
      /\ sync'[s].pc = IF sync[s].link = NoLink THEN "link" ELSE "tell"
  BY <1>1, SyncOthers, CreateDoes
<1>3. PICK n : /\ n = sync'[s].id /\ n \in TaskId /\ tasks[n].st = "none" /\ tasks'[n] = sync[s].row
               /\ \A u \in TaskId : u # n => tasks'[u] = tasks[u]
  BY CreateDoes
<1>4. PICK o : /\ o = sync[s].of /\ o \in Event /\ sync[s].row.event = o
               /\ sync[s].link # NoLink => Lost(o)
               /\ sync[s].link = NoLink => google[o].tag = NoTask
  <2>1. Hand(sync[s]) /\ sync[s] \in Sync
    BY FlowTypes DEF FlowInv
  <2>2. PICK u : u = sync[s].link.task
    OBVIOUS
  <2>3. u \in TaskId \cup {NoTask} /\ sync[s].of \in Event
    BY <2>1, <2>2 DEF Sync, LinkRow
  <2>4. sync[s].link # NoLink => IsTask(sync[s].of, u) /\ tasks[u].st = "gone"
    BY <1>2, <2>1, <2>2 DEF Hand
  <2> QED
    BY <1>2, <2>1, <2>3, <2>4 DEF Hand, Lost, IsTask
<1>5. SUFFICES ASSUME Alone', ~cut'
             PROVE  /\ \A r \in Syncer : Unlinked(r)'
                    /\ \A e \in Event, t \in TaskId : IsTask(e, t)' => Claimed(e, t)'
                    /\ \A e \in Event, t, u \in TaskId : IsTask(e, t)' /\ IsTask(e, u)' => t = u \/ Lost(e)'
  BY DEF OneInv
<1>6. Alone /\ ~cut
  <2>1. cut \in BOOLEAN /\ cut' \in {cut, TRUE} /\ mixed' = mixed
    BY <1>2 DEF FlowInv, ImportInv, ImportTypeOK
  <2> QED
    BY <1>5, <2>1 DEF Alone
<1>7. TasksGrow
  BY <1>3 DEF TasksGrow
<1>8. \A e \in Event : Lost(e) => Lost(e)'
  BY <1>7, LostStays
<1>9. ASSUME NEW r \in Syncer PROVE Unlinked(r)'
  <2>1. CASE r = s
    BY <1>2, <1>6, <2>1 DEF Unlinked, OneInv, HasLink, Held
  <2>2. CASE r # s
    BY <1>2, <1>6, <2>2 DEF Unlinked, OneInv, HasLink, Others
  <2> QED
    BY <2>1, <2>2
<1>10. \A e \in Event, t \in TaskId : IsTask(e, t)' => IsTask(e, t) \/ (t = n /\ e = o)
  <2>1. \A t \in TaskId : t # n => tasks'[t] = tasks[t]
    BY <1>3
  <2>2. tasks'[n].event = o
    BY <1>3, <1>4
  <2> QED
    BY <2>1, <2>2 DEF IsTask
<1>11. ASSUME NEW t \in TaskId, IsTask(o, t) PROVE Lost(o)
  <2>1. Claimed(o, t)
    BY <1>4, <1>6, <1>11 DEF OneInv
  <2>2. \A r \in Syncer : sync[r].pc # "link"
    BY <1>2, <1>6 DEF AloneInv
  <2>3. sync[s].link = NoLink => ~HasLink(o)
    BY <1>2, <1>4, <1>6 DEF OneInv, Unlinked
  <2>4. t # NoTask
    BY <1>11 DEF IsTask
  <2> QED
    BY <1>4, <2>1, <2>2, <2>3, <2>4 DEF Claimed, HasLink
<1>12. ASSUME NEW e \in Event, NEW t \in TaskId, IsTask(e, t)' PROVE Claimed(e, t)'
  <2>1. CASE t = n /\ e = o
    <3>1. CASE sync[s].link = NoLink
      BY <1>2, <1>3, <2>1, <3>1 DEF Claimed
    <3>2. CASE sync[s].link # NoLink
      BY <1>4, <1>8, <2>1, <3>2 DEF Claimed
    <3> QED
      BY <3>1, <3>2
  <2>2. CASE IsTask(e, t)
    <3>1. Claimed(e, t)
      BY <1>6, <2>2 DEF OneInv
    <3>2. \A r \in Syncer : sync[r].pc # "link"
      BY <1>2, <1>6 DEF AloneInv
    <3>3. google'[e].tag = google[e].tag
      BY <1>2, TagsStay
    <3> QED
      BY <1>2, <1>8, <3>1, <3>2, <3>3 DEF Claimed
  <2> QED
    BY <1>10, <1>12, <2>1, <2>2
<1>13. ASSUME NEW e \in Event, NEW t \in TaskId, NEW u \in TaskId, IsTask(e, t)', IsTask(e, u)', t # u
       PROVE  Lost(e)'
  <2>1. CASE IsTask(e, t) /\ IsTask(e, u)
    BY <1>6, <1>8, <1>13, <2>1 DEF OneInv
  <2>2. CASE e = o /\ (IsTask(o, t) \/ IsTask(o, u))
    BY <1>8, <1>11, <2>2
  <2> QED
    BY <1>10, <1>13, <2>1, <2>2
<1> QED
  BY <1>9, <1>12, <1>13

LEMMA OneLink ==
  ASSUME FlowInv, FlowInv', AloneInv, OneInv, NEW s \in Syncer, CreateLink(s) \/ Unlink(s)
  PROVE  OneInv'
<1>1. SyncStep(s)
  BY DEF SyncStep
<1>2. /\ Others(s) /\ sync[s].pc # "idle" /\ mixed' = mixed /\ scene' = scene /\ cut' \in {cut, TRUE}
      /\ tasks' = tasks
  BY <1>1, SyncOthers, CreateLinkDoes DEF Unlink
<1>3. TasksGrow /\ NoNew
  BY <1>2, SameTasks DEF NoNew
<1>4. Alone' /\ ~cut' => Alone /\ ~cut
  BY <1>2 DEF Alone, FlowInv, ImportInv, ImportTypeOK
<1>5. sync'[s].pc \in {"tell", "next", "failed"}
  BY CreateLinkDoes, LeaveDoes DEF Ended
<1>6. ASSUME Alone, NEW r \in Syncer PROVE Unlinked(r)'
  <2>1. r # s => sync'[r].pc = "idle"
    BY <1>2, <1>6 DEF AloneInv, Others
  <2> QED
    BY <1>5, <2>1 DEF Unlinked
<1>7. ASSUME Alone, ~cut, NEW e \in Event, NEW t \in TaskId, IsTask(e, t), Claimed(e, t)
      PROVE  Claimed(e, t)'
  <2>1. CASE Lost(e)
    BY <1>3, <2>1, LostStays DEF Claimed
  <2>2. CASE google[e].tag = t
    BY <1>2, <2>2, TagsStay DEF Claimed
  <2>3. t # NoTask
    BY <1>7 DEF IsTask
  <2>4. sync[s].of \in Event /\ Hand(sync[s]) /\ sync[s] \in Sync
    BY FlowTypes DEF FlowInv, Sync
  <2>5. CASE CreateLink(s)
    <3>1. sync[s].pc = "link" /\ sync[s].link = NoLink
      BY <2>4, <2>5, CreateLinkDoes DEF Hand
    <3>2. ~HasLink(sync[s].of)
      BY <1>7, <3>1 DEF OneInv, Unlinked
    <3>3. links' = [links EXCEPT ![sync[s].of] = [task |-> sync[s].id, origin |-> "imported"]]
      BY <2>5, <3>2, CreateLinkDoes
    <3>4. /\ \A d \in Event : d # sync[s].of => links'[d] = links[d]
          /\ links'[sync[s].of].task = sync[s].id
      BY <2>4, <3>3, FlowTypes
    <3>5. CASE links[e].task = t
      BY <2>3, <3>2, <3>4, <3>5 DEF Claimed, HasLink
    <3>6. CASE \E r \in Syncer : sync[r].pc = "link" /\ sync[r].id = t
      <4>1. sync[s].id = t
        BY <1>2, <1>7, <3>6 DEF AloneInv
      <4>2. IsTask(sync[s].of, sync[s].id)
        BY <2>4, <3>1 DEF Hand
      <4>3. e = sync[s].of
        BY <1>7, <4>1, <4>2 DEF IsTask
      <4> QED
        BY <3>4, <4>1, <4>3 DEF Claimed
    <3> QED
      BY <1>7, <2>1, <2>2, <3>5, <3>6 DEF Claimed
  <2>6. CASE Unlink(s)
    <3>1. sync[s].pc = "unlink" /\ links' = [links EXCEPT ![sync[s].of] = NoLink]
      BY <2>6 DEF Unlink, Step
    <3>2. Lost(sync[s].of)
      <4>1. IsTask(sync[s].of, sync[s].id) /\ tasks[sync[s].id].st = "gone" /\ sync[s].id \in TaskId
        BY <2>4, <3>1, HandTask DEF Hand, Left
      <4> QED
        BY <4>1 DEF Lost
    <3>3. CASE e # sync[s].of /\ links[e].task = t
      <4>1. links'[e] = links[e]
        BY <3>1, <3>3, FlowTypes
      <4> QED
        BY <3>3, <4>1 DEF Claimed
    <3>4. CASE \E r \in Syncer : sync[r].pc = "link" /\ sync[r].id = t
      BY <1>2, <1>7, <3>1, <3>4 DEF AloneInv
    <3> QED
      BY <1>7, <2>1, <2>2, <3>2, <3>3, <3>4 DEF Claimed
  <2> QED
    BY <2>5, <2>6
<1> QED
  BY <1>3, <1>4, <1>6, <1>7, OneKeeps

LEMMA OneStep ==
  ASSUME FlowInv, AloneInv, OneInv, [Next]_vars
  PROVE  OneInv'
<1>1. FlowInv' /\ TasksGrow
  BY FlowStep, StepGrows
<1>2. CASE \E s \in Syncer : CreateTask(s)
  BY <1>1, <1>2, OneCreate
<1>3. CASE \E s \in Syncer : Take(s) \/ CreateLink(s) \/ Unlink(s)
  BY <1>1, <1>3, OneTake, OneLink
<1>4. CASE NoNew
  <2>1. CASE Poll \/ ForceSync
    <3>1. PICK s \in Syncer :
            /\ sync[s].pc = "idle" /\ Others(s) /\ sync'[s].pc = "open"
            /\ mixed' = (mixed \/ Busy) /\ UNCHANGED <<world, rows, removal, scene, cut, dropped>>
      BY <2>1, BeginDoes
    <3>2. links' = links /\ (Alone' /\ ~cut' => Alone /\ ~cut)
      BY <3>1, Meets DEF rows
    <3>3. ASSUME Alone, ~cut, NEW r \in Syncer PROVE Unlinked(r)'
      <4>1. CASE r = s
        BY <3>1, <4>1 DEF Unlinked
      <4>2. CASE r # s
        BY <3>1, <3>2, <3>3, <4>2 DEF Unlinked, HasLink, Others, OneInv
      <4> QED
        BY <4>1, <4>2
    <3>4. ASSUME NEW e \in Event, NEW t \in TaskId, Claimed(e, t) PROVE Claimed(e, t)'
      <4>1. Lost(e) => Lost(e)'
        BY <1>1, LostStays
      <4>2. google'[e].tag = google[e].tag
        BY <1>1, <3>1, TagsStay
      <4> QED
        BY <3>1, <3>2, <3>4, <4>1, <4>2 DEF Claimed, Others
    <3> QED
      BY <1>1, <1>4, <3>2, <3>3, <3>4, OneKeeps
  <2>2. ASSUME NEW s \in Syncer,
               \/ SyncFails(s) \/ PublishFails(s)
               \/ SyncStep(s) /\ ~Take(s) /\ ~CreateTask(s) /\ ~CreateLink(s) /\ ~Unlink(s)
        PROVE  OneInv'
    <3>1. /\ Others(s) /\ mixed' = mixed /\ scene' = scene /\ cut' \in {cut, TRUE}
      BY <2>2, SyncOthers
    <3>2. CASE SyncFails(s)
      BY <3>2, FailsDoes DEF OneInv
    <3>3. CASE ~SyncFails(s)
      <4>1. CASE Open(s) \/ Refresh(s) \/ List(s) \/ TokenInvalid(s)
        <5>1. sync[s].pc # "link"
          BY <4>1 DEF Open, Refresh, List, TokenInvalid, Step
        <5> QED
          BY <1>1, <1>4, <3>1, <4>1, <5>1, LookDoes, OneSync
      <4>2. CASE ReadTask(s)
        <5>1. sync[s].link # NoLink /\ sync[s].pc = "read"
          BY <4>2, ReadDoes DEF FlowInv, Hand
        <5> QED
          BY <1>1, <1>4, <3>1, <4>2, <5>1, ReadDoes, OneSync
      <4>3. CASE WriteTask(s)
        BY <1>1, <1>4, <3>1, <4>3, WriteDoes, OneSync
      <4>4. CASE Tell(s) \/ PublishFails(s)
        BY <1>1, <1>4, <3>1, <4>4, TellDoes, OneSync
      <4>5. CASE Relink(s)
        BY <1>1, <1>4, <3>1, <4>5, RelinkDoes, OneSync DEF Ended
      <4>6. CASE Policy(s)
        BY <1>1, <1>4, <3>1, <4>6, PolicyDoes, OneSync DEF Ended
      <4>7. CASE Drop(s) \/ Mute(s)
        <5>1. links' = links /\ sync[s].pc # "link"
          BY <4>7 DEF Drop, Mute, Step
        <5> QED
          BY <1>1, <1>4, <3>1, <4>7, <5>1, LeaveDoes, OneSync DEF Ended
      <4>8. CASE MarkSynced(s) \/ MarkError(s)
        <5>1. sync[s].pc # "link" /\ sync'[s].pc = "idle" /\ links' = links
          BY <4>8, MarkDoes, Quiet DEF MarkSynced, MarkError, Step
        <5> QED
          BY <1>1, <1>4, <3>1, <5>1, OneSync
      <4> QED
        BY <2>2, <3>3, <4>1, <4>2, <4>3, <4>4, <4>5, <4>6, <4>7, <4>8 DEF SyncStep
    <3> QED
      BY <3>2, <3>3
  <2>3. CASE \/ RemovalStep \/ RemovalFails \/ Tick \/ Rename
             \/ \E op \in {"delete", "disconnect"} : StartRemoval(op)
             \/ \E e \in Event : EditEvent(e)
             \/ \E t \in TaskId : UserCompletes(t) \/ UserDeletes(t)
    <3>1. /\ sync' = sync /\ links' = links /\ scene' = scene
          /\ mixed' = mixed \/ mixed' = (mixed \/ Busy)
          /\ cut' \in {cut, TRUE}
      BY <2>3, OthersDo
    <3>2. Alone' /\ ~cut' => Alone /\ ~cut
      BY <3>1, Meets DEF Alone, FlowInv, ImportInv, ImportTypeOK
    <3>3. ASSUME Alone, ~cut, NEW r \in Syncer PROVE Unlinked(r)'
      BY <3>1, <3>3 DEF Unlinked, HasLink, OneInv
    <3>4. ASSUME NEW e \in Event, NEW t \in TaskId, Claimed(e, t) PROVE Claimed(e, t)'
      <4>1. Lost(e) => Lost(e)'
        BY <1>1, LostStays
      <4>2. google'[e].tag = google[e].tag
        BY <1>1, <3>1, TagsStay
      <4> QED
        BY <3>1, <3>4, <4>1, <4>2 DEF Claimed
    <3> QED
      BY <1>1, <1>4, <3>2, <3>3, <3>4, OneKeeps
  <2>4. CASE Crash
    BY <2>4 DEF Crash, OneInv
  <2>5. CASE UNCHANGED vars
    BY <2>5 DEF vars, OneInv, Unlinked, HasLink, Claimed, Lost, IsTask, Alone
  <2> QED
    BY <1>2, <1>3, <2>1, <2>2, <2>3, <2>4, <2>5 DEF Next, World
<1> QED
  BY <1>2, <1>3, <1>4, StepGrows

LEMMA AloneStart == Init => AloneInv
  BY DEF Init, AloneInv, NoSync

LEMMA OneStart == Init => OneInv
<1> SUFFICES ASSUME Init PROVE OneInv
  OBVIOUS
<1>1. Starts(Sc)
  BY ScenarioStarts DEF Init
<1>2. google = Sc.events /\ links = Sc.links /\ tasks = Sc.tasks
  BY DEF Init
<1>3. \A s \in Syncer : Unlinked(s)
  BY DEF Init, Unlinked, NoSync
<1>4. ASSUME NEW e \in Event, NEW t \in TaskId, IsTask(e, t) PROVE Claimed(e, t)
  <2>1. t \in {Sc.links[e].task, Sc.events[e].tag}
    BY <1>1, <1>2, <1>4 DEF Starts, IsTask
  <2> QED
    BY <1>2, <2>1 DEF Claimed
<1>5. ASSUME NEW e \in Event, NEW t \in TaskId, NEW u \in TaskId, IsTask(e, t), IsTask(e, u)
      PROVE  t = u
  BY <1>1, <1>2, <1>5 DEF Starts, IsTask
<1> QED
  BY <1>3, <1>4, <1>5 DEF OneInv

LEMMA AtMostOne ==
  ASSUME NEW S, \A x, y \in S : x = y
  PROVE  IsFiniteSet(S) /\ Cardinality(S) <= 1
<1>1. CASE S = {}
  BY <1>1, FS_EmptySet
<1>2. CASE S # {}
  <2>1. PICK x \in S : S = {x}
    BY <1>2
  <2>2. IsFiniteSet({x}) /\ Cardinality({x}) = 1
    BY FS_Singleton
  <2> QED
    BY <2>1, <2>2
<1> QED
  BY <1>1, <1>2

LEMMA OneTaskHolds ==
  ASSUME FlowInv, OneInv
  PROVE  OneTaskPerEvent
<1> SUFFICES ASSUME Alone, ~cut, NEW e \in Event, AliveFor(e) = MadeFor(e)
             PROVE  Cardinality(AliveFor(e)) <= 1
  BY DEF OneTaskPerEvent
<1>1. ~Lost(e)
  <2> SUFFICES ASSUME NEW u \in TaskId, IsTask(e, u), tasks[u].st = "gone" PROVE FALSE
    BY DEF Lost
  <2> QED
    BY DEF AliveFor, MadeFor, IsTask
<1>2. \A t \in MadeFor(e) : t \in TaskId /\ IsTask(e, t)
  BY DEF MadeFor, IsTask, TaskId, NoTask
<1>3. \A t, u \in MadeFor(e) : t = u
  BY <1>1, <1>2 DEF OneInv
<1> QED
  BY <1>3, AtMostOne

(* An event has one task, however often it is listed, until that task is   *)
(* gone, as long as no two actors met and nothing failed.                  *)
THEOREM OneTaskPerEventCorrect == Spec => []OneTaskPerEvent
<1> DEFINE I == FlowInv /\ AloneInv /\ OneInv
<1>1. Init => I
  BY FlowStart, AloneStart, OneStart
<1>2. I /\ [Next]_vars => I'
  BY FlowStep, AloneStep, OneStep
<1>3. I => OneTaskPerEvent
  BY OneTaskHolds
<1> HIDE DEF I
<1> QED
  BY <1>1, <1>2, <1>3, PTL DEF Spec

-----------------------------------------------------------------------------
(* What was exported is kept.                                              *)

(* A link is only made for an event without one, as its tag says, and only *)
(* dropped when the event is cancelled.                                    *)
LEMMA StepLinks ==
  ASSUME FlowInv, [Next]_vars, NEW e \in Event
  PROVE  \/ links'[e] = links[e]
         \/ /\ ~HasLink(e) /\ google[e].tag # NoTask
            /\ links'[e] = [task |-> google[e].tag, origin |-> "exported"]
         \/ ~HasLink(e) /\ google[e].tag = NoTask /\ links'[e].origin = "imported"
         \/ ~Kept(e) /\ links'[e] = NoLink
<1>1. links \in [Event -> LinkRow]
  BY FlowTypes
<1>2. ASSUME NEW s \in Syncer, Take(s), links' # links
      PROVE  \/ links'[e] = links[e]
             \/ /\ ~HasLink(e) /\ google[e].tag # NoTask
                /\ links'[e] = [task |-> google[e].tag, origin |-> "exported"]
  <2>1. PICK x \in Listed :
             /\ ListedOf(x, sync[s].upto) /\ ~HasLink(x.ev) /\ x.row.tag # NoTask
             /\ links' = [links EXCEPT ![x.ev] = [task |-> x.row.tag, origin |-> "exported"]]
    BY <1>2, TakeDoes
  <2>2. x.row.tag = google[x.ev].tag
    BY <2>1 DEF ListedOf
  <2> QED
    BY <1>1, <2>1, <2>2
<1>3. ASSUME NEW s \in Syncer, CreateLink(s), links' # links
      PROVE  \/ links'[e] = links[e]
             \/ ~HasLink(e) /\ google[e].tag = NoTask /\ links'[e].origin = "imported"
  <2>1. /\ sync[s].pc = "link" /\ ~HasLink(sync[s].of)
        /\ links' = [links EXCEPT ![sync[s].of] = [task |-> sync[s].id, origin |-> "imported"]]
    BY <1>3, CreateLinkDoes
  <2>2. google[sync[s].of].tag = NoTask
    BY <2>1 DEF FlowInv, Hand
  <2> QED
    BY <1>1, <2>1, <2>2
<1>4. ASSUME NEW s \in Syncer, Unlink(s) PROVE links'[e] = links[e] \/ (~Kept(e) /\ links'[e] = NoLink)
  <2>1. sync[s].pc = "unlink" /\ links' = [links EXCEPT ![sync[s].of] = NoLink]
    BY <1>4 DEF Unlink, Step
  <2>2. ~Kept(sync[s].of)
    BY <2>1 DEF FlowInv, Listing, Left
  <2> QED
    BY <1>1, <2>1, <2>2
<1>5. ASSUME NEW s \in Syncer, SyncStep(s) \/ SyncFails(s) \/ PublishFails(s),
             ~Take(s) /\ ~CreateLink(s) /\ ~Unlink(s)
      PROVE  links' = links
  BY <1>5 DEF SyncStep, SyncFails, PublishFails, Open, Refresh, List, TokenInvalid, CreateTask,
         ReadTask, WriteTask, Tell, Relink, Policy, Drop, Mute, MarkSynced, MarkError, rows
<1>6. CASE Poll \/ ForceSync \/ Crash
  BY <1>6 DEF Poll, ForceSync, Begin, Crash, rows
<1>7. CASE UNCHANGED vars
  BY <1>7 DEF vars
<1>8. CASE \/ RemovalStep \/ RemovalFails \/ Tick \/ Rename
           \/ \E op \in {"delete", "disconnect"} : StartRemoval(op)
           \/ \E d \in Event : EditEvent(d)
           \/ \E t \in TaskId : UserCompletes(t) \/ UserDeletes(t)
  BY <1>8, OthersDo
<1> QED
  BY <1>2, <1>3, <1>4, <1>5, <1>6, <1>7, <1>8 DEF Next, World

(* The three ways to delete a task.                                        *)
Deletes(t) ==
  \/ UserDeletes(t)
  \/ \E s \in Syncer : Drop(s) /\ sync[s].id = t
  \/ RmTask /\ removal.pc = "drop" /\ removal.id = t

LEMMA UpdateLive ==
  ASSUME FlowInv, NEW t \in TaskId, NEW row \in TaskRow, row.st = "live", tasks' = UpdateTask(t, row),
         NEW u \in TaskId, tasks[u].st = "live"
  PROVE  /\ tasks'[u].st = "live"
         /\ u # t => tasks'[u] = tasks[u]
         /\ u = t => tasks'[u].text = row.text /\ tasks'[u].muted = row.muted
<1>1. CASE Exists(t)
  <2>1. PICK r : r = [row EXCEPT !.chat = tasks[t].chat]
    OBVIOUS
  <2>2. r.st = "live" /\ r.text = row.text /\ r.muted = row.muted
    BY <2>1 DEF TaskRow
  <2>3. tasks' = [tasks EXCEPT ![t] = r]
    BY <1>1, <2>1 DEF UpdateTask
  <2>4. tasks'[u] = IF u = t THEN r ELSE tasks[u]
    BY <2>3, FlowTypes
  <2> QED
    BY <2>2, <2>4
<1>2. CASE ~Exists(t)
  <2>1. t # u
    BY <1>2 DEF Exists, TaskId, NoTask
  <2> QED
    BY <1>2, <2>1 DEF UpdateTask
<1> QED
  BY <1>1, <1>2

LEMMA DeleteLive ==
  ASSUME FlowInv, NEW t \in TaskId \cup {NoTask}, tasks' = DeleteTask(t), NEW u \in TaskId, u # t
  PROVE  tasks'[u] = tasks[u]
<1>1. CASE Exists(t)
  <2>1. PICK r : r = [tasks[t] EXCEPT !.st = "gone"]
    OBVIOUS
  <2>2. tasks' = [tasks EXCEPT ![t] = r] /\ t \in TaskId
    BY <1>1, <2>1 DEF DeleteTask, Exists
  <2> QED
    BY <2>2, FlowTypes
<1>2. CASE ~Exists(t)
  BY <1>2 DEF DeleteTask
<1> QED
  BY <1>1, <1>2

LEMMA StepLive ==
  ASSUME FlowInv, [Next]_vars, NEW u \in TaskId, tasks[u].st = "live"
  PROVE  tasks'[u].st = "live" \/ Deletes(u)
<1>1. ASSUME NEW s \in Syncer, SyncStep(s) \/ SyncFails(s) \/ PublishFails(s)
      PROVE  tasks'[u].st = "live" \/ Deletes(u)
  <2>1. /\ sync[s].row \in TaskRow /\ sync[s].id \in TaskId \cup {NoTask}
        /\ sync[s] \in Sync /\ Hand(sync[s])
    BY FlowTypes DEF Sync, FlowInv
  <2>2. CASE CreateTask(s)
    BY <2>2, CreateDoes
  <2>3. CASE WriteTask(s)
    <3>1. sync[s].pc = "write" /\ tasks' = UpdateTask(sync[s].id, sync[s].row)
      BY <2>3, WriteDoes
    <3>2. IsTask(sync[s].of, sync[s].id) /\ sync[s].row.st = "live"
      BY <2>1, <3>1 DEF Hand, Left
    <3>3. sync[s].id \in TaskId
      BY <3>2, HandTask
    <3> QED
      BY <2>1, <3>1, <3>2, <3>3, UpdateLive
  <2>4. CASE Drop(s)
    <3>1. tasks' = DeleteTask(sync[s].id)
      BY <2>4 DEF Drop
    <3> QED
      BY <2>1, <2>4, <3>1, DeleteLive DEF Deletes
  <2>5. CASE Mute(s)
    <3>1. sync[s].pc = "mute"
      BY <2>5 DEF Mute, Step
    <3>2. IsTask(sync[s].of, sync[s].id) /\ sync[s].row.st = "live"
      BY <2>1, <3>1 DEF Hand, Left
    <3>3. sync[s].id \in TaskId
      BY <3>2, HandTask
    <3>4. PICK r : r = [sync[s].row EXCEPT !.muted = TRUE]
      OBVIOUS
    <3>5. r \in TaskRow /\ r.st = "live"
      BY <2>1, <3>2, <3>4 DEF TaskRow
    <3>6. tasks' = UpdateTask(sync[s].id, r)
      BY <2>5, <3>4 DEF Mute
    <3> QED
      BY <3>3, <3>5, <3>6, UpdateLive
  <2>6. CASE ~CreateTask(s) /\ ~WriteTask(s) /\ ~Drop(s) /\ ~Mute(s)
    <3>1. tasks' = tasks
      BY <1>1, <2>6 DEF SyncStep, SyncFails, PublishFails, Open, Refresh, List, TokenInvalid, Take,
         CreateLink, ReadTask, Tell, Relink, Policy, Unlink, MarkSynced, MarkError, rows
    <3> QED
      BY <3>1
  <2> QED
    BY <2>2, <2>3, <2>4, <2>5, <2>6
<1>2. CASE RmTask
  <2>1. removal.id \in TaskId /\ removal.row \in TaskRow
    BY <1>2, FlowTypes DEF Removal, FlowInv, ImportInv, RemovalOK, Half, RmTask, Rm
  <2>2. CASE removal.pc = "drop"
    <3>1. tasks' = DeleteTask(removal.id)
      BY <1>2, <2>2 DEF RmTask, Rm
    <3> QED
      BY <1>2, <2>1, <2>2, <3>1, DeleteLive DEF Deletes
  <2>3. CASE removal.pc = "mute"
    <3>1. PICK r : r = [removal.row EXCEPT !.muted = TRUE]
      OBVIOUS
    <3>2. r \in TaskRow /\ r.st = "live"
      BY <2>1, <2>3, <3>1 DEF TaskRow, RemovalHand, FlowInv
    <3>3. tasks' = UpdateTask(removal.id, r)
      BY <1>2, <2>3, <3>1 DEF RmTask, Rm
    <3> QED
      BY <2>1, <3>2, <3>3, UpdateLive
  <2> QED
    BY <1>2, <2>2, <2>3 DEF RmTask, Rm
<1>3. ASSUME NEW t \in TaskId, UserDeletes(t) PROVE tasks'[u].st = "live" \/ Deletes(u)
  <2>1. tasks' = DeleteTask(t)
    BY <1>3 DEF UserDeletes
  <2> QED
    BY <1>3, <2>1, DeleteLive DEF Deletes
<1>4. ASSUME NEW t \in TaskId, UserCompletes(t) PROVE tasks'[u].st = "live" \/ Deletes(u)
  <2>1. PICK r : r = [tasks[t] EXCEPT !.done = TRUE]
    OBVIOUS
  <2>2. tasks[t] \in TaskRow
    BY FlowTypes
  <2>3. r.st = tasks[t].st
    BY <2>1, <2>2 DEF TaskRow
  <2>4. tasks' = [tasks EXCEPT ![t] = r]
    BY <1>4, <2>1 DEF UserCompletes
  <2>5. tasks'[u] = IF u = t THEN r ELSE tasks[u]
    BY <2>4, FlowTypes
  <2> QED
    BY <2>3, <2>5
<1>5. ASSUME NEW e \in Event, EditEvent(e) PROVE tasks'[u].st = "live" \/ Deletes(u)
  <2>1. PICK row : Edit(e, row)
    BY <1>5 DEF EditEvent
  <2>2. tasks' = tasks
    BY <2>1, Zenon DEF Edit, rows
  <2> QED
    BY <2>2
<1>6. CASE \/ Poll \/ ForceSync \/ Tick \/ Rename \/ Crash \/ RemovalFails
           \/ \E op \in {"delete", "disconnect"} : StartRemoval(op)
  BY <1>6 DEF Poll, ForceSync, Begin, Tick, Rename, Crash, RemovalFails, StartRemoval, rows
<1>7. CASE RmBinding \/ RmLinks \/ RmRead \/ RmLast \/ RmRevoke
  BY <1>7 DEF RmBinding, RmLinks, RmRead, RmLast, RmRevoke, rows
<1>8. CASE UNCHANGED vars
  BY <1>8 DEF vars
<1> QED
  BY <1>1, <1>2, <1>3, <1>4, <1>5, <1>6, <1>7, <1>8 DEF Next, World, RemovalStep

(* What a removal is to go through comes from the imported links.          *)
LEMMA StepTodo ==
  ASSUME FlowInv, [Next]_vars
  PROVE  /\ removal'.todo \subseteq removal.todo \cup RemovedTasks
         /\ removal'.pc \in {"drop", "mute"} =>
              \/ removal.pc = removal'.pc /\ removal'.id = removal.id
              \/ removal'.id \in removal.todo
<1>1. removal \in Removal
  BY FlowTypes
<1>2. ASSUME removal' = removal \/ removal' = NoRemoval
      PROVE  /\ removal'.todo \subseteq removal.todo \cup RemovedTasks
             /\ removal'.pc \in {"drop", "mute"} =>
              \/ removal.pc = removal'.pc /\ removal'.id = removal.id
              \/ removal'.id \in removal.todo
  BY <1>2 DEF NoRemoval
<1>3. CASE RmRead
  <2>1. PICK t \in removal.todo :
          Rm("read", [removal EXCEPT !.todo = @ \ {t}, !.id = t, !.row = tasks[t],
                     !.pc = IF ~Exists(t) \/ PolicyPc(t) = "next" THEN "read" ELSE PolicyPc(t)])
    BY <1>3 DEF RmRead
  <2>2. removal'.todo \subseteq removal.todo /\ removal'.id = t
    BY <1>1, <2>1 DEF Rm, Removal
  <2> QED
    BY <2>2
<1>4. CASE RmLinks
  <2>1. removal'.todo = RemovedTasks /\ removal'.pc = "read"
    BY <1>1, <1>4 DEF RmLinks, Rm, Removal
  <2> QED
    BY <2>1
<1>5. CASE \E op \in {"delete", "disconnect"} : StartRemoval(op)
  <2>1. PICK op, pc : /\ removal' = [NoRemoval EXCEPT !.op = op, !.pc = pc]
                      /\ pc \in {"revoke", "binding"}
    BY <1>5 DEF StartRemoval, Rm
  <2>2. removal'.todo = {} /\ removal'.pc = pc
    BY <2>1 DEF NoRemoval
  <2> QED
    BY <2>1, <2>2
<1>6. CASE RmBinding \/ RmLast \/ RmTask \/ RmRevoke
  <2>1. \/ removal' = NoRemoval
        \/ \E pc \in {"links", "revoke", "read"} : removal' = [removal EXCEPT !.pc = pc]
    BY <1>6 DEF RmBinding, RmLast, RmTask, RmRevoke, Rm
  <2>2. ASSUME NEW pc \in {"links", "revoke", "read"}, removal' = [removal EXCEPT !.pc = pc]
        PROVE  removal'.todo = removal.todo /\ removal'.pc = pc
    BY <1>1, <2>2 DEF Removal
  <2> QED
    BY <1>2, <2>1, <2>2
<1>7. CASE \E s \in Syncer : SyncStep(s) \/ SyncFails(s) \/ PublishFails(s)
  BY <1>2, <1>7, SyncOthers
<1>8. CASE \E e \in Event : EditEvent(e)
  <2>1. PICK e : \E row : Edit(e, row)
    BY <1>8 DEF EditEvent
  <2>2. removal' = removal
    BY <2>1, Zenon DEF Edit
  <2> QED
    BY <1>2, <2>2
<1>9. CASE \/ Poll \/ ForceSync \/ Tick \/ Rename \/ Crash \/ RemovalFails
           \/ \E t \in TaskId : UserCompletes(t) \/ UserDeletes(t)
  BY <1>2, <1>9 DEF Poll, ForceSync, Begin, Tick, Rename, Crash, RemovalFails, UserCompletes,
                    UserDeletes
<1>10. CASE UNCHANGED vars
  BY <1>2, <1>10 DEF vars
<1> QED
  BY <1>3, <1>4, <1>5, <1>6, <1>7, <1>8, <1>9, <1>10 DEF Next, World, RemovalStep

(* The task is the imported one of its event.                              *)
Mine(t) ==
  Kept(tasks[t].event) =>
    links[tasks[t].event].task = t /\ links[tasks[t].event].origin = "imported"

(* An exported task of a kept event is there, and what a removal has in    *)
(* its hand was imported.                                                  *)
KeptInv ==
  /\ \A e \in Event : Kept(e) =>
       /\ links[e].origin = "exported" => Exists(links[e].task)
       /\ google[e].tag # NoTask =>
            Exists(google[e].tag) /\ (HasLink(e) => links[e].origin = "exported")
  /\ \A t \in removal.todo : Mine(t)
  /\ removal.pc \in {"drop", "mute"} => Mine(removal.id)

LEMMA DeletedOnes ==
  ASSUME FlowInv, KeptInv, NEW t \in TaskId, Deletes(t), NEW e \in Event, Kept(e)
  PROVE  /\ links[e].origin = "exported" => links[e].task # t
         /\ google[e].tag # t
<1>1. CASE UserDeletes(t)
  BY <1>1 DEF UserDeletes, Act, Kept
<1>2. CASE \E s \in Syncer : Drop(s) /\ sync[s].id = t
  <2>1. PICK s \in Syncer : sync[s].pc = "drop" /\ sync[s].id = t
    BY <1>2 DEF Drop, Step
  <2>2. IsTask(sync[s].of, t) /\ ~Kept(sync[s].of)
    BY <2>1 DEF FlowInv, Hand, Listing, Left
  <2>3. links[e].task = t => IsTask(e, t)
    BY <2>2 DEF FlowInv, LinkOK, HasLink, IsTask
  <2>4. google[e].tag = t => IsTask(e, t)
    BY <2>2 DEF FlowInv, CalOK, IsTask
  <2> QED
    BY <2>2, <2>3, <2>4 DEF IsTask
<1>3. CASE removal.pc = "drop" /\ removal.id = t
  <2>1. Mine(t) /\ t # NoTask
    BY <1>3 DEF KeptInv, TaskId, NoTask
  <2>2. links[e].task = t => IsTask(e, t)
    BY <2>1 DEF FlowInv, LinkOK, HasLink
  <2>3. google[e].tag = t => IsTask(e, t)
    BY <2>1 DEF FlowInv, CalOK
  <2>4. IsTask(e, t) => links[e].task = t /\ links[e].origin = "imported"
    BY <2>1 DEF Mine, IsTask
  <2> QED
    BY <2>1, <2>2, <2>3, <2>4 DEF KeptInv, HasLink
<1> QED
  BY <1>1, <1>2, <1>3 DEF Deletes

LEMMA SceneStays ==
  ASSUME [Next]_vars
  PROVE  scene' = scene
<1>1. CASE \E e \in Event : EditEvent(e)
  <2>1. PICK e : \E row : Edit(e, row)
    BY <1>1 DEF EditEvent
  <2> QED
    BY <2>1, Zenon DEF Edit, notes
<1>2. CASE \E s \in Syncer : SyncStep(s) \/ SyncFails(s) \/ PublishFails(s)
  BY <1>2, ZenonT(30) DEF SyncStep, SyncFails, PublishFails, Open, Refresh, List, TokenInvalid, Take, CreateTask,
         CreateLink, ReadTask, WriteTask, Tell, Relink, Policy, Unlink, Drop, Mute, MarkSynced,
         MarkError, notes
<1>3. CASE RemovalStep
  BY <1>3 DEF RemovalStep, RmBinding, RmLinks, RmRead, RmTask, RmLast, RmRevoke, notes
<1>4. CASE \/ Poll \/ ForceSync \/ Tick \/ Rename \/ Crash \/ RemovalFails
           \/ \E t \in TaskId : UserCompletes(t) \/ UserDeletes(t)
           \/ \E op \in {"delete", "disconnect"} : StartRemoval(op)
  BY <1>4 DEF Poll, ForceSync, Begin, Tick, Rename, Crash, RemovalFails, UserCompletes,
              UserDeletes, StartRemoval, notes
<1>5. CASE UNCHANGED vars
  BY <1>5 DEF vars
<1> QED
  BY <1>1, <1>2, <1>3, <1>4, <1>5 DEF Next, World

LEMMA KeptStep ==
  ASSUME FlowInv, KeptInv, [Next]_vars
  PROVE  KeptInv'
<1>1. FlowInv' /\ TasksGrow /\ scene' = scene
  BY FlowStep, StepGrows, SceneStays
<1>2. \A e : Kept(e)' <=> Kept(e)
  BY <1>1 DEF Kept, Sc
<1>3. \A e \in Event : google'[e].tag = google[e].tag
  BY <1>1, TagsStay
<1>4. ASSUME NEW e \in Event, Kept(e), google[e].tag # NoTask PROVE Exists(google[e].tag)'
  <2>1. PICK t : t = google[e].tag
    OBVIOUS
  <2>2. t \in TaskId /\ tasks[t].st = "live"
    BY <1>4, <2>1, FlowTypes DEF KeptInv, Exists, EventRow
  <2>3. tasks'[t].st = "live"
    BY <1>4, <2>1, <2>2, StepLive, DeletedOnes
  <2> QED
    BY <1>3, <1>4, <2>1, <2>3 DEF Exists
<1>5. ASSUME NEW e \in Event, Kept(e), links'[e].origin = "exported" PROVE Exists(links[e].task)'
  <2>1. CASE links'[e] = links[e]
    <3>1. PICK t : t = links[e].task
      OBVIOUS
    <3>2. links[e] \in LinkRow /\ links[e].origin = "exported"
      BY <1>5, <2>1, FlowTypes
    <3>3. t \in TaskId /\ tasks[t].st = "live"
      BY <1>5, <3>1, <3>2 DEF KeptInv, Exists, LinkRow
    <3>4. tasks'[t].st = "live"
      BY <1>5, <3>1, <3>2, <3>3, StepLive, DeletedOnes
    <3> QED
      BY <2>1, <3>1, <3>3, <3>4 DEF Exists, TaskId, NoTask
  <2>2. CASE links'[e] = [task |-> google[e].tag, origin |-> "exported"] /\ google[e].tag # NoTask
    <3>1. links'[e].task = google'[e].tag
      BY <1>3, <2>2
    <3> QED
      BY <1>4, <1>5, <2>2, <3>1 DEF Exists
  <2> QED
    BY <1>5, <2>1, <2>2, StepLinks DEF NoLink
<1>6. ASSUME NEW e \in Event, Kept(e), google[e].tag # NoTask, HasLink(e)'
      PROVE  links'[e].origin = "exported"
  <2>1. CASE links'[e] = links[e]
    BY <1>6, <2>1 DEF KeptInv, HasLink
  <2>2. CASE links'[e] = [task |-> google[e].tag, origin |-> "exported"]
    BY <2>2
  <2>3. links'[e] # NoLink
    BY <1>6 DEF HasLink, NoLink
  <2> QED
    BY <1>6, <2>1, <2>2, <2>3, StepLinks
<1>7. ASSUME NEW t \in TaskId, tasks[t].st # "none", Mine(t) PROVE Mine(t)'
  <2>1. PICK e : e = tasks[t].event
    OBVIOUS
  <2>2. e \in Event /\ tasks'[t].event = e
    BY <1>1, <1>7, <2>1, FlowTypes DEF TasksGrow, TaskRow
  <2>3. ASSUME Kept(e) PROVE links'[e].task = t /\ links'[e].origin = "imported"
    <3>1. links[e].task = t /\ links[e].origin = "imported" /\ HasLink(e)
      BY <1>7, <2>1, <2>3 DEF Mine, HasLink, TaskId, NoTask
    <3> QED
      BY <2>2, <2>3, <3>1, StepLinks
  <2> QED
    BY <1>2, <2>2, <2>3 DEF Mine
<1>8. ASSUME NEW t \in RemovedTasks PROVE Mine(t) /\ t \in TaskId /\ tasks[t].st # "none"
  <2>1. PICK e \in Event : HasLink(e) /\ links[e].origin = "imported" /\ t = links[e].task
    BY DEF RemovedTasks
  <2>2. IsTask(e, t) /\ links[e] \in LinkRow
    BY <2>1, FlowTypes DEF FlowInv, LinkOK
  <2> QED
    BY <2>1, <2>2 DEF IsTask, Mine, LinkRow
<1>9. \A t \in removal.todo : Mine(t) /\ t \in TaskId /\ tasks[t].st # "none"
  BY FlowTypes DEF KeptInv, FlowInv, RemovalHand, Removal
<1>10. removal.pc \in {"drop", "mute"} =>
         Mine(removal.id) /\ removal.id \in TaskId /\ tasks[removal.id].st # "none"
  BY FlowTypes DEF KeptInv, FlowInv, RemovalHand, Removal, ImportInv, RemovalOK, Half
<1>11. \A t \in removal'.todo : Mine(t)'
  BY <1>7, <1>8, <1>9, StepTodo
<1>12. ASSUME removal'.pc \in {"drop", "mute"} PROVE Mine(removal.id)'
  <2>1. PICK t : t = removal'.id
    OBVIOUS
  <2>2. t \in TaskId /\ tasks[t].st # "none" /\ Mine(t)
    BY <1>9, <1>10, <1>12, <2>1, StepTodo
  <2>3. Mine(t)'
    BY <1>7, <2>2
  <2> QED
    BY <2>1, <2>3 DEF Mine
<1>13. \A e \in Event : Kept(e)' =>
         /\ links'[e].origin = "exported" => Exists(links[e].task)'
         /\ google'[e].tag # NoTask =>
              Exists(google[e].tag)' /\ (HasLink(e)' => links'[e].origin = "exported")
  BY <1>2, <1>3, <1>4, <1>5, <1>6
<1> QED
  BY <1>11, <1>12, <1>13 DEF KeptInv

LEMMA KeptStart == Init => KeptInv
<1> SUFFICES ASSUME Init PROVE KeptInv
  OBVIOUS
<1>1. Starts(Sc)
  BY ScenarioStarts DEF Init
<1>2. google = Sc.events /\ links = Sc.links /\ tasks = Sc.tasks
  BY DEF Init
<1>3. ASSUME NEW e \in Event
      PROVE  /\ links[e].origin = "exported" => Exists(links[e].task)
             /\ google[e].tag # NoTask =>
                  Exists(google[e].tag) /\ (HasLink(e) => links[e].origin = "exported")
  <2>1. /\ Sc.links[e] # NoLink => Sc.links[e].task # NoTask /\ Sc.links[e].origin = "exported"
        /\ \A t \in {Sc.links[e].task, Sc.events[e].tag} \ {NoTask} : Sc.tasks[t].st = "live"
    BY <1>1 DEF Starts
  <2> QED
    BY <1>2, <2>1 DEF Exists, HasLink, NoLink
<1>4. removal.todo = {} /\ removal.pc = "idle"
  BY DEF Init, NoRemoval
<1> QED
  BY <1>3, <1>4 DEF KeptInv

-----------------------------------------------------------------------------
(* What a removal leaves.                                                  *)

Removing == removal.pc \in {"read", "drop", "mute"}

(* The delete policy was applied to the task.                              *)
Served(t) ==
  CASE Sc.policy = "soft_delete" -> ~Exists(t)
    [] Sc.policy = "mute"        -> Exists(t) => tasks[t].muted
    [] OTHER                     -> TRUE

Cleared(t) ==
  \/ Served(t)
  \/ Removing /\ t \in removal.todo
  \/ removal.pc \in {"drop", "mute"} /\ t = removal.id

EmptyInv ==
  Alone =>
    /\ removal.pc = "links" \/ Removing => binding.st # "disconnected"
    /\ removal.pc = "mute" => Sc.policy = "mute"
    /\ Removing \/ binding.st = "disconnected" =>
         \A e \in Event : links[e].origin = "imported" /\ HasLink(e) => Cleared(links[e].task)

LEMMA ServedStays ==
  ASSUME FlowInv, [Next]_vars, NEW t \in TaskId, Served(t), tasks[t].st # "none",
         tasks[t].muted => tasks'[t].muted
  PROVE  Served(t)'
<1>1. TasksGrow /\ scene' = scene
  BY StepGrows, SceneStays
<1>2. Exists(t)' => Exists(t)
  <2>1. tasks[t] \in TaskRow
    BY FlowTypes
  <2> QED
    BY <1>1, <2>1 DEF Exists, TasksGrow, TaskRow
<1>3. Sc' = Sc
  BY <1>1 DEF Sc
<1> QED
  BY <1>2, <1>3 DEF Served

LEMMA ImportedTask ==
  ASSUME FlowInv, NEW e \in Event, HasLink(e)
  PROVE  /\ links[e].task \in TaskId /\ tasks[links[e].task].st # "none"
         /\ links[e].task # NoTask
  BY FlowTypes DEF FlowInv, LinkOK, IsTask, LinkRow

(* A step that leaves links, removal and binding keeps what is served if   *)
(* it does not open the eyes of a muted task.                              *)
LEMMA EmptyKeeps ==
  ASSUME FlowInv, EmptyInv, [Next]_vars, Alone' => Alone, links' = links,
         removal'.pc = removal.pc \/ removal'.pc \notin {"links", "read", "drop", "mute"},
         Removing' => removal'.todo = removal.todo /\ removal'.id = removal.id,
         binding'.st = "disconnected" => binding.st = "disconnected",
         \A t \in TaskId : tasks[t].muted => tasks'[t].muted
  PROVE  EmptyInv'
<1>1. scene' = scene
  BY SceneStays
<1> SUFFICES ASSUME Alone'
             PROVE  /\ removal'.pc = "links" \/ Removing' => binding'.st # "disconnected"
                    /\ removal'.pc = "mute" => Sc'.policy = "mute"
                    /\ Removing' \/ binding'.st = "disconnected" =>
                         \A e \in Event : links'[e].origin = "imported" /\ HasLink(e)' => Cleared(links[e].task)'
  BY DEF EmptyInv
<1>2. removal'.pc = "links" \/ Removing' => binding'.st # "disconnected"
  BY DEF EmptyInv, Removing
<1>3. removal'.pc = "mute" => Sc'.policy = "mute"
  BY <1>1 DEF EmptyInv, Sc
<1>4. ASSUME Removing' \/ binding'.st = "disconnected", NEW e \in Event, links'[e].origin = "imported",
             HasLink(e)'
      PROVE  Cleared(links[e].task)'
  <2>1. Cleared(links[e].task)
    BY <1>4 DEF EmptyInv, HasLink, Removing
  <2>2. PICK t : t = links[e].task
    OBVIOUS
  <2>3. t \in TaskId /\ tasks[t].st # "none"
    BY <1>4, <2>2, ImportedTask DEF HasLink
  <2>4. CASE Served(t)
    <3>1. Served(t)'
      BY <2>3, <2>4, ServedStays
    <3>2. links'[e].task = t
      BY <2>2
    <3> QED
      BY <3>1, <3>2 DEF Cleared, Served, Exists
  <2>5. CASE /\ Removing /\ Removing'
             /\ t \in removal.todo \/ (removal.pc \in {"drop", "mute"} /\ t = removal.id)
    BY <2>2, <2>5 DEF Cleared, Removing
  <2>6. CASE Removing /\ ~Removing'
    BY <1>4, <2>6 DEF EmptyInv
  <2> QED
    BY <2>1, <2>2, <2>4, <2>5, <2>6 DEF Cleared, Removing
<1> QED
  BY <1>2, <1>3, <1>4

LEMMA EmptySync ==
  ASSUME FlowInv, AloneInv, NEW s \in Syncer, SyncStep(s) \/ SyncFails(s) \/ PublishFails(s)
  PROVE  EmptyInv'
<1>1. /\ Others(s) /\ sync[s].pc # "idle" /\ mixed' = mixed /\ removal' = removal
  BY SyncOthers
<1> SUFFICES ASSUME Alone PROVE EmptyInv'
  BY <1>1 DEF EmptyInv, Alone
<1>2. removal.pc = "idle" /\ binding.st # "disconnected" /\ sync[s].copy.st # "disconnected"
  BY <1>1 DEF AloneInv
<1>3. binding'.st # "disconnected"
  <2>1. CASE Open(s) \/ Refresh(s) \/ List(s) \/ TokenInvalid(s)
    BY <1>2, <2>1, LookDoes
  <2>2. CASE MarkSynced(s) \/ MarkError(s)
    BY <1>2, <2>2, MarkDoes
  <2>3. CASE ~(Open(s) \/ Refresh(s) \/ List(s) \/ TokenInvalid(s) \/ MarkSynced(s) \/ MarkError(s))
    <3>1. binding' = binding
      BY <2>3 DEF SyncStep, SyncFails, PublishFails, Take, CreateTask, CreateLink, ReadTask,
         WriteTask, Tell, Relink, Policy, Unlink, Drop, Mute, rows
    <3> QED
      BY <1>2, <3>1
  <2> QED
    BY <2>1, <2>2, <2>3
<1> QED
  BY <1>1, <1>2, <1>3 DEF EmptyInv, Removing

LEMMA EmptyRemoval ==
  ASSUME FlowInv, AloneInv, EmptyInv, RemovalStep
  PROVE  EmptyInv'
<1>1. removal.pc # "idle" /\ mixed' = mixed /\ sync' = sync /\ links' = links /\ scene' = scene
  BY DEF RemovalStep, RmBinding, RmLinks, RmRead, RmTask, RmLast, RmRevoke, Rm, notes, rows
<1>2. [Next]_vars /\ removal \in Removal /\ (Alone' <=> Alone) /\ Sc' = Sc
  BY <1>1, FlowTypes DEF Next, Alone, Sc
<1>3. CASE RmBinding
  <2>1. /\ binding' = binding /\ tasks' = tasks /\ removal.pc = "binding"
        /\ \/ binding.st = "disconnected" /\ removal' = NoRemoval
           \/ binding.st # "disconnected" /\ removal' = [removal EXCEPT !.pc = "links"]
    BY <1>3 DEF RmBinding, Rm, rows
  <2>2. CASE binding.st = "disconnected"
    <3>1. removal'.pc = "idle"
      BY <2>1, <2>2 DEF NoRemoval
    <3> QED
      BY <1>1, <1>2, <2>1, <3>1, EmptyKeeps DEF Removing
  <2>3. CASE binding.st # "disconnected"
    <3>1. removal'.pc = "links"
      BY <1>2, <2>1, <2>3 DEF Removal
    <3> QED
      BY <2>1, <2>3, <3>1 DEF EmptyInv, Removing
  <2> QED
    BY <2>2, <2>3
<1>4. CASE RmLinks
  <2>1. /\ binding' = binding /\ tasks' = tasks /\ removal.pc = "links"
        /\ removal'.pc = "read" /\ removal'.todo = RemovedTasks
    BY <1>2, <1>4 DEF RmLinks, Rm, rows, Removal
  <2>2. \A e \in Event : links'[e].origin = "imported" /\ HasLink(e)' => links'[e].task \in removal'.todo
    BY <1>1, <2>1 DEF HasLink, RemovedTasks
  <2> QED
    BY <1>2, <2>1, <2>2 DEF EmptyInv, Removing, Cleared
<1>5. CASE RmRead
  <2>1. PICK t \in removal.todo :
          /\ Rm("read", [removal EXCEPT !.todo = @ \ {t}, !.id = t, !.row = tasks[t],
                     !.pc = IF ~Exists(t) \/ PolicyPc(t) = "next" THEN "read" ELSE PolicyPc(t)])
          /\ tasks' = tasks /\ binding' = binding
    BY <1>5 DEF RmRead
  <2>2. PICK pc : pc = IF ~Exists(t) \/ PolicyPc(t) = "next" THEN "read" ELSE PolicyPc(t)
    OBVIOUS
  <2>3. PICK r : r = tasks[t]
    OBVIOUS
  <2>4. /\ removal'.todo = removal.todo \ {t} /\ removal'.id = t /\ removal'.pc = pc
        /\ removal.pc = "read"
    BY <1>2, <2>1, <2>2, <2>3 DEF Rm, Removal
  <2>5. pc \in {"read", "drop", "mute"} /\ (pc = "mute" => Sc.policy = "mute")
    BY <2>2 DEF PolicyPc
  <2>6. pc = "read" => Served(t)
    BY <2>2 DEF PolicyPc, Served, Exists
  <2>7. \A u : Served(u)' <=> Served(u)
    BY <1>2, <2>1 DEF Served, Exists
  <2>8. ASSUME Alone, NEW e \in Event, links'[e].origin = "imported", HasLink(e)'
        PROVE  Cleared(links[e].task)'
    <3>1. PICK u : u = links[e].task
      OBVIOUS
    <3>2. Cleared(u) /\ links'[e].task = u
      BY <1>1, <2>4, <2>8, <3>1 DEF EmptyInv, HasLink, Removing
    <3>3. Cleared(u)'
      <4>1. Served(u) \/ u \in removal.todo
        BY <2>4, <3>2 DEF Cleared
      <4>2. CASE Served(u)
        BY <2>7, <4>2 DEF Cleared
      <4>3. CASE u \in removal.todo /\ u # t
        BY <2>4, <2>5, <4>3 DEF Cleared, Removing
      <4>4. CASE u = t /\ pc = "read"
        BY <2>6, <2>7, <4>4 DEF Cleared
      <4>5. CASE u = t /\ pc # "read"
        BY <2>4, <2>5, <4>5 DEF Cleared
      <4> QED
        BY <4>1, <4>2, <4>3, <4>4, <4>5
    <3> QED
      BY <3>2, <3>3 DEF Cleared, Served, Exists
  <2> QED
    BY <1>2, <2>1, <2>4, <2>5, <2>8 DEF EmptyInv, Removing
<1>6. CASE RmTask
  <2>1. /\ removal.pc \in {"drop", "mute"} /\ removal' = [removal EXCEPT !.pc = "read"]
        /\ binding' = binding
        /\ \/ removal.pc = "drop" /\ tasks' = DeleteTask(removal.id)
           \/ removal.pc = "mute" /\ tasks' = UpdateTask(removal.id, [removal.row EXCEPT !.muted = TRUE])
    BY <1>6 DEF RmTask, Rm
  <2>2. removal'.pc = "read" /\ removal'.todo = removal.todo
    BY <1>2, <2>1 DEF Removal
  <2>3. PICK n : n = removal.id /\ n \in TaskId /\ removal.row \in TaskRow /\ tasks[n].st # "none"
    BY <2>1, FlowTypes DEF Removal, FlowInv, ImportInv, RemovalOK, Half, RemovalHand
  <2>4. PICK r : r = [removal.row EXCEPT !.muted = TRUE]
    OBVIOUS
  <2>5. r \in TaskRow /\ r.muted /\ (removal.pc = "mute" => r.st = "live")
    BY <2>3, <2>4 DEF TaskRow, RemovalHand, FlowInv
  <2>6. TasksGrow
    BY <1>2, StepGrows
  <2>7. ASSUME NEW u \in TaskId, u # n PROVE tasks'[u] = tasks[u]
    <3>1. CASE tasks' = DeleteTask(n)
      BY <2>3, <2>7, <3>1, DeleteLive
    <3>2. CASE tasks' = UpdateTask(n, r)
      BY <2>7, <3>2, FlowTypes DEF UpdateTask
    <3> QED
      BY <2>1, <2>3, <2>4, <3>1, <3>2
  <2>8. ASSUME removal.pc = "drop" PROVE tasks'[n].st # "live"
    <3>1. tasks' = DeleteTask(n)
      BY <2>1, <2>3, <2>8
    <3>2. CASE Exists(n)
      <4>1. PICK g : g = [tasks[n] EXCEPT !.st = "gone"]
        OBVIOUS
      <4>2. tasks[n] \in TaskRow
        BY <2>3, FlowTypes
      <4>3. g.st = "gone"
        BY <4>1, <4>2 DEF TaskRow
      <4>4. tasks' = [tasks EXCEPT ![n] = g]
        BY <3>1, <3>2, <4>1 DEF DeleteTask
      <4>5. tasks'[n] = g
        BY <2>3, <4>4, FlowTypes
      <4> QED
        BY <4>3, <4>5
    <3>3. CASE ~Exists(n)
      BY <2>3, <3>1, <3>3 DEF DeleteTask, Exists, TaskId, NoTask
    <3> QED
      BY <3>2, <3>3
  <2>9. ASSUME removal.pc = "mute", tasks'[n].st = "live" PROVE tasks'[n].muted
    <3>1. tasks' = UpdateTask(n, r)
      BY <2>1, <2>3, <2>4, <2>9
    <3>2. tasks[n].st = "live"
      <4>1. tasks[n] \in TaskRow
        BY <2>3, FlowTypes
      <4> QED
        BY <2>3, <2>6, <2>9, <4>1 DEF TasksGrow, TaskRow
    <3> QED
      BY <2>3, <2>5, <2>9, <3>1, <3>2, UpdateLive
  <2>10. Alone => Served(n)'
    BY <1>2, <2>1, <2>8, <2>9 DEF EmptyInv, Served, Exists
  <2>11. ASSUME Alone, NEW e \in Event, links'[e].origin = "imported", HasLink(e)'
         PROVE  Cleared(links[e].task)'
    <3>1. PICK u : u = links[e].task
      OBVIOUS
    <3>2. Cleared(u) /\ links'[e].task = u /\ u \in TaskId /\ tasks[u].st # "none"
      BY <1>1, <2>1, <2>11, <3>1, ImportedTask DEF EmptyInv, HasLink, Removing
    <3>3. Cleared(u)'
      <4>1. CASE u = n
        BY <2>10, <2>11, <4>1 DEF Cleared
      <4>2. CASE u # n /\ Served(u)
        BY <1>2, <2>7, <3>2, <4>2, ServedStays DEF Cleared
      <4>3. CASE u # n /\ u \in removal.todo
        BY <2>2, <4>3 DEF Cleared, Removing
      <4> QED
        BY <2>3, <3>2, <4>1, <4>2, <4>3 DEF Cleared
    <3> QED
      BY <3>2, <3>3 DEF Cleared, Served, Exists
  <2> QED
    BY <1>2, <2>1, <2>2, <2>11 DEF EmptyInv, Removing
<1>7. CASE RmLast
  <2>1. /\ removal.todo = {} /\ removal.pc = "read" /\ tasks' = tasks
        /\ removal' = NoRemoval \/ removal' = [removal EXCEPT !.pc = "revoke"]
    BY <1>7 DEF RmLast, Rm
  <2>2. removal'.pc \in {"idle", "revoke"}
    BY <1>2, <2>1 DEF Removal, NoRemoval
  <2>3. \A u : Served(u)' <=> Served(u)
    BY <1>2, <2>1 DEF Served, Exists
  <2>4. ASSUME Alone, NEW e \in Event, links'[e].origin = "imported", HasLink(e)'
        PROVE  Cleared(links[e].task)'
    <3>1. PICK u : u = links[e].task
      OBVIOUS
    <3>2. Cleared(u) /\ links'[e].task = u
      BY <1>1, <2>1, <2>4, <3>1 DEF EmptyInv, HasLink, Removing
    <3>3. Served(u)
      BY <2>1, <3>2 DEF Cleared
    <3>4. Served(u)'
      BY <2>3, <3>3
    <3> QED
      BY <3>2, <3>4 DEF Cleared, Served, Exists
  <2> QED
    BY <1>2, <2>2, <2>4 DEF EmptyInv, Removing
<1>8. CASE RmRevoke
  <2>1. removal'.pc = "idle" /\ binding' = binding /\ tasks' = tasks
    BY <1>8 DEF RmRevoke, Rm, NoRemoval
  <2> QED
    BY <1>1, <1>2, <2>1, EmptyKeeps DEF Removing
<1> QED
  BY <1>3, <1>4, <1>5, <1>6, <1>7, <1>8 DEF RemovalStep

LEMMA EmptyStep ==
  ASSUME FlowInv, AloneInv, EmptyInv, [Next]_vars
  PROVE  EmptyInv'
<1>1. CASE \E s \in Syncer : SyncStep(s) \/ SyncFails(s) \/ PublishFails(s)
  BY <1>1, EmptySync
<1>2. CASE RemovalStep
  BY <1>2, EmptyRemoval
<1>3. CASE Poll \/ ForceSync
  <2>1. /\ mixed' = (mixed \/ Busy) /\ binding.st # "disconnected"
        /\ UNCHANGED <<binding, links, tasks, removal>>
    BY <1>3, BeginDoes DEF rows
  <2> QED
    BY <2>1, Meets, EmptyKeeps DEF Removing
<1>4. CASE \E op \in {"delete", "disconnect"} : StartRemoval(op)
  <2>1. PICK op, pc : /\ removal' = [NoRemoval EXCEPT !.op = op, !.pc = pc]
                      /\ pc \in {"revoke", "binding"}
    BY <1>4 DEF StartRemoval, Rm
  <2>2. removal'.pc = pc
    BY <2>1 DEF NoRemoval
  <2>3. mixed' = (mixed \/ Busy) /\ UNCHANGED <<binding, links, tasks>>
    BY <1>4 DEF StartRemoval, rows
  <2> QED
    BY <2>1, <2>2, <2>3, Meets, EmptyKeeps DEF Removing
<1>5. CASE RemovalFails \/ Crash
  <2>1. removal' = NoRemoval /\ mixed' = mixed /\ UNCHANGED <<binding, links, tasks>>
    BY <1>5 DEF RemovalFails, Crash, rows
  <2>2. removal'.pc = "idle"
    BY <2>1 DEF NoRemoval
  <2> QED
    BY <2>1, <2>2, EmptyKeeps DEF Removing, Alone
<1>6. CASE Tick \/ Rename
  BY <1>6, EmptyKeeps DEF Tick, Rename, rows, notes, Removing, Alone
<1>7. CASE \E e \in Event : EditEvent(e)
  <2>1. PICK e : \E row : Edit(e, row)
    BY <1>7 DEF EditEvent
  <2>2. UNCHANGED <<binding, links, tasks, removal, mixed>>
    BY <2>1, Zenon DEF Edit, rows, notes
  <2> QED
    BY <2>2, EmptyKeeps DEF Removing, Alone
<1>8. ASSUME NEW t \in TaskId, UserCompletes(t) \/ UserDeletes(t) PROVE EmptyInv'
  <2>1. mixed' = (mixed \/ Busy) /\ UNCHANGED <<binding, links, removal>>
    BY <1>8 DEF UserCompletes, UserDeletes
  <2>2. tasks[t] \in TaskRow
    BY FlowTypes
  <2>3. ASSUME NEW u \in TaskId PROVE tasks'[u].muted = tasks[u].muted
    <3>1. CASE UserCompletes(t)
      <4>1. PICK r : r = [tasks[t] EXCEPT !.done = TRUE]
        OBVIOUS
      <4>2. r.muted = tasks[t].muted
        BY <2>2, <4>1 DEF TaskRow
      <4>3. tasks' = [tasks EXCEPT ![t] = r]
        BY <3>1, <4>1 DEF UserCompletes
      <4> QED
        BY <4>2, <4>3, FlowTypes
    <3>2. CASE UserDeletes(t)
      <4>1. PICK r : r = [tasks[t] EXCEPT !.st = "gone"]
        OBVIOUS
      <4>2. r.muted = tasks[t].muted
        BY <2>2, <4>1 DEF TaskRow
      <4>3. tasks' = tasks \/ tasks' = [tasks EXCEPT ![t] = r]
        BY <3>2, <4>1 DEF UserDeletes, DeleteTask
      <4> QED
        BY <4>2, <4>3, FlowTypes
    <3> QED
      BY <1>8, <3>1, <3>2
  <2>4. [Next]_vars
    OBVIOUS
  <2> QED
    BY <2>1, <2>3, <2>4, Meets, EmptyKeeps DEF Removing
<1>9. CASE UNCHANGED vars
  BY <1>9, EmptyKeeps DEF vars, Removing, Alone
<1> QED
  BY <1>1, <1>2, <1>3, <1>4, <1>5, <1>6, <1>7, <1>8, <1>9 DEF Next, World

LEMMA EmptyStart == Init => EmptyInv
  BY DEF Init, EmptyInv, NoRemoval, NewBinding, Removing

(* The tags and the exported links are of the user's own tasks.            *)
Own(t) == Sc.tasks[t].st # "none"

ExportedInv ==
  \A e \in Event :
    /\ google[e].tag # NoTask => Own(google[e].tag)
    /\ links[e].origin = "exported" /\ HasLink(e) => Own(links[e].task)

LEMMA ExportedStart == Init => ExportedInv
<1> SUFFICES ASSUME Init, NEW e \in Event
             PROVE  /\ google[e].tag # NoTask => Own(google[e].tag)
                    /\ links[e].origin = "exported" /\ HasLink(e) => Own(links[e].task)
  BY DEF ExportedInv
<1>1. Starts(Sc)
  BY ScenarioStarts DEF Init
<1>2. google = Sc.events /\ links = Sc.links
  BY DEF Init
<1>3. \A t \in {Sc.links[e].task, Sc.events[e].tag} \ {NoTask} : Sc.tasks[t].st = "live"
  BY <1>1 DEF Starts
<1> QED
  BY <1>2, <1>3 DEF HasLink, Own

LEMMA ExportedStep ==
  ASSUME FlowInv, ExportedInv, [Next]_vars
  PROVE  ExportedInv'
<1>1. scene' = scene /\ \A e \in Event : google'[e].tag = google[e].tag
  BY FlowStep, SceneStays, TagsStay
<1>2. \A t : Own(t)' <=> Own(t)
  BY <1>1 DEF Own, Sc
<1> SUFFICES ASSUME NEW e \in Event
             PROVE  /\ google'[e].tag # NoTask => Own(google'[e].tag)
                    /\ links'[e].origin = "exported" /\ HasLink(e)' => Own(links'[e].task)
  BY <1>2 DEF ExportedInv, Own, Sc
<1>3. google'[e].tag # NoTask => Own(google'[e].tag)
  BY <1>1 DEF ExportedInv
<1>4. ASSUME links'[e].origin = "exported", HasLink(e)' PROVE Own(links'[e].task)
  <2>1. CASE links'[e] = links[e]
    BY <1>4, <2>1 DEF ExportedInv, HasLink
  <2>2. CASE links'[e] = [task |-> google[e].tag, origin |-> "exported"] /\ google[e].tag # NoTask
    BY <2>2 DEF ExportedInv
  <2>3. links'[e] # NoLink
    BY <1>4 DEF HasLink, NoLink
  <2> QED
    BY <1>4, <2>1, <2>2, <2>3, StepLinks
<1> QED
  BY <1>3, <1>4

LEMMA UnboundHolds ==
  ASSUME FlowInv, AloneInv, OneInv, KeptInv, EmptyInv, ExportedInv
  PROVE  UnboundIsEmpty
<1> SUFFICES ASSUME Alone, binding.st = "disconnected"
             PROVE  /\ \A t \in TaskId : Imported(t) /\ Spared(t) =>
                         LET e == tasks[t].event IN
                         /\ \A f \in Event : links[f].task # t
                         /\ cut \/ AliveFor(e) # MadeFor(e)
                    /\ \A e \in Event : links[e].origin = "exported" /\ Kept(e) =>
                         Exists(links[e].task)
  BY DEF UnboundIsEmpty
<1>1. ASSUME NEW t \in TaskId, Imported(t), Spared(t), NEW f \in Event PROVE links[f].task # t
  <2> SUFFICES ASSUME links[f].task = t PROVE FALSE
    OBVIOUS
  <2>1. HasLink(f) /\ ~Own(t)
    BY <1>1 DEF HasLink, TaskId, NoTask, Imported, Own
  <2>2. links[f].origin # "exported"
    BY <2>1 DEF ExportedInv
  <2>3. links[f].origin = "imported"
    BY <2>2, FlowTypes DEF LinkRow
  <2>4. Served(t)
    BY <2>1, <2>3 DEF EmptyInv, Cleared, Removing
  <2> QED
    BY <1>1, <2>4 DEF Served, Spared
<1>2. ASSUME NEW t \in TaskId, Imported(t), Spared(t), ~cut,
             NEW e \in Event, e = tasks[t].event
      PROVE  AliveFor(e) # MadeFor(e)
  <2>1. IsTask(e, t) /\ ~Own(t)
    BY <1>2 DEF IsTask, TaskId, NoTask, Imported, Own
  <2>2. links[e].task # t
    BY <1>1, <1>2
  <2>3. google[e].tag # t
    BY <2>1 DEF ExportedInv, IsTask
  <2>4. \A s \in Syncer : sync[s].pc # "link"
    BY DEF AloneInv
  <2>5. Claimed(e, t)
    BY <1>2, <2>1 DEF OneInv
  <2>6. PICK u \in TaskId : IsTask(e, u) /\ tasks[u].st = "gone"
    BY <2>2, <2>3, <2>4, <2>5 DEF Claimed, Lost
  <2> QED
    BY <2>6 DEF AliveFor, MadeFor, IsTask
<1>3. \A t \in TaskId : tasks[t].event \in Event
  BY FlowTypes DEF TaskRow
<1>4. \A e \in Event : links[e].origin = "exported" /\ Kept(e) => Exists(links[e].task)
  BY DEF KeptInv
<1> QED
  BY <1>1, <1>2, <1>3, <1>4

(* A binding that was removed while nobody else was at it has applied its  *)
(* policy to every task it had a link to, whatever failed before it was    *)
(* done.  A task of the import it spared has no link, because a failure    *)
(* came in between or an earlier task of the same event was gone; and no   *)
(* import or removal takes an exported task with it.                       *)
THEOREM UnboundIsEmptyCorrect == Spec => []UnboundIsEmpty
<1> DEFINE I == FlowInv /\ AloneInv /\ OneInv /\ KeptInv /\ EmptyInv /\ ExportedInv
<1>1. Init => I
  BY FlowStart, AloneStart, OneStart, KeptStart, EmptyStart, ExportedStart
<1>2. I /\ [Next]_vars => I'
  BY FlowStep, AloneStep, OneStep, KeptStep, EmptyStep, ExportedStep
<1>3. I => UnboundIsEmpty
  BY UnboundHolds
<1> HIDE DEF I
<1> QED
  BY <1>1, <1>2, <1>3, PTL DEF Spec

-----------------------------------------------------------------------------
(* The saved token and the tasks.                                          *)

(* The calendar only changes forward.                                      *)
LEMMA StepCal ==
  ASSUME FlowInv, [Next]_vars
  PROVE  CalGrows /\ edits' \in Nat /\ \A e \in Event : google'[e].ver \in Nat
<1>1. FlowInv'
  BY FlowStep
<1>2. edits' \in Nat /\ \A e \in Event : google'[e].ver \in Nat
  BY <1>1 DEF FlowInv, ImportInv, ImportTypeOK, EventRow
<1>3. ASSUME google' = google, edits' = edits PROVE CalGrows
  BY <1>3, SceneStays, FlowTypes DEF CalGrows
<1>4. CASE \E s \in Syncer : SyncStep(s) \/ SyncFails(s) \/ PublishFails(s)
  BY <1>2, <1>3, <1>4, SyncOthers
<1>5. CASE \E e \in Event : EditEvent(e)
  BY <1>2, <1>5, EditGrows
<1>6. CASE RemovalStep
  BY <1>2, <1>3, <1>6 DEF RemovalStep, RmBinding, RmLinks, RmRead, RmTask, RmLast, RmRevoke, world
<1>7. CASE \/ Poll \/ ForceSync \/ Tick \/ Rename \/ Crash \/ RemovalFails
           \/ \E t \in TaskId : UserCompletes(t) \/ UserDeletes(t)
           \/ \E op \in {"delete", "disconnect"} : StartRemoval(op)
  BY <1>2, <1>3, <1>7 DEF Poll, ForceSync, Begin, Tick, Rename, Crash, RemovalFails, UserCompletes,
              UserDeletes, StartRemoval, world
<1>8. CASE UNCHANGED vars
  BY <1>2, <1>3, <1>8 DEF vars
<1> QED
  BY <1>2, <1>4, <1>5, <1>6, <1>7, <1>8 DEF Next, World

LEMMA DroppedGrows ==
  ASSUME FlowInv, [Next]_vars
  PROVE  dropped \subseteq dropped'
<1>1. CASE \E s \in Syncer : SyncStep(s) \/ SyncFails(s) \/ PublishFails(s)
  BY <1>1, SyncOthers
<1>2. CASE \E e \in Event : EditEvent(e)
  BY <1>2, EditGrows DEF notes
<1>3. CASE RemovalStep
  BY <1>3 DEF RemovalStep, RmBinding, RmLinks, RmRead, RmTask, RmLast, RmRevoke, notes
<1>4. CASE \/ Poll \/ ForceSync \/ Tick \/ Rename \/ Crash \/ RemovalFails
           \/ \E t \in TaskId : UserCompletes(t) \/ UserDeletes(t)
           \/ \E op \in {"delete", "disconnect"} : StartRemoval(op)
  BY <1>4 DEF Poll, ForceSync, Begin, Tick, Rename, Crash, RemovalFails, UserCompletes,
              UserDeletes, StartRemoval, notes
<1>5. CASE UNCHANGED vars
  BY <1>5 DEF vars
<1> QED
  BY <1>1, <1>2, <1>3, <1>4, <1>5 DEF Next, World

(* What a step outside the syncs does to the text of a task.               *)
LEMMA StepText ==
  ASSUME FlowInv, NEW u \in TaskId, tasks[u].st = "live",
         \/ RemovalStep \/ RemovalFails \/ Tick \/ Rename
         \/ \E op \in {"delete", "disconnect"} : StartRemoval(op)
         \/ \E e \in Event : EditEvent(e)
         \/ \E t \in TaskId : UserCompletes(t) \/ UserDeletes(t)
  PROVE  \/ tasks'[u].st = "live" /\ tasks'[u].text = tasks[u].text
         \/ /\ removal.pc = "mute" /\ removal.id = u
            /\ tasks'[u].st = "live" /\ tasks'[u].text = removal.row.text
         \/ u \in dropped'
<1>1. CASE RmTask
  <2>1. removal.id \in TaskId /\ removal.row \in TaskRow
    BY <1>1, FlowTypes DEF Removal, FlowInv, ImportInv, RemovalOK, Half, RmTask, Rm
  <2>2. CASE removal.pc = "drop"
    <3>1. tasks' = DeleteTask(removal.id) /\ dropped' = dropped \cup {removal.id}
      BY <1>1, <2>2 DEF RmTask, Rm
    <3> QED
      BY <2>1, <3>1, DeleteLive
  <2>3. CASE removal.pc = "mute"
    <3>1. PICK r : r = [removal.row EXCEPT !.muted = TRUE]
      OBVIOUS
    <3>2. r \in TaskRow /\ r.st = "live" /\ r.text = removal.row.text
      BY <2>1, <2>3, <3>1 DEF TaskRow, RemovalHand, FlowInv
    <3>3. tasks' = UpdateTask(removal.id, r)
      BY <1>1, <2>3, <3>1 DEF RmTask, Rm
    <3> QED
      BY <2>1, <2>3, <3>2, <3>3, UpdateLive
  <2> QED
    BY <1>1, <2>2, <2>3 DEF RmTask, Rm
<1>2. ASSUME NEW t \in TaskId, UserDeletes(t)
      PROVE  \/ tasks'[u].st = "live" /\ tasks'[u].text = tasks[u].text
             \/ u \in dropped'
  <2>1. tasks' = DeleteTask(t) /\ dropped' = dropped \cup {t}
    BY <1>2 DEF UserDeletes
  <2> QED
    BY <2>1, DeleteLive
<1>3. ASSUME NEW t \in TaskId, UserCompletes(t)
      PROVE  tasks'[u].st = "live" /\ tasks'[u].text = tasks[u].text
  <2>1. PICK r : r = [tasks[t] EXCEPT !.done = TRUE]
    OBVIOUS
  <2>2. tasks[t] \in TaskRow
    BY FlowTypes
  <2>3. r.st = tasks[t].st /\ r.text = tasks[t].text
    BY <2>1, <2>2 DEF TaskRow
  <2>4. tasks' = [tasks EXCEPT ![t] = r]
    BY <1>3, <2>1 DEF UserCompletes
  <2>5. tasks'[u] = IF u = t THEN r ELSE tasks[u]
    BY <2>4, FlowTypes
  <2> QED
    BY <2>3, <2>5
<1>4. CASE \E e \in Event : EditEvent(e)
  BY <1>4, EditGrows DEF rows
<1>5. CASE \/ Tick \/ Rename \/ RemovalFails
           \/ \E op \in {"delete", "disconnect"} : StartRemoval(op)
  BY <1>5 DEF Tick, Rename, RemovalFails, StartRemoval, rows
<1>6. CASE RmBinding \/ RmLinks \/ RmRead \/ RmLast \/ RmRevoke
  BY <1>6 DEF RmBinding, RmLinks, RmRead, RmLast, RmRevoke, rows
<1> QED
  BY <1>1, <1>2, <1>3, <1>4, <1>5, <1>6 DEF RemovalStep

(* The event has what a token tk says was written of it: a task with its   *)
(* text, or no linked task any more.                                       *)
HasText(e) == \E t \in AliveFor(e) : tasks[t].text >= google[e].ver

Covered(e, tk) ==
  /\ google[e].st # "none" /\ google[e].ver <= tk
  /\ links[e].origin = "imported" /\ ~TouchedBy(e)
  => IF google[e].st = "live" THEN HasText(e)
     ELSE Sc.policy = "soft_delete" => ~Exists(links[e].task)

InHand(s, e) == sync[s].of = e /\ sync[s].pc \in Taken \cup Left

Worked(s, e) ==
  \/ Covered(e, sync[s].upto) \/ InHand(s, e)
  \/ \E x \in sync[s].todo : x.ev = e /\ x.row = google[e]

(* What has come of the event at hand.                                     *)
Done(s) ==
  /\ sync[s].pc \in Left => links[sync[s].of].task = sync[s].id
  /\ sync[s].pc = "mute" => Sc.policy = "mute"
  /\ sync[s].pc \in {"link", "tell", "write"} => Exists(sync[s].id)
  /\ sync[s].pc \in {"link", "tell"} /\ google[sync[s].of].ver <= sync[s].upto
       => tasks[sync[s].id].text >= google[sync[s].of].ver
  /\ sync[s].pc = "relink" /\ google[sync[s].of].ver <= sync[s].upto => HasText(sync[s].of)

TokenInv ==
  Alone =>
    /\ removal.pc = "mute" => removal.row.text = tasks[removal.id].text
    /\ \A e \in Event : Covered(e, binding.token)
    /\ \A s \in Syncer :
         Done(s) /\ (sync[s].pc \in Past => \A e \in Event : Worked(s, e))

LEMMA AliveIsTask ==
  ASSUME NEW e, NEW t
  PROVE  t \in AliveFor(e) <=> t \in TaskId /\ IsTask(e, t) /\ tasks[t].st = "live"
  BY DEF AliveFor, MadeFor, IsTask, TaskId, NoTask

LEMMA TouchedStays ==
  ASSUME FlowInv, [Next]_vars, NEW e, TouchedBy(e)
  PROVE  TouchedBy(e)'
<1>1. PICK t : t \in MadeFor(e) /\ t \in dropped
  BY DEF TouchedBy
<1>2. t \in MadeFor(e)' /\ t \in dropped'
  BY <1>1, StepGrows, DroppedGrows DEF MadeFor, TasksGrow
<1> QED
  BY <1>2 DEF TouchedBy

LEMMA TouchedNow ==
  ASSUME FlowInv, [Next]_vars, NEW e, NEW t \in TaskId, IsTask(e, t), t \in dropped'
  PROVE  TouchedBy(e)'
  BY StepGrows DEF TouchedBy, MadeFor, IsTask, TasksGrow

(* What was written stays written, for an event whose link stays, if its   *)
(* tasks keep their text.                                                  *)
LEMMA CoveredKeeps ==
  ASSUME FlowInv, [Next]_vars, NEW e \in Event, NEW tk \in Int, Covered(e, tk), tk <= edits,
         links'[e] = links[e] \/ links'[e].origin = "exported",
         \A t \in TaskId : IsTask(e, t) /\ tasks[t].st = "live" =>
           \/ tasks'[t].st = "live" /\ tasks'[t].text >= tasks[t].text
           \/ t \in dropped'
           \/ google[e].ver <= tk =>
                \/ google[e].st # "live"
                \/ tasks'[t].st = "live" /\ tasks'[t].text >= google[e].ver
  PROVE  Covered(e, tk)'
<1> SUFFICES ASSUME google'[e].st # "none", google'[e].ver <= tk, links'[e].origin = "imported",
                    ~TouchedBy(e)'
             PROVE  IF google'[e].st = "live" THEN HasText(e)'
                    ELSE Sc'.policy = "soft_delete" => ~Exists(links[e].task)'
  BY DEF Covered
<1>1. google'[e] = google[e] /\ links'[e] = links[e] /\ ~TouchedBy(e) /\ Sc' = Sc
  <2>1. google'[e] = google[e]
    BY StepCal, FlowTypes DEF CalGrows
  <2> QED
    BY <2>1, TouchedStays, SceneStays DEF Sc
<1>2. CASE google[e].st = "live"
  <2>1. PICK t \in AliveFor(e) : tasks[t].text >= google[e].ver
    BY <1>1, <1>2 DEF Covered, HasText
  <2>2. t \in TaskId /\ IsTask(e, t) /\ tasks[t].st = "live"
    BY <2>1, AliveIsTask
  <2>3. t \notin dropped'
    BY <2>2, TouchedNow
  <2>4. google[e].ver \in Nat /\ tasks[t].text \in Nat
    BY <2>2, FlowTypes DEF TaskRow
  <2>5. FlowInv'
    BY FlowStep
  <2>6. tasks'[t].text \in Nat
    BY <2>2, <2>5 DEF FlowInv, ImportInv, ImportTypeOK, TaskRow
  <2>7. tasks'[t].st = "live" /\ tasks'[t].text >= google[e].ver
    BY <1>1, <1>2, <2>1, <2>2, <2>3, <2>4, <2>6
  <2>8. t \in AliveFor(e)'
    BY <2>2, <2>7, StepGrows DEF AliveFor, MadeFor, TasksGrow, IsTask
  <2> QED
    BY <1>1, <1>2, <2>7, <2>8 DEF HasText
<1>3. CASE google[e].st # "live"
  <2>1. Sc.policy = "soft_delete" => ~Exists(links[e].task)
    BY <1>1, <1>3 DEF Covered
  <2>2. PICK t : t = links[e].task
    OBVIOUS
  <2>3. t # NoTask => t \in TaskId /\ tasks[t].st # "none"
    BY <2>2, ImportedTask DEF HasLink
  <2>4. ~Exists(t) => ~Exists(t)'
    BY <2>3, StepGrows, FlowTypes DEF Exists, TasksGrow, TaskRow
  <2> QED
    BY <1>1, <1>3, <2>1, <2>2, <2>4 DEF Exists
<1> QED
  BY <1>2, <1>3

LEMMA OthersAlone ==
  ASSUME FlowInv, AloneInv, Alone',
         \/ RemovalStep \/ RemovalFails \/ Tick \/ Rename
         \/ \E op \in {"delete", "disconnect"} : StartRemoval(op)
         \/ \E e \in Event : EditEvent(e)
         \/ \E t \in TaskId : UserCompletes(t) \/ UserDeletes(t)
  PROVE  /\ Alone
         /\ \A s \in Syncer : sync[s].pc # "idle" => tasks' = tasks
<1>1. CASE RemovalStep \/ RemovalFails
  <2>1. removal.pc # "idle" /\ mixed' = mixed
    BY <1>1 DEF RemovalStep, RmBinding, RmLinks, RmRead, RmTask, RmLast, RmRevoke, Rm, notes,
                RemovalFails
  <2> QED
    BY <2>1 DEF Alone, AloneInv
<1>2. CASE \/ \E op \in {"delete", "disconnect"} : StartRemoval(op)
           \/ \E t \in TaskId : UserCompletes(t) \/ UserDeletes(t)
  <2>1. mixed' = (mixed \/ Busy)
    BY <1>2 DEF StartRemoval, UserCompletes, UserDeletes
  <2> QED
    BY <2>1, Meets
<1>3. CASE \E e \in Event : EditEvent(e)
  BY <1>3, EditGrows DEF rows, notes, Alone
<1>4. CASE Tick \/ Rename
  BY <1>4 DEF Tick, Rename, rows, notes, Alone
<1> QED
  BY <1>1, <1>2, <1>3, <1>4

LEMMA MuteTexts ==
  ASSUME FlowInv, AloneInv, TokenInv, Alone',
         \/ RemovalStep \/ RemovalFails \/ Tick \/ Rename
         \/ \E op \in {"delete", "disconnect"} : StartRemoval(op)
         \/ \E e \in Event : EditEvent(e)
         \/ \E t \in TaskId : UserCompletes(t) \/ UserDeletes(t)
  PROVE  removal'.pc = "mute" => removal'.row.text = tasks'[removal'.id].text
<1>1. removal \in Removal /\ Alone
  BY FlowTypes, OthersAlone
<1>2. ASSUME removal' = removal, tasks' = tasks
      PROVE  removal'.pc = "mute" => removal'.row.text = tasks'[removal'.id].text
  BY <1>1, <1>2 DEF TokenInv
<1>3. CASE RmRead
  <2>1. PICK t \in removal.todo :
          /\ Rm("read", [removal EXCEPT !.todo = @ \ {t}, !.id = t, !.row = tasks[t],
                     !.pc = IF ~Exists(t) \/ PolicyPc(t) = "next" THEN "read" ELSE PolicyPc(t)])
          /\ tasks' = tasks
    BY <1>3 DEF RmRead
  <2>2. PICK r : r = tasks[t]
    OBVIOUS
  <2>3. removal'.id = t /\ removal'.row = r
    BY <1>1, <2>1, <2>2 DEF Rm, Removal
  <2> QED
    BY <2>1, <2>2, <2>3
<1>4. CASE RemovalFails
  BY <1>4 DEF RemovalFails, NoRemoval
<1>5. CASE \E op \in {"delete", "disconnect"} : StartRemoval(op)
  <2>1. PICK op, pc : /\ removal' = [NoRemoval EXCEPT !.op = op, !.pc = pc]
                      /\ pc \in {"revoke", "binding"}
    BY <1>5 DEF StartRemoval, Rm
  <2>2. removal'.pc = pc
    BY <2>1 DEF NoRemoval
  <2> QED
    BY <2>1, <2>2
<1>6. CASE RmBinding \/ RmLinks \/ RmLast \/ RmTask \/ RmRevoke
  <2>1. \/ removal' = NoRemoval
        \/ \E pc \in {"links", "revoke", "read"} : removal' = [removal EXCEPT !.pc = pc]
        \/ removal' = [removal EXCEPT !.pc = "read", !.todo = RemovedTasks]
    BY <1>6 DEF RmBinding, RmLinks, RmLast, RmTask, RmRevoke, Rm
  <2>2. ASSUME NEW pc \in {"links", "revoke", "read"}, removal' = [removal EXCEPT !.pc = pc]
        PROVE  removal'.pc = pc
    BY <1>1, <2>2 DEF Removal
  <2>3. ASSUME removal' = [removal EXCEPT !.pc = "read", !.todo = RemovedTasks]
        PROVE  removal'.pc = "read"
    BY <1>1, <2>3 DEF Removal
  <2> QED
    BY <2>1, <2>2, <2>3 DEF NoRemoval
<1>7. CASE \E t \in TaskId : UserCompletes(t) \/ UserDeletes(t)
  <2>1. mixed' = (mixed \/ Busy) /\ removal' = removal
    BY <1>7 DEF UserCompletes, UserDeletes
  <2> QED
    BY <2>1, Meets
<1>8. CASE \E e \in Event : EditEvent(e)
  BY <1>2, <1>8, EditGrows DEF rows
<1>9. CASE Tick \/ Rename
  BY <1>2, <1>9 DEF Tick, Rename, rows
<1> QED
  BY <1>3, <1>4, <1>5, <1>6, <1>7, <1>8, <1>9 DEF RemovalStep

LEMMA TokenStays ==
  ASSUME FlowInv,
         \/ RemovalStep \/ RemovalFails \/ Tick \/ Rename
         \/ \E op \in {"delete", "disconnect"} : StartRemoval(op)
         \/ \E e \in Event : EditEvent(e)
         \/ \E t \in TaskId : UserCompletes(t) \/ UserDeletes(t)
  PROVE  binding'.token = binding.token /\ [Next]_vars
<1>1. [Next]_vars
  BY DEF Next, World
<1>2. CASE RmLast
  BY <1>1, <1>2, FlowTypes DEF RmLast, BindingRow
<1>3. CASE \E e \in Event : EditEvent(e)
  BY <1>1, <1>3, EditGrows DEF rows
<1>4. CASE RmBinding \/ RmLinks \/ RmRead \/ RmTask \/ RmRevoke
  BY <1>1, <1>4 DEF RmBinding, RmLinks, RmRead, RmTask, RmRevoke, rows
<1>5. CASE \/ RemovalFails \/ Tick \/ Rename
           \/ \E op \in {"delete", "disconnect"} : StartRemoval(op)
           \/ \E t \in TaskId : UserCompletes(t) \/ UserDeletes(t)
  BY <1>1, <1>5 DEF RemovalFails, Tick, Rename, StartRemoval, UserCompletes, UserDeletes, rows
<1> QED
  BY <1>2, <1>3, <1>4, <1>5 DEF RemovalStep

LEMMA TokenOther ==
  ASSUME FlowInv, AloneInv, TokenInv,
         \/ RemovalStep \/ RemovalFails \/ Tick \/ Rename
         \/ \E op \in {"delete", "disconnect"} : StartRemoval(op)
         \/ \E e \in Event : EditEvent(e)
         \/ \E t \in TaskId : UserCompletes(t) \/ UserDeletes(t)
  PROVE  TokenInv'
<1> SUFFICES ASSUME Alone'
             PROVE  /\ removal'.pc = "mute" => removal'.row.text = tasks'[removal'.id].text
                    /\ \A e \in Event : Covered(e, binding.token)'
                    /\ \A s \in Syncer :
                         Done(s)' /\ (sync'[s].pc \in Past => \A e \in Event : Worked(s, e)')
  BY DEF TokenInv
<1>1. [Next]_vars /\ Alone /\ binding'.token = binding.token
  BY TokenStays, OthersAlone
<1>2. sync' = sync /\ links' = links
  BY OthersDo
<1>3. ASSUME NEW e \in Event, NEW tk \in Int, Covered(e, tk), tk <= edits PROVE Covered(e, tk)'
  <2>1. ASSUME NEW t \in TaskId, IsTask(e, t), tasks[t].st = "live"
        PROVE  (tasks'[t].st = "live" /\ tasks'[t].text >= tasks[t].text) \/ t \in dropped'
    <3>1. tasks[t].text \in Nat
      BY FlowTypes DEF TaskRow
    <3>2. removal.pc = "mute" /\ removal.id = t => removal.row.text = tasks[t].text
      BY <1>1 DEF TokenInv
    <3> QED
      BY <2>1, <3>1, <3>2, StepText
  <2> QED
    BY <1>1, <1>2, <1>3, <2>1, CoveredKeeps
<1>4. ASSUME NEW e \in Event PROVE Covered(e, binding.token)'
  <2>1. PICK tk : tk = binding.token
    OBVIOUS
  <2>2. tk \in Int /\ tk <= edits /\ Covered(e, tk)
    BY <1>1, <2>1, FlowTypes DEF FlowInv, TokenInv
  <2>3. Covered(e, tk)'
    BY <1>3, <2>2
  <2> QED
    BY <1>1, <2>1, <2>3 DEF Covered
<1>5. ASSUME NEW s \in Syncer PROVE Done(s)'
  <2>1. CASE sync[s].pc = "idle"
    BY <1>2, <2>1 DEF Done, Left
  <2>2. CASE sync[s].pc # "idle"
    <3>1. PICK o, up : /\ o = sync[s].of /\ up = sync[s].upto /\ o \in Event /\ up \in Nat
                       /\ up <= edits
      BY FlowTypes DEF Sync, FlowInv, Listing
    <3>2. tasks' = tasks /\ Sc' = Sc
      BY <1>1, <2>2, OthersAlone, SceneStays DEF Sc
    <3>3. google'[o].ver <= up => google'[o] = google[o]
      BY <1>1, <3>1, StepCal, FlowTypes DEF CalGrows
    <3>4. google'[o] = google[o] => (HasText(o)' <=> HasText(o))
      BY <3>2 DEF HasText, AliveFor, MadeFor
    <3>5. HasText(sync[s].of)' <=> HasText(o)'
      BY <1>2, <3>1 DEF HasText, AliveFor, MadeFor
    <3>6. Done(s)
      BY <1>1 DEF TokenInv
    <3> QED
      BY <1>2, <3>1, <3>2, <3>3, <3>4, <3>5, <3>6 DEF Done, Exists
  <2> QED
    BY <2>1, <2>2
<1>6. ASSUME NEW s \in Syncer, sync'[s].pc \in Past, NEW e \in Event PROVE Worked(s, e)'
  <2>1. PICK up : up = sync[s].upto /\ up \in Nat /\ up <= edits
    BY FlowTypes DEF FlowInv, Listing
  <2>2. Worked(s, e)
    BY <1>1, <1>2, <1>6 DEF TokenInv
  <2>3. CASE Covered(e, up)
    <3>1. Covered(e, up)'
      BY <1>3, <2>1, <2>3
    <3> QED
      BY <1>2, <2>1, <3>1 DEF Worked, Covered
  <2>4. CASE InHand(s, e)
    BY <1>2, <2>4 DEF Worked, InHand
  <2>5. CASE \E x \in sync[s].todo : x.ev = e /\ x.row = google[e]
    <3>1. CASE google'[e] = google[e]
      BY <1>2, <2>5, <3>1 DEF Worked
    <3>2. CASE google'[e] # google[e]
      <4>1. ~(google'[e].ver <= up)
        BY <1>1, <2>1, <3>2, StepCal, FlowTypes DEF CalGrows
      <4>2. Covered(e, up)'
        BY <4>1 DEF Covered
      <4> QED
        BY <1>2, <2>1, <4>2 DEF Worked, Covered
    <3> QED
      BY <3>1, <3>2
  <2> QED
    BY <2>1, <2>2, <2>3, <2>4, <2>5 DEF Worked
<1> QED
  BY <1>4, <1>5, <1>6, MuteTexts

(* Nor does the sync undo what was written: it only writes what was listed.*)
LEMMA CoveredSync ==
  ASSUME FlowInv, NEW s \in Syncer, SyncStep(s) \/ SyncFails(s) \/ PublishFails(s),
         NEW e \in Event, NEW tk \in Int, Covered(e, tk), tk <= edits,
         sync[s].pc \in Past => tk <= sync[s].upto
  PROVE  Covered(e, tk)'
<1>1. [Next]_vars /\ google' = google /\ dropped' = dropped /\ scene' = scene
  <2>1. [Next]_vars
    BY DEF SyncStep, Next, World
  <2> QED
    BY <2>1, SyncOthers
<1>2. PICK o, i, r, u : /\ o = sync[s].of /\ i = sync[s].id /\ r = sync[s].row /\ u = sync[s].upto
                        /\ o \in Event /\ i \in TaskId \cup {NoTask} /\ r \in TaskRow /\ u \in Nat
  BY FlowTypes DEF Sync
<1>3. google[e].ver \in Nat /\ \A t \in TaskId : tasks[t].text \in Nat
  BY FlowTypes DEF TaskRow
<1>4. ASSUME links'[e] = links[e] \/ links'[e].origin = "exported",
             \A t \in TaskId : IsTask(e, t) /\ tasks[t].st = "live" =>
               \/ tasks'[t] = tasks[t]
               \/ google[e].ver <= tk =>
                    \/ google[e].st # "live"
                    \/ tasks'[t].st = "live" /\ tasks'[t].text >= google[e].ver
      PROVE  Covered(e, tk)'
  <2>1. ASSUME NEW t \in TaskId, IsTask(e, t), tasks[t].st = "live"
        PROVE  \/ tasks'[t].st = "live" /\ tasks'[t].text >= tasks[t].text
               \/ t \in dropped'
               \/ google[e].ver <= tk =>
                    \/ google[e].st # "live"
                    \/ tasks'[t].st = "live" /\ tasks'[t].text >= google[e].ver
    BY <1>3, <1>4, <2>1
  <2> QED
    BY <1>1, <1>4, <2>1, CoveredKeeps
<1>5. CASE tasks' = tasks /\ links' = links
  BY <1>4, <1>5
<1>6. CASE Take(s)
  <2>1. CASE links' = links
    BY <1>5, <1>6, <2>1, TakeDoes
  <2>2. CASE \E x \in Listed :
               links' = [links EXCEPT ![x.ev] = [task |-> x.row.tag, origin |-> "exported"]]
    <3>1. PICK x, l : /\ x \in Listed /\ l = [task |-> x.row.tag, origin |-> "exported"]
                      /\ links' = [links EXCEPT ![x.ev] = l]
      BY <2>2
    <3>2. links'[e] = IF e = x.ev THEN l ELSE links[e]
      BY <3>1, FlowTypes
    <3>3. links'[e] = links[e] \/ links'[e].origin = "exported"
      BY <3>1, <3>2
    <3>4. tasks' = tasks
      BY <1>6, TakeDoes
    <3> QED
      BY <1>4, <3>3, <3>4
  <2> QED
    BY <1>6, <2>1, <2>2, TakeDoes
<1>7. CASE CreateTask(s)
  <2>1. /\ links' = links
        /\ \A t \in TaskId : tasks[t].st = "live" => tasks'[t] = tasks[t]
    BY <1>7, CreateDoes
  <2> QED
    BY <1>4, <2>1
<1>8. CASE CreateLink(s)
  <2>1. CASE links' = links
    BY <1>5, <1>8, <2>1, CreateLinkDoes
  <2>2. CASE ~HasLink(o) /\ links' = [links EXCEPT ![o] = [task |-> i, origin |-> "imported"]]
    <3>1. tasks' = tasks /\ sync[s].pc = "link"
      BY <1>8, CreateLinkDoes
    <3>2. CASE e # o
      <4>1. links'[e] = links[e]
        BY <2>2, <3>2, FlowTypes
      <4> QED
        BY <1>4, <3>1, <4>1
    <3>3. CASE e = o
      <4>1. links[e].origin = "imported"
        BY <2>2, <3>3 DEF FlowInv, LinkOK, NoLink
      <4>2. google[e].ver <= tk => google[e].st = "live"
        <5>1. google[e].ver <= tk => google[e].ver <= u
          BY <1>2, <1>3, <3>1 DEF Past, Taken
        <5> QED
          BY <1>2, <3>1, <3>3, <5>1 DEF FlowInv, Listing, Taken
      <4>3. TouchedBy(e)' <=> TouchedBy(e)
        BY <1>1, <3>1 DEF TouchedBy, MadeFor
      <4>4. HasText(e)' <=> HasText(e)
        BY <1>1, <3>1 DEF HasText, AliveFor, MadeFor
      <4> QED
        BY <1>1, <4>1, <4>2, <4>3, <4>4 DEF Covered
    <3> QED
      BY <3>2, <3>3
  <2> QED
    BY <1>2, <1>8, <2>1, <2>2, CreateLinkDoes
<1>9. ASSUME NEW t \in TaskId, sync[s].pc \in {"write", "drop", "mute"}, t = i, IsTask(e, t),
             google[e].ver <= tk
      PROVE  /\ sync[s].pc = "write" => r.text = google[e].ver
             /\ sync[s].pc \in {"drop", "mute"} => google[e].st # "live"
  <2>1. e = o
    <3>1. IsTask(o, t)
      BY <1>2, <1>9 DEF FlowInv, Hand, Left
    <3> QED
      BY <1>9, <3>1 DEF IsTask
  <2>2. google[o].ver <= u
    BY <1>2, <1>3, <1>9, <2>1 DEF Past, Taken, Left
  <2> QED
    BY <1>2, <1>9, <2>1, <2>2 DEF FlowInv, Listing, Left
<1>10. CASE WriteTask(s)
  <2>1. tasks' = UpdateTask(i, r) /\ links' = links /\ sync[s].pc = "write"
    BY <1>2, <1>10, WriteDoes
  <2>2. i \in TaskId /\ r.st = "live"
    BY <1>2, <2>1 DEF FlowInv, Hand, IsTask
  <2>3. ASSUME NEW t \in TaskId, IsTask(e, t), tasks[t].st = "live"
        PROVE  \/ tasks'[t] = tasks[t]
               \/ google[e].ver <= tk => tasks'[t].st = "live" /\ tasks'[t].text >= google[e].ver
    <3>1. CASE t # i
      BY <1>2, <2>1, <2>2, <2>3, <3>1, UpdateLive
    <3>2. CASE t = i
      <4>1. tasks'[t].st = "live" /\ tasks'[t].text = r.text
        BY <1>2, <2>1, <2>2, <2>3, <3>2, UpdateLive
      <4> QED
        BY <1>3, <1>9, <2>1, <2>3, <3>2, <4>1
    <3> QED
      BY <3>1, <3>2
  <2> QED
    BY <1>4, <2>1, <2>3
<1>11. CASE Drop(s) \/ Mute(s) \/ Unlink(s)
  <2>1. CASE sync[s].pc = "unlink" /\ tasks' = tasks /\ links' = [links EXCEPT ![o] = NoLink]
    <3>1. CASE e # o
      <4>1. links'[e] = links[e]
        BY <2>1, <3>1, FlowTypes
      <4> QED
        BY <1>4, <2>1, <4>1
    <3>2. CASE e = o
      <4>1. links'[e] = NoLink
        BY <1>2, <2>1, <3>2, FlowTypes
      <4>2. google[e].ver <= tk => google[e].st # "live"
        <5>1. google[e].ver <= tk => google[e].ver <= u
          BY <1>2, <1>3, <2>1 DEF Past, Left
        <5> QED
          BY <1>2, <2>1, <3>2, <5>1 DEF FlowInv, Listing, Left
      <4> QED
        BY <1>1, <4>1, <4>2 DEF Covered, Exists, NoLink
    <3> QED
      BY <3>1, <3>2
  <2>2. CASE sync[s].pc = "drop" /\ tasks' = DeleteTask(i) /\ links' = links
    <3>1. ASSUME NEW t \in TaskId, IsTask(e, t), tasks[t].st = "live"
          PROVE  tasks'[t] = tasks[t] \/ (google[e].ver <= tk => google[e].st # "live")
      BY <1>2, <1>9, <2>2, <3>1, DeleteLive
    <3> QED
      BY <1>4, <2>2, <3>1
  <2>3. CASE sync[s].pc = "mute" /\ links' = links
             /\ tasks' = UpdateTask(i, [r EXCEPT !.muted = TRUE])
    <3>1. PICK q : q = [r EXCEPT !.muted = TRUE]
      OBVIOUS
    <3>2. i \in TaskId /\ r.st = "live"
      BY <1>2, <2>3 DEF FlowInv, Hand, IsTask, Left
    <3>3. q \in TaskRow /\ q.st = "live"
      BY <1>2, <3>1, <3>2 DEF TaskRow
    <3>4. tasks' = UpdateTask(i, q)
      BY <2>3, <3>1
    <3>5. ASSUME NEW t \in TaskId, IsTask(e, t), tasks[t].st = "live"
          PROVE  tasks'[t] = tasks[t] \/ (google[e].ver <= tk => google[e].st # "live")
      BY <1>2, <1>9, <2>3, <3>2, <3>3, <3>4, <3>5, UpdateLive
    <3> QED
      BY <1>4, <2>3, <3>5
  <2> QED
    BY <1>2, <1>11, <2>1, <2>2, <2>3, LeaveDoes
<1>12. CASE \/ Open(s) \/ Refresh(s) \/ List(s) \/ TokenInvalid(s) \/ ReadTask(s) \/ Tell(s)
            \/ PublishFails(s) \/ Relink(s) \/ Policy(s) \/ MarkSynced(s) \/ MarkError(s)
            \/ SyncFails(s)
  <2>1. CASE Open(s) \/ Refresh(s) \/ List(s) \/ TokenInvalid(s)
    BY <1>5, <2>1, LookDoes
  <2>2. CASE ReadTask(s) \/ Tell(s) \/ PublishFails(s) \/ Relink(s) \/ Policy(s)
    BY <1>5, <2>2, ReadDoes, TellDoes, RelinkDoes, PolicyDoes
  <2>3. CASE MarkSynced(s) \/ MarkError(s) \/ SyncFails(s)
    BY <1>5, <2>3, MarkDoes, FailsDoes
  <2> QED
    BY <1>12, <2>1, <2>2, <2>3
<1> QED
  BY <1>6, <1>7, <1>8, <1>10, <1>11, <1>12 DEF SyncStep

(* The token only moves when the list was worked off, or is forgotten.     *)
LEMMA TokenMoves ==
  ASSUME FlowInv, AloneInv, Alone, NEW s \in Syncer,
         SyncStep(s) \/ SyncFails(s) \/ PublishFails(s)
  PROVE  \/ binding'.token \in {binding.token, NoToken}
         \/ sync[s].pc = "next" /\ sync[s].todo = {} /\ binding'.token = sync[s].upto
<1>1. sync[s].pc # "idle" /\ binding.token = sync[s].copy.token
  BY SyncOthers DEF AloneInv
<1>2. sync[s].copy \in BindingRow /\ binding \in BindingRow
  BY FlowTypes DEF Sync
<1>3. CASE Refresh(s)
  <2>1. PICK b : b = [sync[s].copy EXCEPT !.summary = summary]
    OBVIOUS
  <2>2. b.token = sync[s].copy.token
    BY <1>2, <2>1 DEF BindingRow
  <2>3. binding' \in {binding, b}
    BY <1>3, <2>1 DEF Refresh, UpdateBinding
  <2> QED
    BY <1>1, <2>2, <2>3
<1>4. CASE TokenInvalid(s)
  <2>1. PICK b : b = [binding EXCEPT !.token = NoToken]
    OBVIOUS
  <2>2. b.token = NoToken
    BY <1>2, <2>1 DEF BindingRow
  <2>3. binding' \in {binding, b}
    BY <1>4, <2>1 DEF TokenInvalid, ClearSyncToken, UpdateBinding
  <2> QED
    BY <2>2, <2>3
<1>5. CASE MarkSynced(s) \/ MarkError(s)
  BY <1>1, <1>5, MarkDoes
<1>6. CASE ~(Refresh(s) \/ TokenInvalid(s) \/ MarkSynced(s) \/ MarkError(s))
  <2>1. binding' = binding
    BY <1>6 DEF SyncStep, SyncFails, PublishFails, Open, List, Take, CreateTask, CreateLink,
                ReadTask, WriteTask, Tell, Relink, Policy, Unlink, Drop, Mute, rows
  <2> QED
    BY <2>1
<1> QED
  BY <1>3, <1>4, <1>5, <1>6

LEMMA TokenCovers ==
  ASSUME FlowInv, AloneInv, TokenInv, Alone, NEW s \in Syncer,
         SyncStep(s) \/ SyncFails(s) \/ PublishFails(s), NEW e \in Event
  PROVE  Covered(e, binding.token)'
<1>1. sync[s].pc # "idle" /\ binding.token = sync[s].copy.token /\ google' = google
  BY SyncOthers DEF AloneInv
<1>2. PICK tk, u : tk = binding.token /\ u = sync[s].upto /\ tk \in Int /\ u \in Nat
                   /\ tk <= edits /\ u <= edits
  BY FlowTypes DEF FlowInv, Listing
<1>3. sync[s].pc \in Past => tk <= u
  BY <1>1, <1>2 DEF FlowInv, Listing
<1>4. CASE binding'.token = tk
  <2>1. Covered(e, tk)
    BY <1>2 DEF TokenInv
  <2>2. Covered(e, tk)'
    BY <1>2, <1>3, <2>1, CoveredSync
  <2> QED
    BY <1>4, <2>2 DEF Covered
<1>5. CASE binding'.token = NoToken
  <2>1. ~(google'[e].ver <= NoToken)
    BY <1>1, FlowTypes DEF NoToken
  <2> QED
    BY <1>5, <2>1 DEF Covered
<1>6. CASE sync[s].pc = "next" /\ sync[s].todo = {} /\ binding'.token = u
  <2>1. Worked(s, e) /\ ~InHand(s, e)
    BY <1>6 DEF TokenInv, Past, InHand, Taken, Left
  <2>2. Covered(e, u)
    BY <1>2, <1>6, <2>1 DEF Worked
  <2>3. Covered(e, u)'
    BY <1>2, <2>2, CoveredSync
  <2> QED
    BY <1>6, <2>3 DEF Covered
<1> QED
  BY <1>2, <1>4, <1>5, <1>6, TokenMoves

LEMMA TaskHasText ==
  ASSUME NEW e, NEW t \in TaskId, IsTask(e, t), tasks[t].st = "live", tasks[t].text >= google[e].ver
  PROVE  HasText(e)
  BY AliveIsTask DEF HasText

(* What each step of a sync makes of the event at hand.                    *)
LEMMA DoneSync ==
  ASSUME FlowInv, FlowInv', NEW s \in Syncer, Done(s),
         SyncStep(s) \/ SyncFails(s) \/ PublishFails(s)
  PROVE  Done(s)'
<1>1. [Next]_vars /\ google' = google /\ scene' = scene /\ Sc' = Sc
  <2>1. [Next]_vars
    BY DEF SyncStep, Next, World
  <2> QED
    BY <2>1, SyncOthers DEF Sc
<1>2. PICK o, i, r, u : /\ o = sync[s].of /\ i = sync[s].id /\ r = sync[s].row /\ u = sync[s].upto
                        /\ o \in Event /\ i \in TaskId \cup {NoTask} /\ r \in TaskRow /\ u \in Nat
  BY FlowTypes DEF Sync
<1>3. google[o].ver \in Nat /\ \A t \in TaskId : tasks[t].text \in Nat
  BY <1>2, FlowTypes DEF TaskRow
<1>4. CASE sync'[s].pc \notin Left \cup {"link", "tell", "write", "relink"}
  BY <1>4 DEF Done, Left
<1>5. ASSUME NEW n \in TaskId, sync'[s].of = o, sync'[s].upto = u, sync'[s].id = n,
             sync'[s].pc \in {"link", "tell", "write", "relink"},
             IsTask(o, n)', tasks'[n].st = "live",
             sync'[s].pc # "write" /\ google[o].ver <= u => tasks'[n].text >= google[o].ver
      PROVE  Done(s)'
  <2>1. Exists(n)'
    BY <1>5 DEF Exists, IsTask
  <2>2. sync'[s].pc # "write" /\ google[o].ver <= u => HasText(o)'
    <3>1. HasText(o)' <=> \E t \in TaskId :
            tasks'[t].st # "none" /\ tasks'[t].event = o /\ tasks'[t].st = "live"
            /\ tasks'[t].text >= google'[o].ver
      BY DEF HasText, AliveFor, MadeFor
    <3> QED
      BY <1>1, <1>5, <3>1 DEF IsTask
  <2>3. HasText(o)' => HasText(sync[s].of)'
    BY <1>5 DEF HasText, AliveFor, MadeFor
  <2>4. sync'[s].pc \notin Left /\ sync'[s].pc # "mute"
    BY <1>5 DEF Left
  <2> QED
    BY <1>1, <1>5, <2>1, <2>2, <2>3, <2>4 DEF Done, Exists
<1>6. CASE Take(s)
  <2>1. CASE sync'[s].pc = "policy"
    <3>1. links' = links /\ sync'[s].id = links[sync'[s].of].task
      BY <1>6, <2>1, TakeDoes
    <3> QED
      BY <2>1, <3>1 DEF Done
  <2> QED
    BY <1>4, <1>6, <2>1, TakeDoes DEF Left
<1>7. CASE CreateTask(s)
  <2>1. PICK n \in TaskId : n = sync'[s].id
    BY <1>7, CreateDoes
  <2>2. /\ sync'[s].of = o /\ sync'[s].upto = u /\ sync'[s].pc \in {"link", "tell"}
        /\ tasks'[n] = r /\ sync[s].pc = "create"
    BY <1>2, <1>7, <2>1, CreateDoes DEF Held
  <2>3. r.event = o /\ r.st = "live"
    BY <1>2, <2>2 DEF FlowInv, Hand
  <2>4. google[o].ver <= u => r.text = google[o].ver
    BY <1>2, <2>2 DEF FlowInv, Listing
  <2>5. IsTask(o, n)'
    BY <2>1, <2>2, <2>3 DEF IsTask, TaskId, NoTask
  <2> QED
    BY <1>3, <1>5, <2>1, <2>2, <2>3, <2>4, <2>5
<1>8. ASSUME sync[s].pc \in {"link", "tell", "write", "read"} PROVE i \in TaskId /\ IsTask(o, i)
  BY <1>2, <1>8 DEF FlowInv, Hand, IsTask
<1>9. CASE CreateLink(s)
  <2>1. tasks' = tasks /\ sync[s].pc = "link"
    BY <1>9, CreateLinkDoes
  <2>2. CASE Ended(s)
    BY <1>4, <2>2 DEF Ended, Left
  <2>3. CASE Held(s) /\ sync'[s].pc = "tell" /\ sync'[s].id = i
    <3>1. sync'[s].of = o /\ sync'[s].upto = u
      BY <1>2, <2>3 DEF Held
    <3>2. IsTask(o, i)'
      BY <1>8, <2>1 DEF IsTask
    <3>3. tasks[i].st = "live" /\ (google[o].ver <= u => tasks[i].text >= google[o].ver)
      BY <1>2, <2>1 DEF Done, Exists
    <3> QED
      BY <1>5, <1>8, <2>1, <2>3, <3>1, <3>2, <3>3
  <2> QED
    BY <1>2, <1>9, <2>2, <2>3, CreateLinkDoes
<1>10. CASE ReadTask(s)
  <2>1. tasks' = tasks /\ sync[s].pc = "read" /\ sync'[s].of = o /\ sync'[s].upto = u
        /\ sync'[s].id = i
    BY <1>2, <1>10, ReadDoes DEF Held
  <2>2. CASE sync'[s].pc = "create"
    BY <1>4, <2>2 DEF Left
  <2>3. CASE /\ sync'[s].pc \in {"write", "tell", "relink"} /\ Exists(i)
             /\ sync'[s].pc # "write" => tasks[i].text = r.text
    <3>1. google[o].ver <= u => r.text = google[o].ver
      BY <1>2, <2>1 DEF FlowInv, Listing
    <3>2. IsTask(o, i)'
      BY <1>8, <2>1 DEF IsTask
    <3>3. tasks[i].st = "live"
      BY <2>3 DEF Exists
    <3> QED
      BY <1>3, <1>5, <1>8, <2>1, <2>3, <3>1, <3>2, <3>3
  <2> QED
    BY <1>2, <1>10, <2>2, <2>3, ReadDoes
<1>11. CASE WriteTask(s)
  <2>1. /\ tasks' = UpdateTask(i, r) /\ sync[s].pc = "write" /\ sync'[s].pc \in {"relink", "tell"}
        /\ sync'[s].of = o /\ sync'[s].upto = u /\ sync'[s].id = i
    BY <1>2, <1>11, WriteDoes DEF Held
  <2>2. r.st = "live" /\ (google[o].ver <= u => r.text = google[o].ver)
    BY <1>2, <2>1 DEF FlowInv, Hand, Listing
  <2>3. tasks[i].st = "live"
    BY <1>2, <2>1 DEF Done, Exists
  <2>4. tasks'[i].st = "live" /\ tasks'[i].text = r.text
    BY <1>2, <1>8, <2>1, <2>2, <2>3, UpdateLive
  <2>5. IsTask(o, i)'
    BY <1>1, <1>8, <2>1, StepGrows DEF IsTask, TasksGrow
  <2> QED
    BY <1>3, <1>5, <1>8, <2>1, <2>2, <2>4, <2>5
<1>12. CASE Tell(s) \/ PublishFails(s)
  <2>1. tasks' = tasks /\ sync[s].pc = "tell"
    BY <1>12, TellDoes
  <2>2. CASE sync'[s].pc = "next"
    BY <1>4, <2>2 DEF Left
  <2>3. CASE sync'[s].pc = "relink" /\ Held(s) /\ sync'[s].id = i
    <3>1. sync'[s].of = o /\ sync'[s].upto = u
      BY <1>2, <2>3 DEF Held
    <3>2. IsTask(o, i)'
      BY <1>8, <2>1 DEF IsTask
    <3>3. tasks[i].st = "live" /\ (google[o].ver <= u => tasks[i].text >= google[o].ver)
      BY <1>2, <2>1 DEF Done, Exists
    <3> QED
      BY <1>5, <1>8, <2>1, <2>3, <3>1, <3>2, <3>3
  <2> QED
    BY <1>2, <1>12, <2>2, <2>3, TellDoes
<1>13. CASE Policy(s)
  <2>1. CASE Ended(s)
    BY <1>4, <2>1 DEF Ended, Left
  <2>2. CASE ~Ended(s)
    <3>1. /\ links' = links /\ sync[s].pc = "policy" /\ sync'[s].of = o /\ sync'[s].id = i
          /\ \/ sync'[s].pc = "unlink"
             \/ sync'[s].pc \in {"drop", "mute"} /\ sync'[s].pc = PolicyPc(i)
      BY <1>2, <1>13, <2>2, PolicyDoes DEF Held
    <3>2. links[o].task = i
      BY <1>2, <3>1 DEF Done, Left
    <3>3. sync'[s].pc = "mute" => Sc.policy = "mute"
      BY <3>1 DEF PolicyPc
    <3> QED
      BY <1>1, <3>1, <3>2, <3>3 DEF Done
  <2> QED
    BY <2>1, <2>2
<1>14. CASE Relink(s) \/ Unlink(s) \/ Drop(s) \/ Mute(s)
  BY <1>4, <1>14, RelinkDoes, LeaveDoes DEF Ended, Left
<1>15. CASE Open(s) \/ Refresh(s) \/ List(s) \/ TokenInvalid(s)
  BY <1>4, <1>15, LookDoes DEF Left
<1>16. CASE MarkSynced(s) \/ MarkError(s) \/ SyncFails(s)
  BY <1>4, <1>16, MarkDoes, FailsDoes, Quiet DEF Left
<1> QED
  BY <1>6, <1>7, <1>9, <1>10, <1>11, <1>12, <1>13, <1>14, <1>15, <1>16 DEF SyncStep

(* What is listed is worked off: nothing leaves the list before it is      *)
(* covered or in hand, nothing the hand before it is covered.              *)
LEMMA WorkedHeld ==
  ASSUME FlowInv, NEW s \in Syncer, SyncStep(s) \/ SyncFails(s) \/ PublishFails(s),
         NEW e \in Event, Worked(s, e), sync[s].pc \in Past,
         sync'[s].upto = sync[s].upto, sync'[s].todo = sync[s].todo,
         \/ sync'[s].of = sync[s].of /\ sync'[s].pc \in Taken \cup Left
         \/ ~InHand(s, e)
         \/ Covered(e, sync[s].upto)'
  PROVE  Worked(s, e)'
<1>1. google' = google
  BY SyncOthers
<1>2. PICK u : u = sync[s].upto /\ u \in Nat /\ u <= edits
  BY FlowTypes DEF FlowInv, Listing
<1>3. CASE Covered(e, u)
  <2>1. Covered(e, u)'
    BY <1>2, <1>3, CoveredSync
  <2> QED
    BY <1>2, <2>1 DEF Worked, Covered
<1>4. CASE InHand(s, e) /\ sync'[s].of = sync[s].of /\ sync'[s].pc \in Taken \cup Left
  BY <1>4 DEF InHand, Worked
<1>5. CASE \E x \in sync[s].todo : x.ev = e /\ x.row = google[e]
  BY <1>1, <1>5 DEF Worked
<1>6. CASE Covered(e, sync[s].upto)'
  BY <1>6 DEF Worked, Covered
<1> QED
  BY <1>2, <1>3, <1>4, <1>5, <1>6 DEF Worked

LEMMA WorkedList ==
  ASSUME FlowInv, AloneInv, TokenInv, Alone, NEW s \in Syncer, List(s), NEW e \in Event
  PROVE  Worked(s, e)'
<1>1. SyncStep(s)
  BY DEF SyncStep
<1>2. google' = google /\ binding.token = sync[s].copy.token
  BY <1>1, SyncOthers DEF AloneInv
<1>3. PICK tk, d : /\ tk = binding.token /\ d = edits /\ tk \in Int /\ d \in Nat
  BY FlowTypes
<1>4. PICK q : q = [sync[s] EXCEPT !.pc = "next", !.upto = edits, !.todo = ListEvents(tk)]
  OBVIOUS
<1>5. sync' = [sync EXCEPT ![s] = q] /\ sync[s].pc = "list"
  BY <1>2, <1>3, <1>4 DEF List, Step
<1>6. sync'[s].upto = d /\ sync'[s].todo = ListEvents(tk)
  BY <1>3, <1>4, <1>5, Becomes, FlowTypes DEF Sync
<1>7. Covered(e, tk)
  BY <1>3 DEF TokenInv
<1>8. CASE google[e].st # "none" /\ google[e].ver > tk
  <2>1. [ev |-> e, row |-> google[e]] \in ListEvents(tk)
    BY <1>8 DEF ListEvents
  <2> QED
    BY <1>2, <1>6, <2>1 DEF Worked
<1>9. CASE ~(google[e].st # "none" /\ google[e].ver > tk)
  <2>1. Covered(e, d)
    BY <1>3, <1>7, <1>9, FlowTypes DEF Covered
  <2>2. Covered(e, d)'
    BY <1>1, <1>3, <1>5, <2>1, CoveredSync DEF Past, Taken, Left
  <2> QED
    BY <1>6, <2>2 DEF Worked, Covered
<1> QED
  BY <1>8, <1>9

LEMMA WorkedTake ==
  ASSUME FlowInv, FlowInv', NEW s \in Syncer, Take(s), sync'[s].pc \in Past,
         NEW e \in Event, Worked(s, e)
  PROVE  Worked(s, e)'
<1>1. SyncStep(s)
  BY DEF SyncStep
<1>2. google' = google /\ Sc' = Sc
  BY <1>1, SyncOthers DEF Sc
<1>3. PICK u : u = sync[s].upto /\ u \in Nat /\ u <= edits
  BY FlowTypes DEF FlowInv, Listing
<1>4. PICK x \in sync[s].todo :
        /\ x \in Listed
        /\ sync'[s].todo = sync[s].todo \ {x} /\ sync'[s].upto = u
        /\ \/ sync'[s].pc = "next" /\ links' = links /\ x.row.st = "cancelled" /\ ~HasLink(x.ev)
           \/ /\ sync'[s].pc = "next"
              /\ links' = [links EXCEPT ![x.ev] = [task |-> x.row.tag, origin |-> "exported"]]
           \/ sync'[s].pc \in {"policy", "create", "read"} /\ sync'[s].of = x.ev
  BY <1>3, TakeDoes, ZenonT(30) DEF Past, Taken, Left
<1>5. sync[s].pc = "next" /\ tasks' = tasks
  BY TakeDoes
<1>6. CASE Covered(e, u)
  <2>1. Covered(e, u)'
    BY <1>1, <1>3, <1>6, CoveredSync
  <2> QED
    BY <1>4, <2>1 DEF Worked, Covered
<1>7. CASE e # x.ev /\ \E y \in sync[s].todo : y.ev = e /\ y.row = google[e]
  BY <1>2, <1>4, <1>7 DEF Worked
<1>8. CASE e = x.ev
  <2>1. CASE sync'[s].pc = "next" /\ links' = links /\ x.row.st = "cancelled" /\ ~HasLink(x.ev)
    <3>1. CASE Covered(e, u)
      BY <1>6, <3>1
    <3>2. CASE \E y \in sync[s].todo : y.ev = e /\ y.row = google[e]
      <4>1. CASE x.row = google[e]
        <5>1. Covered(e, u)
          BY <1>8, <2>1, <4>1 DEF Covered, Exists, HasLink
        <5> QED
          BY <1>6, <5>1
      <4>2. CASE x.row # google[e]
        BY <1>2, <1>4, <3>2, <4>2 DEF Worked
      <4> QED
        BY <4>1, <4>2
    <3> QED
      BY <1>3, <1>5, <3>1, <3>2 DEF Worked, InHand, Taken, Left
  <2>2. CASE links' = [links EXCEPT ![x.ev] = [task |-> x.row.tag, origin |-> "exported"]]
    <3>1. PICK l : l = [task |-> x.row.tag, origin |-> "exported"]
      OBVIOUS
    <3>2. links' = [links EXCEPT ![x.ev] = l] /\ l.origin = "exported"
      BY <2>2, <3>1
    <3>3. links'[e] = l
      BY <1>8, <3>2, FlowTypes
    <3>4. links'[e].origin = "exported"
      BY <3>2, <3>3
    <3> QED
      BY <3>4 DEF Worked, Covered
  <2>3. CASE sync'[s].pc \in {"policy", "create", "read"} /\ sync'[s].of = x.ev
    BY <1>8, <2>3 DEF Worked, InHand, Taken, Left
  <2> QED
    BY <1>4, <2>1, <2>2, <2>3
<1> QED
  BY <1>3, <1>5, <1>6, <1>7, <1>8 DEF Worked, InHand, Taken, Left

(* When the sync leaves an event, it is covered.                           *)
LEMMA LeftCovered ==
  ASSUME FlowInv, FlowInv', NEW s \in Syncer, Done(s), sync'[s].pc = "next",
         \/ Tell(s) \/ PublishFails(s) \/ Relink(s) \/ Policy(s) \/ Unlink(s) \/ Drop(s) \/ Mute(s),
         NEW o \in Event, NEW u \in Nat, o = sync[s].of, u = sync[s].upto
  PROVE  Covered(o, u)'
<1>1. google' = google /\ Sc' = Sc
  <2>1. SyncStep(s) \/ PublishFails(s)
    BY DEF SyncStep
  <2> QED
    BY <2>1, SyncOthers DEF Sc
<1>2. PICK i : i = sync[s].id /\ i \in TaskId \cup {NoTask}
  BY FlowTypes DEF Sync
<1>3. /\ sync[s].pc \in Taken /\ google[o].ver <= u => google[o].st = "live"
      /\ sync[s].pc \in Left /\ google[o].ver <= u => google[o].st = "cancelled"
      /\ sync[s].pc \in Left => links[o].task = i
  BY <1>2 DEF FlowInv, Listing, Done
<1>4. CASE Tell(s) \/ PublishFails(s) \/ Relink(s)
  <2>1. tasks' = tasks /\ sync[s].pc \in {"tell", "relink"}
    BY <1>4, TellDoes, RelinkDoes
  <2>2. google[o].ver <= u => HasText(o)
    <3>1. CASE sync[s].pc = "relink"
      BY <3>1 DEF Done
    <3>2. CASE sync[s].pc = "tell"
      <4>1. i \in TaskId /\ IsTask(o, i)
        BY <1>2, <3>2 DEF FlowInv, Hand, IsTask
      <4>2. tasks[i].st = "live" /\ (google[o].ver <= u => tasks[i].text >= google[o].ver)
        BY <1>2, <3>2 DEF Done, Exists
      <4> QED
        BY <4>1, <4>2, TaskHasText
    <3> QED
      BY <2>1, <3>1, <3>2
  <2>3. HasText(o)' <=> HasText(o)
    BY <1>1, <2>1 DEF HasText, AliveFor, MadeFor
  <2> QED
    BY <1>1, <1>3, <2>1, <2>2, <2>3 DEF Covered, Taken
<1>5. ASSUME sync[s].pc \in Left, ~Exists(links[o].task)' \/ Sc.policy # "soft_delete"
      PROVE  Covered(o, u)'
  BY <1>1, <1>3, <1>5 DEF Covered
<1>6. CASE Policy(s)
  <2>1. PolicyPc(i) = "next" /\ sync[s].pc = "policy"
    BY <1>2, <1>6, PolicyDoes
  <2>2. Sc.policy # "soft_delete"
    BY <2>1 DEF PolicyPc
  <2> QED
    BY <1>5, <2>1, <2>2 DEF Left
<1>7. CASE Unlink(s) \/ Drop(s) \/ Mute(s)
  <2>1. CASE sync[s].pc = "unlink" /\ links' = [links EXCEPT ![o] = NoLink]
    <3>1. links'[o] = NoLink
      BY <2>1, FlowTypes
    <3> QED
      BY <1>5, <2>1, <3>1 DEF Left, NoLink, Exists
  <2>2. CASE sync[s].pc = "drop" /\ tasks' = DeleteTask(i) /\ links' = links
    <3>1. links'[o].task = i
      BY <1>3, <2>2 DEF Left
    <3>2. ~Exists(i)'
      <4>1. CASE Exists(i)
        <5>1. PICK g : g = [tasks[i] EXCEPT !.st = "gone"]
          OBVIOUS
        <5>2. i \in TaskId /\ tasks[i] \in TaskRow
          BY <1>2, <4>1, FlowTypes DEF Exists
        <5>3. g.st = "gone"
          BY <5>1, <5>2 DEF TaskRow
        <5>4. tasks' = [tasks EXCEPT ![i] = g]
          BY <2>2, <4>1, <5>1 DEF DeleteTask
        <5>5. tasks'[i] = g
          BY <5>2, <5>4, FlowTypes
        <5> QED
          BY <5>3, <5>5 DEF Exists
      <4>2. CASE ~Exists(i)
        BY <2>2, <4>2 DEF DeleteTask, Exists
      <4> QED
        BY <4>1, <4>2
    <3> QED
      BY <1>5, <2>2, <3>1, <3>2 DEF Left, Exists
  <2>3. CASE sync[s].pc = "mute"
    BY <1>5, <2>3 DEF Left, Done
  <2> QED
    BY <1>2, <1>7, <2>1, <2>2, <2>3, LeaveDoes
<1> QED
  BY <1>4, <1>6, <1>7

LEMMA WorkedLeaves ==
  ASSUME FlowInv, FlowInv', NEW s \in Syncer, Done(s), sync'[s].pc = "next", sync[s].pc \in Past,
         \/ Tell(s) \/ PublishFails(s) \/ Relink(s) \/ Policy(s) \/ Unlink(s) \/ Drop(s) \/ Mute(s),
         sync'[s].upto = sync[s].upto, sync'[s].todo = sync[s].todo,
         NEW e \in Event, Worked(s, e)
  PROVE  Worked(s, e)'
<1>1. SyncStep(s) \/ PublishFails(s)
  BY DEF SyncStep
<1>2. PICK u : u = sync[s].upto /\ u \in Nat
  BY FlowTypes
<1>3. CASE InHand(s, e)
  <2>1. e = sync[s].of
    BY <1>3 DEF InHand
  <2>2. Covered(e, u)'
    BY <1>2, <2>1, LeftCovered
  <2>3. Covered(e, sync[s].upto)'
    BY <1>2, <2>2 DEF Covered
  <2> QED
    BY <1>1, <2>3, WorkedHeld
<1>4. CASE ~InHand(s, e)
  BY <1>1, <1>4, WorkedHeld
<1> QED
  BY <1>3, <1>4

LEMMA WorkedSync ==
  ASSUME FlowInv, FlowInv', AloneInv, TokenInv, Alone, NEW s \in Syncer,
         SyncStep(s) \/ SyncFails(s) \/ PublishFails(s), sync'[s].pc \in Past, NEW e \in Event
  PROVE  Worked(s, e)'
<1>1. Done(s) /\ (sync[s].pc \in Past => Worked(s, e))
  BY DEF TokenInv
<1>2. ASSUME Held(s), sync[s].pc \in Past, sync'[s].pc \in Taken \cup Left PROVE Worked(s, e)'
  BY <1>1, <1>2, WorkedHeld DEF Held
<1>3. CASE Open(s) \/ Refresh(s) \/ List(s) \/ TokenInvalid(s)
  <2>1. CASE List(s)
    BY <2>1, WorkedList
  <2>2. CASE Open(s)
    <3>1. sync'[s].pc \in {"refresh", "failed"}
      BY <2>2, Becomes, FlowTypes DEF Open, Step, Go, Fail, NoSync, Sync
    <3> QED
      BY <3>1 DEF Past, Taken, Left
  <2>3. CASE Refresh(s)
    <3>1. PICK q : q = [sync[s] EXCEPT !.pc = "list", !.copy = [sync[s].copy EXCEPT !.summary = summary]]
      OBVIOUS
    <3>2. q.pc = "list"
      BY <3>1, FlowTypes DEF Sync
    <3>3. sync'[s] = q
      BY <2>3, <3>1, Becomes DEF Refresh, Step
    <3> QED
      BY <3>2, <3>3 DEF Past, Taken, Left
  <2>4. CASE TokenInvalid(s)
    <3>1. PICK q : q = [sync[s] EXCEPT !.copy.token = NoToken]
      OBVIOUS
    <3>2. q.pc = sync[s].pc
      BY <3>1, FlowTypes DEF Sync
    <3>3. sync'[s] = q /\ sync[s].pc = "list"
      BY <2>4, <3>1, Becomes DEF TokenInvalid, Step
    <3> QED
      BY <3>2, <3>3 DEF Past, Taken, Left
  <2> QED
    BY <1>3, <2>1, <2>2, <2>3, <2>4
<1>4. CASE Take(s)
  <2>1. sync[s].pc \in Past
    BY <1>4, TakeDoes DEF Past
  <2> QED
    BY <1>1, <1>4, <2>1, WorkedTake
<1>5. CASE CreateTask(s)
  BY <1>2, <1>5, CreateDoes DEF Past, Taken
<1>6. CASE CreateLink(s)
  <2>1. CASE Ended(s)
    <3>1. sync[s].pc = "link" /\ HasLink(sync[s].of)
      BY <1>6, <2>1, CreateLinkDoes, GoDoes DEF Ended
    <3>2. sync' = [sync EXCEPT ![s] = Fail(s)]
      BY <1>6, <3>1 DEF CreateLink, Step
    <3>3. sync'[s].pc = "failed"
      BY <3>2, Becomes, Quiet
    <3> QED
      BY <3>3 DEF Past, Taken, Left
  <2>2. CASE Held(s) /\ sync'[s].pc = "tell"
    BY <1>2, <1>6, <2>2, CreateLinkDoes DEF Past, Taken
  <2> QED
    BY <1>6, <2>1, <2>2, CreateLinkDoes
<1>7. CASE ReadTask(s)
  BY <1>2, <1>7, ReadDoes DEF Past, Taken
<1>8. CASE WriteTask(s)
  BY <1>2, <1>8, WriteDoes DEF Past, Taken
<1>9. CASE Tell(s) \/ PublishFails(s)
  <2>1. sync[s].pc \in Past /\ sync'[s].todo = sync[s].todo /\ sync'[s].upto = sync[s].upto
    BY <1>9, TellDoes DEF Past, Taken
  <2>2. CASE sync'[s].pc = "next"
    BY <1>1, <1>9, <2>1, <2>2, WorkedLeaves
  <2>3. CASE Held(s) /\ sync'[s].pc = "relink"
    BY <1>2, <2>1, <2>3 DEF Taken
  <2> QED
    BY <1>9, <2>2, <2>3, TellDoes
<1>10. ASSUME Ended(s), sync[s].pc \in Past, Relink(s) \/ Policy(s) \/ Unlink(s) \/ Drop(s) \/ Mute(s)
       PROVE  Worked(s, e)'
  <2>1. sync'[s].pc = "next" /\ sync'[s].todo = sync[s].todo /\ sync'[s].upto = sync[s].upto
    BY <1>10 DEF Ended, Past, Taken, Left
  <2> QED
    BY <1>1, <1>10, <2>1, WorkedLeaves
<1>11. CASE Relink(s) \/ Unlink(s) \/ Drop(s) \/ Mute(s)
  BY <1>10, <1>11, RelinkDoes, LeaveDoes DEF Past, Taken, Left
<1>12. CASE Policy(s)
  BY <1>2, <1>10, <1>12, PolicyDoes DEF Past, Left
<1>13. CASE MarkSynced(s) \/ MarkError(s) \/ SyncFails(s)
  BY <1>13, MarkDoes, FailsDoes, Quiet DEF Past, Taken, Left
<1> QED
  BY <1>3, <1>4, <1>5, <1>6, <1>7, <1>8, <1>9, <1>11, <1>12, <1>13 DEF SyncStep

LEMMA TokenSync ==
  ASSUME FlowInv, FlowInv', AloneInv, TokenInv, NEW s \in Syncer,
         SyncStep(s) \/ SyncFails(s) \/ PublishFails(s)
  PROVE  TokenInv'
<1>1. Others(s) /\ sync[s].pc # "idle" /\ mixed' = mixed /\ removal' = removal
  BY SyncOthers
<1> SUFFICES ASSUME Alone
             PROVE  /\ removal'.pc = "mute" => removal'.row.text = tasks'[removal'.id].text
                    /\ \A e \in Event : Covered(e, binding.token)'
                    /\ \A r \in Syncer :
                         Done(r)' /\ (sync'[r].pc \in Past => \A e \in Event : Worked(r, e)')
  BY <1>1 DEF TokenInv, Alone
<1>2. removal'.pc # "mute" /\ \A r \in Syncer : r # s => sync'[r].pc = "idle"
  BY <1>1 DEF AloneInv, Others
<1>3. ASSUME NEW r \in Syncer, r # s PROVE Done(r)' /\ sync'[r].pc \notin Past
  BY <1>2, <1>3 DEF Done, Past, Taken, Left
<1>4. Done(s)'
  BY DoneSync DEF TokenInv
<1>5. sync'[s].pc \in Past => \A e \in Event : Worked(s, e)'
  BY WorkedSync
<1>6. \A e \in Event : Covered(e, binding.token)'
  BY TokenCovers
<1> QED
  BY <1>2, <1>3, <1>4, <1>5, <1>6

LEMMA TokenKeeps ==
  ASSUME TokenInv, Alone' => Alone, removal' = removal \/ removal' = NoRemoval,
         tasks' = tasks, links' = links, google' = google, binding' = binding, scene' = scene,
         dropped' = dropped,
         \A s \in Syncer : sync'[s] = sync[s] \/ sync'[s].pc \in {"idle", "open"}
  PROVE  TokenInv'
<1> SUFFICES ASSUME Alone
             PROVE  /\ removal'.pc = "mute" => removal'.row.text = tasks'[removal'.id].text
                    /\ \A e \in Event : Covered(e, binding.token)'
                    /\ \A s \in Syncer :
                         Done(s)' /\ (sync'[s].pc \in Past => \A e \in Event : Worked(s, e)')
  BY DEF TokenInv
<1>1. Sc' = Sc
  BY DEF Sc
<1>2. \A e : HasText(e)' <=> HasText(e)
  BY DEF HasText, AliveFor, MadeFor
<1>3. \A e, tk : Covered(e, tk)' <=> Covered(e, tk)
  <2> SUFFICES ASSUME NEW e, NEW tk PROVE Covered(e, tk)' <=> Covered(e, tk)
    OBVIOUS
  <2>1. TouchedBy(e)' <=> TouchedBy(e)
    BY DEF TouchedBy, MadeFor
  <2>2. Exists(links[e].task)' <=> Exists(links[e].task)
    BY DEF Exists
  <2> QED
    BY <1>1, <1>2, <2>1, <2>2 DEF Covered
<1>4. \A e \in Event : Covered(e, binding.token)'
  <2> SUFFICES ASSUME NEW e \in Event PROVE Covered(e, binding.token)'
    OBVIOUS
  <2>1. PICK tk : tk = binding.token
    OBVIOUS
  <2>2. Covered(e, tk)'
    BY <1>3, <2>1 DEF TokenInv
  <2> QED
    BY <2>1, <2>2 DEF Covered
<1>5. ASSUME NEW s \in Syncer
      PROVE  Done(s)' /\ (sync'[s].pc \in Past => \A e \in Event : Worked(s, e)')
  <2>1. CASE sync'[s].pc \in {"idle", "open"}
    BY <2>1 DEF Done, Past, Taken, Left
  <2>2. CASE sync'[s] = sync[s]
    <3>1. PICK o, u : o = sync[s].of /\ u = sync[s].upto
      OBVIOUS
    <3>2. HasText(sync[s].of)' <=> HasText(o)'
      BY <2>2, <3>1 DEF HasText, AliveFor, MadeFor
    <3>3. Done(s)'
      BY <1>1, <1>2, <2>2, <3>1, <3>2 DEF Done, Exists, TokenInv
    <3>4. ASSUME NEW e \in Event, sync'[s].pc \in Past PROVE Worked(s, e)'
      <4>1. Worked(s, e)
        BY <2>2, <3>4 DEF TokenInv
      <4>2. CASE Covered(e, u)
        <5>1. Covered(e, u)'
          BY <1>3, <4>2
        <5> QED
          BY <2>2, <3>1, <5>1 DEF Worked, Covered
      <4>3. CASE InHand(s, e) \/ \E x \in sync[s].todo : x.ev = e /\ x.row = google[e]
        BY <2>2, <4>3 DEF InHand, Worked
      <4> QED
        BY <3>1, <4>1, <4>2, <4>3 DEF Worked
    <3> QED
      BY <3>3, <3>4
  <2> QED
    BY <2>1, <2>2
<1>6. removal'.pc = "mute" => removal'.row.text = tasks'[removal'.id].text
  BY DEF TokenInv, NoRemoval
<1> QED
  BY <1>4, <1>5, <1>6

LEMMA TokenStep ==
  ASSUME FlowInv, AloneInv, TokenInv, [Next]_vars
  PROVE  TokenInv'
<1>1. CASE \E s \in Syncer : SyncStep(s) \/ SyncFails(s) \/ PublishFails(s)
  BY <1>1, FlowStep, TokenSync
<1>2. CASE \/ RemovalStep \/ RemovalFails \/ Tick \/ Rename
           \/ \E op \in {"delete", "disconnect"} : StartRemoval(op)
           \/ \E e \in Event : EditEvent(e)
           \/ \E t \in TaskId : UserCompletes(t) \/ UserDeletes(t)
  BY <1>2, TokenOther
<1>3. CASE Poll \/ ForceSync
  <2>1. PICK s \in Syncer :
           /\ Others(s) /\ sync'[s].pc = "open"
           /\ mixed' = (mixed \/ Busy)
           /\ UNCHANGED <<world, rows, removal, scene, dropped>>
    BY <1>3, BeginDoes
  <2>2. Alone' => Alone
    BY <2>1, Meets
  <2>3. \A r \in Syncer : sync'[r] = sync[r] \/ sync'[r].pc \in {"idle", "open"}
    BY <2>1 DEF Others
  <2> QED
    BY <2>1, <2>2, <2>3, TokenKeeps DEF world, rows
<1>4. CASE Crash
  <2>1. \A r \in Syncer : sync'[r].pc = "idle"
    BY <1>4 DEF Crash, NoSync
  <2> QED
    BY <1>4, <2>1, TokenKeeps DEF Crash, world, rows, Alone
<1>5. CASE UNCHANGED vars
  BY <1>5, TokenKeeps DEF vars, Alone
<1> QED
  BY <1>1, <1>2, <1>3, <1>4, <1>5 DEF Next, World

LEMMA TokenStart == Init => TokenInv
<1> SUFFICES ASSUME Init PROVE TokenInv
  OBVIOUS
<1>1. \A s \in Syncer : sync[s].pc = "idle"
  BY DEF Init, NoSync
<1>2. \A e \in Event : google[e].ver = 0
  BY ScenarioStarts DEF Init, Starts
<1>3. binding.token = NoToken /\ removal.pc = "idle"
  BY DEF Init, NewBinding, NoRemoval
<1>4. \A e \in Event : Covered(e, binding.token)
  BY <1>2, <1>3 DEF Covered, NoToken
<1> QED
  BY <1>1, <1>3, <1>4 DEF TokenInv, Done, Past, Taken, Left

LEMMA TokenHolds ==
  ASSUME FlowInv, TokenInv
  PROVE  TokenNotAhead
<1> SUFFICES ASSUME Alone, NEW e \in Event,
                    google[e].st # "none", google[e].ver <= binding.token,
                    links[e].origin = "imported", ~TouchedBy(e)
             PROVE  IF google[e].st = "live" THEN \E t \in AliveFor(e) : tasks[t].text >= google[e].ver
                    ELSE Sc.policy = "soft_delete" => ~Exists(links[e].task)
  BY DEF TokenNotAhead
<1> QED
  BY DEF TokenInv, Covered, HasText

(* The saved token is never ahead of the tasks, for any number of events   *)
(* and tasks and any history of the calendar.                              *)
THEOREM TokenNotAheadCorrect == Spec => []TokenNotAhead
<1> DEFINE I == FlowInv /\ AloneInv /\ TokenInv
<1>1. Init => I
  BY FlowStart, AloneStart, TokenStart
<1>2. I /\ [Next]_vars => I'
  BY FlowStep, AloneStep, TokenStep
<1>3. I => TokenNotAhead
  BY TokenHolds
<1> HIDE DEF I
<1> QED
  BY <1>1, <1>2, <1>3, PTL DEF Spec

-----------------------------------------------------------------------------
(* What the worker was told.                                               *)

(* Tasks the worker is told of as they are.                                *)
Told == TaskId \ (untold \cup GivenChat)

Settled(t) == armed[t] = ReminderOf(tasks[t])

(* The row an event makes.                                                 *)
Fresh(row) ==
  row.st = "live" /\ row.chat = Sc.chat /\ ~row.muted /\ (row.done => row.start <= now)

(* A row that is written, and what the worker is about to hear of it.      *)
TellFits(q) ==
  /\ q.row = tasks[q.id] /\ q.row.st = "live"
  /\ ~q.row.chat \/ q.row.muted => armed[q.id] = Never
  /\ \/ q.tell = "schedule" /\ (q.row.done => q.row.start <= now)
     \/ q.tell = "delete" /\ q.row.done

(* Two rows that never ask for different reminders.                        *)
SameReminder(a, b) ==
  \/ a.start = b.start /\ a.done = b.done
  \/ a.done /\ b.done
  \/ ~a.chat

(* A row about to be written.                                              *)
WriteFits(q) ==
  /\ Exists(q.id) /\ q.row.st = "live"
  /\ q.row.chat = tasks[q.id].chat /\ q.row.muted = tasks[q.id].muted
  /\ \/ q.tell = "schedule" /\ ~q.row.done
     \/ q.tell = "delete" /\ q.row.done
     \/ q.tell = "none" /\ SameReminder(q.row, tasks[q.id])

ArmedHand(q) ==
  /\ q.pc \in {"read", "create"} => Fresh(q.row)
  /\ q.pc \in {"create", "link"} /\ q.link = NoLink => ~HasLink(q.of)
  /\ q.id \in Told =>
       /\ q.pc \in {"link", "tell"} => TellFits(q)
       /\ q.pc = "write" => WriteFits(q)
       /\ q.pc \in {"drop", "mute"} => armed[q.id] = Never

ArmedRemoval ==
  removal.pc \in {"drop", "mute"} /\ removal.id \in Told => armed[removal.id] = Never

ArmedInv ==
  /\ \A t \in TaskId : tasks[t].st = "none" => armed[t] = Never
  /\ Alone =>
       /\ \A t \in Told \ InHalf : Settled(t)
       /\ \A s \in Syncer : ArmedHand(sync[s])
       /\ ArmedRemoval

LEMMA ChatKept ==
  ASSUME FlowInv, NEW t \in TaskId \cup {NoTask}, NEW row \in TaskRow,
         tasks' = UpdateTask(t, row) \/ tasks' = DeleteTask(t)
  PROVE  \A u \in TaskId : tasks'[u].chat = tasks[u].chat
<1>1. CASE Exists(t)
  <2>1. t \in TaskId /\ tasks[t] \in TaskRow
    BY <1>1, FlowTypes DEF Exists
  <2>2. PICK r : r = [row EXCEPT !.chat = tasks[t].chat]
    OBVIOUS
  <2>3. PICK g : g = [tasks[t] EXCEPT !.st = "gone"]
    OBVIOUS
  <2>4. r.chat = tasks[t].chat /\ g.chat = tasks[t].chat
    BY <2>1, <2>2, <2>3 DEF TaskRow
  <2>5. tasks' = [tasks EXCEPT ![t] = r] \/ tasks' = [tasks EXCEPT ![t] = g]
    BY <1>1, <2>2, <2>3 DEF UpdateTask, DeleteTask
  <2> QED
    BY <2>4, <2>5, FlowTypes
<1>2. CASE ~Exists(t)
  BY <1>2 DEF UpdateTask, DeleteTask
<1> QED
  BY <1>1, <1>2

(* No step gives a task a chat, or takes it away.                          *)
LEMMA ChatStays ==
  ASSUME FlowInv, [Next]_vars, NEW u \in TaskId, tasks[u].st # "none"
  PROVE  tasks'[u].chat = tasks[u].chat
<1>1. ASSUME NEW s \in Syncer, SyncStep(s) \/ SyncFails(s) \/ PublishFails(s)
      PROVE  tasks'[u].chat = tasks[u].chat
  <2>1. /\ sync[s].row \in TaskRow /\ sync[s].id \in TaskId \cup {NoTask}
        /\ [sync[s].row EXCEPT !.muted = TRUE] \in TaskRow
    <3>1. sync[s].row \in TaskRow /\ sync[s].id \in TaskId \cup {NoTask}
      BY FlowTypes DEF Sync
    <3>2. PICK row \in TaskRow : row = sync[s].row
      BY <3>1
    <3>3. [row EXCEPT !.muted = TRUE] \in TaskRow
      BY DEF TaskRow
    <3> QED
      BY <3>1, <3>2, <3>3
  <2>2. CASE CreateTask(s)
    BY <2>2, CreateDoes
  <2>3. CASE WriteTask(s) \/ Drop(s) \/ Mute(s)
    BY <2>1, <2>3, ChatKept DEF WriteTask, Drop, Mute
  <2>4. CASE ~CreateTask(s) /\ ~WriteTask(s) /\ ~Drop(s) /\ ~Mute(s)
    <3>1. tasks' = tasks
      BY <1>1, <2>4 DEF SyncStep, SyncFails, PublishFails, Open, Refresh, List, TokenInvalid, Take,
         CreateLink, ReadTask, Tell, Relink, Policy, Unlink, MarkSynced, MarkError, rows
    <3> QED
      BY <3>1
  <2> QED
    BY <2>2, <2>3, <2>4
<1>2. CASE RmTask
  <2>1. /\ removal.row \in TaskRow /\ removal.id \in TaskId \cup {NoTask}
        /\ [removal.row EXCEPT !.muted = TRUE] \in TaskRow
    BY FlowTypes DEF Removal, TaskRow
  <2> QED
    BY <1>2, <2>1, ChatKept DEF RmTask
<1>3. ASSUME NEW t \in TaskId, UserDeletes(t) PROVE tasks'[u].chat = tasks[u].chat
  <2>1. tasks' = DeleteTask(t) /\ NoRow \in TaskRow
    BY <1>3, ConstantTypes DEF UserDeletes
  <2> QED
    BY <2>1, ChatKept
<1>4. ASSUME NEW t \in TaskId, UserCompletes(t) PROVE tasks'[u].chat = tasks[u].chat
  <2>1. PICK r : r = [tasks[t] EXCEPT !.done = TRUE]
    OBVIOUS
  <2>2. tasks[t] \in TaskRow
    BY FlowTypes
  <2>3. r.chat = tasks[t].chat
    BY <2>1, <2>2 DEF TaskRow
  <2>4. tasks' = [tasks EXCEPT ![t] = r]
    BY <1>4, <2>1 DEF UserCompletes
  <2> QED
    BY <2>3, <2>4, FlowTypes
<1>5. ASSUME NEW e \in Event, EditEvent(e) PROVE tasks'[u].chat = tasks[u].chat
  <2>1. PICK row : Edit(e, row)
    BY <1>5 DEF EditEvent
  <2>2. tasks' = tasks
    BY <2>1, Zenon DEF Edit, rows
  <2> QED
    BY <2>2
<1>6. CASE \/ Poll \/ ForceSync \/ Tick \/ Rename \/ Crash \/ RemovalFails
           \/ \E op \in {"delete", "disconnect"} : StartRemoval(op)
  BY <1>6 DEF Poll, ForceSync, Begin, Tick, Rename, Crash, RemovalFails, StartRemoval, rows
<1>7. CASE RmBinding \/ RmLinks \/ RmRead \/ RmLast \/ RmRevoke
  BY <1>7 DEF RmBinding, RmLinks, RmRead, RmLast, RmRevoke, rows
<1>8. CASE UNCHANGED vars
  BY <1>8 DEF vars
<1> QED
  BY <1>1, <1>2, <1>3, <1>4, <1>5, <1>6, <1>7, <1>8 DEF Next, World, RemovalStep

LEMMA UntoldGrows ==
  ASSUME FlowInv, [Next]_vars
  PROVE  untold \subseteq untold'
<1>1. ASSUME NEW s \in Syncer, SyncStep(s) \/ SyncFails(s) \/ PublishFails(s)
      PROVE  untold \subseteq untold'
  <2>1. CASE Tell(s)
    BY <2>1 DEF Tell
  <2>2. CASE SyncFails(s) \/ PublishFails(s)
    BY <2>2 DEF SyncFails, PublishFails
  <2>3. CASE SyncStep(s) /\ ~Tell(s)
    <3>1. untold' = untold
      BY <2>3, ZenonT(30) DEF SyncStep, Open, Refresh, List, TokenInvalid, Take, CreateTask,
         CreateLink, ReadTask, WriteTask, Relink, Policy, Unlink, Drop, Mute, MarkSynced,
         MarkError, notes
    <3> QED
      BY <3>1
  <2> QED
    BY <1>1, <2>1, <2>2, <2>3
<1>2. CASE \E e \in Event : EditEvent(e)
  BY <1>2, EditGrows DEF notes
<1>3. CASE RemovalStep
  BY <1>3 DEF RemovalStep, RmBinding, RmLinks, RmRead, RmTask, RmLast, RmRevoke, notes
<1>4. CASE Crash \/ RemovalFails
  BY <1>4 DEF Crash, RemovalFails
<1>5. CASE \/ Poll \/ ForceSync \/ Tick \/ Rename
           \/ \E t \in TaskId : UserCompletes(t) \/ UserDeletes(t)
           \/ \E op \in {"delete", "disconnect"} : StartRemoval(op)
  BY <1>5 DEF Poll, ForceSync, Begin, Tick, Rename, UserCompletes, UserDeletes, StartRemoval, notes
<1>6. CASE UNCHANGED vars
  BY <1>6 DEF vars
<1> QED
  BY <1>1, <1>2, <1>3, <1>4, <1>5, <1>6 DEF Next, World

LEMMA ToldShrinks ==
  ASSUME FlowInv, [Next]_vars
  PROVE  Told' \subseteq Told
<1>1. untold \subseteq untold' /\ TasksGrow /\ Sc' = Sc
  BY UntoldGrows, StepGrows, SceneStays DEF Sc
<1>2. GivenChat \subseteq GivenChat'
  BY <1>1, ChatStays DEF GivenChat, TasksGrow
<1> QED
  BY <1>1, <1>2 DEF Told

(* Alone, only the task at hand can be between a row and its message.      *)
LEMMA HalfAlone ==
  ASSUME AloneInv, Alone, NEW s \in Syncer, sync[s].pc # "idle"
  PROVE  \A t : t \in InHalf <=> Half(sync[s].pc) /\ t = sync[s].id
<1>1. removal.pc = "idle" /\ \A r \in Syncer : r # s => sync[r].pc = "idle"
  BY DEF AloneInv
<1> QED
  BY <1>1 DEF InHalf, Half

LEMMA SyncNow ==
  ASSUME NEW s \in Syncer, SyncStep(s) \/ SyncFails(s) \/ PublishFails(s)
  PROVE  now' = now
BY DEF SyncStep, SyncFails, PublishFails, Open, Refresh, List, TokenInvalid, Take, CreateTask,
       CreateLink, ReadTask, WriteTask, Tell, Relink, Policy, Unlink, Drop, Mute, MarkSynced,
       MarkError, world

LEMMA IsNext ==
  ASSUME NEW s \in Syncer, SyncStep(s) \/ SyncFails(s) \/ PublishFails(s)
  PROVE  [Next]_vars
BY DEF Next, World

(* A step of a sync that leaves every task but k as it is.                 *)
LEMMA ArmedSync ==
  ASSUME FlowInv, AloneInv, ArmedInv, NEW s \in Syncer,
         SyncStep(s) \/ SyncFails(s) \/ PublishFails(s),
         NEW k \in TaskId \cup {NoTask},
         \A t \in TaskId : t # k => tasks'[t] = tasks[t] /\ armed'[t] = armed[t],
         k # NoTask => (tasks'[k].st = "none" => armed'[k] = Never),
         Half(sync[s].pc) => sync[s].id = k,
         Alone => (k \in Told' /\ ~(Half(sync'[s].pc) /\ sync'[s].id = k) => Settled(k)'),
         Alone => ArmedHand(sync[s])'
  PROVE  ArmedInv'
<1>1. /\ Others(s) /\ sync[s].pc # "idle" /\ removal' = removal /\ mixed' = mixed
      /\ now' = now /\ Told' \subseteq Told
  BY SyncOthers, SyncNow, IsNext, ToldShrinks
<1>2. \A t \in TaskId : tasks'[t].st = "none" => armed'[t] = Never
  <2> SUFFICES ASSUME NEW t \in TaskId, tasks'[t].st = "none" PROVE armed'[t] = Never
    OBVIOUS
  <2>1. t # NoTask
    BY DEF TaskId, NoTask
  <2> QED
    BY <2>1 DEF ArmedInv
<1>3. ASSUME Alone'
      PROVE  /\ \A t \in Told' \ InHalf' : Settled(t)'
             /\ \A r \in Syncer : ArmedHand(sync[r])'
             /\ ArmedRemoval'
  <2>1. Alone /\ removal.pc = "idle" /\ \A r \in Syncer : r # s => sync[r].pc = "idle"
    BY <1>1, <1>3 DEF Alone, AloneInv
  <2>2. ArmedRemoval'
    BY <1>1, <2>1 DEF ArmedRemoval
  <2>3. ASSUME NEW r \in Syncer, r # s PROVE ArmedHand(sync[r])'
    <3>1. sync'[r].pc = "idle"
      BY <1>1, <2>1, <2>3 DEF Others
    <3> QED
      BY <3>1 DEF ArmedHand
  <2>4. ASSUME NEW t \in Told' \ InHalf' PROVE Settled(t)'
    <3>1. CASE t = k
      <4>1. ~(Half(sync'[s].pc) /\ sync'[s].id = k)
        BY <2>4, <3>1 DEF InHalf
      <4> QED
        BY <2>1, <2>4, <3>1, <4>1
    <3>2. CASE t # k
      <4>1. t \notin InHalf /\ t \in TaskId /\ t \in Told
        BY <1>1, <2>1, <2>4, <3>2, HalfAlone DEF Told
      <4>2. Settled(t) /\ tasks'[t] = tasks[t] /\ armed'[t] = armed[t]
        BY <2>1, <3>2, <4>1 DEF ArmedInv
      <4> QED
        BY <1>1, <4>2 DEF Settled, ReminderOf
    <3> QED
      BY <3>1, <3>2
  <2> QED
    BY <2>1, <2>2, <2>3, <2>4
<1> QED
  BY <1>2, <1>3 DEF ArmedInv

LEMMA ArmedQuiet ==
  ASSUME FlowInv, AloneInv, ArmedInv, NEW s \in Syncer,
         SyncStep(s) \/ SyncFails(s) \/ PublishFails(s),
         tasks' = tasks, armed' = armed, ~Half(sync[s].pc),
         Alone => ArmedHand(sync[s])'
  PROVE  ArmedInv'
<1>1. NoTask \in TaskId \cup {NoTask} /\ NoTask \notin Told'
  BY DEF Told, TaskId, NoTask
<1> QED
  BY <1>1, ArmedSync

(* Where a sync has nothing to do with a task, or only its number.         *)
LEMMA NoHand ==
  ASSUME NEW s, sync'[s].pc \notin {"read", "create", "link", "tell", "write", "drop", "mute"}
  PROVE  ArmedHand(sync[s])'
BY DEF ArmedHand

LEMMA ArmedPlain ==
  ASSUME FlowInv, AloneInv, ArmedInv, NEW s \in Syncer,
         \/ Open(s) \/ Refresh(s) \/ List(s) \/ TokenInvalid(s) \/ Relink(s) \/ Unlink(s)
         \/ MarkSynced(s) \/ MarkError(s)
  PROVE  ArmedInv'
<1>1. SyncStep(s) /\ tasks' = tasks /\ armed' = armed
  BY DEF SyncStep, Open, Refresh, List, TokenInvalid, Relink, Unlink, MarkSynced, MarkError, rows
<1>2. ~Half(sync[s].pc)
  BY DEF Open, Refresh, List, TokenInvalid, Relink, Unlink, MarkSynced, MarkError, Step, Half
<1>3. sync'[s].pc \in {"refresh", "list", "failed", "next", "idle"}
  <2>1. CASE Open(s) \/ Refresh(s) \/ List(s) \/ TokenInvalid(s)
    BY <2>1, LookDoes
  <2>2. CASE Relink(s) \/ Unlink(s)
    BY <2>2, RelinkDoes, LeaveDoes DEF Ended
  <2>3. CASE MarkSynced(s) \/ MarkError(s)
    BY <2>3, MarkDoes, Quiet
  <2> QED
    BY <2>1, <2>2, <2>3
<1> QED
  BY <1>1, <1>2, <1>3, ArmedQuiet, NoHand

(* A failing statement: of a task whose row or message it was, nothing is  *)
(* said any more.                                                          *)
LEMMA ArmedFails ==
  ASSUME FlowInv, AloneInv, ArmedInv, NEW s \in Syncer, SyncFails(s)
  PROVE  ArmedInv'
<1>1. tasks' = tasks /\ armed' = armed /\ sync[s].pc # "idle"
  BY DEF SyncFails, rows
<1>2. sync'[s].pc \in {"list", "failed", "idle"}
  BY FailsDoes, Quiet
<1>3. PICK k : k = sync[s].id
  OBVIOUS
<1>4. k \in TaskId \cup {NoTask}
  BY <1>3, FlowTypes DEF Sync
<1>5. Half(sync[s].pc) => k \in untold'
  BY <1>3 DEF SyncFails
<1>6. ASSUME Alone, k \in Told' PROVE Settled(k)'
  <2>1. ~Half(sync[s].pc) /\ k \in Told /\ now' = now
    BY <1>5, <1>6, IsNext, ToldShrinks, SyncNow DEF Told
  <2>2. Settled(k)
    BY <1>1, <1>6, <2>1, HalfAlone DEF ArmedInv
  <2> QED
    BY <1>1, <2>1, <2>2 DEF Settled, ReminderOf
<1>7. k # NoTask => (tasks'[k].st = "none" => armed'[k] = Never)
  BY <1>1, <1>4 DEF ArmedInv
<1> QED
  BY <1>1, <1>2, <1>3, <1>4, <1>6, <1>7, ArmedSync, NoHand

(* The row an event makes is fresh: what has begun is done.                *)
LEMMA FieldsFresh ==
  ASSUME FlowInv, NEW x \in Listed
  PROVE  Fresh(Fields(x))
<1>1. Fields(x).st = "live" /\ Fields(x).chat = Sc.chat /\ ~Fields(x).muted
  BY DEF Fields
<1>2. Fields(x).done => Fields(x).start <= now
  BY DEF Fields
<1> QED
  BY <1>1, <1>2 DEF Fresh

LEMMA ArmedTake ==
  ASSUME FlowInv, AloneInv, ArmedInv, NEW s \in Syncer, Take(s)
  PROVE  ArmedInv'
<1>1. SyncStep(s) /\ tasks' = tasks /\ armed' = armed /\ now' = now
  BY DEF SyncStep, Take, world
<1>2. ~Half(sync[s].pc)
  BY TakeDoes DEF Half
<1>3. CASE sync'[s].pc \in {"failed", "next", "policy"}
  BY <1>1, <1>2, <1>3, ArmedQuiet, NoHand
<1>4. CASE sync'[s].pc \in {"read", "create"}
  <2>1. /\ \E x \in Listed : sync'[s].row = Fields(x)
        /\ sync'[s].pc = "create" => ~HasLink(sync'[s].of) /\ links' = links
    <3>1. PICK x \in Listed :
            \/ /\ sync'[s].pc = "create" /\ links' = links /\ sync'[s].of = x.ev
               /\ ~HasLink(x.ev) /\ sync'[s].row = Fields(x)
            \/ sync'[s].pc = "read" /\ sync'[s].row = Fields(x)
      <4>1. sync'[s].pc # "failed" /\ sync'[s].pc # "next" /\ sync'[s].pc # "policy"
        BY <1>4
      <4> QED
        BY <4>1, TakeDoes, ZenonT(60)
    <3> QED
      BY <3>1, Zenon
  <2>2. PICK x \in Listed : sync'[s].row = Fields(x)
    BY <2>1
  <2>3. Sc' = Sc
    BY SyncOthers, <1>1 DEF Sc
  <2>4. Fresh(sync[s].row)'
    BY <1>1, <2>2, <2>3, FieldsFresh DEF Fresh
  <2>5. ArmedHand(sync[s])'
    BY <1>4, <2>1, <2>4 DEF ArmedHand, HasLink
  <2> QED
    BY <1>1, <1>2, <2>5, ArmedQuiet
<1> QED
  BY <1>3, <1>4, TakeDoes

LEMMA ArmedCreate ==
  ASSUME FlowInv, AloneInv, ArmedInv, NEW s \in Syncer, CreateTask(s)
  PROVE  ArmedInv'
<1>1. SyncStep(s) /\ armed' = armed /\ now' = now
  BY DEF SyncStep, CreateTask, world
<1>2. PICK k : k = sync'[s].id
  OBVIOUS
<1>3. /\ links' = links /\ sync[s].pc = "create" /\ sync'[s].of = sync[s].of
      /\ sync'[s].link = sync[s].link /\ k \in TaskId
      /\ sync'[s].pc = IF sync[s].link = NoLink THEN "link" ELSE "tell"
      /\ tasks[k].st = "none" /\ tasks'[k] = sync[s].row
      /\ \A u \in TaskId : u # k => tasks'[u] = tasks[u]
  BY <1>2, CreateDoes DEF Held
<1>4. sync'[s].row = sync[s].row /\ sync'[s].tell = "schedule"
  <2>1. PICK t \in Free :
        sync' = [sync EXCEPT ![s] = [sync[s] EXCEPT !.id = t, !.tell = "schedule",
                           !.pc = IF sync[s].link = NoLink THEN "link" ELSE "tell"]]
    BY DEF CreateTask, Step
  <2>2. PICK pc : pc = IF sync[s].link = NoLink THEN "link" ELSE "tell"
    OBVIOUS
  <2>3. PICK q : q = [sync[s] EXCEPT !.id = t, !.tell = "schedule", !.pc = pc]
    OBVIOUS
  <2>4. q.row = sync[s].row /\ q.tell = "schedule"
    BY <2>3, FlowTypes DEF Sync
  <2>5. sync' = [sync EXCEPT ![s] = q]
    BY <2>1, <2>2, <2>3
  <2>6. sync'[s] = q
    BY <2>5, Becomes
  <2> QED
    BY <2>4, <2>6
<1>5. armed'[k] = Never
  BY <1>1, <1>3 DEF ArmedInv
<1>6. Half(sync'[s].pc) /\ sync'[s].id = k
  BY <1>2, <1>3 DEF Half
<1>7. Alone => ArmedHand(sync[s])'
  <2> SUFFICES ASSUME Alone PROVE ArmedHand(sync[s])'
    OBVIOUS
  <2>1. Fresh(sync[s].row) /\ (sync[s].link = NoLink => ~HasLink(sync[s].of))
    BY <1>3 DEF ArmedInv, ArmedHand
  <2>2. TellFits(sync[s])'
    BY <1>1, <1>2, <1>3, <1>4, <1>5, <2>1 DEF TellFits, Fresh
  <2> QED
    BY <1>3, <2>1, <2>2 DEF ArmedHand, HasLink
<1>8. ~Half(sync[s].pc) /\ k # NoTask
  BY <1>3 DEF Half, TaskId, NoTask
<1> QED
  BY <1>1, <1>3, <1>5, <1>6, <1>7, <1>8, ArmedSync

LEMMA ArmedLink ==
  ASSUME FlowInv, AloneInv, ArmedInv, NEW s \in Syncer, CreateLink(s)
  PROVE  ArmedInv'
<1>1. SyncStep(s) /\ armed' = armed /\ tasks' = tasks /\ now' = now
  BY DEF SyncStep, CreateLink, world
<1>2. PICK k : k = sync[s].id
  OBVIOUS
<1>3. sync[s].pc = "link" /\ k \in TaskId \cup {NoTask} /\ sync[s].link = NoLink
  BY <1>2, CreateLinkDoes, FlowTypes DEF FlowInv, Hand, Sync
<1>4. Told' \subseteq Told
  BY <1>1, IsNext, ToldShrinks
<1>5. ASSUME Alone
      PROVE  /\ ArmedHand(sync[s])'
             /\ k \in Told' /\ ~(Half(sync'[s].pc) /\ sync'[s].id = k) => Settled(k)'
  <2>1. ~HasLink(sync[s].of) /\ (k \in Told => TellFits(sync[s]))
    BY <1>2, <1>3, <1>5 DEF ArmedInv, ArmedHand
  <2>2. /\ sync' = [sync EXCEPT ![s] = Go(s, "tell")]
    BY <2>1 DEF CreateLink, Step
  <2>3. /\ sync'[s].pc = "tell" /\ sync'[s].id = k /\ sync'[s].row = sync[s].row
        /\ sync'[s].tell = sync[s].tell
    BY <1>2, <2>2, GoDoes
  <2>4. k \in Told => TellFits(sync[s])'
    BY <1>1, <1>2, <2>1, <2>3 DEF TellFits
  <2>5. Half(sync'[s].pc) /\ sync'[s].id = k
    BY <2>3 DEF Half
  <2> QED
    BY <1>4, <2>3, <2>4, <2>5 DEF ArmedHand
<1>6. k # NoTask => (tasks'[k].st = "none" => armed'[k] = Never)
  BY <1>1, <1>3 DEF ArmedInv
<1> QED
  BY <1>1, <1>2, <1>3, <1>5, <1>6, ArmedSync

(* What the import makes of a row, and what it is going to tell.           *)
LEMMA MergedFits ==
  ASSUME FlowInv, NEW t \in TaskId, NEW f \in TaskRow, NEW o \in {"imported", "exported"},
         tasks[t].st = "live", Fresh(f), t \in Told,
         NEW r, r = Merged(tasks[t], f, o), NEW tell, tell = TellOf(tasks[t], f, o)
  PROVE  /\ r.st = "live" /\ r.chat = tasks[t].chat /\ r.muted = tasks[t].muted
         /\ \/ tell = "schedule" /\ ~r.done
            \/ tell = "delete" /\ r.done
            \/ tell = "none" /\ SameReminder(r, tasks[t])
<1>1. PICK w : w = tasks[t]
  OBVIOUS
<1>2. w \in TaskRow /\ w.st = "live"
  BY <1>1, FlowTypes
<1>3. /\ r.st = "live" /\ r.muted = w.muted /\ r.chat = (w.chat \/ f.chat)
      /\ r.start = (IF KeepOpen(o, f) THEN w.start ELSE f.start)
      /\ r.done = (IF KeepOpen(o, f) THEN w.done ELSE f.done)
  BY <1>1, <1>2 DEF Merged, TaskRow
<1>4. w.chat \/ ~f.chat
  BY <1>1, <1>2 DEF Told, GivenChat, Fresh
<1>5. r.chat = w.chat
  BY <1>2, <1>3, <1>4 DEF TaskRow
<1>6. CASE KeepOpen(o, f) \/ ~(w.chat \/ f.chat)
  <2>1. tell = "none"
    BY <1>1, <1>6 DEF TellOf
  <2>2. SameReminder(r, w)
    BY <1>3, <1>4, <1>5, <1>6 DEF SameReminder
  <2> QED
    BY <1>1, <1>3, <1>5, <2>1, <2>2
<1>7. CASE ~KeepOpen(o, f) /\ (w.chat \/ f.chat)
  <2>1. r.start = f.start /\ r.done = f.done
    BY <1>3, <1>7
  <2>2. CASE ~f.done /\ (ScheduleChanged(w, f) \/ w.done)
    <3>1. tell = "schedule"
      BY <1>1, <1>7, <2>2 DEF TellOf
    <3> QED
      BY <1>1, <1>3, <1>5, <2>1, <2>2, <3>1
  <2>3. CASE f.done /\ ~w.done
    <3>1. tell = "delete"
      BY <1>1, <1>7, <2>3 DEF TellOf
    <3> QED
      BY <1>1, <1>3, <1>5, <2>1, <2>3, <3>1
  <2>4. CASE ~(~f.done /\ (ScheduleChanged(w, f) \/ w.done)) /\ ~(f.done /\ ~w.done)
    <3>1. tell = "none"
      BY <1>1, <1>7, <2>4 DEF TellOf
    <3>2. SameReminder(r, w)
      <4>1. CASE f.done
        BY <2>1, <2>4, <4>1 DEF SameReminder
      <4>2. CASE ~f.done
        <5>1. ~w.done /\ w.start = f.start
          BY <2>4, <4>2 DEF ScheduleChanged
        <5>2. r.done = w.done
          BY <1>2, <2>1, <4>2, <5>1, <1>3 DEF TaskRow
        <5> QED
          BY <2>1, <5>1, <5>2 DEF SameReminder
      <4> QED
        BY <4>1, <4>2
    <3> QED
      BY <1>1, <1>3, <1>5, <3>1, <3>2
  <2> QED
    BY <2>2, <2>3, <2>4
<1> QED
  BY <1>6, <1>7

LEMMA ArmedRead ==
  ASSUME FlowInv, AloneInv, ArmedInv, NEW s \in Syncer, ReadTask(s)
  PROVE  ArmedInv'
<1>1. SyncStep(s) /\ armed' = armed /\ tasks' = tasks /\ now' = now
  BY DEF SyncStep, ReadTask, world, rows
<1>2. sync[s] \in Sync /\ Hand(sync[s]) /\ sync[s].pc = "read"
  BY FlowTypes DEF FlowInv, ReadTask, Step
<1>3. PICK k, o : k = sync[s].id /\ o = sync[s].link.origin
  OBVIOUS
<1>4. IsTask(sync[s].of, sync[s].id) /\ sync[s].link # NoLink
  BY <1>2 DEF Hand, Left
<1>5. k \in TaskId /\ tasks[k] \in TaskRow /\ o \in {"imported", "exported"} /\ sync[s].row \in TaskRow
  BY <1>2, <1>3, <1>4, HandTask DEF Sync, LinkRow
<1>6. Told' \subseteq Told /\ Sc' = Sc
  BY <1>1, IsNext, ToldShrinks, SyncOthers DEF Sc
<1>7. ~Half(sync[s].pc)
  BY <1>2 DEF Half
<1>8. ASSUME Alone PROVE ArmedHand(sync[s])'
  <2>1. Fresh(sync[s].row)
    BY <1>2, <1>8 DEF ArmedInv, ArmedHand
  <2>2. CASE ~Exists(k)
    <3>1. sync' = [sync EXCEPT ![s] = Go(s, "create")]
      BY <1>3, <2>2 DEF ReadTask, Step
    <3>2. sync'[s].pc = "create" /\ sync'[s].row = sync[s].row /\ sync'[s].link # NoLink
      BY <1>4, <3>1, GoDoes
    <3>3. Fresh(sync[s].row)'
      BY <1>1, <1>6, <2>1, <3>2 DEF Fresh
    <3> QED
      BY <3>2, <3>3 DEF ArmedHand
  <2>3. CASE Exists(k)
    <3>1. PICK r : r = Merged(tasks[k], sync[s].row, o)
      OBVIOUS
    <3>2. PICK tell : tell = TellOf(tasks[k], sync[s].row, o)
      OBVIOUS
    <3>3. PICK pc : pc = IF r # tasks[k] THEN "write" ELSE IF tell # "none" THEN "tell" ELSE "relink"
      OBVIOUS
    <3>4. PICK q : q = [sync[s] EXCEPT !.row = r, !.tell = tell, !.pc = pc]
      OBVIOUS
    <3>5. sync' = [sync EXCEPT ![s] = q]
      BY <1>3, <2>3, <3>1, <3>2, <3>3, <3>4 DEF ReadTask, Step
    <3>6. sync'[s] = q
      BY <3>5, Becomes
    <3>7. q.pc = pc /\ q.row = r /\ q.tell = tell /\ q.id = k
      BY <1>2, <1>3, <3>4 DEF Sync
    <3>8. ASSUME k \in Told
          PROVE  /\ pc = "tell" => TellFits(sync[s])'
                 /\ pc = "write" => WriteFits(sync[s])'
      <4>1. tasks[k].st = "live"
        BY <2>3 DEF Exists
      <4>2. /\ r.st = "live" /\ r.chat = tasks[k].chat /\ r.muted = tasks[k].muted
            /\ \/ tell = "schedule" /\ ~r.done
               \/ tell = "delete" /\ r.done
               \/ tell = "none" /\ SameReminder(r, tasks[k])
        BY <1>5, <2>1, <3>1, <3>2, <3>8, <4>1, MergedFits
      <4>3. WriteFits(sync[s])'
        BY <1>1, <2>3, <3>6, <3>7, <4>2 DEF WriteFits, SameReminder, Exists
      <4>4. pc = "tell" => tell # "none" /\ r = tasks[k]
        BY <3>3
      <4>5. Settled(k)
        BY <1>2, <1>3, <1>7, <1>8, <3>8, HalfAlone DEF ArmedInv
      <4>6. pc = "tell" => (~r.chat \/ r.muted => armed[k] = Never)
        BY <4>4, <4>5 DEF Settled, ReminderOf
      <4>7. pc = "tell" => TellFits(sync[s])'
        BY <1>1, <3>6, <3>7, <4>2, <4>4, <4>6 DEF TellFits
      <4> QED
        BY <4>3, <4>7
    <3>9. pc \in {"write", "tell", "relink"}
      BY <3>3
    <3> QED
      BY <1>6, <3>6, <3>7, <3>8, <3>9 DEF ArmedHand
  <2> QED
    BY <2>2, <2>3
<1> QED
  BY <1>1, <1>7, <1>8, ArmedQuiet

LEMMA ArmedWrite ==
  ASSUME FlowInv, AloneInv, ArmedInv, NEW s \in Syncer, WriteTask(s)
  PROVE  ArmedInv'
<1>1. SyncStep(s) /\ armed' = armed /\ now' = now
  BY DEF SyncStep, WriteTask, world
<1>2. sync[s] \in Sync /\ Hand(sync[s]) /\ sync[s].pc = "write"
  BY FlowTypes DEF FlowInv, WriteTask, Step
<1>3. PICK k, row : k = sync[s].id /\ row = sync[s].row
  OBVIOUS
<1>4. IsTask(sync[s].of, sync[s].id) /\ row.st = "live"
  BY <1>2, <1>3 DEF Hand, Left
<1>5. k \in TaskId /\ tasks[k] \in TaskRow /\ row \in TaskRow /\ tasks[k].st # "none" /\ k # NoTask
  BY <1>2, <1>3, <1>4, HandTask DEF Sync, IsTask
<1>6. Told' \subseteq Told
  BY <1>1, IsNext, ToldShrinks
<1>7. ~Half(sync[s].pc)
  BY <1>2 DEF Half
<1>8. PICK r : r = [row EXCEPT !.chat = tasks[k].chat]
  OBVIOUS
<1>9. \A t \in TaskId : tasks'[t] = IF t = k /\ Exists(k) THEN r ELSE tasks[t]
  <2>1. tasks' = UpdateTask(k, row)
    BY <1>3 DEF WriteTask
  <2>2. CASE Exists(k)
    <3>1. tasks' = [tasks EXCEPT ![k] = r]
      BY <1>8, <2>1, <2>2 DEF UpdateTask
    <3> QED
      BY <2>2, <3>1, FlowTypes
  <2>3. CASE ~Exists(k)
    BY <2>1, <2>3 DEF UpdateTask
  <2> QED
    BY <2>2, <2>3
<1>10. /\ sync'[s].row = row /\ sync'[s].tell = sync[s].tell /\ sync'[s].id = k
       /\ sync'[s].pc = IF sync[s].tell = "none" THEN "relink" ELSE "tell"
  <2>1. PICK pc : pc = IF sync[s].tell = "none" THEN "relink" ELSE "tell"
    OBVIOUS
  <2>2. sync' = [sync EXCEPT ![s] = Go(s, pc)]
    BY <2>1 DEF WriteTask, Step
  <2>3. /\ sync'[s].pc = pc /\ sync'[s].row = sync[s].row
        /\ sync'[s].tell = sync[s].tell /\ sync'[s].id = sync[s].id
    BY <2>2, GoDoes
  <2> QED
    BY <1>3, <2>1, <2>3
<1>11. tasks'[k].st # "none"
  BY <1>4, <1>5, <1>8, <1>9 DEF TaskRow
<1>12. ASSUME Alone, k \in Told
       PROVE  /\ sync[s].tell # "none" => TellFits(sync[s])'
              /\ sync[s].tell = "none" => Settled(k)'
  <2>1. WriteFits(sync[s]) /\ Settled(k)
    BY <1>2, <1>3, <1>7, <1>12, HalfAlone DEF ArmedInv, ArmedHand
  <2>2. tasks'[k] = row
    <3>1. r = row
      BY <1>3, <1>5, <1>8, <2>1 DEF WriteFits, TaskRow
    <3> QED
      BY <1>3, <1>5, <1>9, <2>1, <3>1 DEF WriteFits
  <2>3. row.chat = tasks[k].chat /\ row.muted = tasks[k].muted /\ tasks[k].st = "live"
    BY <1>3, <2>1 DEF WriteFits, Exists
  <2>4. ~row.chat \/ row.muted => armed[k] = Never
    BY <2>1, <2>3 DEF Settled, ReminderOf
  <2>5. sync[s].tell # "none" => TellFits(sync[s])'
    BY <1>1, <1>3, <1>4, <1>10, <2>1, <2>2, <2>4 DEF TellFits, WriteFits
  <2>6. ASSUME sync[s].tell = "none" PROVE ReminderOf(row) = ReminderOf(tasks[k])
    <3>1. SameReminder(row, tasks[k])
      BY <1>3, <2>1, <2>6 DEF WriteFits
    <3> QED
      BY <1>4, <2>3, <3>1 DEF SameReminder, ReminderOf
  <2>7. ReminderOf(row)' = ReminderOf(row)
    BY <1>1 DEF ReminderOf
  <2> QED
    BY <1>1, <2>1, <2>2, <2>5, <2>6, <2>7 DEF Settled, ReminderOf
<1>13. ASSUME Alone PROVE ArmedHand(sync[s])' /\ (k \in Told' /\ ~(Half(sync'[s].pc) /\ sync'[s].id = k) => Settled(k)')
  BY <1>6, <1>10, <1>12, <1>13 DEF ArmedHand, Half
<1> QED
  BY <1>1, <1>5, <1>7, <1>9, <1>11, <1>13, ArmedSync

LEMMA ArmedTell ==
  ASSUME FlowInv, AloneInv, ArmedInv, NEW s \in Syncer, Tell(s) \/ PublishFails(s)
  PROVE  ArmedInv'
<1>1. (SyncStep(s) \/ PublishFails(s)) /\ tasks' = tasks /\ now' = now
  BY SyncNow DEF SyncStep, Tell, PublishFails, rows
<1>2. sync[s] \in Sync /\ Hand(sync[s]) /\ sync[s].pc = "tell"
  BY FlowTypes DEF FlowInv, Tell, PublishFails, Step
<1>3. PICK k, row : k = sync[s].id /\ row = sync[s].row
  OBVIOUS
<1>4. k \in TaskId /\ tasks[k].st # "none" /\ k # NoTask /\ row \in TaskRow
  BY <1>2, <1>3, HandTask DEF Hand, Left, IsTask, Sync
<1>5. Told' \subseteq Told /\ armed \in [TaskId -> Nat \cup {Never}]
  BY <1>1, IsNext, ToldShrinks DEF FlowInv, ImportInv, ImportTypeOK
<1>6. sync'[s].pc \in {"next", "relink"}
  BY TellDoes
<1>7. \A t \in TaskId : t # k => armed'[t] = armed[t]
  <2>1. CASE PublishFails(s)
    BY <2>1 DEF PublishFails, rows
  <2>2. CASE Tell(s)
    <3>1. \/ armed' = armed \/ armed' = [armed EXCEPT ![k] = row.start]
          \/ armed' = [armed EXCEPT ![k] = Never]
      BY <1>3, <2>2 DEF Tell, PublishSchedule, PublishDelete
    <3> QED
      BY <1>5, <3>1
  <2> QED
    BY <2>1, <2>2
<1>8. ASSUME Alone, k \in Told' PROVE Settled(k)'
  <2>1. TellFits(sync[s]) /\ k \notin untold'
    BY <1>2, <1>3, <1>5, <1>8 DEF ArmedInv, ArmedHand, Told
  <2>2. Tell(s) /\ ~TooLate(s)
    BY <1>3, <2>1 DEF PublishFails, Tell
  <2>3. /\ row = tasks[k] /\ row.st = "live"
        /\ ~row.chat \/ row.muted => armed[k] = Never
    BY <1>3, <2>1 DEF TellFits
  <2>4. CASE sync[s].tell = "schedule" /\ (row.done => row.start <= now)
    <3>1. ~(row.start < now) /\ row.start \in Nat /\ now \in Int
      BY <1>3, <1>4, <2>2, <2>4 DEF TooLate, TaskRow, FlowInv, ImportInv, ImportTypeOK, Time
    <3>2. armed' = PublishSchedule(k, row)
      BY <1>3, <2>2, <2>4 DEF Tell
    <3>3. CASE row.chat /\ ~row.muted
      <4>1. armed' = [armed EXCEPT ![k] = IF row.start > now THEN row.start ELSE Never]
        BY <3>1, <3>2, <3>3 DEF PublishSchedule
      <4>2. armed'[k] = IF row.start > now THEN row.start ELSE Never
        BY <1>4, <1>5, <4>1
      <4>3. row.start > now => ~row.done
        BY <2>4, <3>1
      <4> QED
        BY <1>1, <2>3, <3>3, <4>2, <4>3 DEF Settled, ReminderOf
    <3>4. CASE ~(row.chat /\ ~row.muted)
      <4>1. armed' = armed
        BY <3>2, <3>4 DEF PublishSchedule
      <4> QED
        BY <1>1, <2>3, <3>4, <4>1 DEF Settled, ReminderOf
    <3> QED
      BY <3>3, <3>4
  <2>5. CASE sync[s].tell = "delete" /\ row.done
    <3>1. armed' = PublishDelete(k, row)
      BY <1>3, <2>2, <2>5 DEF Tell
    <3>2. armed'[k] = Never
      BY <1>4, <1>5, <2>3, <3>1 DEF PublishDelete
    <3> QED
      BY <1>1, <2>3, <2>5, <3>2 DEF Settled, ReminderOf
  <2> QED
    BY <1>3, <2>1, <2>4, <2>5 DEF TellFits
<1>9. ArmedHand(sync[s])'
  BY <1>6, NoHand
<1> QED
  BY <1>1, <1>3, <1>4, <1>7, <1>8, <1>9, ArmedSync

(* The worker is told before the row goes or is muted.                     *)
LEMMA SilencedNever ==
  ASSUME FlowInv, NEW t \in TaskId, tasks[t].st = "live", Settled(t), PolicyPc(t) # "next",
         armed' = Silenced(t)
  PROVE  armed'[t] = Never
<1>1. armed' = PublishDelete(t, tasks[t]) /\ armed \in [TaskId -> Nat \cup {Never}]
  BY DEF Silenced, FlowInv, ImportInv, ImportTypeOK
<1> QED
  BY <1>1 DEF PublishDelete, Settled, ReminderOf

LEMMA SilencedOthers ==
  ASSUME FlowInv, NEW t \in TaskId, armed' = Silenced(t)
  PROVE  /\ \A u \in TaskId : u # t => armed'[u] = armed[u]
         /\ PolicyPc(t) = "next" => armed' = armed
         /\ armed'[t] \in {armed[t], Never}
<1>1. armed \in [TaskId -> Nat \cup {Never}]
  BY DEF FlowInv, ImportInv, ImportTypeOK
<1>2. armed' = armed \/ armed' = [armed EXCEPT ![t] = Never]
  BY DEF Silenced, PublishDelete
<1> QED
  BY <1>1, <1>2 DEF Silenced

LEMMA ArmedPolicy ==
  ASSUME FlowInv, AloneInv, ArmedInv, NEW s \in Syncer, Policy(s)
  PROVE  ArmedInv'
<1>1. SyncStep(s) /\ tasks' = tasks /\ now' = now
  BY DEF SyncStep, Policy, world
<1>2. sync[s] \in Sync /\ Hand(sync[s]) /\ sync[s].pc = "policy"
  BY FlowTypes DEF FlowInv, Policy, Step
<1>3. PICK k : k = sync[s].id
  OBVIOUS
<1>4. k \in TaskId /\ tasks[k].st # "none" /\ k # NoTask
  BY <1>2, <1>3, HandTask DEF Hand, Left, IsTask
<1>5. Told' \subseteq Told
  BY <1>1, IsNext, ToldShrinks
<1>6. ~Half(sync[s].pc)
  BY <1>2 DEF Half
<1>7. ASSUME Alone, k \in Told PROVE Settled(k)
  BY <1>2, <1>3, <1>6, <1>7, HalfAlone DEF ArmedInv
<1>8. CASE ~Exists(k)
  <2>1. armed' = armed /\ sync'[s].pc = "unlink"
    BY <1>3, <1>8, PolicyDoes DEF Policy
  <2> QED
    BY <1>1, <1>6, <2>1, ArmedQuiet, NoHand
<1>9. CASE Exists(k) /\ PolicyPc(k) = "next"
  <2>1. armed' = armed
    BY <1>3, <1>4, <1>9, SilencedOthers DEF Policy
  <2>2. sync'[s].pc \in {"next", "failed"}
    BY <1>3, <1>9, PolicyDoes DEF Ended
  <2> QED
    BY <1>1, <1>6, <2>1, <2>2, ArmedQuiet, NoHand
<1>10. CASE Exists(k) /\ PolicyPc(k) # "next"
  <2>1. armed' = Silenced(k) /\ tasks[k].st = "live"
    BY <1>3, <1>10 DEF Policy, Exists
  <2>2. sync'[s].pc \in {"drop", "mute"} /\ sync'[s].id = k
    BY <1>3, <1>10, PolicyDoes
  <2>3. Alone /\ k \in Told => armed'[k] = Never
    BY <1>4, <1>7, <1>10, <2>1, SilencedNever
  <2>4. Alone => ArmedHand(sync[s])'
    BY <1>5, <2>2, <2>3 DEF ArmedHand
  <2>5. Half(sync'[s].pc) /\ sync'[s].id = k
    BY <2>2 DEF Half
  <2>6. \A t \in TaskId : t # k => armed'[t] = armed[t]
    BY <1>4, <2>1, SilencedOthers
  <2> QED
    BY <1>1, <1>4, <1>6, <2>4, <2>5, <2>6, ArmedSync
<1> QED
  BY <1>8, <1>9, <1>10

(* The row goes, or is muted, after the message.                           *)
LEMMA SilentRows ==
  ASSUME FlowInv, NEW k \in TaskId, NEW row \in TaskRow, armed[k] = Never, now' = now,
         armed' = armed, tasks[k].st # "none",
         \/ tasks' = DeleteTask(k)
         \/ tasks' = UpdateTask(k, [row EXCEPT !.muted = TRUE])
  PROVE  Settled(k)'
<1>1. tasks[k] \in TaskRow
  BY FlowTypes
<1>2. PICK g, m : g = [tasks[k] EXCEPT !.st = "gone"] /\ m = [row EXCEPT !.muted = TRUE]
  OBVIOUS
<1>3. PICK r : r = [m EXCEPT !.chat = tasks[k].chat]
  OBVIOUS
<1>4. g.st = "gone" /\ m \in TaskRow /\ r.muted
  BY <1>1, <1>2, <1>3 DEF TaskRow
<1>5. CASE Exists(k)
  <2>1. tasks' = [tasks EXCEPT ![k] = g] \/ tasks' = [tasks EXCEPT ![k] = r]
    BY <1>2, <1>3, <1>5 DEF DeleteTask, UpdateTask
  <2>2. tasks'[k] = g \/ tasks'[k] = r
    BY <2>1, FlowTypes
  <2> QED
    BY <1>4, <2>2 DEF Settled, ReminderOf
<1>6. CASE ~Exists(k)
  <2>1. tasks' = tasks /\ tasks[k].st # "live"
    BY <1>6 DEF DeleteTask, UpdateTask, Exists, TaskId, NoTask
  <2> QED
    BY <2>1 DEF Settled, ReminderOf
<1> QED
  BY <1>5, <1>6

(* Both leave the other tasks as they are.                                 *)
LEMMA OtherRows ==
  ASSUME FlowInv, NEW k \in TaskId \cup {NoTask}, NEW row, NEW t \in TaskId, t # k,
         \/ tasks' = DeleteTask(k)
         \/ tasks' = UpdateTask(k, row)
  PROVE  tasks'[t] = tasks[t]
<1>1. PICK g, r : /\ g = [tasks[k] EXCEPT !.st = "gone"]
                  /\ r = [row EXCEPT !.chat = tasks[k].chat]
  OBVIOUS
<1>2. tasks' = tasks \/ tasks' = [tasks EXCEPT ![k] = g] \/ tasks' = [tasks EXCEPT ![k] = r]
  BY <1>1 DEF DeleteTask, UpdateTask
<1> QED
  BY <1>2, FlowTypes

LEMMA ArmedLeave ==
  ASSUME FlowInv, AloneInv, ArmedInv, NEW s \in Syncer, Drop(s) \/ Mute(s)
  PROVE  ArmedInv'
<1>1. SyncStep(s) /\ armed' = armed /\ now' = now
  BY DEF SyncStep, Drop, Mute, world
<1>2. sync[s] \in Sync /\ Hand(sync[s]) /\ sync[s].pc \in {"drop", "mute"}
  BY FlowTypes DEF FlowInv, Drop, Mute, Step
<1>3. PICK k, row : k = sync[s].id /\ row = sync[s].row
  OBVIOUS
<1>4. k \in TaskId /\ tasks[k].st # "none" /\ k # NoTask /\ row \in TaskRow
  BY <1>2, <1>3, HandTask DEF Hand, Left, IsTask, Sync
<1>5. Told' \subseteq Told /\ TasksGrow
  BY <1>1, IsNext, ToldShrinks, StepGrows
<1>6. tasks' = DeleteTask(k) \/ tasks' = UpdateTask(k, [row EXCEPT !.muted = TRUE])
  BY <1>3 DEF Drop, Mute
<1>7. \A t \in TaskId : t # k => tasks'[t] = tasks[t]
  BY <1>4, <1>6, OtherRows
<1>8. ASSUME Alone, k \in Told PROVE Settled(k)'
  <2>1. armed[k] = Never
    BY <1>2, <1>3, <1>8 DEF ArmedInv, ArmedHand
  <2> QED
    BY <1>1, <1>4, <1>6, <2>1, SilentRows
<1>9. sync'[s].pc \in {"next", "failed"}
  BY LeaveDoes DEF Ended
<1>10. tasks'[k].st # "none"
  BY <1>4, <1>5 DEF TasksGrow
<1>11. ArmedHand(sync[s])'
  BY <1>9, NoHand
<1> QED
  BY <1>1, <1>3, <1>4, <1>5, <1>7, <1>8, <1>10, <1>11, ArmedSync

LEMMA ArmedSyncs ==
  ASSUME FlowInv, AloneInv, ArmedInv, NEW s \in Syncer,
         SyncStep(s) \/ SyncFails(s) \/ PublishFails(s)
  PROVE  ArmedInv'
BY ArmedPlain, ArmedTake, ArmedCreate, ArmedLink, ArmedRead, ArmedWrite, ArmedTell, ArmedPolicy,
   ArmedLeave, ArmedFails DEF SyncStep

(* A step outside the syncs that leaves every task but k as it is.         *)
LEMMA ArmedOther ==
  ASSUME FlowInv, AloneInv, ArmedInv, [Next]_vars, sync' = sync, links' = links, now' = now,
         NEW k \in TaskId \cup {NoTask},
         \A t \in TaskId : t # k => tasks'[t] = tasks[t] /\ armed'[t] = armed[t],
         k # NoTask => (tasks'[k].st = "none" => armed'[k] = Never),
         Alone' => /\ Alone
                   /\ \/ \A s \in Syncer : sync[s].pc = "idle"
                      \/ tasks' = tasks /\ armed' = armed
                   /\ ArmedRemoval'
                   /\ k \in Told' /\ ~(Half(removal'.pc) /\ removal'.id = k) => Settled(k)',
         Half(removal.pc) => removal.id = k \/ removal' = removal
  PROVE  ArmedInv'
<1>1. Told' \subseteq Told
  BY ToldShrinks
<1>2. \A t \in TaskId : tasks'[t].st = "none" => armed'[t] = Never
  <2> SUFFICES ASSUME NEW t \in TaskId, tasks'[t].st = "none" PROVE armed'[t] = Never
    OBVIOUS
  <2>1. t # NoTask
    BY DEF TaskId, NoTask
  <2> QED
    BY <2>1 DEF ArmedInv
<1>3. ASSUME Alone'
      PROVE  /\ \A t \in Told' \ InHalf' : Settled(t)'
             /\ \A r \in Syncer : ArmedHand(sync[r])'
  <2>1. /\ Alone
        /\ \/ \A s \in Syncer : sync[s].pc = "idle"
           \/ tasks' = tasks /\ armed' = armed
    BY <1>3
  <2>2. ASSUME NEW r \in Syncer PROVE ArmedHand(sync[r])'
    <3>1. CASE sync[r].pc = "idle"
      BY <3>1 DEF ArmedHand
    <3>2. CASE tasks' = tasks /\ armed' = armed
      <4>1. ArmedHand(sync[r]) /\ Sc' = Sc
        BY <2>1, SceneStays DEF ArmedInv, Sc
      <4>2. Fresh(sync[r].row)' <=> Fresh(sync[r].row)
        BY <4>1 DEF Fresh
      <4>3. TellFits(sync[r]) => TellFits(sync[r])'
        BY <3>2 DEF TellFits
      <4>4. WriteFits(sync[r]) => WriteFits(sync[r])'
        BY <3>2 DEF WriteFits, Exists, SameReminder
      <4>5. HasLink(sync[r].of)' <=> HasLink(sync[r].of)
        BY DEF HasLink
      <4> QED
        BY <1>1, <3>2, <4>1, <4>2, <4>3, <4>4, <4>5 DEF ArmedHand
    <3> QED
      BY <2>1, <3>1, <3>2
  <2>3. ASSUME NEW t \in Told' \ InHalf' PROVE Settled(t)'
    <3>1. CASE t = k
      <4>1. ~(Half(removal'.pc) /\ removal'.id = k)
        BY <2>3, <3>1 DEF InHalf
      <4> QED
        BY <1>3, <2>3, <3>1, <4>1
    <3>2. CASE t # k
      <4>1. t \notin InHalf /\ t \in TaskId /\ t \in Told
        BY <1>1, <2>3, <3>2 DEF Told, InHalf
      <4>2. Settled(t) /\ tasks'[t] = tasks[t] /\ armed'[t] = armed[t]
        BY <2>1, <3>2, <4>1 DEF ArmedInv
      <4> QED
        BY <4>2 DEF Settled, ReminderOf
    <3> QED
      BY <3>1, <3>2
  <2> QED
    BY <2>2, <2>3
<1> QED
  BY <1>2, <1>3 DEF ArmedInv

(* A step that leaves the tasks and the worker alone.                      *)
LEMMA ArmedSame ==
  ASSUME FlowInv, AloneInv, ArmedInv, [Next]_vars, sync' = sync, links' = links, now' = now,
         tasks' = tasks, armed' = armed, Alone' => Alone,
         \/ removal' = removal
         \/ ~Half(removal.pc) /\ removal'.pc \notin {"drop", "mute"}
  PROVE  ArmedInv'
<1>1. NoTask \in TaskId \cup {NoTask} /\ NoTask \notin Told'
  BY DEF Told, TaskId, NoTask
<1>2. Alone' => ArmedRemoval'
  BY ToldShrinks DEF ArmedInv, ArmedRemoval
<1> QED
  BY <1>1, <1>2, ArmedOther

LEMMA ArmedBegin ==
  ASSUME FlowInv, AloneInv, ArmedInv, Poll \/ ForceSync
  PROVE  ArmedInv'
<1>1. PICK s \in Syncer :
           /\ sync[s].pc = "idle" /\ Others(s) /\ sync'[s].pc = "open"
           /\ mixed' = (mixed \/ Busy)
           /\ UNCHANGED <<world, rows, removal, scene, cut, dropped>>
  BY BeginDoes
<1>2. tasks' = tasks /\ armed' = armed /\ now' = now /\ removal' = removal /\ scene' = scene
  BY <1>1 DEF rows, world
<1>3. [Next]_vars
  BY DEF Next
<1>4. Told' \subseteq Told
  BY <1>3, ToldShrinks
<1>5. ASSUME Alone'
      PROVE  /\ \A t \in Told' \ InHalf' : Settled(t)'
             /\ \A r \in Syncer : ArmedHand(sync[r])'
             /\ ArmedRemoval'
  <2>1. Alone /\ removal.pc = "idle" /\ \A r \in Syncer : sync[r].pc = "idle"
    BY <1>1, <1>5, Meets
  <2>2. InHalf = {}
    BY <2>1 DEF InHalf, Half
  <2>3. \A t \in Told : Settled(t)
    BY <2>1, <2>2 DEF ArmedInv
  <2>4. \A t \in Told' : Settled(t)'
    BY <1>2, <1>4, <2>3 DEF Settled, ReminderOf
  <2>5. \A r \in Syncer : ArmedHand(sync[r])'
    BY <1>1, <2>1 DEF ArmedHand, Others
  <2>6. ArmedRemoval'
    BY <1>2, <2>1 DEF ArmedRemoval
  <2> QED
    BY <2>4, <2>5, <2>6
<1> QED
  BY <1>2, <1>5 DEF ArmedInv

LEMMA ArmedCrash ==
  ASSUME FlowInv, AloneInv, ArmedInv, Crash
  PROVE  ArmedInv'
<1>1. /\ tasks' = tasks /\ armed' = armed /\ now' = now /\ mixed' = mixed
      /\ untold' = untold \cup InHalf /\ \A s \in Syncer : sync'[s].pc = "idle"
      /\ removal'.pc = "idle"
  BY DEF Crash, rows, world, NoSync, NoRemoval
<1>2. Told' \subseteq Told \ InHalf
  BY <1>1, ToldShrinks DEF Next, World, Told
<1>3. \A t : Settled(t) => Settled(t)'
  BY <1>1 DEF Settled, ReminderOf
<1>4. \A s \in Syncer : ArmedHand(sync[s])'
  BY <1>1 DEF ArmedHand
<1>5. ArmedRemoval'
  BY <1>1 DEF ArmedRemoval
<1> QED
  BY <1>1, <1>2, <1>3, <1>4, <1>5 DEF ArmedInv, Alone

(* The clock: what is late is over.                                        *)
LEMMA ArmedTick ==
  ASSUME FlowInv, AloneInv, ArmedInv, Tick
  PROVE  ArmedInv'
<1>1. /\ tasks' = tasks /\ links' = links /\ sync' = sync /\ removal' = removal
      /\ mixed' = mixed /\ scene' = scene /\ untold' = untold
      /\ now' = now + 1 /\ now \in Int
      /\ \A t \in TaskId : armed'[t] = IF armed[t] <= now' THEN Never ELSE armed[t]
  BY DEF Tick, notes, FlowInv, ImportInv, ImportTypeOK, Time
<1>2. tasks \in [TaskId -> TaskRow] /\ Told' = Told /\ InHalf' = InHalf /\ Told \subseteq TaskId
  BY <1>1, FlowTypes DEF Told, GivenChat, Sc, InHalf
<1>3. \A t \in TaskId : armed[t] = Never => armed'[t] = Never
  BY <1>1 DEF Never
<1>4. ASSUME NEW t \in TaskId, Settled(t) PROVE Settled(t)'
  <2>1. PICK w : w = tasks[t]
    OBVIOUS
  <2>2. w.start \in Nat
    BY <1>2, <2>1 DEF TaskRow
  <2>3. CASE w.st = "live" /\ ~w.done /\ w.chat /\ ~w.muted /\ w.start > now
    <3>1. armed[t] = w.start
      BY <1>4, <2>1, <2>3 DEF Settled, ReminderOf
    <3>2. armed'[t] = IF w.start > now' THEN w.start ELSE Never
      BY <1>1, <2>2, <3>1
    <3> QED
      BY <1>1, <2>1, <2>3, <3>2 DEF Settled, ReminderOf
  <2>4. CASE ~(w.st = "live" /\ ~w.done /\ w.chat /\ ~w.muted /\ w.start > now)
    <3>1. armed[t] = Never
      BY <1>4, <2>1, <2>4 DEF Settled, ReminderOf
    <3>2. w.start > now' => w.start > now
      BY <1>1, <2>2
    <3> QED
      BY <1>1, <1>3, <2>1, <2>4, <3>1, <3>2 DEF Settled, ReminderOf
  <2> QED
    BY <2>3, <2>4
<1>5. ASSUME NEW s \in Syncer, ArmedHand(sync[s]) PROVE ArmedHand(sync[s])'
  <2>1. PICK q : q = sync[s]
    OBVIOUS
  <2>2. q.row.start \in Nat /\ sync'[s] = q
    BY <1>1, <2>1, FlowTypes DEF Sync, TaskRow
  <2>3. q.row.start <= now => q.row.start <= now'
    BY <1>1, <2>2
  <2>5. Fresh(q.row) => Fresh(q.row)'
    BY <1>1, <2>3 DEF Fresh, Sc
  <2>6. q.id \in Told /\ TellFits(q) => TellFits(q)'
    BY <1>1, <1>2, <1>3, <2>3 DEF TellFits
  <2>7. WriteFits(q) => WriteFits(q)'
    BY <1>1 DEF WriteFits, Exists, SameReminder
  <2>8. HasLink(q.of)' <=> HasLink(q.of)
    BY <1>1 DEF HasLink
  <2> QED
    BY <1>2, <1>3, <1>5, <2>1, <2>2, <2>5, <2>6, <2>7, <2>8 DEF ArmedHand
<1>6. ArmedRemoval => ArmedRemoval'
  BY <1>1, <1>2, <1>3 DEF ArmedRemoval
<1> QED
  BY <1>1, <1>2, <1>3, <1>4, <1>5, <1>6 DEF ArmedInv, Alone

LEMMA RemovalAlone ==
  ASSUME AloneInv, Alone, removal.pc # "idle"
  PROVE  /\ \A s \in Syncer : sync[s].pc = "idle"
         /\ \A t : t \in InHalf <=> Half(removal.pc) /\ t = removal.id
<1>1. \A s \in Syncer : sync[s].pc = "idle"
  BY DEF AloneInv
<1> QED
  BY <1>1 DEF InHalf, Half

LEMMA ArmedRmRead ==
  ASSUME FlowInv, AloneInv, ArmedInv, RmRead
  PROVE  ArmedInv'
<1>1. PICK k \in removal.todo :
        /\ Rm("read", [removal EXCEPT !.todo = @ \ {k}, !.id = k, !.row = tasks[k],
                         !.pc = IF ~Exists(k) \/ PolicyPc(k) = "next" THEN "read" ELSE PolicyPc(k)])
        /\ armed' = IF Exists(k) THEN Silenced(k) ELSE armed
        /\ UNCHANGED <<world, binding, revoked, links, tasks, sync, notes>>
  BY DEF RmRead
<1>2. removal \in Removal /\ k \in TaskId /\ tasks[k].st # "none" /\ k # NoTask
  BY <1>1, FlowTypes DEF Removal, FlowInv, RemovalHand, TaskId, NoTask
<1>3. /\ [Next]_vars /\ sync' = sync /\ links' = links /\ now' = now /\ tasks' = tasks
      /\ mixed' = mixed /\ removal.pc = "read"
  BY <1>1 DEF Next, RemovalStep, world, notes, Rm
<1>4. PICK pc, row, todo : /\ pc = IF ~Exists(k) \/ PolicyPc(k) = "next" THEN "read" ELSE PolicyPc(k)
                           /\ row = tasks[k] /\ todo = removal.todo \ {k}
  OBVIOUS
<1>5. removal'.pc = pc /\ removal'.id = k
  <2>1. PICK q : q = [removal EXCEPT !.todo = todo, !.id = k, !.row = row, !.pc = pc]
    OBVIOUS
  <2>2. q.pc = pc /\ q.id = k
    BY <1>2, <2>1 DEF Removal
  <2>3. removal' = q
    BY <1>1, <1>4, <2>1 DEF Rm
  <2> QED
    BY <2>2, <2>3
<1>6. \A t \in TaskId : t # k => armed'[t] = armed[t]
  BY <1>1, <1>2, SilencedOthers
<1>7. Told' \subseteq Told
  BY <1>3, ToldShrinks
<1>8. ASSUME Alone'
      PROVE  /\ Alone /\ \A s \in Syncer : sync[s].pc = "idle"
             /\ ArmedRemoval'
             /\ k \in Told' /\ ~(Half(removal'.pc) /\ removal'.id = k) => Settled(k)'
  <2>1. Alone /\ \A s \in Syncer : sync[s].pc = "idle"
    BY <1>3, <1>8, RemovalAlone DEF Alone
  <2>2. k \in Told => Settled(k)
    BY <1>3, <2>1, RemovalAlone DEF ArmedInv, Half
  <2>3. CASE Exists(k) /\ PolicyPc(k) # "next"
    <3>1. pc \in {"drop", "mute"} /\ Half(pc)
      BY <1>4, <2>3 DEF PolicyPc, Half
    <3>2. k \in Told => armed'[k] = Never
      BY <1>1, <1>2, <2>2, <2>3, SilencedNever DEF Exists
    <3> QED
      BY <1>5, <1>7, <2>1, <3>1, <3>2 DEF ArmedRemoval
  <2>4. CASE ~(Exists(k) /\ PolicyPc(k) # "next")
    <3>1. armed' = armed /\ pc = "read"
      BY <1>1, <1>2, <1>4, <2>4, SilencedOthers
    <3> QED
      BY <1>3, <1>5, <1>7, <2>1, <2>2, <3>1 DEF ArmedRemoval, Settled, ReminderOf
  <2> QED
    BY <2>3, <2>4
<1>9. ~Half(removal.pc)
  BY <1>3 DEF Half
<1> QED
  BY <1>2, <1>3, <1>6, <1>8, <1>9, ArmedOther

LEMMA ArmedRmTask ==
  ASSUME FlowInv, AloneInv, ArmedInv, RmTask
  PROVE  ArmedInv'
<1>1. PICK k, row : k = removal.id /\ row = removal.row
  OBVIOUS
<1>2. removal.pc \in {"drop", "mute"} /\ removal \in Removal
  BY FlowTypes DEF RmTask, Rm
<1>3. k \in TaskId /\ row \in TaskRow /\ tasks[k].st # "none" /\ k # NoTask
  BY <1>1, <1>2 DEF FlowInv, ImportInv, RemovalOK, Half, RemovalHand, Removal
<1>4. /\ [Next]_vars /\ sync' = sync /\ links' = links /\ now' = now /\ armed' = armed
      /\ mixed' = mixed
  BY DEF RmTask, Next, RemovalStep, world
<1>5. removal'.pc = "read"
  <2>1. removal' = [removal EXCEPT !.pc = "read"]
    BY DEF RmTask, Rm
  <2> QED
    BY <1>2, <2>1 DEF Removal
<1>6. tasks' = DeleteTask(k) \/ tasks' = UpdateTask(k, [row EXCEPT !.muted = TRUE])
  BY <1>1 DEF RmTask
<1>7. \A t \in TaskId : t # k => tasks'[t] = tasks[t]
  BY <1>3, <1>6, OtherRows
<1>8. Told' \subseteq Told /\ TasksGrow
  BY <1>4, ToldShrinks, StepGrows
<1>9. tasks'[k].st # "none"
  BY <1>3, <1>8 DEF TasksGrow
<1>10. ASSUME Alone'
       PROVE  /\ Alone /\ \A s \in Syncer : sync[s].pc = "idle"
              /\ ArmedRemoval'
              /\ k \in Told' => Settled(k)'
  <2>1. Alone /\ \A s \in Syncer : sync[s].pc = "idle"
    BY <1>2, <1>4, <1>10, RemovalAlone DEF Alone
  <2>2. ArmedRemoval'
    BY <1>5 DEF ArmedRemoval
  <2>3. ASSUME k \in Told' PROVE Settled(k)'
    <3>1. armed[k] = Never
      BY <1>1, <1>2, <1>8, <2>1, <2>3 DEF ArmedInv, ArmedRemoval
    <3> QED
      BY <1>3, <1>4, <1>6, <3>1, SilentRows
  <2> QED
    BY <2>1, <2>2, <2>3
<1> QED
  BY <1>1, <1>3, <1>4, <1>7, <1>9, <1>10, ArmedOther

LEMMA ArmedRmFails ==
  ASSUME FlowInv, AloneInv, ArmedInv, RemovalFails
  PROVE  ArmedInv'
<1>1. PICK k : k = removal.id
  OBVIOUS
<1>2. removal.pc # "idle" /\ k \in TaskId \cup {NoTask}
  BY <1>1, FlowTypes DEF RemovalFails, Removal
<1>3. /\ [Next]_vars /\ sync' = sync /\ links' = links /\ now' = now /\ armed' = armed
      /\ tasks' = tasks /\ mixed' = mixed /\ removal'.pc = "idle"
      /\ Half(removal.pc) => k \in untold'
  BY <1>1 DEF RemovalFails, Next, World, world, rows, NoRemoval
<1>4. Told' \subseteq Told
  BY <1>3, ToldShrinks
<1>5. ASSUME Alone'
      PROVE  /\ Alone /\ \A s \in Syncer : sync[s].pc = "idle"
             /\ ArmedRemoval'
             /\ k \in Told' => Settled(k)'
  <2>1. Alone /\ \A s \in Syncer : sync[s].pc = "idle"
    BY <1>2, <1>3, <1>5, RemovalAlone DEF Alone
  <2>2. ArmedRemoval'
    BY <1>3 DEF ArmedRemoval
  <2>3. ASSUME k \in Told' PROVE Settled(k)'
    <3>1. ~Half(removal.pc) /\ k \in Told
      BY <1>3, <1>4, <2>3 DEF Told
    <3>2. Settled(k)
      BY <1>2, <2>1, <3>1, RemovalAlone DEF ArmedInv
    <3> QED
      BY <1>3, <3>2 DEF Settled, ReminderOf
  <2> QED
    BY <2>1, <2>2, <2>3
<1>6. k # NoTask => (tasks'[k].st = "none" => armed'[k] = Never)
  BY <1>2, <1>3 DEF ArmedInv
<1> QED
  BY <1>1, <1>2, <1>3, <1>5, <1>6, ArmedOther

(* The user, who is alone.                                                 *)
LEMMA ArmedUser ==
  ASSUME FlowInv, AloneInv, ArmedInv, NEW k \in TaskId, UserCompletes(k) \/ UserDeletes(k)
  PROVE  ArmedInv'
<1>1. PICK d, g : d = [tasks[k] EXCEPT !.done = TRUE] /\ g = [tasks[k] EXCEPT !.st = "gone"]
  OBVIOUS
<1>2. /\ [Next]_vars /\ sync' = sync /\ links' = links /\ now' = now
      /\ mixed' = (mixed \/ Busy) /\ removal' = removal
      /\ armed' = [armed EXCEPT ![k] = Never]
      /\ tasks' = [tasks EXCEPT ![k] = d] \/ tasks' = [tasks EXCEPT ![k] = g]
  BY <1>1 DEF UserCompletes, UserDeletes, DeleteTask, Next, World, world
<1>3. /\ tasks \in [TaskId -> TaskRow] /\ tasks[k] \in TaskRow
      /\ armed \in [TaskId -> Nat \cup {Never}]
  BY FlowTypes DEF FlowInv, ImportInv, ImportTypeOK
<1>4. /\ d.done /\ g.st = "gone"
      /\ \A t \in TaskId : t # k => tasks'[t] = tasks[t] /\ armed'[t] = armed[t]
      /\ armed'[k] = Never /\ (tasks'[k] = d \/ tasks'[k] = g)
  BY <1>1, <1>2, <1>3 DEF TaskRow
<1>5. Settled(k)'
  BY <1>4 DEF Settled, ReminderOf
<1>6. ASSUME Alone'
      PROVE  Alone /\ (\A s \in Syncer : sync[s].pc = "idle") /\ ArmedRemoval'
  <2>1. Alone /\ (\A s \in Syncer : sync[s].pc = "idle") /\ removal.pc = "idle"
    BY <1>2, <1>6, Meets
  <2> QED
    BY <1>2, <2>1 DEF ArmedRemoval
<1> QED
  BY <1>2, <1>4, <1>5, <1>6, ArmedOther

LEMMA ArmedStep ==
  ASSUME FlowInv, AloneInv, ArmedInv, [Next]_vars
  PROVE  ArmedInv'
<1>1. CASE \E e \in Event : EditEvent(e)
  <2>1. PICK e : \E row : Edit(e, row)
    BY <1>1 DEF EditEvent
  <2>2. /\ sync' = sync /\ links' = links /\ now' = now /\ tasks' = tasks /\ armed' = armed
        /\ removal' = removal /\ mixed' = mixed
    BY <2>1, Zenon DEF Edit, rows, notes
  <2> QED
    BY <2>2, ArmedSame DEF Alone
<1>2. CASE Rename
  <2>1. /\ sync' = sync /\ links' = links /\ now' = now /\ tasks' = tasks /\ armed' = armed
        /\ removal' = removal /\ mixed' = mixed
    BY <1>2 DEF Rename, rows
  <2> QED
    BY <2>1, ArmedSame DEF Alone
<1>3. CASE \E op \in {"delete", "disconnect"} : StartRemoval(op)
  <2>1. PICK op \in {"delete", "disconnect"} : StartRemoval(op)
    BY <1>3
  <2>2. /\ sync' = sync /\ links' = links /\ now' = now /\ tasks' = tasks /\ armed' = armed
        /\ mixed' = (mixed \/ Busy) /\ removal.pc = "idle"
    BY <2>1 DEF StartRemoval, rows, world, Rm
  <2>3. removal'.pc \in {"binding", "revoke"}
    <3>1. PICK pc : pc = IF op = "disconnect" /\ binding.st = "disconnected" THEN "revoke" ELSE "binding"
      OBVIOUS
    <3>2. removal' = [NoRemoval EXCEPT !.op = op, !.pc = pc]
      BY <2>1, <3>1 DEF StartRemoval, Rm
    <3> QED
      BY <3>1, <3>2 DEF NoRemoval
  <2>4. Alone' => Alone
    BY <2>2, Meets
  <2> QED
    BY <2>2, <2>3, <2>4, ArmedSame DEF Half
<1>4. CASE RmBinding \/ RmLinks \/ RmLast \/ RmRevoke
  <2>1. /\ sync' = sync /\ links' = links /\ now' = now /\ tasks' = tasks /\ armed' = armed
        /\ mixed' = mixed
    BY <1>4 DEF RmBinding, RmLinks, RmLast, RmRevoke, rows, world, notes
  <2>2. ~Half(removal.pc)
    BY <1>4 DEF RmBinding, RmLinks, RmLast, RmRevoke, Rm, Half
  <2>3. removal'.pc \in {"idle", "links", "read", "revoke"}
    <3>1. removal \in Removal
      BY FlowTypes
    <3>2. \/ removal' = NoRemoval
          \/ removal' = [removal EXCEPT !.pc = "links"]
          \/ removal' = [removal EXCEPT !.pc = "read", !.todo = RemovedTasks]
          \/ removal' = [removal EXCEPT !.pc = "revoke"]
      BY <1>4 DEF RmBinding, RmLinks, RmLast, RmRevoke, Rm
    <3>3. NoRemoval.pc = "idle"
      BY DEF NoRemoval
    <3>4. PICK todo : todo = RemovedTasks
      OBVIOUS
    <3>5. /\ [removal EXCEPT !.pc = "links"].pc = "links"
          /\ [removal EXCEPT !.pc = "read", !.todo = todo].pc = "read"
          /\ [removal EXCEPT !.pc = "revoke"].pc = "revoke"
      BY <3>1 DEF Removal
    <3> QED
      BY <3>2, <3>3, <3>4, <3>5, Zenon
  <2> QED
    BY <2>1, <2>2, <2>3, ArmedSame DEF Alone
<1>5. CASE UNCHANGED vars
  <2>1. /\ sync' = sync /\ links' = links /\ now' = now /\ tasks' = tasks /\ armed' = armed
        /\ removal' = removal /\ mixed' = mixed
    BY <1>5 DEF vars
  <2> QED
    BY <2>1, ArmedSame DEF Alone
<1>6. CASE \E s \in Syncer : SyncStep(s) \/ SyncFails(s) \/ PublishFails(s)
  BY <1>6, ArmedSyncs
<1>7. CASE \E t \in TaskId : UserCompletes(t) \/ UserDeletes(t)
  BY <1>7, ArmedUser
<1> QED
  BY <1>1, <1>2, <1>3, <1>4, <1>5, <1>6, <1>7, ArmedBegin, ArmedCrash, ArmedTick, ArmedRmRead,
     ArmedRmTask, ArmedRmFails DEF Next, World, RemovalStep

LEMMA ArmedStart == Init => ArmedInv
<1> SUFFICES ASSUME Init PROVE ArmedInv
  OBVIOUS
<1>1. /\ armed = [t \in TaskId |-> ReminderOf(Sc.tasks[t])] /\ tasks = Sc.tasks
      /\ \A s \in Syncer : sync[s].pc = "idle"
      /\ removal.pc = "idle"
  BY DEF Init, NoSync, NoRemoval
<1>2. \A t \in TaskId : Settled(t)
  BY <1>1 DEF Settled
<1>3. \A t \in TaskId : tasks[t].st = "none" => armed[t] = Never
  BY <1>2 DEF Settled, ReminderOf
<1> QED
  BY <1>1, <1>2, <1>3 DEF ArmedInv, ArmedHand, ArmedRemoval, Told

(* When nothing runs, the worker holds the start of exactly the open tasks *)
(* that have a chat and are not muted, unless a message was lost or late,  *)
(* or a row was not written after it.                                      *)
THEOREM ImportArmedCorrect == Spec => []ImportArmed
<1> DEFINE I == FlowInv /\ AloneInv /\ ArmedInv
<1>1. Init => I
  BY FlowStart, AloneStart, ArmedStart
<1>2. I /\ [Next]_vars => I'
  BY FlowStep, AloneStep, ArmedStep
<1>3. I => ImportArmed
  <2> SUFFICES ASSUME I, Alone, ~Busy, NEW t \in TaskId \ (untold \cup GivenChat)
               PROVE  armed[t] = ReminderOf(tasks[t])
    BY DEF ImportArmed
  <2>1. InHalf = {}
    BY DEF Busy, Running, InHalf, Half
  <2> QED
    BY <2>1 DEF ArmedInv, Told, Settled
<1> HIDE DEF I
<1> QED
  BY <1>1, <1>2, <1>3, PTL DEF Spec

=============================================================================
