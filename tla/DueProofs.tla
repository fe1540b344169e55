----------------------------- MODULE DueProofs ------------------------------
(***************************************************************************)
(* Theorems about the sample worker, for any tasks, messages, periods,     *)
(* batch sizes and faults: the types, the payloads, the anti-duplicate     *)
(* key, and that nothing scheduled is lost nor deleted is sent.            *)
(***************************************************************************)
EXTENDS DueProperties, SequenceTheorems, TLAPS

USE DueStoreAssumption

(* What the two keys of the store hold. *)
StoreInv ==
  /\ due  \in [Job -> Nat \cup {NoTime}]
  /\ body \in [Job -> Read \cup {NoBody}]
  /\ DueHasBody

(* The types, and what the threads carry between their steps. *)
DueInv ==
  /\ TypeOK
  /\ StoreInv
  /\ cons.pc # "idle" => cons.rev # 0
  /\ cons.pc = "pre" /\ cons.msg.kind = "schedule" => cons.start # NoTime
  /\ InHand => poll.hand.body \in Read
  /\ poll.pc = "gone" => poll.ids # <<>>

(* The two jobs of a task are jobs. *)
LEMMA JobsOfTask == \A t \in Task : Main(t) \in Job /\ Pre(t) \in Job /\ Main(t) # Pre(t)
BY DEF Main, Pre, Job

(* A job has a task. *)
LEMMA TaskOfJob == \A j \in Job : j[1] \in Task /\ (j = Main(j[1]) \/ j = Pre(j[1]))
BY DEF Main, Pre, Job

(* The placeholders have the types of what they stand for. *)
LEMMA Placeholders ==
  /\ NoBody \in Payload /\ NoBody \notin Read /\ Read \subseteq Payload
  /\ NoMsg \in MessageType
  /\ NoHand \in [job : Job, body : Payload]
<1>1. (CHOOSE t \in Task : TRUE) \in Task
  OBVIOUS
<1> QED
  BY <1>1, JobsOfTask DEF NoBody, Payload, Read, NoMsg, MessageType, NoHand, Rule, NoTime

(* Whole periods are natural numbers. *)
LEMMA DivNat == ASSUME NEW a \in Nat PROVE a \div Period \in Nat
BY Z3

(* The next occurrence is a time. *)
LEMMA NextRecurrenceNat ==
  ASSUME NEW r \in Rule, NEW a \in Nat, NEW s \in Nat
  PROVE  NextRecurrence(r, a, s) \in Nat
<1>1. NextCron(a) \in Nat
  BY DivNat DEF NextCron
<1>2. NextRRule(a, s) \in Nat
  <2>1. CASE s > a
    BY <2>1 DEF NextRRule
  <2>2. CASE ~(s > a)
    <3>1. (a - s) \div Period \in Nat
      BY <2>2, DivNat
    <3> QED
      BY <2>2, <3>1 DEF NextRRule
  <2> QED
    BY <2>1, <2>2
<1> QED
  BY <1>1, <1>2 DEF NextRecurrence

(* The first fire time of a message that is accepted is a time. *)
LEMMA FirstFireNat ==
  ASSUME NEW m \in MessageType, now \in Nat, m.kind = "schedule", Usable(m)
  PROVE  FirstFire(m) \in Nat
<1>1. m.start # NoTime => m.start \in Nat
  BY DEF MessageType
<1>2. m.rule \in Rule
  BY DEF MessageType
<1>3. NextRecurrence(m.rule, now, now) \in Nat
  BY <1>2, NextRecurrenceNat
<1> DEFINE start == IF m.start = NoTime THEN NextRecurrence(m.rule, now, now) ELSE m.start
<1>4. start \in Nat
  BY <1>1, <1>3
<1>5. NextRecurrence(m.rule, now, start) \in Nat
  BY <1>2, <1>4, NextRecurrenceNat
<1> QED
  BY <1>4, <1>5 DEF FirstFire

(* What a job is armed for next. *)
LEMMA NextFireType ==
  ASSUME NEW p \in Read, now \in Nat
  PROVE  NextFire(p) \in Nat \cup {NoTime}
BY NextRecurrenceNat DEF NextFire, Read, Payload

(* Upsert keeps the two keys together. *)
LEMMA UpsertStore ==
  ASSUME StoreInv, NEW j \in Job, NEW at \in Nat, NEW p \in Read, Upsert(j, at, p)
  PROVE  StoreInv'
BY Placeholders DEF StoreInv, Upsert, DueHasBody

(* Remove does. *)
LEMMA RemoveStore ==
  ASSUME StoreInv, NEW j \in Job, Remove(j)
  PROVE  StoreInv'
BY DEF StoreInv, Remove, DueHasBody

(* _sync_pre_remind does, and touches no other job. *)
LEMMA SyncPreStore ==
  ASSUME StoreInv, NEW t \in Task, NEW at \in Nat, NEW p \in Read, NEW clock \in Nat,
         SyncPre(t, at, p, clock)
  PROVE  /\ StoreInv'
         /\ \A j \in Job : j # Pre(t) => due'[j] = due[j] /\ body'[j] = body[j]
         /\ due'[Pre(t)] # NoTime => body'[Pre(t)].rev = p.rev
<1> DEFINE q == [p EXCEPT !.rule = "none"]
<1>0. Pre(t) \in Job
  BY JobsOfTask
<1>1. q \in Read /\ q.rev = p.rev
  BY DEF Read, Payload, Rule
<1>2. CASE p.before = 0 \/ at - p.before <= clock
  <2>1. Remove(Pre(t))
    BY <1>2 DEF SyncPre
  <2>2. due'[Pre(t)] = NoTime /\ \A j \in Job : j # Pre(t) => due'[j] = due[j] /\ body'[j] = body[j]
    BY <2>1, <1>0 DEF Remove, StoreInv
  <2> QED
    BY <2>1, <2>2, <1>0, RemoveStore
<1>3. CASE ~(p.before = 0 \/ at - p.before <= clock)
  <2>1. Upsert(Pre(t), at - p.before, q)
    BY <1>3 DEF SyncPre
  <2>2. at - p.before \in Nat
    BY <1>3 DEF Read, Payload
  <2>3. StoreInv'
    BY <2>1, <2>2, <1>0, <1>1, UpsertStore
  <2>4. body'[Pre(t)] = q /\ \A j \in Job : j # Pre(t) => due'[j] = due[j] /\ body'[j] = body[j]
    BY <2>1, <1>0 DEF Upsert, StoreInv
  <2> QED
    BY <2>3, <2>4, <1>1
<1> QED
  BY <1>2, <1>3

LEMMA InitDueInv == Init => DueInv
<1> SUFFICES ASSUME Init PROVE DueInv
  OBVIOUS
<1> USE DEF Init
<1>1. Idle \in [pc : {"idle", "main", "pre"}, msg : MessageType, rev : Nat,
                start : Nat \cup {NoTime}, at : Nat]
  BY Placeholders DEF Idle, NoTime
<1>2. Resting \in [pc : {"idle", "read", "gone", "fire", "send", "post", "retry", "after", "afterpre"},
                   ids : Seq(Job), list : Seq([job : Job, body : Read]),
                   hand : [job : Job, body : Payload], next : Nat \cup {NoTime}, at : Nat]
  BY Placeholders DEF Resting, NoTime
<1>3. StoreInv
  BY Placeholders DEF StoreInv, DueHasBody
<1>4. TypeOK
  BY <1>1, <1>2, Placeholders DEF TypeOK, NoTime
<1> QED
  BY <1>3, <1>4 DEF DueInv, Idle, Resting, InHand

(* The types without the store. *)
ConsType == [pc : {"idle", "main", "pre"}, msg : MessageType, rev : Nat,
             start : Nat \cup {NoTime}, at : Nat]
PollType == [pc : {"idle", "read", "gone", "fire", "send", "post", "retry", "after", "afterpre"},
             ids : Seq(Job), list : Seq([job : Job, body : Read]),
             hand : [job : Job, body : Payload], next : Nat \cup {NoTime}, at : Nat]

ConsInv ==
  /\ cons \in ConsType
  /\ cons.pc # "idle" => cons.rev # 0
  /\ cons.pc = "pre" /\ cons.msg.kind = "schedule" => cons.start # NoTime

PollInv ==
  /\ poll \in PollType
  /\ InHand => poll.hand.body \in Read
  /\ poll.pc = "gone" => poll.ids # <<>>

PlainInv ==
  /\ dupe \in [Job -> Nat] /\ now \in Nat /\ rev \in Nat /\ failed \in Nat
  /\ want \in [Task -> [kind : {"schedule", "delete"}, rev : Nat]]
  /\ shaken \subseteq Task
  /\ sent \in [Job -> Nat] /\ skipped \in [Job -> Nat]
  /\ ackedAt \in [Job -> (Nat \cup {NoTime}) \X (Nat \cup {NoTime})]

(* DueInv, taken apart. *)
LEMMA DueInvParts == DueInv <=> StoreInv /\ ConsInv /\ PollInv /\ PlainInv
<1>1. body \in [Job -> Read \cup {NoBody}] => body \in [Job -> Payload]
  BY Placeholders
<1> QED
  BY <1>1, Zenon DEF DueInv, TypeOK, StoreInv, ConsInv, PollInv, PlainInv, ConsType, PollType

(* The same of the next state. *)
LEMMA DueInvNext == StoreInv' /\ ConsInv' /\ PollInv' /\ PlainInv' => DueInv'
BY DueInvParts, PTL

(* The idle threads are well formed. *)
LEMMA IdleTypes == Idle \in ConsType /\ Idle.pc = "idle" /\ Resting \in PollType /\ Resting.pc = "idle"
BY Placeholders DEF Idle, Resting, ConsType, PollType, NoTime

(* A message that arrives. *)
LEMMA ReceiveInv == ASSUME DueInv, NEW m \in Message, Receive(m) PROVE DueInv'
<1> USE DueInvParts
<1>1. m \in MessageType
  OBVIOUS
<1>2. ConsInv'
  <2>1. cons' = [pc |-> "main", msg |-> m, rev |-> rev + 1, start |-> NoTime, at |-> 0]
    BY DEF Receive, Idle
  <2>2. rev \in Nat
    BY DEF PlainInv
  <2> QED
    BY <1>1, <2>1, <2>2 DEF ConsInv, ConsType, NoTime
<1>3. StoreInv' /\ PollInv' /\ PlainInv'
  BY SMTT(30) DEF Receive, StoreInv, DueHasBody, PollInv, InHand, PlainInv
<1> QED
  BY <1>2, <1>3, DueInvNext

(* What a step leaves alone keeps its part of the invariant. *)
LEMMA SameStore == StoreInv /\ UNCHANGED <<due, body>> => StoreInv'
BY DEF StoreInv, DueHasBody

LEMMA SameCons == ConsInv /\ UNCHANGED cons => ConsInv'
BY DEF ConsInv

LEMMA SamePoll == PollInv /\ UNCHANGED poll => PollInv'
BY DEF PollInv, InHand

(* A consumer or a poller that ends. *)
LEMMA EndsIdle == (cons' = Idle => ConsInv') /\ (poll' = Resting => PollInv')
BY IdleTypes DEF ConsInv, PollInv, InHand

(* The history of touched tasks stays one of tasks. *)
LEMMA TouchTasks ==
  ASSUME NEW t \in Task, NEW fresh \in BOOLEAN, shaken \subseteq Task, Touch(t, fresh)
  PROVE  shaken' \subseteq Task
BY DEF Touch

(* The consumer's steps. *)
LEMMA ConsumeInv == ASSUME DueInv, Consume PROVE DueInv'
<1>0. StoreInv /\ ConsInv /\ PollInv /\ PlainInv /\ now \in Nat /\ rev \in Nat
  BY DueInvParts DEF PlainInv
<1>t. cons.msg \in MessageType /\ cons.msg.task \in Task /\ cons.msg.kind \in {"schedule", "delete"}
  BY <1>0 DEF ConsInv, ConsType, MessageType
<1>j. Main(cons.msg.task) \in Job /\ Pre(cons.msg.task) \in Job
  BY <1>t, JobsOfTask
<1>q. poll' = poll => PollInv'
  BY <1>0, SamePoll
<1>1. CASE Refuse
  <2>1. StoreInv' /\ PollInv' /\ ConsInv'
    BY <1>0, <1>1, SameStore, SamePoll, EndsIdle DEF Refuse
  <2>2. PlainInv'
    BY <1>0, <1>1 DEF Refuse, PlainInv
  <2> QED
    BY <2>1, <2>2, DueInvNext
<1>2. CASE ScheduleMain
  <2>1. PICK f \in Nat : f = FirstFire(cons.msg)
    BY <1>0, <1>2, <1>t, FirstFireNat DEF ScheduleMain
  <2>2. cons' = [cons EXCEPT !.pc = "pre", !.start = f, !.at = now]
    BY <1>2, <2>1 DEF ScheduleMain
  <2>9. cons \in ConsType /\ cons.rev # 0
    BY <1>0, <1>2 DEF ConsInv, ScheduleMain
  <2>a. cons' = [pc |-> "pre", msg |-> cons.msg, rev |-> cons.rev, start |-> f, at |-> now]
    BY <2>2, <2>9 DEF ConsType
  <2>b. cons' \in ConsType
    BY <1>0, <1>t, <2>a, <2>9 DEF ConsType
  <2>3. cons'.start = f /\ ConsInv'
    BY <2>a, <2>b, <2>9 DEF ConsInv, NoTime
  <2>4. [NewBody EXCEPT !.start = cons'.start] \in Read
    BY <1>0, <1>2, <2>1, <2>3 DEF NewBody, Read, Payload, ConsInv, ConsType, MessageType, NoTime, ScheduleMain
  <2>5. StoreInv'
    BY <1>0, <1>2, <1>j, <2>1, <2>3, <2>4, UpsertStore DEF ScheduleMain
  <2>6. PlainInv'
    BY <1>0, <1>2, <1>t, TouchTasks DEF ScheduleMain, PlainInv
  <2> QED
    BY <1>2, <1>q, <2>3, <2>5, <2>6, DueInvNext DEF ScheduleMain
<1>3. CASE SchedulePre
  <2>1. NewBody \in Read /\ cons.start \in Nat /\ cons.at \in Nat
    BY <1>0, <1>3 DEF SchedulePre, NewBody, Read, Payload, ConsInv, ConsType, MessageType
  <2>2. StoreInv'
    BY <1>0, <1>3, <1>t, <2>1, SyncPreStore DEF SchedulePre
  <2>3. PlainInv'
    BY <1>0, <1>3, <1>t, TouchTasks DEF SchedulePre, PlainInv, Handled, ConsInv, ConsType
  <2>4. ConsInv'
    BY <1>3, EndsIdle DEF SchedulePre
  <2> QED
    BY <1>3, <1>q, <2>2, <2>3, <2>4, DueInvNext DEF SchedulePre
<1>4. CASE DeleteMain
  <2>1. StoreInv'
    BY <1>0, <1>4, <1>j, RemoveStore DEF DeleteMain
  <2>2. PlainInv'
    BY <1>0, <1>4, <1>t, TouchTasks DEF DeleteMain, PlainInv
  <2>3. ConsInv'
    BY <1>0, <1>4 DEF DeleteMain, ConsInv, ConsType
  <2> QED
    BY <1>4, <1>q, <2>1, <2>2, <2>3, DueInvNext DEF DeleteMain
<1>5. CASE DeletePre
  <2>1. StoreInv'
    BY <1>0, <1>5, <1>j, RemoveStore DEF DeletePre
  <2>2. PlainInv'
    BY <1>0, <1>5, <1>t, TouchTasks DEF DeletePre, PlainInv, Handled, ConsInv, ConsType
  <2>3. ConsInv'
    BY <1>5, EndsIdle DEF DeletePre
  <2> QED
    BY <1>5, <1>q, <2>1, <2>2, <2>3, DueInvNext DEF DeletePre
<1> QED
  BY <1>1, <1>2, <1>3, <1>4, <1>5 DEF Consume

(* A poll reads jobs. *)
LEMMA BatchesAreJobs == ASSUME NEW s \in DueBatches PROVE s \in Seq(Job)
<1>1. PICK n \in 1..Limit : s \in [1..n -> DueJobs]
  BY DEF DueBatches
<1>2. DueJobs \subseteq Job
  BY DEF DueJobs
<1> QED
  BY <1>1, <1>2

(* The poller's steps that do not touch the store. *)
LEMMA PollPlainInv ==
  ASSUME DueInv, PollRead \/ ReadBody \/ ReadAll \/ PollDone \/ EndSeries
  PROVE  DueInv'
<1>0. StoreInv /\ ConsInv /\ PollInv /\ PlainInv
  BY DueInvParts
<1> USE DEF PollRead, ReadBody, ReadAll, PollDone, EndSeries
<1>1. StoreInv' /\ ConsInv' /\ PlainInv'
  BY <1>0, SameStore, SameCons DEF PlainInv
<1>2. CASE PollRead
  <2>1. PICK s \in DueBatches : poll' = [Resting EXCEPT !.pc = "read", !.ids = s]
    BY <1>2
  <2>2. s \in Seq(Job)
    BY BatchesAreJobs
  <2> QED
    <3>1. PollInv'
      BY <2>1, <2>2, IdleTypes DEF PollInv, PollType, InHand
    <3> QED
      BY <3>1, <1>1, DueInvNext
<1>3. CASE ReadBody
  <2>1. Head(poll.ids) \in Job /\ Tail(poll.ids) \in Seq(Job)
    BY <1>0, <1>3, HeadTailProperties DEF PollInv, PollType
  <2>2. CASE body[Head(poll.ids)] = NoBody
    <3>1. PollInv'
      BY <1>0, <1>3, <2>2 DEF PollInv, PollType, InHand
    <3> QED
      BY <3>1, <1>1, DueInvNext
  <2>3. CASE body[Head(poll.ids)] # NoBody
    <3> DEFINE e == [job |-> Head(poll.ids), body |-> body[Head(poll.ids)]]
    <3>1. e \in [job : Job, body : Read]
      BY <1>0, <2>1, <2>3 DEF StoreInv
    <3>2. Append(poll.list, e) \in Seq([job : Job, body : Read])
      BY <1>0, <3>1, AppendProperties DEF PollInv, PollType
    <3>3. poll' = [poll EXCEPT !.ids = Tail(@), !.list = Append(@, e)]
      BY <1>3, <2>3
    <3>4. PollInv'
      BY <1>0, <1>3, <2>1, <3>2, <3>3 DEF PollInv, PollType, InHand
    <3> QED
      BY <3>4, <1>1, DueInvNext
  <2> QED
    BY <2>2, <2>3
<1>4. CASE ReadAll
  <2>1. PollInv'
    BY <1>0, <1>4 DEF PollInv, PollType, InHand
  <2> QED
    BY <2>1, <1>1, DueInvNext
<1>5. CASE PollDone \/ EndSeries
  <2>1. PollInv'
    BY <1>5, EndsIdle
  <2> QED
    BY <2>1, <1>1, DueInvNext
<1> QED
  BY <1>2, <1>3, <1>4, <1>5

(* The steps that set or drop the key of the job in hand, or fail to. *)
KeyStep == SetKey \/ SetKeyFails \/ DeliveryFails \/ DropKeyFails

(* They do nothing else. *)
LEMMA KeySteps ==
  ASSUME DueInv, KeyStep
  PROVE  /\ UNCHANGED <<due, body, now, cons, rev, want, shaken, sent, skipped, ackedAt>>
         /\ dupe' \in [Job -> Nat] /\ failed' \in Nat
         /\ poll.pc \in {"send", "post"} /\ poll'.pc \in {"post", "retry"}
         /\ poll' \in PollType /\ poll'.ids = poll.ids /\ poll'.list = poll.list
         /\ poll'.hand = poll.hand /\ poll'.next = poll.next /\ InHand /\ InHand'
<1>0. /\ poll \in PollType /\ poll.hand.job \in Job /\ now \in Nat /\ failed \in Nat
      /\ dupe \in [Job -> Nat]
  BY DueInvParts DEF PollInv, PollType, PlainInv
<1>1. now + DupeTTL \in Nat /\ LiveKey \in [Job -> Nat]
  BY <1>0 DEF LiveKey
<1>2. dupe' \in [Job -> Nat]
  BY <1>0, <1>1 DEF KeyStep, SetKey, SetKeyFails, DeliveryFails, DropKeyFails
<1>3. /\ UNCHANGED <<due, body, now, cons, rev, want, shaken, sent, skipped, ackedAt>>
      /\ failed' \in Nat /\ poll.pc \in {"send", "post"}
  BY <1>0 DEF KeyStep, SetKey, SetKeyFails, DeliveryFails, DropKeyFails
<1>4. PICK p \in {"post", "retry"}, a \in Nat : poll' = [poll EXCEPT !.pc = p, !.at = a]
  <2>1. CASE SetKey
    BY <1>0, <2>1 DEF SetKey
  <2>2. CASE DeliveryFails \/ DropKeyFails
    BY <2>2 DEF DeliveryFails, DropKeyFails
  <2>3. CASE SetKeyFails
    BY <1>0, <2>3 DEF SetKeyFails, PollType
  <2> QED
    BY <2>1, <2>2, <2>3 DEF KeyStep
<1> QED
  BY <1>0, <1>2, <1>3, <1>4 DEF PollType, InHand

LEMMA KeyStepInv == ASSUME DueInv, KeyStep PROVE DueInv'
<1>0. StoreInv /\ ConsInv /\ PollInv /\ PlainInv
  BY DueInvParts
<1>1. StoreInv' /\ ConsInv'
  BY <1>0, KeySteps, SameStore, SameCons
<1>2. PollInv'
  BY <1>0, KeySteps DEF PollInv
<1>3. PlainInv'
  BY <1>0, KeySteps DEF PlainInv
<1> QED
  BY <1>1, <1>2, <1>3, DueInvNext

(* The poller's steps on the store and the keys. *)
LEMMA PollStoreInv ==
  ASSUME DueInv, DropGone \/ Claim \/ SkipDuplicate \/ Deliver \/ PutBack \/ AfterSend \/ AfterSendPre
  PROVE  DueInv'
<1>0. StoreInv /\ ConsInv /\ PollInv /\ PlainInv /\ now \in Nat /\ shaken \subseteq Task
  BY DueInvParts DEF PlainInv
<1>p. poll \in PollType /\ poll.hand.job \in Job /\ NoHand \in [job : Job, body : Payload]
  BY <1>0, Placeholders DEF PollInv, PollType
<1>h. InHand => poll.hand.body \in Read
  BY <1>0 DEF PollInv
<1>s. body \in [Job -> Read \cup {NoBody}] /\ due \in [Job -> Nat \cup {NoTime}]
  BY <1>0 DEF StoreInv
<1>1. CASE DropGone
  <2>1. poll.ids # <<>> /\ Head(poll.ids) \in Job /\ Tail(poll.ids) \in Seq(Job)
    BY <1>0, <1>1, HeadTailProperties DEF PollInv, PollType, DropGone
  <2>2. PollInv'
    BY <1>p, <1>1, <2>1 DEF PollInv, PollType, InHand, DropGone
  <2>3. StoreInv'
    BY <1>0, <1>1, <2>1 DEF StoreInv, DueHasBody, DropGone
  <2>4. ConsInv' /\ PlainInv'
    BY <1>0, <1>1, SameCons DEF DropGone, PlainInv
  <2> QED
    BY <2>2, <2>3, <2>4, DueInvNext
<1>2. CASE Claim
  <2> DEFINE e == Head(poll.list)
  <2>1. e \in [job : Job, body : Read] /\ Tail(poll.list) \in Seq([job : Job, body : Read])
    BY <1>p, <1>2, HeadTailProperties DEF PollType, Claim
  <2>2. e.job \in Job /\ e.job[1] \in Task /\ e.body \in Read /\ e \in [job : Job, body : Payload]
    BY <2>1, TaskOfJob, Placeholders
  <2> HIDE DEF e
  <2>3. CASE due[e.job] = NoTime
    <3>1. poll' = [poll EXCEPT !.list = Tail(@)] /\ UNCHANGED <<due, body, shaken, cons>>
      BY <1>2, <2>3 DEF Claim, e
    <3>2. PollInv'
      BY <1>0, <1>2, <2>1, <3>1 DEF PollInv, PollType, InHand, Claim
    <3>3. PlainInv'
      BY <1>0, <1>2, <3>1 DEF PlainInv, Claim
    <3> QED
      BY <1>0, <3>1, <3>2, <3>3, SameStore, SameCons, DueInvNext
  <2>4. CASE due[e.job] # NoTime
    <3>1. /\ due' = [due EXCEPT ![e.job] = NoTime] /\ UNCHANGED <<body, cons>>
          /\ poll' = [poll EXCEPT !.pc = "send", !.list = Tail(@), !.hand = e]
          /\ shaken' \in {shaken, shaken \cup {e.job[1]}}
      BY <1>2, <2>4 DEF Claim, e
    <3>2. PollInv'
      BY <1>p, <2>1, <2>2, <3>1 DEF PollInv, PollType, InHand
    <3>3. PlainInv'
      BY <1>0, <1>2, <2>2, <3>1 DEF PlainInv, Claim
    <3>4. StoreInv'
      BY <1>0, <2>2, <3>1 DEF StoreInv, DueHasBody
    <3> QED
      BY <1>0, <3>1, <3>2, <3>3, <3>4, SameCons, DueInvNext
  <2> QED
    BY <2>3, <2>4
<1>3. CASE SkipDuplicate
  <2>1. poll.hand.body.rev \in Nat
    BY <1>h, <1>3 DEF InHand, SkipDuplicate, Read, Payload
  <2>2. PollInv'
    BY <1>p, <1>h, <1>3 DEF PollInv, PollType, InHand, SkipDuplicate
  <2>3. PlainInv'
    BY <1>0, <1>p, <1>3, <2>1 DEF PlainInv, SkipDuplicate
  <2> QED
    BY <1>0, <1>3, <2>2, <2>3, SameStore, SameCons, DueInvNext DEF SkipDuplicate
<1>4. CASE Deliver
  <2>1. poll.hand.body.rev \in Nat
    BY <1>h, <1>4 DEF InHand, Deliver, Read, Payload
  <2>2. PollInv'
    BY <1>p, <1>h, <1>4 DEF PollInv, PollType, InHand, Deliver
  <2>3. ackedAt[poll.hand.job][2] \in Nat \cup {NoTime}
    BY <1>0, <1>p DEF PlainInv
  <2>4. PlainInv'
    BY <1>0, <1>p, <1>4, <2>1, <2>3 DEF PlainInv, Deliver
  <2> QED
    BY <1>0, <1>4, <2>2, <2>4, SameStore, SameCons, DueInvNext DEF Deliver
<1>5. CASE PutBack
  <2>1. StoreInv'
    <3>1. now + Retry \in Nat
      BY <1>0
    <3>2. poll.hand.body \in Read /\ Upsert(poll.hand.job, now + Retry, poll.hand.body)
      BY <1>h, <1>5 DEF PutBack, InHand
    <3> QED
      BY <1>0, <1>p, <3>1, <3>2, UpsertStore
  <2>2. PollInv'
    BY <1>p, <1>5 DEF PollInv, PollType, InHand, PutBack
  <2>3. ConsInv' /\ PlainInv'
    BY <1>0, <1>5, SameCons DEF PutBack, PlainInv
  <2> QED
    BY <2>1, <2>2, <2>3, DueInvNext
<1>6. CASE AfterSend
  <2>1. poll.hand.body \in Read
    BY <1>h, <1>6 DEF AfterSend, InHand
  <2>2. PICK n \in Nat \cup {NoTime} : n = NextFire(poll.hand.body)
    BY <1>0, <2>1, NextFireType
  <2>3. ConsInv' /\ PlainInv'
    BY <1>0, <1>6, SameCons DEF AfterSend, PlainInv
  <2>4. Remove(poll.hand.job) \/ (n # NoTime /\ Upsert(poll.hand.job, n, poll.hand.body))
    BY <1>6, <2>2 DEF AfterSend
  <2>5. StoreInv'
    BY <1>0, <1>p, <2>1, <2>4, UpsertStore, RemoveStore
  <2>6. \/ poll' = [poll EXCEPT !.pc = "fire", !.hand = NoHand]
        \/ poll' = [poll EXCEPT !.pc = "afterpre", !.next = n]
    BY <1>6, <2>2 DEF AfterSend
  <2>7. PollInv'
    <3>1. CASE poll' = [poll EXCEPT !.pc = "fire", !.hand = NoHand]
      BY <1>p, <3>1 DEF PollInv, PollType, InHand
    <3>2. CASE poll' = [poll EXCEPT !.pc = "afterpre", !.next = n]
      BY <1>p, <2>1, <3>2 DEF PollInv, PollType, InHand
    <3> QED
      BY <2>6, <3>1, <3>2
  <2> QED
    BY <2>3, <2>5, <2>7, DueInvNext
<1>7. CASE AfterSendPre
  <2>1. poll.hand.body \in Read /\ poll.hand.job[1] \in Task /\ Pre(poll.hand.job[1]) \in Job
    BY <1>h, <1>p, <1>7, TaskOfJob, JobsOfTask DEF AfterSendPre, InHand
  <2>2. poll.next # NoTime => poll.next \in Nat
    BY <1>p DEF PollType
  <2>3. \/ poll.next \in Nat /\ SyncPre(poll.hand.job[1], poll.next, poll.hand.body, now)
        \/ Remove(Pre(poll.hand.job[1]))
    BY <1>7, <2>2 DEF AfterSendPre
  <2>4. StoreInv'
    BY <1>0, <2>1, <2>3, SyncPreStore, RemoveStore
  <2>5. PollInv'
    BY <1>p, <1>7 DEF PollInv, PollType, InHand, AfterSendPre, NoTime
  <2>6. ConsInv' /\ PlainInv'
    BY <1>0, <1>7, SameCons DEF AfterSendPre, PlainInv
  <2> QED
    BY <2>4, <2>5, <2>6, DueInvNext
<1> QED
  BY <1>1, <1>2, <1>3, <1>4, <1>5, <1>6, <1>7

(* Failures, crashes and the clock. *)
LEMMA FaultInv == ASSUME DueInv, ConsumerFails \/ PollerFails \/ Crash \/ Tick PROVE DueInv'
<1>0. StoreInv /\ ConsInv /\ PollInv /\ PlainInv
  BY DueInvParts
<1>1. cons.msg.task \in Task /\ poll.hand.job[1] \in Task
  BY <1>0, TaskOfJob DEF ConsInv, ConsType, MessageType, PollInv, PollType
<1>2. Dropped \subseteq Task
  BY <1>1 DEF Dropped
<1>3. StoreInv'
  BY <1>0, SameStore DEF ConsumerFails, PollerFails, Crash, Tick
<1>4. PollInv'
  BY <1>0, EndsIdle, SamePoll DEF ConsumerFails, PollerFails, Crash, Tick
<1>5. ConsInv'
  <2>1. CASE Crash /\ cons.pc # "idle"
    BY <1>0, <2>1 DEF Crash, ConsInv, ConsType
  <2>2. CASE ~(Crash /\ cons.pc # "idle")
    BY <1>0, <2>2, EndsIdle, SameCons DEF ConsumerFails, PollerFails, Crash, Tick
  <2> QED
    BY <2>1, <2>2
<1>6. PlainInv'
  <2>1. poll.hand.job \in Job
    BY <1>0 DEF PollInv, PollType
  <2>2. CASE Crash
    <3>2. shaken' \subseteq Task
      BY <1>0, <1>1, <1>2, <2>2 DEF Crash, PlainInv
    <3> QED
      BY <1>0, <2>2, <3>2 DEF Crash, PlainInv
  <2>3. CASE ConsumerFails \/ PollerFails \/ Tick
    BY <1>0, <1>1, <1>2, <2>3 DEF ConsumerFails, PollerFails, Tick, PlainInv
  <2> QED
    BY <2>2, <2>3
<1> QED
  BY <1>3, <1>4, <1>5, <1>6, DueInvNext

(* The invariant is one of every behaviour. *)
LEMMA DueInvInductive == Spec => []DueInv
<1>1. DueInv /\ [Next]_vars => DueInv'
  <2> SUFFICES ASSUME DueInv, [Next]_vars PROVE DueInv'
    OBVIOUS
  <2>1. CASE Next
    BY <2>1, ReceiveInv, ConsumeInv, PollPlainInv, PollStoreInv, KeyStepInv, FaultInv DEF Next, Poll, KeyStep
  <2>2. CASE UNCHANGED vars
    BY <2>2 DEF vars, DueInv, TypeOK, StoreInv, DueHasBody, InHand
  <2> QED
    BY <2>1, <2>2
<1> QED
  BY <1>1, InitDueInv, PTL DEF Spec

(* Every variable keeps its type; what the poller is about to fire has a   *)
(* payload, although a job may vanish between its two reads.               *)
THEOREM DueTypeCorrect == Spec => []TypeOK
BY DueInvInductive, PTL DEF DueInv

(* A job that can be found has its payload, in every state, and so has     *)
(* every job the poller is about to fire.                                  *)
LEMMA DueInvNoEmptyJob == DueInv => NoEmptyJob
<1> SUFFICES ASSUME DueInv PROVE NoEmptyJob
  OBVIOUS
<1>1. DueHasBody
  BY DEF DueInv, StoreInv
<1>2. poll.list \in Seq([job : Job, body : Read])
  BY DEF DueInv, TypeOK
<1>3. ASSUME NEW k \in DOMAIN poll.list PROVE poll.list[k].body # NoBody
  <2>0. k \in 1 .. Len(poll.list)
    BY <1>2, <1>3, LenProperties
  <2>1. poll.list[k] \in [job : Job, body : Read]
    BY <1>2, <2>0, ElementOfSeq
  <2> QED
    BY <2>1 DEF Read, NoBody
<1> QED
  BY <1>1, <1>3 DEF NoEmptyJob

(* No job is fired without a payload, although jobs may vanish between the *)
(* reading of the ids and the reading of the payloads.                     *)
THEOREM NoEmptyJobCorrect == Spec => []NoEmptyJob
BY DueInvInductive, DueInvNoEmptyJob, PTL

(* The time a job in hand is waited for, and the key it has set. *)
PostInv ==
  poll.pc = "post" =>
    /\ poll.at <= now /\ now <= poll.at + PostTime
    /\ dupe[poll.hand.job] = poll.at + DupeTTL
    /\ ackedAt[poll.hand.job][2] # NoTime =>
         poll.at + PostTime >= ackedAt[poll.hand.job][2] + DupeTTL

(* Until the life of a key after an acknowledged delivery, less the time   *)
(* its answer took, the job has a key.                                     *)
KeyInv == \A j \in Job :
  /\ ackedAt[j][2] # NoTime =>
       dupe[j] + PostTime >= ackedAt[j][2] + DupeTTL \/ now + PostTime >= ackedAt[j][2] + DupeTTL
  /\ ackedAt[j][1] # NoTime =>
       ackedAt[j][2] # NoTime /\ ackedAt[j][2] - ackedAt[j][1] >= DupeTTL - PostTime

(* Without failures a live key is that of the POST in hand, or of an       *)
(* acknowledged delivery.                                                  *)
SkipInv ==
  failed = 0 => \A j \in Job : dupe[j] > now =>
    \/ poll.pc = "post" /\ poll.hand.job = j
    \/ ackedAt[j][2] # NoTime /\ dupe[j] <= ackedAt[j][2] + DupeTTL

KeysInv == PostInv /\ KeyInv /\ SkipInv

(* The types the keys are proved with. *)
LEMMA KeyTypes ==
  ASSUME DueInv
  PROVE  /\ dupe \in [Job -> Nat] /\ now \in Nat /\ poll \in PollType /\ poll.at \in Nat
         /\ poll.hand.job \in Job /\ failed \in Nat
         /\ ackedAt \in [Job -> (Nat \cup {NoTime}) \X (Nat \cup {NoTime})]
         /\ \A j \in Job : dupe[j] \in Nat /\ ackedAt[j][1] \in Nat \cup {NoTime}
                           /\ ackedAt[j][2] \in Nat \cup {NoTime}
BY DueInvParts DEF PlainInv, PollInv, PollType

(* A key is set before the POST, or Redis fails to say so. *)
LEMMA SetKeyKeys == ASSUME DueInv, KeysInv, SetKey \/ SetKeyFails PROVE KeysInv'
<1> USE KeyTypes
<1> DEFINE h == poll.hand.job
<1>0. KeyInv /\ SkipInv /\ h \in Job /\ poll.pc = "send"
  BY DEF KeysInv, SetKey, SetKeyFails
<1>1. UNCHANGED <<now, ackedAt>> /\ poll'.hand = poll.hand
  BY KeySteps DEF KeyStep, SetKey, SetKeyFails
<1> HIDE DEF h
<1>2. CASE UNCHANGED dupe
  <2>1. SetKeyFails \/ (SetKey /\ dupe' = LiveKey)
    BY DEF SetKey
  <2>2. CASE SetKeyFails
    <3>1. poll'.pc = "retry" /\ failed' # 0
      BY <2>2 DEF SetKeyFails, PollType
    <3> QED
      BY <1>0, <1>1, <1>2, <3>1 DEF KeysInv, PostInv, KeyInv, SkipInv
  <2>3. CASE SetKey /\ dupe' = LiveKey
    <3>1. dupe'[h] = now + DupeTTL /\ dupe[h] <= now
      BY <1>0, <2>3 DEF LiveKey, SetKey, h
    <3> QED
      BY <1>0, <1>2, <3>1
  <2> QED
    BY <2>1, <2>2, <2>3
<1>3. CASE dupe' = LiveKey /\ dupe[h] <= now
  <2>1. dupe'[h] = now + DupeTTL /\ \A j \in Job : j # h => dupe'[j] = dupe[j]
    BY <1>0, <1>3 DEF LiveKey, h
  <2>2. KeyInv'
    <3> SUFFICES ASSUME NEW j \in Job, ackedAt[j][2] # NoTime
                 PROVE  dupe'[j] + PostTime >= ackedAt[j][2] + DupeTTL
                        \/ now + PostTime >= ackedAt[j][2] + DupeTTL
      BY <1>0, <1>1 DEF KeyInv
    <3>1. dupe[j] + PostTime >= ackedAt[j][2] + DupeTTL \/ now + PostTime >= ackedAt[j][2] + DupeTTL
      BY <1>0 DEF KeyInv
    <3>2. CASE j = h
      BY <1>0, <1>3, <2>1, <3>1, <3>2 DEF NoTime
    <3>3. CASE j # h
      BY <2>1, <3>1, <3>3
    <3> QED
      BY <3>2, <3>3
  <2>3. CASE SetKeyFails
    <3>1. poll'.pc = "retry" /\ failed' # 0
      BY <2>3 DEF SetKeyFails, PollType
    <3> QED
      BY <2>2, <3>1 DEF KeysInv, PostInv, SkipInv
  <2>4. CASE SetKey
    <3>1. poll'.pc = "post" /\ poll'.at = now /\ failed' = failed
      BY <2>4 DEF SetKey, PollType
    <3>2. ackedAt[h][2] # NoTime => now + PostTime >= ackedAt[h][2] + DupeTTL
      <4>1. ackedAt[h][2] # NoTime =>
              dupe[h] + PostTime >= ackedAt[h][2] + DupeTTL \/ now + PostTime >= ackedAt[h][2] + DupeTTL
        BY <1>0 DEF KeyInv, h
      <4> QED
        BY <1>0, <1>3, <4>1 DEF NoTime
    <3>3. PostInv'
      BY <1>0, <1>1, <2>1, <3>1, <3>2 DEF PostInv, h
    <3>4. SkipInv'
      <4> SUFFICES ASSUME failed = 0, NEW j \in Job, dupe'[j] > now
                   PROVE  h = j \/ (ackedAt[j][2] # NoTime /\ dupe'[j] <= ackedAt[j][2] + DupeTTL)
        BY <1>1, <3>1 DEF SkipInv, h
      <4> QED
        BY <1>0, <2>1 DEF SkipInv
    <3> QED
      BY <2>2, <3>3, <3>4 DEF KeysInv
  <2> QED
    BY <2>3, <2>4
<1> QED
  BY <1>2, <1>3 DEF SetKey, SetKeyFails, h

(* An answer: the delivery counts from now, its key from the POST. *)
LEMMA DeliverKeys == ASSUME DueInv, KeysInv, Deliver PROVE KeysInv'
<1> USE KeyTypes
<1> DEFINE h == poll.hand.job
<1>0. /\ PostInv /\ KeyInv /\ SkipInv /\ h \in Job /\ poll.pc = "post" /\ poll'.pc = "after"
      /\ UNCHANGED <<dupe, now, failed>>
      /\ \A j \in Job : j # h => ackedAt'[j] = ackedAt[j]
      /\ ackedAt'[h] = <<ackedAt[h][2], now>>
  BY DEF KeysInv, Deliver, PollType
<1>1. ackedAt'[h][1] = ackedAt[h][2] /\ ackedAt'[h][2] = now /\ now # NoTime
  BY <1>0 DEF NoTime
<1>2. /\ poll.at <= now /\ now <= poll.at + PostTime /\ dupe[h] = poll.at + DupeTTL
      /\ ackedAt[h][2] # NoTime => poll.at + PostTime >= ackedAt[h][2] + DupeTTL
  BY <1>0 DEF PostInv
<1> HIDE DEF h
<1>3. KeyInv'
  <2> SUFFICES ASSUME NEW j \in Job
               PROVE  /\ ackedAt'[j][2] # NoTime =>
                           dupe[j] + PostTime >= ackedAt'[j][2] + DupeTTL
                           \/ now + PostTime >= ackedAt'[j][2] + DupeTTL
                      /\ ackedAt'[j][1] # NoTime =>
                           ackedAt'[j][2] # NoTime /\ ackedAt'[j][2] - ackedAt'[j][1] >= DupeTTL - PostTime
    BY <1>0 DEF KeyInv
  <2>1. CASE j = h
    <3>1. dupe[h] + PostTime >= now + DupeTTL
      BY <1>2
    <3>2. ackedAt[h][2] # NoTime => now - ackedAt[h][2] >= DupeTTL - PostTime
      BY <1>0, <1>2 DEF NoTime
    <3> QED
      BY <1>1, <2>1, <3>1, <3>2
  <2>2. CASE j # h
    BY <1>0, <2>2 DEF KeyInv
  <2> QED
    BY <2>1, <2>2
<1>4. SkipInv'
  <2> SUFFICES ASSUME failed = 0, NEW j \in Job, dupe[j] > now
               PROVE  ackedAt'[j][2] # NoTime /\ dupe[j] <= ackedAt'[j][2] + DupeTTL
    BY <1>0 DEF SkipInv
  <2>1. CASE j = h
    BY <1>1, <1>2, <2>1
  <2>2. CASE j # h
    BY <1>0, <2>2 DEF SkipInv, h
  <2> QED
    BY <2>1, <2>2
<1> QED
  BY <1>0, <1>3, <1>4 DEF KeysInv, PostInv

(* No answer, or an error: the key goes, or Redis fails to drop it. *)
LEMMA DropKeyKeys == ASSUME DueInv, KeysInv, DeliveryFails \/ DropKeyFails PROVE KeysInv'
<1> USE KeyTypes
<1> DEFINE h == poll.hand.job
<1>0. PostInv /\ KeyInv /\ SkipInv /\ h \in Job /\ poll.pc = "post"
  BY DEF KeysInv, DeliveryFails, DropKeyFails
<1>1. UNCHANGED <<now, ackedAt>> /\ poll'.pc = "retry"
  BY DEF DeliveryFails, DropKeyFails, PollType
<1>2. ackedAt[h][2] # NoTime => now + PostTime >= ackedAt[h][2] + DupeTTL
  BY <1>0 DEF PostInv, NoTime
<1>3. \/ dupe' = dupe /\ failed' # 0
      \/ dupe' = [dupe EXCEPT ![h] = 0] /\ failed' = failed
  BY DEF DeliveryFails, DropKeyFails
<1> HIDE DEF h
<1>4. CASE dupe' = dupe /\ failed' # 0
  BY <1>0, <1>1, <1>4 DEF KeysInv, PostInv, KeyInv, SkipInv
<1>5. CASE dupe' = [dupe EXCEPT ![h] = 0] /\ failed' = failed
  <2>1. dupe'[h] = 0 /\ \A j \in Job : j # h => dupe'[j] = dupe[j]
    BY <1>0, <1>5
  <2>2. KeyInv'
    BY <1>0, <1>1, <1>2, <2>1 DEF KeyInv
  <2>3. SkipInv'
    <3> SUFFICES ASSUME failed = 0, NEW j \in Job, dupe'[j] > now
                 PROVE  ackedAt[j][2] # NoTime /\ dupe'[j] <= ackedAt[j][2] + DupeTTL
      BY <1>1, <1>5 DEF SkipInv
    <3>1. j # h
      BY <2>1
    <3> QED
      BY <1>0, <2>1, <3>1 DEF SkipInv, h
  <2> QED
    BY <1>1, <2>2, <2>3 DEF KeysInv, PostInv
<1> QED
  BY <1>3, <1>4, <1>5

(* A tick waits for the POST in hand. *)
LEMMA TickKeys == ASSUME DueInv, KeysInv, Tick PROVE KeysInv'
<1> USE KeyTypes
<1>0. /\ PostInv /\ KeyInv /\ SkipInv /\ now' = now + 1
      /\ UNCHANGED <<dupe, poll, ackedAt, failed>>
      /\ poll.pc = "post" => now < poll.at + PostTime
  BY DEF KeysInv, Tick
<1>1. PostInv'
  BY <1>0 DEF PostInv
<1>2. KeyInv'
  <2> SUFFICES ASSUME NEW j \in Job, ackedAt[j][2] # NoTime
               PROVE  dupe[j] + PostTime >= ackedAt[j][2] + DupeTTL
                      \/ now + 1 + PostTime >= ackedAt[j][2] + DupeTTL
    BY <1>0 DEF KeyInv
  <2>1. dupe[j] + PostTime >= ackedAt[j][2] + DupeTTL \/ now + PostTime >= ackedAt[j][2] + DupeTTL
    BY <1>0 DEF KeyInv
  <2> QED
    BY <2>1 DEF NoTime
<1>3. SkipInv'
  BY <1>0 DEF SkipInv
<1> QED
  BY <1>1, <1>2, <1>3 DEF KeysInv

(* The other steps neither set a key nor acknowledge, nor do they end a    *)
(* POST, unless they are failures that cut the poller off.                 *)
LEMMA OtherKeys ==
  ASSUME DueInv, KeysInv, UNCHANGED <<dupe, now, ackedAt>>,
         \/ poll'.pc = poll.pc /\ poll'.hand = poll.hand /\ poll'.at = poll.at
         \/ poll.pc # "post" /\ poll'.pc # "post"
         \/ poll'.pc # "post" /\ failed' # 0,
         failed' = failed \/ failed' # 0
  PROVE  KeysInv'
BY DEF KeysInv, PostInv, KeyInv, SkipInv

LEMMA KeysStep == ASSUME DueInv, KeysInv, [Next]_vars PROVE KeysInv'
<1>0. poll \in PollType /\ failed \in Nat /\ Resting.pc = "idle"
  BY KeyTypes, IdleTypes
<1>1. CASE SetKey \/ SetKeyFails
  BY <1>1, SetKeyKeys
<1>2. CASE Deliver
  BY <1>2, DeliverKeys
<1>3. CASE DeliveryFails \/ DropKeyFails
  BY <1>3, DropKeyKeys
<1>4. CASE Tick
  BY <1>4, TickKeys
<1>5. CASE \/ \E m \in Message : Receive(m)
           \/ Consume \/ UNCHANGED vars
  <2>1. UNCHANGED <<dupe, now, ackedAt, poll, failed>>
    BY <1>5 DEF vars, Receive, Consume, Refuse, ScheduleMain, SchedulePre, DeleteMain, DeletePre
  <2> QED
    BY <2>1, OtherKeys
<1>9. CASE ConsumerFails
  <2>1. UNCHANGED <<dupe, now, ackedAt, poll>> /\ failed' # 0
    BY <1>0, <1>9 DEF ConsumerFails
  <2> QED
    BY <2>1, OtherKeys
<1>6. CASE PollRead
  <2>1. PICK s \in DueBatches : poll' = [Resting EXCEPT !.pc = "read", !.ids = s]
    BY <1>6 DEF PollRead
  <2>2. poll.pc # "post" /\ poll'.pc # "post" /\ UNCHANGED <<dupe, now, ackedAt, failed>>
    BY <1>6, <2>1 DEF PollRead, Resting
  <2> QED
    BY <2>2, OtherKeys
<1>7. CASE \/ ReadBody \/ DropGone \/ ReadAll \/ Claim \/ PollDone \/ SkipDuplicate
           \/ PutBack \/ EndSeries \/ AfterSend \/ AfterSendPre
  <2>1. poll.pc # "post" /\ poll'.pc # "post" /\ UNCHANGED <<dupe, now, ackedAt, failed>>
    BY <1>0, <1>7 DEF ReadBody, DropGone, ReadAll, Claim, PollDone, SkipDuplicate, PutBack, EndSeries,
       AfterSend, AfterSendPre, PollType
  <2> QED
    BY <2>1, OtherKeys
<1>8. CASE PollerFails \/ Crash
  <2>1. poll'.pc # "post" /\ failed' # 0 /\ UNCHANGED <<dupe, now, ackedAt>>
    BY <1>0, <1>8 DEF PollerFails, Crash
  <2> QED
    BY <2>1, OtherKeys
<1> QED
  BY <1>1, <1>2, <1>3, <1>4, <1>5, <1>6, <1>7, <1>8, <1>9 DEF Next, Poll

LEMMA KeysInductive == Spec => [](DueInv /\ KeysInv)
<1>1. Init => KeysInv
  BY DEF Init, KeysInv, PostInv, KeyInv, SkipInv, Resting
<1> QED
  BY <1>1, KeysStep, DueInvInductive, PTL DEF Spec

(* Two acknowledged deliveries of a job are the life of a key apart, less  *)
(* the time an answer takes.                                               *)
THEOREM AckedApartCorrect == Spec => []AckedApart
<1>1. KeysInv => AckedApart
  BY DEF KeysInv, KeyInv, AckedApart
<1> QED
  BY <1>1, KeysInductive, PTL

(* A reminder is taken for a duplicate only within the life of a key after *)
(* an acknowledged delivery of the same job.                               *)
THEOREM OnlyRepeatsAreSkippedCorrect == Spec => []OnlyRepeatsAreSkipped
<1>1. DueInv /\ KeysInv => OnlyRepeatsAreSkipped
  <2> SUFFICES ASSUME DueInv, KeysInv, failed = 0, poll.pc = "send", dupe[poll.hand.job] > now
               PROVE  /\ ackedAt[poll.hand.job][2] # NoTime
                      /\ now < ackedAt[poll.hand.job][2] + DupeTTL
    BY DEF OnlyRepeatsAreSkipped
  <2>1. poll.hand.job \in Job
    BY KeyTypes
  <2>2. ackedAt[poll.hand.job][2] # NoTime /\ dupe[poll.hand.job] <= ackedAt[poll.hand.job][2] + DupeTTL
    BY <2>1 DEF KeysInv, SkipInv
  <2> QED
    BY <2>1, <2>2, KeyTypes DEF NoTime
<1> QED
  BY <1>1, KeysInductive, PTL
-----------------------------------------------------------------------------
(* Nothing scheduled is lost, nothing deleted is sent. *)

(* The poller has claimed a job of t and not yet dealt with it. *)
HandOf(t) == InHand /\ poll.hand.job[1] = t

(* The consumer is between the two steps of a message about t. *)
Half(t) == Working(t) /\ cons.pc = "pre"

(* The jobs a poll has listed and the one in hand differ. *)
DistinctInv ==
  /\ \A i, k \in DOMAIN poll.ids : i # k => poll.ids[i] # poll.ids[k]
  /\ \A i, k \in DOMAIN poll.list : i # k => poll.list[i].job # poll.list[k].job
  /\ \A i \in DOMAIN poll.ids, k \in DOMAIN poll.list : poll.ids[i] # poll.list[k].job
  /\ InHand => \A k \in DOMAIN poll.list : poll.list[k].job # poll.hand.job

(* An id found without a payload still has none, unless the consumer met   *)
(* the poller.                                                             *)
GoneInv ==
  poll.pc = "gone" => \/ Head(poll.ids)[1] \in shaken
                      \/ body[Head(poll.ids)] = NoBody

(* After the first step of a message. *)
HalfInv(t) ==
  t \notin shaken /\ Half(t) =>
    /\ ~HandOf(t)
    /\ cons.msg.kind = "delete" => due[Main(t)] = NoTime /\ body[Main(t)] = NoBody
    /\ cons.msg.kind = "schedule" => due[Main(t)] # NoTime /\ body[Main(t)].rev = cons.rev

(* Whatever is kept of t stems from the last message handled. *)
StemsInv(t) ==
  /\ \A j \in {Main(t), Pre(t)} : body[j] = NoBody \/ body[j].rev = want[t].rev
  /\ \A i \in DOMAIN poll.list :
       /\ poll.list[i].job[1] = t => poll.list[i].body.rev = want[t].rev
       /\ poll.list[i].job = Main(t) => poll.list[i].body = body[Main(t)]
  /\ HandOf(t) => poll.hand.body.rev = want[t].rev

(* What is known of a job in hand. *)
HandInv(t) ==
  HandOf(t) =>
    /\ poll.hand.job = Main(t) /\ poll.pc # "afterpre" =>
         due[Main(t)] = NoTime /\ body[Main(t)] = poll.hand.body
    /\ poll.hand.job = Main(t) /\ poll.pc = "after" =>
         want[t].rev \in {sent[Main(t)], skipped[Main(t)]}
    /\ poll.pc = "afterpre" =>
         poll.hand.job = Main(t) /\ (poll.next # NoTime => due[Main(t)] # NoTime)

(* The reminder is armed, or has passed for good. *)
Armed(t)  == due[Main(t)] # NoTime
Passed(t) == /\ want[t].rev \in {sent[Main(t)], skipped[Main(t)]}
             /\ body[Main(t)] = NoBody \/ body[Main(t)].rule = "last"

(* A task whose last message was handled with nothing in the way. *)
CourseInv(t) ==
  IF want[t].kind = "delete"
  THEN ~Held(t) /\ due[Main(t)] = NoTime /\ due[Pre(t)] = NoTime
  ELSE /\ want[t].rev # 0
       /\ Claimed(Main(t)) \/ Armed(t) \/ Passed(t)
       /\ due[Pre(t)] # NoTime \/ (HandOf(t) /\ poll.hand.job = Pre(t) /\ poll.pc \in {"send", "post", "retry"})
            => Armed(t) \/ body[Main(t)].rule = "last" \/ (HandOf(t) /\ poll.hand.job = Main(t))

QuietInv(t) ==
  t \notin shaken /\ ~Half(t) => StemsInv(t) /\ HandInv(t) /\ CourseInv(t)

CourseAll == DueInv /\ DistinctInv /\ GoneInv /\ \A t \in Task : HalfInv(t) /\ QuietInv(t)

(* The tail of a sequence without its head. *)
LEMMA TailIndex ==
  ASSUME NEW S, NEW s \in Seq(S), s # <<>>
  PROVE  /\ Head(s) = s[1] /\ 1 \in DOMAIN s
         /\ \A i \in DOMAIN Tail(s) : i + 1 \in DOMAIN s /\ Tail(s)[i] = s[i + 1] /\ i + 1 # 1 /\ i \in Nat
BY HeadTailProperties, LenProperties

(* Steps that neither lengthen the lists nor take another job in hand. *)
LEMMA DistinctSame ==
  ASSUME DistinctInv, poll'.ids = poll.ids \/ poll'.ids = <<>>,
         poll'.list = poll.list \/ poll'.list = <<>>,
         InHand' => InHand /\ poll'.hand = poll.hand
  PROVE  DistinctInv'
BY DEF DistinctInv

(* The poller's lists stay without repetition. *)
LEMMA DistinctStep == ASSUME DueInv, DistinctInv, [Next]_vars PROVE DistinctInv'
<1>0. poll \in PollType
  BY DueInvParts DEF PollInv
<1>t. poll.ids \in Seq(Job) /\ poll.list \in Seq([job : Job, body : Read])
  BY <1>0 DEF PollType
<1>1. CASE PollRead
  <2>1. PICK s \in DueBatches : poll' = [Resting EXCEPT !.pc = "read", !.ids = s]
    BY <1>1 DEF PollRead
  <2>2. \A i, k \in DOMAIN s : i # k => s[i] # s[k]
    <3>1. s \in Seq(Job)
      BY BatchesAreJobs
    <3>2. \A i, k \in DOMAIN s : i < k => s[i] # s[k]
      BY DEF DueBatches
    <3>3. \A i \in DOMAIN s : i \in Nat
      BY <3>1, LenProperties
    <3> QED
      BY <3>2, <3>3
  <2>3. poll'.ids = s /\ poll'.list = <<>> /\ poll'.pc = "read"
    BY <2>1 DEF Resting
  <2> QED
    BY <2>2, <2>3 DEF DistinctInv, InHand
<1>2. CASE ReadBody
  <2>0. poll.ids # <<>> /\ poll.pc = "read"
    BY <1>2 DEF ReadBody
  <2>1. CASE body[Head(poll.ids)] = NoBody
    <3>1. poll' = [poll EXCEPT !.pc = "gone"]
      BY <1>2, <2>1 DEF ReadBody
    <3> QED
      BY <1>0, <3>1, DistinctSame DEF PollType, InHand
  <2>2. CASE body[Head(poll.ids)] # NoBody
    <3> DEFINE e == [job |-> Head(poll.ids), body |-> body[Head(poll.ids)]]
    <3>1. poll'.ids = Tail(poll.ids) /\ poll'.list = Append(poll.list, e) /\ poll'.pc = "read"
      BY <1>0, <1>2, <2>2 DEF ReadBody, PollType
    <3>2. /\ Head(poll.ids) = poll.ids[1] /\ 1 \in DOMAIN poll.ids
          /\ \A i \in DOMAIN Tail(poll.ids) : i + 1 \in DOMAIN poll.ids /\ Tail(poll.ids)[i] = poll.ids[i + 1] /\ i + 1 # 1 /\ i \in Nat
      BY <1>t, <2>0, TailIndex
    <3>3. e.job = poll.ids[1]
      BY <3>2
    <3> HIDE DEF e
    <3>4. /\ Len(poll.list) \in Nat /\ DOMAIN poll.list = 1..Len(poll.list)
          /\ DOMAIN poll'.list = 1..(Len(poll.list) + 1)
          /\ poll'.list[Len(poll.list) + 1] = e
          /\ \A k \in DOMAIN poll.list : poll'.list[k] = poll.list[k]
      BY <1>t, <3>1, AppendProperties, LenProperties
    <3>5. \A k \in DOMAIN poll'.list : k \in DOMAIN poll.list \/ k = Len(poll.list) + 1
      BY <3>4
    <3>6. \A i, k \in DOMAIN poll'.ids : i # k => poll'.ids[i] # poll'.ids[k]
      <4>1. \A i, k \in DOMAIN poll.ids : i # k => poll.ids[i] # poll.ids[k]
        BY DEF DistinctInv
      <4>2. \A i, k \in DOMAIN Tail(poll.ids) : i # k => i + 1 # k + 1
        BY <3>2
      <4>3. \A i, k \in DOMAIN Tail(poll.ids) : i # k => Tail(poll.ids)[i] # Tail(poll.ids)[k]
        <5> TAKE i, k \in DOMAIN Tail(poll.ids)
        <5>1. /\ Tail(poll.ids)[i] = poll.ids[i + 1] /\ Tail(poll.ids)[k] = poll.ids[k + 1]
              /\ i + 1 \in DOMAIN poll.ids /\ k + 1 \in DOMAIN poll.ids
          BY <3>2
        <5>2. i # k => i + 1 # k + 1
          BY <4>2
        <5> QED
          BY <4>1, <5>1, <5>2
      <4> QED
        BY <3>1, <4>3, Zenon
    <3>7. \A i, k \in DOMAIN poll'.list : i # k => poll'.list[i].job # poll'.list[k].job
      <4>1. \A k \in DOMAIN poll.list : e.job # poll.list[k].job
        BY <3>2, <3>3 DEF DistinctInv
      <4>2. \A i, k \in DOMAIN poll.list : i # k => poll.list[i].job # poll.list[k].job
        BY DEF DistinctInv
      <4> TAKE i, k \in DOMAIN poll'.list
      <4>3. CASE i \in DOMAIN poll.list /\ k \in DOMAIN poll.list
        BY <3>4, <4>2, <4>3
      <4>4. CASE i = Len(poll.list) + 1 \/ k = Len(poll.list) + 1
        BY <3>4, <3>5, <4>1, <4>4
      <4> QED
        BY <3>5, <4>3, <4>4
    <3>8. \A i \in DOMAIN poll'.ids, k \in DOMAIN poll'.list : poll'.ids[i] # poll'.list[k].job
      BY <3>1, <3>2, <3>3, <3>4, <3>5 DEF DistinctInv
    <3> QED
      BY <3>1, <3>6, <3>7, <3>8 DEF DistinctInv, InHand
  <2> QED
    BY <2>1, <2>2
<1>3. CASE DropGone
  <2>1. poll'.ids = Tail(poll.ids) /\ poll'.list = poll.list /\ poll'.pc = "read"
    BY <1>0, <1>3 DEF DropGone, PollType
  <2>2. poll.ids # <<>>
    BY <1>3, DueInvParts DEF PollInv, DropGone
  <2>3. \A i \in DOMAIN Tail(poll.ids) : i + 1 \in DOMAIN poll.ids /\ Tail(poll.ids)[i] = poll.ids[i + 1] /\ i \in Nat
    BY <1>t, <2>2, TailIndex
  <2> QED
    BY <2>1, <2>3 DEF DistinctInv, InHand
<1>4. CASE Claim
  <2>1. poll.list # <<>> /\ poll.pc = "fire"
    BY <1>4 DEF Claim
  <2>2. /\ Head(poll.list) = poll.list[1] /\ 1 \in DOMAIN poll.list
        /\ \A i \in DOMAIN Tail(poll.list) : i + 1 \in DOMAIN poll.list /\ Tail(poll.list)[i] = poll.list[i + 1] /\ i + 1 # 1 /\ i \in Nat
    BY <1>t, <2>1, TailIndex
  <2>3. /\ poll'.ids = poll.ids /\ poll'.list = Tail(poll.list)
        /\ InHand' => poll'.hand = Head(poll.list)
    BY <1>0, <1>4, <2>1 DEF Claim, PollType, InHand
  <2>4. \A i, k \in DOMAIN poll'.list : i # k => poll'.list[i].job # poll'.list[k].job
    <3>1. \A i, k \in DOMAIN poll.list : i # k => poll.list[i].job # poll.list[k].job
      BY DEF DistinctInv
    <3>2. \A i, k \in DOMAIN Tail(poll.list) : i # k => i + 1 # k + 1
      BY <2>2
    <3>3. \A i, k \in DOMAIN Tail(poll.list) : i # k => Tail(poll.list)[i].job # Tail(poll.list)[k].job
      <4> TAKE i, k \in DOMAIN Tail(poll.list)
      <4>1. /\ Tail(poll.list)[i] = poll.list[i + 1] /\ Tail(poll.list)[k] = poll.list[k + 1]
            /\ i + 1 \in DOMAIN poll.list /\ k + 1 \in DOMAIN poll.list
        BY <2>2
      <4>2. i # k => i + 1 # k + 1
        BY <3>2
      <4> QED
        BY <3>1, <4>1, <4>2
    <3> QED
      BY <2>3, <3>3, Zenon
  <2>5. \A i \in DOMAIN poll'.ids, k \in DOMAIN poll'.list : poll'.ids[i] # poll'.list[k].job
    BY <2>2, <2>3 DEF DistinctInv
  <2>6. InHand' => \A k \in DOMAIN poll'.list : poll'.list[k].job # poll'.hand.job
    BY <2>2, <2>3 DEF DistinctInv
  <2>7. \A i, k \in DOMAIN poll'.ids : i # k => poll'.ids[i] # poll'.ids[k]
    BY <2>3 DEF DistinctInv
  <2> QED
    BY <2>4, <2>5, <2>6, <2>7 DEF DistinctInv
<1>5. CASE UNCHANGED poll
  BY <1>5 DEF DistinctInv, InHand
<1>6. CASE poll' = Resting
  BY <1>6, DistinctSame DEF Resting, InHand
<1>7. CASE ReadAll \/ SkipDuplicate \/ Deliver \/ PutBack \/ AfterSend \/ AfterSendPre
  <2>1. /\ poll'.ids = poll.ids /\ poll'.list = poll.list
        /\ InHand' => InHand /\ poll'.hand = poll.hand
    <3>1. CASE ReadAll \/ SkipDuplicate \/ Deliver
      BY <1>0, <3>1 DEF ReadAll, SkipDuplicate, Deliver, PollType, InHand
    <3>2. CASE PutBack \/ AfterSendPre
      BY <1>0, <3>2 DEF PutBack, AfterSendPre, PollType, InHand
    <3>3. CASE AfterSend
      BY <1>0, <3>3 DEF AfterSend, PollType, InHand
    <3> QED
      BY <1>7, <3>1, <3>2, <3>3
  <2> QED
    BY <2>1, DistinctSame
<1>8. CASE KeyStep
  BY <1>8, KeySteps, DistinctSame
<1> QED
  BY <1>1, <1>2, <1>3, <1>4, <1>5, <1>6, <1>7, <1>8
  DEF Next, vars, Receive, Consume, Refuse, ScheduleMain, SchedulePre, DeleteMain, DeletePre,
      ConsumerFails, Poll, PollDone, EndSeries, PollerFails, Crash, Tick, KeyStep

(* A step that does not touch t, or that shakes it. *)
LEMMA Frame ==
  ASSUME DueInv, NEW t \in Task, HalfInv(t), QuietInv(t),
         t \notin shaken' =>
           /\ t \notin shaken
           /\ \A j \in {Main(t), Pre(t)} : due'[j] = due[j] /\ body'[j] = body[j]
           /\ \A j \in {Main(t), Pre(t)} : sent'[j] = sent[j] /\ skipped'[j] = skipped[j]
           /\ want'[t] = want[t]
           /\ Half(t)' <=> Half(t)
           /\ Half(t) => cons' = cons
           /\ HandOf(t)' <=> HandOf(t)
           /\ HandOf(t) => poll'.hand = poll.hand /\ poll'.pc = poll.pc /\ poll'.next = poll.next
           /\ \A i \in DOMAIN poll'.list : poll'.list[i].job[1] = t =>
                \/ \E k \in DOMAIN poll.list : poll'.list[i] = poll.list[k]
                \/ /\ poll'.list[i].job \in Job /\ poll'.list[i].body # NoBody
                   /\ poll'.list[i].body = body[poll'.list[i].job]
           /\ Held(t)' => Held(t) \/ due[Main(t)] # NoTime \/ due[Pre(t)] # NoTime
  PROVE  HalfInv(t)' /\ QuietInv(t)'
<1>0. Main(t)[1] = t /\ Pre(t)[1] = t /\ Main(t) # Pre(t)
  BY DEF Main, Pre
<1>1. CASE t \in shaken'
  BY <1>1 DEF HalfInv, QuietInv
<1>2. CASE t \notin shaken' /\ Half(t)
  <2>1. cons' = cons /\ ~HandOf(t)' /\ Half(t)'
    BY <1>2 DEF HalfInv
  <2>2. HalfInv(t)'
    BY <1>2, <2>1 DEF HalfInv
  <2> QED
    BY <2>1, <2>2 DEF QuietInv
<1>3. CASE t \notin shaken' /\ ~Half(t)
  <2>0. StemsInv(t) /\ HandInv(t) /\ CourseInv(t)
    BY <1>3 DEF QuietInv
  <2>1. StemsInv(t)'
    <3>1. ASSUME NEW i \in DOMAIN poll'.list, poll'.list[i].job[1] = t
          PROVE  /\ poll'.list[i].body.rev = want[t].rev
                 /\ poll'.list[i].job = Main(t) => poll'.list[i].body = body[Main(t)]
      <4>1. CASE \E k \in DOMAIN poll.list : poll'.list[i] = poll.list[k]
        BY <2>0, <3>1, <4>1 DEF StemsInv
      <4>2. CASE /\ poll'.list[i].job \in Job /\ poll'.list[i].body # NoBody
                 /\ poll'.list[i].body = body[poll'.list[i].job]
        <5>1. poll'.list[i].job \in {Main(t), Pre(t)}
          BY <3>1, <4>2, TaskOfJob
        <5> QED
          BY <2>0, <4>2, <5>1 DEF StemsInv
      <4> QED
        BY <1>3, <3>1, <4>1, <4>2
    <3>2. HandOf(t)' => poll'.hand.body.rev = want[t].rev
      BY <1>3, <2>0 DEF StemsInv
    <3>3. \A j \in {Main(t), Pre(t)} : body'[j] = NoBody \/ body'[j].rev = want[t].rev
      BY <1>3, <2>0 DEF StemsInv
    <3> QED
      BY <1>0, <1>3, <3>1, <3>2, <3>3 DEF StemsInv
  <2>2. HandInv(t)'
    BY <1>3, <2>0 DEF HandInv
  <2>3. CourseInv(t)'
    <3>1. Claimed(Main(t)) => Claimed(Main(t))'
      BY <1>0, <1>3 DEF Claimed, HandOf, InHand
    <3>2. Passed(t)' <=> Passed(t)
      BY <1>3 DEF Passed
    <3>3. Armed(t)' <=> Armed(t)
      BY <1>3 DEF Armed
    <3>4. CASE want[t].kind = "delete"
      BY <1>3, <2>0, <3>4 DEF CourseInv
    <3>5. CASE want[t].kind # "delete"
      BY <1>3, <2>0, <3>1, <3>2, <3>3, <3>5 DEF CourseInv
    <3> QED
      BY <3>4, <3>5
  <2> QED
    BY <1>3, <2>1, <2>2, <2>3 DEF QuietInv, HalfInv
<1> QED
  BY <1>1, <1>2, <1>3

(* What a step of the consumer may change. *)
LEMMA ConsumeEffect ==
  ASSUME DueInv, Consume, NEW t0 \in Task, t0 = cons.msg.task
  PROVE  /\ poll' = poll /\ sent' = sent /\ skipped' = skipped
         /\ \A j \in Job : j # Main(t0) /\ j # Pre(t0) => due'[j] = due[j] /\ body'[j] = body[j]
         /\ \A t \in Task \ {t0} : (t \in shaken' <=> t \in shaken) /\ want'[t] = want[t]
         /\ \/ UNCHANGED <<due, body, shaken, want>> /\ cons.pc = "main"
            \/ Held(t0) => t0 \in shaken'
         /\ cons'.pc = "idle" \/ cons'.msg = cons.msg
<1>0. StoreInv /\ ConsInv /\ PlainInv /\ Main(t0) \in Job /\ Pre(t0) \in Job /\ Main(t0) # Pre(t0)
  BY DueInvParts, JobsOfTask
<1>t. cons \in ConsType /\ Idle.pc = "idle"
  BY <1>0, IdleTypes DEF ConsInv
<1>1. CASE Refuse
  BY <1>1, <1>t DEF Refuse
<1>2. CASE ScheduleMain
  <2>1. \A j \in Job : j # Main(t0) => due'[j] = due[j] /\ body'[j] = body[j]
    BY <1>0, <1>2 DEF ScheduleMain, Upsert, StoreInv
  <2>2. cons'.msg = cons.msg
    BY <1>2, <1>t DEF ScheduleMain, ConsType
  <2> QED
    BY <1>2, <2>1, <2>2 DEF ScheduleMain, Touch
<1>3. CASE SchedulePre
  <2>1. NewBody \in Read /\ cons.start \in Nat /\ cons.at \in Nat
    BY <1>0, <1>3 DEF SchedulePre, NewBody, Read, Payload, ConsInv, ConsType, MessageType
  <2>2. \A j \in Job : j # Pre(t0) => due'[j] = due[j] /\ body'[j] = body[j]
    BY <1>0, <1>3, <2>1, SyncPreStore DEF SchedulePre
  <2>3. \A t \in Task \ {t0} : want'[t] = want[t]
    BY <1>0, <1>3 DEF SchedulePre, Handled, PlainInv
  <2> QED
    BY <1>3, <1>t, <2>2, <2>3 DEF SchedulePre, Touch
<1>4. CASE DeleteMain
  <2>1. \A j \in Job : j # Main(t0) => due'[j] = due[j] /\ body'[j] = body[j]
    BY <1>0, <1>4 DEF DeleteMain, Remove, StoreInv
  <2>2. cons'.msg = cons.msg
    BY <1>4, <1>t DEF DeleteMain, ConsType
  <2> QED
    BY <1>4, <2>1, <2>2 DEF DeleteMain, Touch
<1>5. CASE DeletePre
  <2>1. \A j \in Job : j # Pre(t0) => due'[j] = due[j] /\ body'[j] = body[j]
    BY <1>0, <1>5 DEF DeletePre, Remove, StoreInv
  <2>2. \A t \in Task \ {t0} : want'[t] = want[t]
    BY <1>0, <1>5 DEF DeletePre, Handled, PlainInv
  <2> QED
    BY <1>5, <1>t, <2>1, <2>2 DEF DeletePre, Touch
<1> QED
  BY <1>1, <1>2, <1>3, <1>4, <1>5 DEF Consume

(* A step of the consumer, seen by the task of its message. *)
LEMMA ConsumeOwn ==
  ASSUME DueInv, NEW t \in Task, t = cons.msg.task, HalfInv(t), QuietInv(t), Consume
  PROVE  HalfInv(t)' /\ QuietInv(t)'
<1>0. /\ StoreInv /\ ConsInv /\ PlainInv /\ Main(t) \in Job /\ Pre(t) \in Job /\ Main(t) # Pre(t)
      /\ cons \in ConsType /\ Idle.pc = "idle"
  BY DueInvParts, JobsOfTask, IdleTypes DEF ConsInv
<1>1. CASE Refuse
  <2>1. ~Half(t) /\ ~Half(t)'
    BY <1>0, <1>1 DEF Refuse, Half, Working
  <2>2. (HandOf(t)' <=> HandOf(t)) /\ (Held(t)' <=> Held(t))
    BY <1>1 DEF Refuse, HandOf, InHand, Held
  <2> QED
    BY <1>1, <2>1, <2>2, Frame DEF Refuse
<1>2. CASE t \in shaken'
  BY <1>2 DEF HalfInv, QuietInv
<1>3. CASE t \notin shaken' /\ (ScheduleMain \/ DeleteMain)
  <2>1. ~Held(t)
    BY <1>3 DEF ScheduleMain, DeleteMain, Touch
  <2>2. poll' = poll /\ ~HandOf(t) /\ ~HandOf(t)'
    BY <1>3, <2>1 DEF ScheduleMain, DeleteMain, Held, HandOf, InHand
  <2>3. Half(t)' /\ cons'.msg = cons.msg /\ cons'.rev = cons.rev
    BY <1>0, <1>3 DEF ScheduleMain, DeleteMain, Half, Working, ConsType
  <2>4. CASE DeleteMain
    <3>1. due'[Main(t)] = NoTime /\ body'[Main(t)] = NoBody /\ cons'.msg.kind = "delete"
      BY <1>0, <2>3, <2>4 DEF DeleteMain, Remove, StoreInv
    <3> QED
      BY <2>2, <2>3, <3>1 DEF HalfInv, QuietInv
  <2>5. CASE ScheduleMain
    <3>1. FirstFire(cons.msg) \in Nat
      BY <1>0, <2>5, FirstFireNat DEF ScheduleMain, ConsType, PlainInv
    <3>2. cons'.start = FirstFire(cons.msg)
      BY <1>0, <2>5 DEF ScheduleMain, ConsType
    <3>3. due'[Main(t)] = cons'.start /\ body'[Main(t)] = [NewBody EXCEPT !.start = cons'.start]
      BY <1>0, <2>5 DEF ScheduleMain, Upsert, StoreInv
    <3>4. due'[Main(t)] # NoTime /\ body'[Main(t)].rev = cons.rev /\ cons'.msg.kind = "schedule"
      BY <2>3, <2>5, <3>1, <3>2, <3>3 DEF NewBody, NoTime, ScheduleMain
    <3> QED
      BY <2>2, <2>3, <3>4 DEF HalfInv, QuietInv
  <2> QED
    BY <1>3, <2>4, <2>5
<1>4. CASE t \notin shaken' /\ (SchedulePre \/ DeletePre)
  <2>1. ~Held(t) /\ t \notin shaken
    BY <1>4 DEF SchedulePre, DeletePre, Touch
  <2>2. Half(t) /\ ~Half(t)'
    BY <1>0, <1>4 DEF SchedulePre, DeletePre, Half, Working
  <2>3. /\ poll' = poll /\ ~HandOf(t)' /\ ~Held(t)' /\ sent' = sent
        /\ \A i \in DOMAIN poll'.list : poll'.list[i].job[1] # t
    BY <1>4, <2>1 DEF SchedulePre, DeletePre, Held, HandOf, InHand
  <2>4. Main(t)[1] = t
    BY DEF Main
  <2>5. want'[t] = [kind |-> cons.msg.kind, rev |-> cons.rev]
    BY <1>0, <1>4 DEF SchedulePre, DeletePre, Handled, PlainInv
  <2>6. CASE DeletePre
    <3>1. due[Main(t)] = NoTime /\ body[Main(t)] = NoBody
      BY <2>1, <2>2, <2>6 DEF HalfInv, DeletePre
    <3>2. /\ due'[Main(t)] = NoTime /\ body'[Main(t)] = NoBody
          /\ due'[Pre(t)] = NoTime /\ body'[Pre(t)] = NoBody
      BY <1>0, <2>6, <3>1 DEF DeletePre, Remove, StoreInv
    <3>3. StemsInv(t)'
      BY <2>3, <2>4, <3>2 DEF StemsInv
    <3>4. CourseInv(t)'
      BY <2>3, <2>5, <2>6, <3>2 DEF CourseInv, DeletePre
    <3> QED
      BY <2>2, <2>3, <3>3, <3>4 DEF QuietInv, HalfInv, HandInv
  <2>7. CASE SchedulePre
    <3>1. due[Main(t)] # NoTime /\ body[Main(t)].rev = cons.rev
      BY <2>1, <2>2, <2>7 DEF HalfInv, SchedulePre
    <3>2. NewBody \in Read /\ cons.start \in Nat /\ cons.at \in Nat /\ NewBody.rev = cons.rev /\ cons.rev # 0
      BY <1>0, <2>7 DEF SchedulePre, NewBody, Read, Payload, ConsInv, ConsType, MessageType
    <3>3. /\ StoreInv'
          /\ due'[Main(t)] = due[Main(t)] /\ body'[Main(t)] = body[Main(t)]
          /\ due'[Pre(t)] # NoTime => body'[Pre(t)].rev = cons.rev
      BY <1>0, <2>7, <3>2, SyncPreStore DEF SchedulePre
    <3>4. body'[Pre(t)] = NoBody \/ body'[Pre(t)].rev = cons.rev
      <4>1. Remove(Pre(t)) \/ (\E at \in Int : Upsert(Pre(t), at, [NewBody EXCEPT !.rule = "none"]))
        BY <2>7, <3>2 DEF SchedulePre, SyncPre, Read, Payload
      <4>2. [NewBody EXCEPT !.rule = "none"].rev = cons.rev
        BY DEF NewBody
      <4> QED
        BY <1>0, <4>1, <4>2 DEF Remove, Upsert, StoreInv
    <3>5. StemsInv(t)'
      BY <2>3, <2>4, <2>5, <3>1, <3>3, <3>4 DEF StemsInv
    <3>6. CourseInv(t)'
      BY <2>3, <2>5, <2>7, <3>1, <3>2, <3>3 DEF CourseInv, Armed, SchedulePre
    <3> QED
      BY <2>2, <2>3, <3>5, <3>6 DEF QuietInv, HalfInv, HandInv
  <2> QED
    BY <1>4, <2>6, <2>7
<1> QED
  BY <1>1, <1>2, <1>3, <1>4 DEF Consume

(* A step of the consumer, seen by every task. *)
LEMMA ConsumeCourse ==
  ASSUME DueInv, NEW t \in Task, HalfInv(t), QuietInv(t), Consume
  PROVE  HalfInv(t)' /\ QuietInv(t)'
<1>0. ConsInv /\ Main(t) \in Job /\ Pre(t) \in Job
  BY DueInvParts, JobsOfTask
<1>1. PICK t0 \in Task : t0 = cons.msg.task
  BY <1>0 DEF ConsInv, ConsType, MessageType
<1>2. CASE t = t0
  BY <1>1, <1>2, ConsumeOwn
<1>3. CASE t # t0
  <2>1. Main(t) # Main(t0) /\ Main(t) # Pre(t0) /\ Pre(t) # Main(t0) /\ Pre(t) # Pre(t0)
    BY <1>3 DEF Main, Pre
  <2>2. /\ poll' = poll /\ sent' = sent /\ skipped' = skipped /\ want'[t] = want[t]
        /\ \A j \in {Main(t), Pre(t)} : due'[j] = due[j] /\ body'[j] = body[j]
        /\ t \in shaken' <=> t \in shaken
        /\ cons'.pc = "idle" \/ cons'.msg = cons.msg
    BY <1>0, <1>1, <1>3, <2>1, ConsumeEffect
  <2>3. ~Half(t) /\ ~Half(t)'
    BY <1>1, <1>3, <2>2 DEF Half, Working
  <2>4. (HandOf(t)' <=> HandOf(t)) /\ (Held(t)' <=> Held(t))
    BY <2>2 DEF HandOf, InHand, Held
  <2> QED
    BY <2>2, <2>3, <2>4, Frame
<1> QED
  BY <1>2, <1>3

(* Reading and listing jobs, and failures, seen by every task. *)
LEMMA PlainCourse ==
  ASSUME DueInv, GoneInv, NEW t \in Task, HalfInv(t), QuietInv(t),
         \/ \E m \in Message : Receive(m)
         \/ PollRead \/ ReadBody \/ DropGone \/ ReadAll \/ PollDone
         \/ ConsumerFails \/ PollerFails \/ Crash \/ Tick
  PROVE  HalfInv(t)' /\ QuietInv(t)'
<1>0. /\ StoreInv /\ ConsInv /\ PollInv /\ Main(t) \in Job /\ Pre(t) \in Job
      /\ Main(t)[1] = t /\ Pre(t)[1] = t
      /\ cons \in ConsType /\ poll \in PollType /\ Idle.pc = "idle" /\ Resting.pc = "idle"
      /\ poll.ids \in Seq(Job) /\ poll.list \in Seq([job : Job, body : Read])
  BY DueInvParts, JobsOfTask, IdleTypes DEF ConsInv, PollInv, PollType, Main, Pre
<1>1. CASE \E m \in Message : Receive(m)
  <2>1. ~Half(t) /\ ~Half(t)' /\ poll' = poll
    BY <1>0, <1>1 DEF Receive, Half, Idle
  <2>2. (HandOf(t)' <=> HandOf(t)) /\ (Held(t)' <=> Held(t))
    BY <2>1 DEF HandOf, InHand, Held
  <2> QED
    BY <1>1, <2>1, <2>2, Frame DEF Receive
<1>2. CASE PollRead
  <2>1. PICK s \in DueBatches : poll' = [Resting EXCEPT !.pc = "read", !.ids = s]
    BY <1>2 DEF PollRead
  <2>2. poll'.ids = s /\ poll'.list = <<>> /\ poll'.pc = "read" /\ poll.pc = "idle"
    BY <1>2, <2>1 DEF Resting, PollRead
  <2>3. \A i \in DOMAIN s : s[i] \in Job /\ due[s[i]] # NoTime
    BY DEF DueBatches, DueJobs
  <2>4. Held(t)' => due[Main(t)] # NoTime \/ due[Pre(t)] # NoTime
    <3>1. \A i \in DOMAIN s : s[i][1] = t => s[i] = Main(t) \/ s[i] = Pre(t)
      BY <2>3, TaskOfJob
    <3>2. Held(t)' => \E i \in DOMAIN s : s[i][1] = t
      BY <2>2 DEF Held, InHand
    <3> QED
      BY <2>3, <3>1, <3>2
  <2>5. ~HandOf(t) /\ ~HandOf(t)'
    BY <2>2 DEF HandOf, InHand
  <2>6. Half(t)' <=> Half(t)
    BY <1>2 DEF PollRead, Half, Working
  <2> QED
    <3>1. DOMAIN poll'.list = {}
      BY <2>2
    <3>2. UNCHANGED <<due, body, sent, skipped, want, cons, shaken>>
      BY <1>2 DEF PollRead
    <3> QED
      BY <2>4, <2>5, <2>6, <3>1, <3>2, Frame
<1>3. CASE ReadBody \/ DropGone
  <2>0. poll.ids # <<>> /\ poll.pc \in {"read", "gone"}
    BY <1>0, <1>3 DEF ReadBody, DropGone, PollInv
  <2>1. /\ Head(poll.ids) = poll.ids[1] /\ 1 \in DOMAIN poll.ids /\ poll.ids[1] \in Job
        /\ \A i \in DOMAIN Tail(poll.ids) : i + 1 \in DOMAIN poll.ids /\ Tail(poll.ids)[i] = poll.ids[i + 1]
    BY <1>0, <2>0, TailIndex, ElementOfSeq
  <2> DEFINE j == Head(poll.ids)
             e == [job |-> j, body |-> body[j]]
  <2>2. ~HandOf(t) /\ ~HandOf(t)' /\ poll'.pc \in {"read", "gone"}
    BY <1>0, <1>3, <2>0 DEF HandOf, InHand, ReadBody, DropGone, PollType
  <2>3. Half(t)' <=> Half(t)
    BY <1>3 DEF ReadBody, DropGone, Half, Working
  <2>4. \A i \in DOMAIN poll'.list :
          \/ \E k \in DOMAIN poll.list : poll'.list[i] = poll.list[k]
          \/ poll'.list[i] = e /\ body[j] # NoBody
    <3>1. CASE poll'.list = poll.list
      BY <3>1
    <3>2. CASE poll'.list = Append(poll.list, e) /\ body[j] # NoBody
      <4>1. Len(poll.list) \in Nat /\ DOMAIN poll.list = 1..Len(poll.list)
        BY <1>0, LenProperties
      <4>2. /\ DOMAIN poll'.list = 1..(Len(poll.list) + 1)
            /\ poll'.list[Len(poll.list) + 1] = e
            /\ \A k \in DOMAIN poll.list : poll'.list[k] = poll.list[k]
        BY <1>0, <3>2, <4>1, AppendProperties
      <4> TAKE i \in DOMAIN poll'.list
      <4>3. i \in DOMAIN poll.list \/ i = Len(poll.list) + 1
        BY <4>1, <4>2
      <4> QED
        BY <3>2, <4>2, <4>3
    <3>3. poll'.list = poll.list \/ (poll'.list = Append(poll.list, e) /\ body[j] # NoBody)
      BY <1>0, <1>3 DEF ReadBody, DropGone, PollType
    <3> QED
      BY <3>1, <3>2, <3>3
  <2>5. e.job = j /\ e.body = body[e.job] /\ j \in Job
    BY <2>1
  <2>6. poll'.ids = poll.ids \/ poll'.ids = Tail(poll.ids)
    BY <1>0, <1>3 DEF ReadBody, DropGone, PollType
  <2>7. j[1] = t => Held(t)
    BY <2>1 DEF Held
  <2> HIDE DEF e, j
  <2>8. (\E i \in DOMAIN poll'.ids : poll'.ids[i][1] = t) => Held(t)
    BY <2>1, <2>6 DEF Held
  <2>9. (\E i \in DOMAIN poll'.list : poll'.list[i].job[1] = t) => Held(t)
    BY <2>4, <2>5, <2>7 DEF Held
  <2>10. Held(t)' => Held(t)
    BY <2>2, <2>8, <2>9 DEF Held, InHand
  <2>11. shaken' = shaken /\ body' = body /\ sent' = sent /\ skipped' = skipped /\ want' = want /\ cons' = cons
    BY <1>3 DEF ReadBody, DropGone
  <2>12. t \notin shaken => \A k \in {Main(t), Pre(t)} : due'[k] = due[k]
    <3>1. CASE ReadBody
      BY <3>1 DEF ReadBody
    <3>2. CASE DropGone
      <4>1. due' = [due EXCEPT ![j] = NoTime] /\ poll.pc = "gone"
        BY <3>2 DEF DropGone, j
      <4>2. t \notin shaken /\ j[1] = t => due[j] = NoTime
        BY <1>0, <2>5, <4>1 DEF GoneInv, StoreInv, DueHasBody, j
      <4> QED
        BY <1>0, <2>5, <4>1, <4>2 DEF StoreInv
    <3> QED
      BY <1>3, <3>1, <3>2
  <2>13. \A i \in DOMAIN poll'.list : poll'.list[i].job[1] = t =>
           \/ \E k \in DOMAIN poll.list : poll'.list[i] = poll.list[k]
           \/ /\ poll'.list[i].job \in Job /\ poll'.list[i].body # NoBody
              /\ poll'.list[i].body = body[poll'.list[i].job]
    BY <2>4, <2>5
  <2> QED
    BY <2>2, <2>3, <2>10, <2>11, <2>12, <2>13, Frame
<1>4. CASE ReadAll \/ PollDone
  <2>1. ~HandOf(t) /\ ~HandOf(t)'
    BY <1>0, <1>4 DEF ReadAll, PollDone, HandOf, InHand, PollType
  <2>2. (poll'.list = poll.list \/ poll'.list = <<>>) /\ (poll'.ids = poll.ids \/ poll'.ids = <<>>)
    BY <1>0, <1>4 DEF ReadAll, PollDone, PollType, Resting
  <2>3. Held(t)' => Held(t)
    BY <2>1, <2>2 DEF Held, HandOf
  <2>4. Half(t)' <=> Half(t)
    BY <1>4 DEF ReadAll, PollDone, Half, Working
  <2> QED
    BY <1>4, <2>1, <2>2, <2>3, <2>4, Frame DEF ReadAll, PollDone
<1>5. CASE Tick
  <2>1. (HandOf(t)' <=> HandOf(t)) /\ (Held(t)' <=> Held(t)) /\ (Half(t)' <=> Half(t))
    BY <1>5 DEF Tick, HandOf, InHand, Held, Half, Working
  <2> QED
    BY <1>5, <2>1, Frame DEF Tick
<1>6. CASE ConsumerFails
  <2>1. (HandOf(t)' <=> HandOf(t)) /\ (Held(t)' <=> Held(t))
    BY <1>6 DEF ConsumerFails, HandOf, InHand, Held
  <2>2. t \notin shaken' => t \notin shaken /\ ~Half(t) /\ ~Half(t)'
    BY <1>0, <1>6 DEF ConsumerFails, Half, Working
  <2> QED
    BY <1>6, <2>1, <2>2, Frame DEF ConsumerFails
<1>7. CASE PollerFails \/ Crash
  <2>1. /\ poll' = Resting /\ due' = due /\ body' = body /\ sent' = sent /\ skipped' = skipped /\ want' = want
        /\ shaken \subseteq shaken' /\ Dropped \subseteq shaken'
    BY <1>7 DEF PollerFails, Crash
  <2>2. poll'.list = <<>> /\ poll'.ids = <<>> /\ poll'.pc = "idle"
    BY <2>1 DEF Resting
  <2>3. t \notin shaken' => ~HandOf(t) /\ ~HandOf(t)' /\ ~Held(t)'
    BY <2>1, <2>2 DEF HandOf, Held, InHand, Dropped
  <2>4. t \notin shaken' => (Half(t)' <=> Half(t)) /\ (Half(t) => cons' = cons)
    <3>1. CASE PollerFails
      BY <3>1 DEF PollerFails, Half, Working
    <3>2. CASE Crash
      BY <1>0, <3>2 DEF Crash, Half, Working, ConsType
    <3> QED
      BY <1>7, <3>1, <3>2
  <2> QED
    BY <2>1, <2>2, <2>3, <2>4, Frame
<1> QED
  BY <1>1, <1>2, <1>3, <1>4, <1>5, <1>6, <1>7

(* What a step on the job in hand keeps of its origin. *)
LEMMA HandStems ==
  ASSUME NEW t \in Task, DistinctInv, StemsInv(t), HandOf(t), InHand,
         poll'.list = poll.list \/ poll'.list = <<>>, want'[t] = want[t],
         \A j \in {Main(t), Pre(t)} :
           body'[j] = body[j] \/ body'[j] = NoBody \/ body'[j].rev = poll.hand.body.rev,
         body'[Main(t)] = body[Main(t)] \/ poll.hand.job = Main(t),
         HandOf(t)' => poll'.hand = poll.hand
  PROVE  StemsInv(t)'
<1>1. poll.hand.body.rev = want[t].rev
  BY DEF StemsInv
<1>2. \A j \in {Main(t), Pre(t)} : body'[j] = NoBody \/ body'[j].rev = want[t].rev
  BY <1>1 DEF StemsInv
<1>3. ASSUME NEW i \in DOMAIN poll'.list
      PROVE  /\ poll'.list[i].job[1] = t => poll'.list[i].body.rev = want[t].rev
             /\ poll'.list[i].job = Main(t) => poll'.list[i].body = body'[Main(t)]
  <2>1. poll'.list = poll.list
    BY <1>3
  <2>2. poll.list[i].job # poll.hand.job
    BY <1>3, <2>1 DEF DistinctInv
  <2> QED
    BY <1>3, <2>1, <2>2 DEF StemsInv
<1> QED
  BY <1>1, <1>2, <1>3 DEF StemsInv

(* A step on the job in hand, seen by its task. *)
LEMMA HandOwn ==
  ASSUME DueInv, DistinctInv, NEW t \in Task, HalfInv(t), QuietInv(t), HandOf(t),
         \/ SkipDuplicate \/ Deliver \/ KeyStep \/ PutBack
         \/ EndSeries \/ AfterSend \/ AfterSendPre
  PROVE  HalfInv(t)' /\ QuietInv(t)'
<1>0. /\ StoreInv /\ PlainInv /\ poll \in PollType /\ InHand
      /\ poll.hand.job \in Job /\ poll.hand.body \in Read /\ poll.hand.job[1] = t
      /\ poll.hand.job \in {Main(t), Pre(t)}
      /\ Main(t) \in Job /\ Pre(t) \in Job /\ Main(t) # Pre(t)
  BY DueInvParts, JobsOfTask, TaskOfJob DEF PollInv, PollType, HandOf
<1>1. shaken' = shaken /\ cons' = cons /\ want' = want /\ (Half(t)' <=> Half(t))
  BY KeySteps DEF SkipDuplicate, Deliver, PutBack, EndSeries, AfterSend, AfterSendPre, Half, Working
<1>2. CASE t \in shaken
  BY <1>1, <1>2 DEF HalfInv, QuietInv
<1>3. CASE t \notin shaken
  <2>1. ~Half(t)
    BY <1>3 DEF HalfInv
  <2>2. StemsInv(t) /\ HandInv(t) /\ CourseInv(t)
    BY <1>3, <2>1 DEF QuietInv
  <2>3. want[t].kind # "delete"
    BY <1>0, <2>2 DEF CourseInv, Held
  <2>4. poll.hand.body.rev = want[t].rev /\ want[t].rev # 0
    BY <2>2, <2>3 DEF StemsInv, CourseInv
  <2> SUFFICES StemsInv(t)' /\ HandInv(t)' /\ CourseInv(t)'
    BY <1>1, <2>1 DEF QuietInv, HalfInv
  <2>5. CASE SkipDuplicate \/ Deliver
    <3>1. /\ poll.pc \in {"send", "post"} /\ UNCHANGED <<due, body>>
          /\ \/ skipped' = skipped /\ sent' = [sent EXCEPT ![poll.hand.job] = poll.hand.body.rev]
             \/ sent' = sent /\ skipped' = [skipped EXCEPT ![poll.hand.job] = poll.hand.body.rev]
          /\ poll' = [poll EXCEPT !.pc = "after"] \/ poll' = [poll EXCEPT !.pc = "after", !.at = 0]
      BY <2>5 DEF SkipDuplicate, Deliver
    <3>2. /\ poll'.pc = "after" /\ poll'.hand = poll.hand /\ poll'.list = poll.list
          /\ InHand' /\ HandOf(t)'
      BY <1>0, <3>1 DEF PollType, HandOf, InHand
    <3>3. StemsInv(t)'
      BY <1>0, <1>1, <2>2, <3>1, <3>2, HandStems
    <3>4. /\ poll.hand.job = Main(t) => want[t].rev \in {sent'[Main(t)], skipped'[Main(t)]}
          /\ poll.hand.job # Main(t) => sent'[Main(t)] = sent[Main(t)] /\ skipped'[Main(t)] = skipped[Main(t)]
      BY <1>0, <2>4, <3>1 DEF PlainInv
    <3>5. HandInv(t)'
      BY <1>1, <2>2, <3>1, <3>2, <3>4 DEF HandInv
    <3>6. CourseInv(t)'
      BY <1>0, <1>1, <2>2, <2>3, <3>1, <3>2, <3>4 DEF CourseInv, Claimed, Armed, Passed
    <3> QED
      BY <3>3, <3>5, <3>6
  <2>6. CASE KeyStep
    <3>1. poll.pc \in {"send", "post"} /\ UNCHANGED <<due, body, sent, skipped>>
      BY <2>6, KeySteps
    <3>2. /\ poll'.pc \in {"post", "retry"} /\ poll'.hand = poll.hand /\ poll'.list = poll.list
          /\ InHand' /\ HandOf(t)'
      BY <1>0, <2>6, KeySteps DEF HandOf
    <3>3. StemsInv(t)'
      BY <1>0, <1>1, <2>2, <3>1, <3>2, HandStems
    <3>5. HandInv(t)'
      BY <1>1, <2>2, <3>1, <3>2 DEF HandInv
    <3>6. CourseInv(t)'
      BY <1>0, <1>1, <2>2, <2>3, <3>1, <3>2 DEF CourseInv, Claimed, Armed, Passed
    <3> QED
      BY <3>3, <3>5, <3>6
  <2>7. CASE PutBack
    <3>1. /\ poll' = [poll EXCEPT !.pc = "fire", !.hand = NoHand] /\ poll.pc = "retry" /\ UNCHANGED <<sent, skipped>>
          /\ due' = [due EXCEPT ![poll.hand.job] = now + Retry]
          /\ body' = [body EXCEPT ![poll.hand.job] = poll.hand.body]
      BY <2>7 DEF PutBack, Upsert
    <3>2. poll'.pc = "fire" /\ poll'.list = poll.list /\ ~InHand' /\ ~HandOf(t)'
      BY <1>0, <3>1 DEF PollType, HandOf, InHand
    <3>3. now + Retry # NoTime
      BY <1>0 DEF PlainInv, NoTime
    <3>4. StemsInv(t)'
      BY <1>0, <1>1, <2>2, <3>1, <3>2, HandStems DEF StoreInv
    <3>5. CASE poll.hand.job = Main(t)
      <4>1. due'[Main(t)] # NoTime
        BY <1>0, <3>1, <3>3, <3>5 DEF StoreInv
      <4> QED
        BY <1>1, <2>3, <2>4, <3>2, <3>4, <4>1 DEF CourseInv, HandInv, Armed
    <3>6. CASE poll.hand.job = Pre(t)
      <4>1. due'[Main(t)] = due[Main(t)] /\ body'[Main(t)] = body[Main(t)]
        BY <1>0, <3>1, <3>6 DEF StoreInv
      <4>2. Armed(t) \/ Passed(t)
        BY <1>0, <2>2, <2>3, <3>6 DEF CourseInv, Claimed
      <4>3. Armed(t) \/ body[Main(t)].rule = "last"
        BY <1>0, <2>2, <2>3, <3>1, <3>6 DEF CourseInv
      <4> QED
        BY <1>1, <2>3, <2>4, <3>1, <3>2, <3>4, <4>1, <4>2, <4>3 DEF CourseInv, HandInv, Armed, Passed
    <3> QED
      BY <1>0, <3>5, <3>6
  <2>8. CASE EndSeries
    <3>1. /\ poll' = Resting /\ poll.pc = "after" /\ UNCHANGED <<due, body, sent, skipped>>
          /\ poll.hand.job[2] = "main" /\ poll.hand.body.rule = "last"
      BY <2>8 DEF EndSeries, LastSent, RunOut
    <3>2. poll'.list = <<>> /\ ~HandOf(t)' /\ ~InHand'
      BY <3>1 DEF HandOf, InHand, Resting
    <3>3. poll.hand.job = Main(t)
      BY <1>0, <3>1 DEF Pre
    <3>4. StemsInv(t)'
      BY <1>0, <1>1, <2>2, <3>1, <3>2, HandStems
    <3>5. Passed(t)' /\ body'[Main(t)].rule = "last"
      BY <1>1, <2>2, <3>1, <3>3 DEF HandInv, Passed
    <3> QED
      BY <1>1, <2>3, <2>4, <3>2, <3>4, <3>5 DEF CourseInv, HandInv
  <2>9. CASE AfterSend
    <3>1. poll.pc = "after" /\ UNCHANGED <<sent, skipped>>
      BY <2>9 DEF AfterSend
    <3>2. CASE poll.hand.job[2] = "pre"
      <4>1. poll.hand.job = Pre(t)
        BY <1>0, <3>2 DEF Main
      <4>2. /\ due' = [due EXCEPT ![Pre(t)] = NoTime] /\ body' = [body EXCEPT ![Pre(t)] = NoBody]
            /\ poll' = [poll EXCEPT !.pc = "fire", !.hand = NoHand]
        BY <2>9, <3>2, <4>1 DEF AfterSend, Remove
      <4>3. poll'.pc = "fire" /\ poll'.list = poll.list /\ ~InHand' /\ ~HandOf(t)'
        BY <1>0, <4>2 DEF PollType, HandOf, InHand
      <4>4. StemsInv(t)'
        BY <1>0, <1>1, <2>2, <4>2, <4>3, HandStems DEF StoreInv
      <4>5. due'[Main(t)] = due[Main(t)] /\ body'[Main(t)] = body[Main(t)] /\ due'[Pre(t)] = NoTime
        BY <1>0, <4>2 DEF StoreInv
      <4>6. Armed(t) \/ Passed(t)
        BY <1>0, <2>2, <2>3, <4>1 DEF CourseInv, Claimed
      <4> QED
        BY <1>1, <2>3, <2>4, <3>1, <4>3, <4>4, <4>5, <4>6 DEF CourseInv, HandInv, Armed, Passed
    <3>3. CASE poll.hand.job[2] # "pre"
      <4>1. poll.hand.job = Main(t)
        BY <1>0, <3>3 DEF Pre
      <4>2. PICK n \in Nat \cup {NoTime} : n = NextFire(poll.hand.body)
        BY <1>0, NextFireType DEF PlainInv
      <4>3. /\ poll' = [poll EXCEPT !.pc = "afterpre", !.next = n]
            /\ IF n # NoTime THEN Upsert(Main(t), n, poll.hand.body) ELSE Remove(Main(t))
        BY <2>9, <3>3, <4>1, <4>2 DEF AfterSend
      <4>4. /\ poll'.pc = "afterpre" /\ poll'.list = poll.list /\ poll'.hand = poll.hand
            /\ poll'.next = n /\ InHand' /\ HandOf(t)'
        BY <1>0, <4>3 DEF PollType, HandOf, InHand
      <4>5. /\ due'[Main(t)] = n /\ due'[Pre(t)] = due[Pre(t)] /\ body'[Pre(t)] = body[Pre(t)]
            /\ body'[Main(t)] = IF n # NoTime THEN poll.hand.body ELSE NoBody
        BY <1>0, <4>3 DEF StoreInv, Upsert, Remove
      <4>6. StemsInv(t)'
        BY <1>0, <1>1, <2>2, <4>1, <4>4, <4>5, HandStems
      <4>7. HandInv(t)'
        BY <4>1, <4>4, <4>5 DEF HandInv
      <4>8. want[t].rev \in {sent'[Main(t)], skipped'[Main(t)]}
        BY <1>0, <2>2, <3>1, <4>1 DEF HandInv, HandOf
      <4>9. CourseInv(t)'
        BY <1>1, <2>3, <2>4, <4>1, <4>4, <4>5, <4>8 DEF CourseInv, Armed, Passed
      <4> QED
        BY <4>6, <4>7, <4>9
    <3> QED
      BY <3>2, <3>3
  <2>10. CASE AfterSendPre
    <3>1. /\ poll.pc = "afterpre" /\ UNCHANGED <<sent, skipped>>
          /\ poll' = [poll EXCEPT !.pc = "fire", !.hand = NoHand, !.next = NoTime]
          /\ IF poll.next # NoTime THEN SyncPre(t, poll.next, poll.hand.body, now) ELSE Remove(Pre(t))
      BY <1>0, <2>10 DEF AfterSendPre
    <3>2. poll'.pc = "fire" /\ poll'.list = poll.list /\ ~InHand' /\ ~HandOf(t)'
      BY <1>0, <3>1 DEF PollType, HandOf, InHand
    <3>3. poll.hand.job = Main(t) /\ (poll.next # NoTime => due[Main(t)] # NoTime)
      BY <2>2, <3>1 DEF HandInv
    <3>4. CASE poll.next = NoTime
      <4>1. /\ due' = [due EXCEPT ![Pre(t)] = NoTime] /\ body' = [body EXCEPT ![Pre(t)] = NoBody]
        BY <3>1, <3>4 DEF Remove
      <4>2. due'[Main(t)] = due[Main(t)] /\ body'[Main(t)] = body[Main(t)] /\ due'[Pre(t)] = NoTime
            /\ body'[Pre(t)] = NoBody
        BY <1>0, <4>1 DEF StoreInv
      <4>3. StemsInv(t)'
        BY <1>0, <1>1, <2>2, <3>2, <4>2, HandStems
      <4>4. Armed(t) \/ Passed(t)
        BY <2>2, <2>3, <3>1 DEF CourseInv, Claimed
      <4> QED
        BY <1>1, <2>3, <2>4, <3>1, <3>2, <4>2, <4>3, <4>4 DEF CourseInv, HandInv, Armed, Passed
    <3>5. CASE poll.next # NoTime
      <4>1. poll.next \in Nat /\ now \in Nat
        BY <1>0, <3>5 DEF PollType, PlainInv
      <4>2. /\ StoreInv'
            /\ due'[Main(t)] = due[Main(t)] /\ body'[Main(t)] = body[Main(t)]
        BY <1>0, <3>1, <3>5, <4>1, SyncPreStore
      <4>3. body'[Pre(t)] = NoBody \/ body'[Pre(t)].rev = poll.hand.body.rev
        <5>1. Remove(Pre(t)) \/ (\E at \in Int : Upsert(Pre(t), at, [poll.hand.body EXCEPT !.rule = "none"]))
          BY <1>0, <3>1, <3>5, <4>1 DEF SyncPre, Read, Payload
        <5>2. [poll.hand.body EXCEPT !.rule = "none"].rev = poll.hand.body.rev
          BY <1>0 DEF Read, Payload
        <5> QED
          BY <1>0, <5>1, <5>2 DEF Remove, Upsert, StoreInv
      <4>4. StemsInv(t)'
        BY <1>0, <1>1, <2>2, <3>2, <4>2, <4>3, HandStems
      <4> QED
        BY <1>1, <2>3, <2>4, <3>2, <3>3, <3>5, <4>2, <4>4 DEF CourseInv, HandInv, Armed
    <3> QED
      BY <3>4, <3>5
  <2> QED
    BY <2>5, <2>6, <2>7, <2>8, <2>9, <2>10
<1> QED
  BY <1>2, <1>3

(* A step on the job in hand, seen by every task. *)
LEMMA HandCourse ==
  ASSUME DueInv, DistinctInv, NEW t \in Task, HalfInv(t), QuietInv(t),
         \/ SkipDuplicate \/ Deliver \/ KeyStep \/ PutBack
         \/ EndSeries \/ AfterSend \/ AfterSendPre
  PROVE  HalfInv(t)' /\ QuietInv(t)'
<1>0. /\ StoreInv /\ PlainInv /\ poll \in PollType /\ InHand /\ poll.hand.body \in Read
      /\ poll.hand.job \in Job /\ Main(t) \in Job /\ Pre(t) \in Job
      /\ Main(t)[1] = t /\ Pre(t)[1] = t
  BY DueInvParts, JobsOfTask, KeySteps DEF PollInv, PollType, InHand, SkipDuplicate, Deliver,
     PutBack, EndSeries, AfterSend, AfterSendPre, Main, Pre
<1>1. CASE HandOf(t)
  BY <1>1, HandOwn
<1>2. CASE ~HandOf(t)
  <2>1. shaken' = shaken /\ cons' = cons /\ want' = want /\ (Half(t)' <=> Half(t))
    BY KeySteps DEF SkipDuplicate, Deliver, PutBack, EndSeries, AfterSend, AfterSendPre, Half, Working
  <2>2. PICK u \in Task : u = poll.hand.job[1] /\ poll.hand.job \in {Main(u), Pre(u)}
    BY <1>0, TaskOfJob
  <2>3. u # t /\ Pre(u)[1] = u
    BY <1>0, <1>2, <2>2 DEF HandOf, Pre
  <2>4. /\ poll'.list = poll.list \/ poll'.list = <<>>
        /\ poll'.ids = poll.ids \/ poll'.ids = <<>>
        /\ InHand' => poll'.hand = poll.hand
    <3>1. CASE EndSeries
      BY <3>1 DEF EndSeries, InHand, Resting
    <3>2. CASE KeyStep
      BY <3>2, KeySteps
    <3>3. CASE SkipDuplicate \/ Deliver
      BY <1>0, <3>3 DEF SkipDuplicate, Deliver, PollType, InHand
    <3>4. CASE PutBack \/ AfterSendPre
      BY <1>0, <3>4 DEF PutBack, AfterSendPre, PollType, InHand
    <3>5. CASE AfterSend
      BY <1>0, <3>5 DEF AfterSend, PollType, InHand
    <3> QED
      BY <3>1, <3>2, <3>3, <3>4, <3>5
  <2>5. ~HandOf(t)'
    BY <1>0, <1>2, <2>4 DEF HandOf
  <2>6. Held(t)' => Held(t)
    BY <2>4, <2>5 DEF Held, HandOf
  <2>7. \A j \in {Main(t), Pre(t)} : j # poll.hand.job /\ j # Pre(u) /\ j \in Job
    BY <1>0, <2>2, <2>3
  <2>8. \A j \in {Main(t), Pre(t)} : due'[j] = due[j] /\ body'[j] = body[j] /\ sent'[j] = sent[j] /\ skipped'[j] = skipped[j]
    <3>1. CASE SkipDuplicate \/ Deliver \/ EndSeries
      BY <1>0, <2>7, <3>1 DEF SkipDuplicate, Deliver, EndSeries, PlainInv
    <3>4. CASE KeyStep
      BY <3>4, KeySteps
    <3>2. CASE PutBack \/ AfterSend
      BY <1>0, <2>7, <3>2 DEF PutBack, AfterSend, Upsert, Remove, StoreInv
    <3>3. CASE AfterSendPre
      <4>1. \/ poll.next \in Nat /\ SyncPre(u, poll.next, poll.hand.body, now)
            \/ Remove(Pre(u))
        BY <1>0, <2>2, <3>3 DEF AfterSendPre, PollType
      <4>2. CASE poll.next \in Nat /\ SyncPre(u, poll.next, poll.hand.body, now)
        BY <1>0, <2>7, <3>3, <4>2, SyncPreStore DEF PlainInv, AfterSendPre
      <4>3. CASE Remove(Pre(u))
        BY <1>0, <2>7, <3>3, <4>3 DEF Remove, StoreInv, AfterSendPre
      <4> QED
        BY <4>1, <4>2, <4>3
    <3> QED
      BY <3>1, <3>2, <3>3, <3>4
  <2> QED
    BY <1>2, <2>1, <2>4, <2>5, <2>6, <2>8, Frame
<1> QED
  BY <1>1, <1>2

(* A claim, seen by every task. *)
LEMMA ClaimCourse ==
  ASSUME DueInv, DistinctInv, NEW t \in Task, HalfInv(t), QuietInv(t), Claim
  PROVE  HalfInv(t)' /\ QuietInv(t)'
<1>0. /\ StoreInv /\ PlainInv /\ poll \in PollType /\ poll.pc = "fire" /\ poll.list # <<>>
      /\ Main(t) \in Job /\ Pre(t) \in Job /\ Main(t)[1] = t /\ Pre(t)[1] = t /\ Main(t) # Pre(t)
      /\ poll.list \in Seq([job : Job, body : Read])
  BY DueInvParts, JobsOfTask DEF PollInv, PollType, Claim, Main, Pre
<1> DEFINE e == Head(poll.list)
<1>1. /\ e = poll.list[1] /\ 1 \in DOMAIN poll.list /\ e \in [job : Job, body : Read]
      /\ \A i \in DOMAIN Tail(poll.list) : i + 1 \in DOMAIN poll.list /\ Tail(poll.list)[i] = poll.list[i + 1]
  BY <1>0, TailIndex, HeadTailProperties
<1> HIDE DEF e
<1>2. /\ UNCHANGED <<body, sent, skipped, want, cons>> /\ poll'.list = Tail(poll.list) /\ poll'.ids = poll.ids
      /\ ~HandOf(t) /\ (Half(t)' <=> Half(t))
  BY <1>0 DEF Claim, PollType, HandOf, InHand, Half, Working
<1>3. \A i \in DOMAIN poll'.list : \E k \in DOMAIN poll.list : poll'.list[i] = poll.list[k]
  BY <1>1, <1>2
<1>4. e.job[1] = t => Held(t)
  BY <1>1 DEF Held
<1>5. (\E i \in DOMAIN poll'.list : poll'.list[i].job[1] = t) => Held(t)
  BY <1>3 DEF Held
<1>6. CASE due[e.job] = NoTime
  <2>1. poll' = [poll EXCEPT !.list = Tail(@)] /\ UNCHANGED <<due, shaken>>
    BY <1>6 DEF Claim, e
  <2>2. poll'.pc = "fire" /\ ~HandOf(t)'
    BY <1>0, <2>1 DEF PollType, HandOf, InHand
  <2>3. Held(t)' => Held(t)
    BY <1>2, <1>5, <2>2 DEF Held, InHand
  <2> QED
    BY <1>2, <1>3, <2>1, <2>2, <2>3, Frame
<1>7. CASE due[e.job] # NoTime
  <2>1. /\ poll' = [poll EXCEPT !.pc = "send", !.list = Tail(@), !.hand = e]
        /\ due' = [due EXCEPT ![e.job] = NoTime]
        /\ shaken' = IF Working(e.job[1]) THEN shaken \cup {e.job[1]} ELSE shaken
    BY <1>7 DEF Claim, e
  <2>2. poll'.pc = "send" /\ poll'.hand = e /\ InHand'
    BY <1>0, <2>1 DEF PollType, InHand
  <2>3. CASE e.job[1] # t
    <3>1. ~HandOf(t)' /\ \A j \in {Main(t), Pre(t)} : due'[j] = due[j]
      BY <1>0, <2>1, <2>2, <2>3 DEF HandOf, StoreInv
    <3>2. Held(t)' => Held(t)
      BY <1>2, <1>5, <2>2, <2>3 DEF Held
    <3>3. t \notin shaken' => t \notin shaken
      BY <2>1
    <3> QED
      BY <1>2, <1>3, <3>1, <3>2, <3>3, Frame
  <2>4. CASE t \in shaken'
    BY <2>4 DEF HalfInv, QuietInv
  <2>5. CASE e.job[1] = t /\ t \notin shaken'
    <3>1. t \notin shaken /\ ~Working(t) /\ ~Half(t) /\ ~Half(t)'
      BY <1>2, <2>1, <2>5 DEF Half
    <3>2. StemsInv(t) /\ HandInv(t) /\ CourseInv(t)
      BY <3>1 DEF QuietInv
    <3>3. want[t].kind # "delete" /\ want[t].rev # 0
      BY <1>4, <2>5, <3>2 DEF CourseInv
    <3>4. /\ e.body.rev = want[t].rev /\ (e.job = Main(t) => e.body = body[Main(t)])
          /\ e.job \in {Main(t), Pre(t)}
      BY <1>1, <2>5, <3>2, TaskOfJob DEF StemsInv
    <3>5. StemsInv(t)'
      BY <1>2, <1>3, <2>2, <3>2, <3>4 DEF StemsInv
    <3>6. /\ due'[e.job] = NoTime
          /\ \A j \in {Main(t), Pre(t)} : j # e.job => due'[j] = due[j]
      BY <1>0, <1>1, <2>1 DEF StoreInv
    <3>7. HandInv(t)'
      BY <1>2, <2>2, <3>4, <3>6 DEF HandInv
    <3>8. CASE e.job = Main(t)
      <4>1. Claimed(Main(t))' /\ (HandOf(t) /\ poll.hand.job = Main(t))'
        BY <1>0, <2>2, <3>8 DEF Claimed, HandOf
      <4> QED
        BY <1>2, <3>1, <3>3, <3>5, <3>7, <4>1 DEF CourseInv, QuietInv, HalfInv
    <3>9. CASE e.job = Pre(t)
      <4>1. Armed(t) \/ Passed(t)
        BY <1>0, <3>2, <3>3 DEF CourseInv, Claimed
      <4>2. Armed(t) \/ body[Main(t)].rule = "last"
        BY <1>2, <1>7, <3>2, <3>3, <3>9 DEF CourseInv
      <4>3. (Armed(t)' <=> Armed(t)) /\ (Passed(t)' <=> Passed(t))
        BY <1>0, <1>2, <3>6, <3>9 DEF Armed, Passed
      <4> QED
        BY <1>2, <3>1, <3>3, <3>5, <3>7, <4>1, <4>2, <4>3 DEF CourseInv, QuietInv, HalfInv
    <3> QED
      BY <3>4, <3>8, <3>9
  <2> QED
    BY <2>3, <2>4, <2>5
<1> QED
  BY <1>6, <1>7

(* An id without a payload, one step later. *)
LEMMA GoneStep == ASSUME DueInv, GoneInv, [Next]_vars PROVE GoneInv'
<1>0. /\ StoreInv /\ ConsInv /\ poll \in PollType /\ (poll.pc = "gone" => poll.ids # <<>>)
      /\ poll.ids \in Seq(Job) /\ Resting.pc = "idle"
  BY DueInvParts, IdleTypes DEF PollInv, PollType
<1>1. CASE ReadBody
  BY <1>0, <1>1 DEF ReadBody, GoneInv, PollType
<1>2. CASE Consume
  <2>1. PICK t0 \in Task : t0 = cons.msg.task
    BY <1>0 DEF ConsInv, ConsType, MessageType
  <2>2. CASE poll.pc = "gone"
    <3>1. /\ Head(poll.ids) = poll.ids[1] /\ 1 \in DOMAIN poll.ids
          /\ Head(poll.ids) \in Job /\ Head(poll.ids)[1] \in Task
      BY <1>0, <2>2, TailIndex, HeadTailProperties, TaskOfJob
    <3>2. poll' = poll
      BY <1>2, <2>1, ConsumeEffect
    <3>3. CASE Head(poll.ids)[1] = t0
      <4>1. Held(t0)
        BY <3>1, <3>3 DEF Held
      <4>2. UNCHANGED <<body, shaken>> \/ t0 \in shaken'
        BY <1>2, <2>1, <4>1, ConsumeEffect
      <4> QED
        BY <3>2, <3>3, <4>2 DEF GoneInv
    <3>4. CASE Head(poll.ids)[1] # t0
      <4>1. Main(t0)[1] = t0 /\ Pre(t0)[1] = t0
        BY DEF Main, Pre
      <4>2. Head(poll.ids) # Main(t0) /\ Head(poll.ids) # Pre(t0)
        BY <3>4, <4>1
      <4>3. body'[Head(poll.ids)] = body[Head(poll.ids)]
        BY <1>2, <2>1, <3>1, <4>2, ConsumeEffect
      <4>4. Head(poll.ids)[1] \in shaken' <=> Head(poll.ids)[1] \in shaken
        BY <1>2, <2>1, <3>1, <3>4, ConsumeEffect
      <4> QED
        BY <3>2, <4>3, <4>4 DEF GoneInv
    <3> QED
      BY <3>3, <3>4
  <2>3. CASE poll.pc # "gone"
    BY <1>2, <2>1, <2>3, ConsumeEffect DEF GoneInv
  <2> QED
    BY <2>2, <2>3
<1>3. CASE PollRead
  <2>1. PICK s \in DueBatches : poll' = [Resting EXCEPT !.pc = "read", !.ids = s]
    BY <1>3 DEF PollRead
  <2>2. poll'.pc = "read"
    BY <2>1 DEF Resting
  <2> QED
    BY <2>2 DEF GoneInv
<1>4. CASE \/ DropGone \/ ReadAll \/ Claim \/ PollDone \/ SkipDuplicate \/ Deliver \/ KeyStep
           \/ PutBack \/ EndSeries \/ AfterSend \/ AfterSendPre \/ PollerFails \/ Crash
  <2>1. poll'.pc # "gone"
    BY <1>0, <1>4, KeySteps DEF DropGone, ReadAll, Claim, PollDone, SkipDuplicate, Deliver,
       PutBack, EndSeries, AfterSend, AfterSendPre, PollerFails, Crash, PollType
  <2> QED
    BY <2>1 DEF GoneInv
<1>5. CASE (\E m \in Message : Receive(m)) \/ ConsumerFails \/ Tick \/ UNCHANGED vars
  <2>1. poll' = poll /\ body' = body /\ shaken \subseteq shaken'
    BY <1>5 DEF Receive, ConsumerFails, Tick, vars
  <2> QED
    BY <2>1 DEF GoneInv
<1> QED
  BY <1>1, <1>2, <1>3, <1>4, <1>5 DEF Next, Poll, KeyStep

(* The course of every task is kept in every behaviour. *)
LEMMA CourseInductive == Spec => []CourseAll
<1>1. Init => DistinctInv /\ GoneInv /\ \A t \in Task : HalfInv(t) /\ QuietInv(t)
  <2> SUFFICES ASSUME Init PROVE DistinctInv /\ GoneInv /\ \A t \in Task : HalfInv(t) /\ QuietInv(t)
    OBVIOUS
  <2>1. poll.pc = "idle" /\ poll.ids = <<>> /\ poll.list = <<>> /\ cons.pc = "idle" /\ ~InHand
    BY DEF Init, Resting, Idle, InHand
  <2>2. DistinctInv /\ GoneInv
    BY <2>1 DEF DistinctInv, GoneInv
  <2>3. ASSUME NEW t \in Task PROVE HalfInv(t) /\ QuietInv(t)
    <3>1. ~Half(t) /\ ~Held(t) /\ ~HandOf(t)
      BY <2>1 DEF Half, Working, Held, HandOf
    <3>2. /\ due[Main(t)] = NoTime /\ due[Pre(t)] = NoTime /\ want[t].kind = "delete"
          /\ body[Main(t)] = NoBody /\ body[Pre(t)] = NoBody
      BY JobsOfTask DEF Init
    <3> QED
      BY <2>1, <3>1, <3>2 DEF HalfInv, QuietInv, StemsInv, HandInv, CourseInv
  <2> QED
    BY <2>2, <2>3
<1>2. CourseAll /\ DueInv' /\ [Next]_vars => CourseAll'
  <2> SUFFICES ASSUME CourseAll, DueInv', [Next]_vars PROVE CourseAll'
    OBVIOUS
  <2>1. DueInv /\ DistinctInv /\ GoneInv /\ \A t \in Task : HalfInv(t) /\ QuietInv(t)
    BY DEF CourseAll
  <2>2. DistinctInv' /\ GoneInv'
    BY <2>1, DistinctStep, GoneStep
  <2>3. ASSUME NEW t \in Task PROVE HalfInv(t)' /\ QuietInv(t)'
    <3>1. HalfInv(t) /\ QuietInv(t)
      BY <2>1
    <3>2. CASE Next
      BY <2>1, <3>1, <3>2, PlainCourse, ConsumeCourse, HandCourse, ClaimCourse DEF Next, Poll, KeyStep
    <3>3. CASE UNCHANGED vars
      <4>1. (HandOf(t)' <=> HandOf(t)) /\ (Held(t)' <=> Held(t)) /\ (Half(t)' <=> Half(t))
        BY <3>3 DEF vars, HandOf, InHand, Held, Half, Working
      <4> QED
        BY <2>1, <3>1, <3>3, <4>1, Frame DEF vars
    <3> QED
      BY <3>2, <3>3
  <2> QED
    BY <2>2, <2>3 DEF CourseAll
<1> QED
  BY <1>1, <1>2, DueInvInductive, InitDueInv, PTL DEF Spec, CourseAll

(* Nothing scheduled is forgotten: it is armed, in hand, or was sent or    *)
(* passed over as a duplicate.                                             *)
THEOREM ScheduledIsKeptCorrect == Spec => []ScheduledIsKept
<1>1. CourseAll => ScheduledIsKept
  <2> SUFFICES ASSUME CourseAll, NEW t \in Task, Settled(t), want[t].kind = "schedule"
               PROVE  \/ due[Main(t)] # NoTime /\ body[Main(t)].rev = want[t].rev
                      \/ Claimed(Main(t)) /\ poll.hand.body.rev = want[t].rev
                      \/ /\ want[t].rev \in {sent[Main(t)], skipped[Main(t)]}
                         /\ body[Main(t)] = NoBody \/ body[Main(t)].rule = "last"
    BY DEF ScheduledIsKept
  <2>1. StemsInv(t) /\ CourseInv(t) /\ Main(t) \in Job /\ DueHasBody
    BY JobsOfTask DEF CourseAll, QuietInv, Settled, Half, DueInv, StoreInv
  <2>2. Claimed(Main(t)) => HandOf(t)
    BY DEF Claimed, HandOf, InHand, Main
  <2> QED
    BY <2>1, <2>2 DEF StemsInv, CourseInv, Armed, Passed, DueHasBody
<1> QED
  BY <1>1, CourseInductive, PTL

(* Nothing of a deleted task is armed, listed or in hand.                  *)
THEOREM DeletedIsSilentCorrect == Spec => []DeletedIsSilent
<1>1. CourseAll => DeletedIsSilent
  BY DEF CourseAll, DeletedIsSilent, QuietInv, CourseInv, Settled, Half
<1> QED
  BY <1>1, CourseInductive, PTL

(* A preliminary reminder has its reminder, of the same message.           *)
THEOREM PreHasMainCorrect == Spec => []PreHasMain
<1>1. CourseAll => PreHasMain
  <2> SUFFICES ASSUME CourseAll, NEW t \in Task, Settled(t), ~Held(t), due[Pre(t)] # NoTime
               PROVE  /\ due[Main(t)] # NoTime \/ body[Main(t)].rule = "last"
                      /\ body[Pre(t)].rev = body[Main(t)].rev
    BY DEF PreHasMain
  <2>1. StemsInv(t) /\ CourseInv(t) /\ Main(t) \in Job /\ Pre(t) \in Job /\ DueHasBody
    BY JobsOfTask DEF CourseAll, QuietInv, Settled, Half, DueInv, StoreInv
  <2>2. ~HandOf(t)
    BY DEF Held, HandOf
  <2>3. due[Main(t)] # NoTime \/ body[Main(t)].rule = "last"
    BY <2>1, <2>2 DEF CourseInv, Armed
  <2>4. body[Main(t)] # NoBody /\ body[Pre(t)] # NoBody
    BY <2>1, <2>3 DEF DueHasBody, NoBody
  <2> QED
    BY <2>1, <2>3, <2>4 DEF StemsInv
<1> QED
  BY <1>1, CourseInductive, PTL
=============================================================================
