------------------------------ MODULE DueStore ------------------------------
(***************************************************************************)
(* The sample worker (examples/worker): what a worker does with the        *)
(* messages TaskService publishes.  Two threads share one Redis store, a   *)
(* sorted set of fire times and a hash of payloads.  The consumer handles  *)
(* one message at a time; the poller reads the jobs that are due, claims   *)
(* them one by one, sends them to the webhook and arms the next            *)
(* occurrence.  Every action is one Redis transaction of one thread.       *)
(*                                                                         *)
(* A task has one messenger and one chat.                                  *)
(***************************************************************************)
EXTENDS Integers, Sequences, FiniteSets

CONSTANTS Task,      \* the tasks messages are about
          Message,   \* the messages that may arrive, records of MessageType
          MaxMsg,    \* how many messages arrive (bound of the model)
          MaxTime,   \* how far the clock runs (bound of the model)
          Limit,     \* how many due jobs one poll reads
          Period,    \* the period of the recurring rules
          Retry,     \* the delay after a failed delivery (30 s)
          DupeTTL,   \* the life of an anti-duplicate key (ANTI_DUPE_TTL, 30 s)
          PostTime,  \* how long an answer may take (WEBHOOK_TIMEOUT_SEC, 10 s)
          Faults,    \* "redis", "webhook", "crash"
          MaxFault   \* how often Redis fails or the process dies (bound)

NoTime == -1

Job  == Task \X {"main", "pre"}
Main(t) == <<t, "main">>
Pre(t)  == <<t, "pre">>

\* "last" is an RRULE with no occurrence after its start.
Rule == {"none", "cron", "rrule", "last"}

\* What arrives: start is NoTime when null, before 0 when there is no
\* preliminary reminder.
MessageType ==
  [kind : {"schedule", "delete"}, task : Task, start : Nat \cup {NoTime},
   rule : Rule, before : Nat]

\* What the hash keeps, and what is read of it; rev numbers the message it stems from, 0 is none.
Payload ==
  [rev : Nat, start : Nat \cup {NoTime}, rule : Rule, before : Nat]

Read == {p \in Payload : p.rev # 0 /\ p.start # NoTime}

NoBody == [rev |-> 0, start |-> NoTime, rule |-> "none", before |-> 0]

ASSUME DueStoreAssumption ==
  /\ Task # {}
  /\ MaxMsg \in Nat /\ MaxTime \in Nat /\ MaxFault \in Nat
  /\ Limit \in Nat \ {0} /\ Period \in Nat \ {0}
  /\ Retry \in Nat \ {0} /\ DupeTTL \in Nat \ {0} /\ PostTime \in Nat
  /\ Faults \subseteq {"redis", "webhook", "crash"}
  /\ Message \subseteq MessageType

VARIABLES due,     \* the sorted set: fire time of a job, or NoTime
          body,    \* the hash: payload of a job
          dupe,    \* when the anti-duplicate key of a job expires
          now,
          cons,    \* the consumer: its step, message and computed start
          poll,    \* the poller: ids to read, jobs to fire, job in hand
          rev,     \* how many messages have arrived
          failed,  \* how often Redis failed or the process died
          want,    \* history: the last message handled about a task
          shaken,  \* history: tasks touched while the poller held them, or
                   \* whose handling a failure cut short
          sent,    \* history: the rev of a job that last passed the webhook
          skipped, \* history: the rev of a job that was last taken for a duplicate
          ackedAt  \* history: when a delivery of a job was last acknowledged

vars == <<due, body, dupe, now, cons, poll, rev, failed, want, shaken, sent,
          skipped, ackedAt>>

store == <<due, body>>

NoMsg  == [kind |-> "delete", task |-> CHOOSE t \in Task : TRUE,
           start |-> NoTime, rule |-> "none", before |-> 0]
NoHand == [job |-> Main(CHOOSE t \in Task : TRUE), body |-> NoBody]

Idle    == [pc |-> "idle", msg |-> NoMsg, rev |-> 0, start |-> NoTime,
            at |-> 0]
Resting == [pc |-> "idle", ids |-> <<>>, list |-> <<>>, hand |-> NoHand,
            next |-> NoTime, at |-> 0]
-----------------------------------------------------------------------------
(* The store. *)

Upsert(j, at, p) == /\ due'  = [due EXCEPT ![j] = at]
                    /\ body' = [body EXCEPT ![j] = p]

Remove(j) == /\ due'  = [due EXCEPT ![j] = NoTime]
             /\ body' = [body EXCEPT ![j] = NoBody]

DueJobs == {j \in Job : due[j] # NoTime /\ due[j] <= now}

\* The jobs one poll may read: at most Limit, none skipped for a later one.
DueBatches ==
  {s \in UNION {[1..n -> DueJobs] : n \in 1..Limit} :
     /\ Len(s) = IF Cardinality(DueJobs) < Limit THEN Cardinality(DueJobs)
                                                ELSE Limit
     /\ \A i, k \in DOMAIN s : i < k => s[i] # s[k] /\ due[s[i]] <= due[s[k]]
     /\ \A i \in DOMAIN s, j \in DueJobs :
          due[j] < due[s[i]] => \E k \in DOMAIN s : s[k] = j}
-----------------------------------------------------------------------------
(* Recurrence: cron ticks at the multiples of Period, an RRULE counts from *)
(* its start.                                                              *)

NextCron(after) == Period * (after \div Period + 1)

NextRRule(after, dtstart) ==
  IF dtstart > after THEN dtstart
  ELSE dtstart + Period * ((after - dtstart) \div Period + 1)

NextRecurrence(rule, after, dtstart) ==
  IF rule = "cron" THEN NextCron(after) ELSE NextRRule(after, dtstart)

\* _next_rrule raises when the rule has run out.
RunOut(rule, after, dtstart) == rule = "last" /\ dtstart <= after

\* The time schedule_task stores: a null start is the next occurrence, an
\* overdue start of a recurring task moves to the next one, an overdue start
\* of a one-time task stays and fires at once.
FirstFire(m) ==
  LET start == IF m.start = NoTime THEN NextRecurrence(m.rule, now, now)
               ELSE m.start
  IN  IF m.rule # "none" /\ start <= now
      THEN NextRecurrence(m.rule, now, start) ELSE start

(* Slip: a preliminary reminder that no longer fits is left there. *)
SyncPreKeepsStale(t, at, p, clock) ==
  IF at - p.before > clock /\ p.before > 0
  THEN Upsert(Pre(t), at - p.before, [p EXCEPT !.rule = "none"])
  ELSE UNCHANGED store

\* _sync_pre_remind: arm the preliminary reminder of an occurrence, or drop
\* the one that is there.
SyncPre(t, at, p, clock) ==
  IF p.before = 0 \/ at - p.before <= clock
  THEN Remove(Pre(t))
  ELSE Upsert(Pre(t), at - p.before, [p EXCEPT !.rule = "none"])
-----------------------------------------------------------------------------
(* History. *)

InHand == poll.pc \in {"send", "post", "retry", "after", "afterpre"}

\* The poller has a job of t in its hands or on its lists.
Held(t) == \/ \E i \in DOMAIN poll.ids : poll.ids[i][1] = t
           \/ \E i \in DOMAIN poll.list : poll.list[i].job[1] = t
           \/ InHand /\ poll.hand.job[1] = t

\* The consumer is handling a message about t.
Working(t) == cons.pc # "idle" /\ cons.msg.task = t

\* A consumer's step on t: it meets the poller, or settles the task afresh.
Touch(t, fresh) ==
  shaken' = IF Held(t) THEN shaken \cup {t}
            ELSE IF fresh THEN shaken \ {t} ELSE shaken

Handled == want' = [want EXCEPT ![cons.msg.task] =
                      [kind |-> cons.msg.kind, rev |-> cons.rev]]
-----------------------------------------------------------------------------
(* The consumer. *)

\* A message without a time to start from, or with a rule that has run out,
\* is refused (nack, no requeue).
Usable(m) == \/ m.kind = "delete"
             \/ /\ m.start # NoTime \/ m.rule # "none"
                /\ ~RunOut(m.rule, now, IF m.start = NoTime THEN now ELSE m.start)

Receive(m) ==
  /\ cons.pc = "idle" /\ rev < MaxMsg
  /\ rev' = rev + 1
  /\ cons' = [Idle EXCEPT !.pc = "main", !.msg = m, !.rev = rev + 1]
  /\ UNCHANGED <<due, body, dupe, now, poll, want, shaken, sent, skipped, ackedAt, failed>>

Refuse ==
  /\ cons.pc = "main" /\ ~Usable(cons.msg)
  /\ cons' = Idle
  /\ UNCHANGED <<due, body, dupe, now, poll, rev, want, shaken, sent, skipped, ackedAt, failed>>

NewBody == [rev |-> cons.rev, start |-> cons.start, rule |-> cons.msg.rule,
            before |-> cons.msg.before]

ScheduleMain ==
  /\ cons.pc = "main" /\ cons.msg.kind = "schedule" /\ Usable(cons.msg)
  /\ cons' = [cons EXCEPT !.pc = "pre", !.start = FirstFire(cons.msg), !.at = now]
  /\ Upsert(Main(cons.msg.task), cons'.start, [NewBody EXCEPT !.start = cons'.start])
  /\ Touch(cons.msg.task, TRUE)
  /\ UNCHANGED <<dupe, now, poll, rev, want, sent, skipped, ackedAt, failed>>

SchedulePre ==
  /\ cons.pc = "pre" /\ cons.msg.kind = "schedule"
  /\ SyncPre(cons.msg.task, cons.start, NewBody, cons.at)
  /\ Touch(cons.msg.task, FALSE)
  /\ Handled
  /\ cons' = Idle
  /\ UNCHANGED <<dupe, now, poll, rev, sent, skipped, ackedAt, failed>>

DeleteMain ==
  /\ cons.pc = "main" /\ cons.msg.kind = "delete"
  /\ Remove(Main(cons.msg.task))
  /\ Touch(cons.msg.task, TRUE)
  /\ cons' = [cons EXCEPT !.pc = "pre"]
  /\ UNCHANGED <<dupe, now, poll, rev, want, sent, skipped, ackedAt, failed>>

(* Slip: the preliminary reminder of a deleted task is left there. *)
DeletePreForgets ==
  /\ cons.pc = "pre" /\ cons.msg.kind = "delete"
  /\ Touch(cons.msg.task, FALSE)
  /\ Handled
  /\ cons' = Idle
  /\ UNCHANGED <<due, body, dupe, now, poll, rev, sent, skipped, ackedAt, failed>>

DeletePre ==
  /\ cons.pc = "pre" /\ cons.msg.kind = "delete"
  /\ Remove(Pre(cons.msg.task))
  /\ Touch(cons.msg.task, FALSE)
  /\ Handled
  /\ cons' = Idle
  /\ UNCHANGED <<dupe, now, poll, rev, sent, skipped, ackedAt, failed>>

\* A failing Redis call ends the handling: nack without requeue.
ConsumerFails ==
  /\ failed < MaxFault /\ failed' = failed + 1
  /\ "redis" \in Faults /\ cons.pc # "idle"
  /\ shaken' = shaken \cup {cons.msg.task}
  /\ cons' = Idle
  /\ UNCHANGED <<due, body, dupe, now, poll, rev, want, sent, skipped, ackedAt>>
-----------------------------------------------------------------------------
(* The poller: fire_due. *)

PollRead ==
  /\ poll.pc = "idle" /\ DueJobs # {}
  /\ \E s \in DueBatches : poll' = [Resting EXCEPT !.pc = "read", !.ids = s]
  /\ UNCHANGED <<due, body, dupe, now, cons, rev, want, shaken, sent, skipped, ackedAt, failed>>

(* Slip: a missing payload is not noticed. *)
ReadBodyBlindly ==
  /\ poll.pc = "read" /\ poll.ids # <<>>
  /\ LET j == Head(poll.ids) IN
     poll' = [poll EXCEPT !.ids = Tail(@),
                !.list = Append(@, [job |-> j, body |-> body[j]])]
  /\ UNCHANGED <<due, body, dupe, now, cons, rev, want, shaken, sent, skipped, ackedAt, failed>>

\* An id whose payload is gone is to be dropped from the sorted set.
ReadBody ==
  /\ poll.pc = "read" /\ poll.ids # <<>>
  /\ LET j == Head(poll.ids) IN
     poll' = IF body[j] = NoBody THEN [poll EXCEPT !.pc = "gone"]
             ELSE [poll EXCEPT !.ids = Tail(@),
                     !.list = Append(@, [job |-> j, body |-> body[j]])]
  /\ UNCHANGED <<due, body, dupe, now, cons, rev, want, shaken, sent, skipped, ackedAt, failed>>

DropGone ==
  /\ poll.pc = "gone"
  /\ due' = [due EXCEPT ![Head(poll.ids)] = NoTime]
  /\ poll' = [poll EXCEPT !.pc = "read", !.ids = Tail(@)]
  /\ UNCHANGED <<body, dupe, now, cons, rev, want, shaken, sent, skipped, ackedAt, failed>>

ReadAll ==
  /\ poll.pc = "read" /\ poll.ids = <<>>
  /\ poll' = [poll EXCEPT !.pc = "fire"]
  /\ UNCHANGED <<due, body, dupe, now, cons, rev, want, shaken, sent, skipped, ackedAt, failed>>

\* claim: whoever removes the member fires the job, with the payload read.
Claim ==
  /\ poll.pc = "fire" /\ poll.list # <<>>
  /\ LET j == Head(poll.list).job IN
     IF due[j] = NoTime
     THEN /\ poll' = [poll EXCEPT !.list = Tail(@)]
          /\ UNCHANGED <<due, shaken>>
     ELSE /\ due'  = [due EXCEPT ![j] = NoTime]
          /\ poll' = [poll EXCEPT !.pc = "send", !.list = Tail(@),
                                  !.hand = Head(poll.list)]
          /\ shaken' = IF Working(j[1]) THEN shaken \cup {j[1]} ELSE shaken
  /\ UNCHANGED <<body, dupe, now, cons, rev, failed, want, sent, skipped, ackedAt>>

PollDone ==
  /\ poll.pc = "fire" /\ poll.list = <<>>
  /\ poll' = Resting
  /\ UNCHANGED <<due, body, dupe, now, cons, rev, want, shaken, sent, skipped, ackedAt, failed>>

(* send_reminder.  A job whose key is alive is taken for a duplicate:      *)
(* nothing is posted, and the caller goes on as after a delivery.          *)
SkipDuplicate ==
  /\ poll.pc = "send" /\ dupe[poll.hand.job] > now
  /\ skipped' = [skipped EXCEPT ![poll.hand.job] = poll.hand.body.rev]
  /\ poll' = [poll EXCEPT !.pc = "after"]
  /\ UNCHANGED <<due, body, dupe, now, cons, rev, want, shaken, sent, ackedAt, failed>>

LiveKey == [dupe EXCEPT ![poll.hand.job] = now + DupeTTL]

(* Slip: the anti-duplicate key is not set. *)
SetKeyForgets ==
  /\ poll.pc = "send" /\ dupe[poll.hand.job] <= now
  /\ poll' = [poll EXCEPT !.pc = "post", !.at = now]
  /\ UNCHANGED <<due, body, dupe, now, cons, rev, want, shaken, sent, skipped, ackedAt, failed>>

\* SET NX EX, before the POST.
SetKey ==
  /\ poll.pc = "send" /\ dupe[poll.hand.job] <= now
  /\ dupe' = LiveKey
  /\ poll' = [poll EXCEPT !.pc = "post", !.at = now]
  /\ UNCHANGED <<due, body, now, cons, rev, want, shaken, sent, skipped, ackedAt, failed>>

\* Redis fails to set the key, or only to say that it did.
SetKeyFails ==
  /\ failed < MaxFault /\ failed' = failed + 1
  /\ "redis" \in Faults /\ poll.pc = "send"
  /\ \/ UNCHANGED dupe
     \/ dupe[poll.hand.job] <= now /\ dupe' = LiveKey
  /\ poll' = [poll EXCEPT !.pc = "retry"]
  /\ UNCHANGED <<due, body, now, cons, rev, want, shaken, sent, skipped, ackedAt>>

Deliver ==
  /\ poll.pc = "post"
  /\ sent' = [sent EXCEPT ![poll.hand.job] = poll.hand.body.rev]
  /\ ackedAt' = [ackedAt EXCEPT ![poll.hand.job] = <<@[2], now>>]
  /\ poll' = [poll EXCEPT !.pc = "after", !.at = 0]
  /\ UNCHANGED <<due, body, dupe, now, cons, rev, want, shaken, skipped, failed>>

(* Slip: the key of a failed delivery is left there. *)
DeliveryFailsKeepsKey ==
  /\ "webhook" \in Faults /\ poll.pc = "post"
  /\ poll' = [poll EXCEPT !.pc = "retry", !.at = 0]
  /\ UNCHANGED <<due, body, dupe, now, cons, rev, want, shaken, sent, skipped, ackedAt, failed>>

\* The webhook answers an error, or nothing in time: the key goes, and the job
\* is to be put back, as it was read.
DeliveryFails ==
  /\ "webhook" \in Faults /\ poll.pc = "post"
  /\ dupe' = [dupe EXCEPT ![poll.hand.job] = 0]
  /\ poll' = [poll EXCEPT !.pc = "retry", !.at = 0]
  /\ UNCHANGED <<due, body, now, cons, rev, want, shaken, sent, skipped, ackedAt, failed>>

\* The same, and Redis fails to delete the key.
DropKeyFails ==
  /\ failed < MaxFault /\ failed' = failed + 1
  /\ {"webhook", "redis"} \subseteq Faults /\ poll.pc = "post"
  /\ poll' = [poll EXCEPT !.pc = "retry", !.at = 0]
  /\ UNCHANGED <<due, body, dupe, now, cons, rev, want, shaken, sent, skipped, ackedAt>>

(* Slip: the retry is due at once. *)
PutBackAtOnce ==
  /\ poll.pc = "retry"
  /\ Upsert(poll.hand.job, now, poll.hand.body)
  /\ poll' = [poll EXCEPT !.pc = "fire", !.hand = NoHand]
  /\ UNCHANGED <<dupe, now, cons, rev, want, shaken, sent, skipped, ackedAt, failed>>

(* Slip: the failed job is not put back. *)
PutBackForgets ==
  /\ poll.pc = "retry"
  /\ poll' = [poll EXCEPT !.pc = "fire", !.hand = NoHand]
  /\ UNCHANGED <<due, body, dupe, now, cons, rev, want, shaken, sent, skipped, ackedAt, failed>>

PutBack ==
  /\ poll.pc = "retry"
  /\ Upsert(poll.hand.job, now + Retry, poll.hand.body)
  /\ poll' = [poll EXCEPT !.pc = "fire", !.hand = NoHand]
  /\ UNCHANGED <<dupe, now, cons, rev, want, shaken, sent, skipped, ackedAt, failed>>

NextFire(p) == IF p.rule = "none" THEN NoTime
               ELSE NextRecurrence(p.rule, now, p.start)

LastSent == poll.hand.job[2] = "main"
            /\ RunOut(poll.hand.body.rule, now, poll.hand.body.start)

\* The rule of the job just sent has run out: fire_due raises, and the
\* payload stays behind.
EndSeries ==
  /\ poll.pc = "after" /\ LastSent
  /\ poll' = Resting
  /\ UNCHANGED <<due, body, dupe, now, cons, rev, want, shaken, sent, skipped, ackedAt, failed>>

\* After a sending: a preliminary reminder goes, a recurring job is armed for
\* its next occurrence, a one-time job goes.
AfterSend ==
  /\ poll.pc = "after" /\ ~LastSent
  /\ LET j == poll.hand.job  p == poll.hand.body  nxt == NextFire(p) IN
     IF j[2] = "pre"
     THEN /\ Remove(j)
          /\ poll' = [poll EXCEPT !.pc = "fire", !.hand = NoHand]
     ELSE /\ IF nxt # NoTime THEN Upsert(j, nxt, p) ELSE Remove(j)
          /\ poll' = [poll EXCEPT !.pc = "afterpre", !.next = nxt]
  /\ UNCHANGED <<dupe, now, cons, rev, want, shaken, sent, skipped, ackedAt, failed>>

AfterSendPre ==
  /\ poll.pc = "afterpre"
  /\ LET t == poll.hand.job[1] IN
     IF poll.next # NoTime THEN SyncPre(t, poll.next, poll.hand.body, now)
                           ELSE Remove(Pre(t))
  /\ poll' = [poll EXCEPT !.pc = "fire", !.hand = NoHand, !.next = NoTime]
  /\ UNCHANGED <<dupe, now, cons, rev, want, shaken, sent, skipped, ackedAt, failed>>

\* What the poller leaves behind when it stops in the middle.
Dropped == IF InHand THEN {poll.hand.job[1]} ELSE {}

\* A failing Redis call outside send_reminder ends fire_due; _poll goes on.  A
\* claim may have been answered by nothing.
PollerFails ==
  /\ failed < MaxFault /\ failed' = failed + 1
  /\ "redis" \in Faults /\ poll.pc \notin {"idle", "post"}
  /\ shaken' = shaken \cup Dropped
  /\ poll' = Resting
  /\ UNCHANGED <<due, body, dupe, now, cons, rev, want, sent, skipped, ackedAt>>
-----------------------------------------------------------------------------
\* The process dies and is started again: the store stays, the message in
\* hand was not acknowledged and is delivered again.  A key that was set stays.
Crash ==
  /\ failed < MaxFault /\ failed' = failed + 1
  /\ "crash" \in Faults /\ (poll.pc # "idle" \/ cons.pc # "idle")
  /\ shaken' = shaken \cup Dropped
                      \cup (IF cons.pc = "idle" THEN {} ELSE {cons.msg.task})
  /\ poll' = Resting
  /\ cons' = IF cons.pc = "idle" THEN Idle ELSE [cons EXCEPT !.pc = "main"]
  /\ UNCHANGED <<due, body, dupe, now, rev, want, sent, skipped, ackedAt>>

\* A POST has an answer in time, or counts as failed.
Tick ==
  /\ now < MaxTime
  /\ poll.pc = "post" => now < poll.at + PostTime
  /\ now' = now + 1
  /\ UNCHANGED <<due, body, dupe, cons, poll, rev, want, shaken, sent, skipped, ackedAt, failed>>

Init ==
  /\ due  = [j \in Job |-> NoTime]
  /\ body = [j \in Job |-> NoBody]
  /\ dupe = [j \in Job |-> 0]
  /\ now  = 0
  /\ cons = Idle
  /\ poll = Resting
  /\ rev  = 0
  /\ failed = 0
  /\ want = [t \in Task |-> [kind |-> "delete", rev |-> 0]]
  /\ shaken  = {}
  /\ sent    = [j \in Job |-> 0]
  /\ skipped = [j \in Job |-> 0]
  /\ ackedAt = [j \in Job |-> <<NoTime, NoTime>>]

Consume == Refuse \/ ScheduleMain \/ SchedulePre \/ DeleteMain \/ DeletePre

Poll == \/ PollRead \/ ReadBody \/ DropGone \/ ReadAll \/ Claim \/ PollDone
        \/ SkipDuplicate \/ SetKey \/ Deliver \/ DeliveryFails \/ PutBack
        \/ EndSeries \/ AfterSend \/ AfterSendPre

Next == \/ \E m \in Message : Receive(m)
        \/ Consume \/ ConsumerFails
        \/ Poll \/ PollerFails \/ SetKeyFails \/ DropKeyFails
        \/ Crash \/ Tick

Spec == Init /\ [][Next]_vars

\* The poller is a thread of its own that is always scheduled again.
FairSpec == Spec /\ WF_vars(Poll) /\ WF_vars(Consume)
=============================================================================
