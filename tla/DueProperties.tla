--------------------------- MODULE DueProperties ---------------------------
(***************************************************************************)
(* What the sample worker promises about a task, as far as its two threads *)
(* do not meet: shaken tasks are those the consumer changed while the      *)
(* poller held one of their jobs, or whose handling was cut short.         *)
(***************************************************************************)
EXTENDS DueStore

\* The values the variables take: in particular what the poller is about to
\* fire has a payload, although a job may vanish between its two reads (due).
TypeOK ==
  /\ due  \in [Job -> Nat \cup {NoTime}]
  /\ body \in [Job -> Payload]
  /\ dupe \in [Job -> Nat]
  /\ now  \in Nat
  /\ cons \in [pc : {"idle", "main", "pre"}, msg : MessageType, rev : Nat,
               start : Nat \cup {NoTime}, at : Nat]
  /\ poll \in [pc : {"idle", "read", "gone", "fire", "send", "post", "retry", "after", "afterpre"},
               ids : Seq(Job), list : Seq([job : Job, body : Read]),
               hand : [job : Job, body : Payload], next : Nat \cup {NoTime}, at : Nat]
  /\ rev  \in Nat
  /\ failed \in Nat
  /\ want \in [Task -> [kind : {"schedule", "delete"}, rev : Nat]]
  /\ shaken \subseteq Task
  /\ sent \in [Job -> Nat] /\ skipped \in [Job -> Nat]
  /\ ackedAt \in [Job -> (Nat \cup {NoTime}) \X (Nat \cup {NoTime})]

\* No message about t is in hand, and nothing disturbed the last one.
Settled(t) == t \notin shaken /\ ~Working(t)

\* The poller has claimed the job and not yet dealt with it.
Claimed(j) == poll.pc \in {"send", "post", "retry", "after"} /\ poll.hand.job = j

\* A job once scheduled is never forgotten: with the payload of the last
\* message it is in the sorted set or claimed, or a job with no further
\* occurrence has been sent, or was passed over as a duplicate
\* (schedule_task, fire_due; for the latter see OnlyRepeatsAreSkipped).
ScheduledIsKept ==
  \A t \in Task : Settled(t) /\ want[t].kind = "schedule" =>
    \/ due[Main(t)] # NoTime /\ body[Main(t)].rev = want[t].rev
    \/ Claimed(Main(t)) /\ poll.hand.body.rev = want[t].rev
    \/ /\ want[t].rev \in {sent[Main(t)], skipped[Main(t)]}
       /\ body[Main(t)] = NoBody \/ body[Main(t)].rule = "last"

\* A reminder is passed over as a duplicate only when a delivery of the same
\* job was acknowledged less than the life of a key ago: the key of a delivery
\* that failed is gone by the time it is tried again.  That holds as long as
\* neither Redis nor the process failed; and it is enough for a reminder that
\* is set anew in that time, which is passed over as well (send_reminder).
OnlyRepeatsAreSkipped ==
  failed = 0 /\ poll.pc = "send" /\ dupe[poll.hand.job] > now =>
    /\ ackedAt[poll.hand.job][2] # NoTime
    /\ now < ackedAt[poll.hand.job][2] + DupeTTL

\* Once a task's deletion is handled nothing of it is armed or about to be
\* sent, the preliminary reminder included (delete_task).
DeletedIsSilent ==
  \A t \in Task : Settled(t) /\ want[t].kind = "delete" =>
    ~Held(t) /\ due[Main(t)] = NoTime /\ due[Pre(t)] = NoTime

\* A preliminary reminder never outlives its reminder, and announces the
\* occurrence the last message asked for (_sync_pre_remind, fire_due); except
\* that one retried beyond the last occurrence of its rule is left there.
PreHasMain ==
  \A t \in Task : Settled(t) /\ ~Held(t) /\ due[Pre(t)] # NoTime =>
    /\ due[Main(t)] # NoTime \/ body[Main(t)].rule = "last"
    /\ body[Pre(t)].rev = body[Main(t)].rev

\* A job in the sorted set has its payload: the two keys change together.
DueHasBody == \A j \in Job : due[j] # NoTime => body[j] # NoBody

\* No job is fired without a payload, although the ids that are due are read
\* before the payloads and jobs may vanish in between (due).
NoEmptyJob ==
  DueHasBody /\ \A k \in DOMAIN poll.list : poll.list[k].body # NoBody

\* Two acknowledged deliveries of one job are at least the life of the
\* anti-duplicate key apart, less the time an answer takes: the key lives from
\* before the POST.  Whatever is retried or scheduled again (send_reminder).
AckedApart ==
  \A j \in Job : ackedAt[j][1] # NoTime =>
    ackedAt[j][2] - ackedAt[j][1] >= DupeTTL - PostTime

\* A job that is due does not stay so for ever, however many others are and
\* although their deliveries keep failing (due, fire_due).
DueIsTaken == \A j \in Job : j \in DueJobs ~> j \notin DueJobs
=============================================================================
