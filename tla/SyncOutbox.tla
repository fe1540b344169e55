----------------------------- MODULE SyncOutbox ------------------------------
(***************************************************************************)
(* The sync_outbox table and the goroutines that drain it: ClaimDue takes  *)
(* a batch, ProcessOutbox works through it in order and marks every item   *)
(* done, to be retried, or failed.  What working on an item does, and      *)
(* whether it succeeds, is left open: CalendarExport.tla says it.          *)
(***************************************************************************)
EXTENDS Integers, Sequences, FiniteSets

CONSTANTS
  Worker,       (* processes that run the calendar sync scheduler.         *)
  MaxItem,      (* how many rows are ever enqueued. Bounds the model.      *)
  MaxAttempts,  (* maxOutboxAttempts.                                      *)
  BatchLimit,   (* how many rows ClaimDue takes at once.                   *)
  BackoffSteps, (* outboxBackoffSteps.                                     *)
  BoxFaults     (* subset of {"claim", "mark", "crash"}.                   *)

ASSUME OutboxAssumption ==
  /\ MaxItem \in Nat
  /\ MaxAttempts \in Nat \ {0}
  /\ BatchLimit \in Nat \ {0}
  /\ BackoffSteps \in Seq(Nat) /\ Len(BackoffSteps) > 0
  /\ BoxFaults \subseteq {"claim", "mark", "crash"}

VARIABLES
  box,      (* the table.                                                  *)
  locked,   (* rows the claiming transaction of a worker has locked.       *)
  batch     (* what a worker has claimed and not finished.                 *)

boxVars == <<box, locked, batch>>

Item == 1..MaxItem

BoxRow == [status   : {"absent", "pending", "processing", "done", "failed"},
           attempts : Nat,
           wait     : Nat]              \* from now to next_retry_at

(* A claimed row, as the SELECT of the claim read it.                      *)
Claim == [id : Item, attempts : Nat]

OutboxBackoff(attempts) ==
  IF attempts <= 0 THEN BackoffSteps[1]
  ELSE IF attempts >= Len(BackoffSteps) THEN BackoffSteps[Len(BackoffSteps)]
  ELSE BackoffSteps[attempts]

-----------------------------------------------------------------------------
(* New rows take the next id, and are due at once.                         *)
Enqueue(i) ==
  /\ box[i].status = "absent"
  /\ \A j \in Item : j < i => box[j].status # "absent"
  /\ box' = [box EXCEPT ![i] = [status |-> "pending", attempts |-> 0, wait |-> 0]]
  /\ UNCHANGED <<locked, batch>>

(* Slip: only items never tried before are due.                            *)
DueOnce(i) == /\ box[i].status = "pending" /\ box[i].wait = 0
              /\ box[i].attempts = 0

Due(i) == box[i].status = "pending" /\ box[i].wait = 0

(* The first BatchLimit of S in order of id.                               *)
FirstOf(S) == {i \in S : Cardinality({j \in S : j < i}) < BatchLimit}

(* Slips of SelectDue: without FOR UPDATE the rows another worker is about *)
(* to claim are read as well; rows found in processing are taken over.     *)
SelectUnlocked(w) ==
  LET S == FirstOf({i \in Item : Due(i)}) IN
    /\ batch[w] = {} /\ locked[w] = {} /\ S # {}
    /\ locked' = [locked EXCEPT ![w] = S]
    /\ UNCHANGED <<box, batch>>

SelectStuckToo(w) ==
  LET S == FirstOf({i \in Item : /\ Due(i) \/ (box[i].status = "processing" /\ box[i].wait = 0)
                                 /\ \A v \in Worker : i \notin locked[v]})
  IN  /\ batch[w] = {} /\ locked[w] = {} /\ S # {}
      /\ locked' = [locked EXCEPT ![w] = S]
      /\ UNCHANGED <<box, batch>>

(* SELECT ... FOR UPDATE SKIP LOCKED: rows that another claim has locked   *)
(* are passed over.                                                        *)
SelectDue(w) ==
  LET S == FirstOf({i \in Item : Due(i) /\ \A v \in Worker : i \notin locked[v]}) IN
    /\ batch[w] = {} /\ locked[w] = {} /\ S # {}
    /\ locked' = [locked EXCEPT ![w] = S]
    /\ UNCHANGED <<box, batch>>

(* The UPDATE and the commit of the same transaction.                      *)
CommitClaim(w) ==
  /\ locked[w] # {}
  /\ box' = [i \in Item |-> IF i \in locked[w]
                              THEN [box[i] EXCEPT !.status = "processing"] ELSE box[i]]
  /\ batch' = [batch EXCEPT ![w] =
                 {[id |-> i, attempts |-> box[i].attempts] : i \in locked[w]}]
  /\ locked' = [locked EXCEPT ![w] = {}]

ClaimFails(w) ==
  /\ "claim" \in BoxFaults
  /\ locked[w] # {}
  /\ locked' = [locked EXCEPT ![w] = {}]
  /\ UNCHANGED <<box, batch>>

-----------------------------------------------------------------------------
(* The items of a batch are worked on in order of id.                      *)
Current(w, c) == c \in batch[w] /\ \A d \in batch[w] : c.id <= d.id

(* The error of a mark is dropped: the worker goes on to the next item.    *)
Mark(w, c, row) ==
  /\ \/ box' = [box EXCEPT ![c.id] = row]
     \/ "mark" \in BoxFaults /\ UNCHANGED box
  /\ batch' = [batch EXCEPT ![w] = @ \ {c}]
  /\ UNCHANGED locked

MarkDone(w, c) ==
  /\ Current(w, c)
  /\ Mark(w, c, [box[c.id] EXCEPT !.status = "done"])

(* Slip: the limit is tested before the attempt is counted.                *)
MarkOneMoreRetry(w, c) ==
  /\ Current(w, c)
  /\ Mark(w, c,
       IF c.attempts >= MaxAttempts
         THEN [box[c.id] EXCEPT !.status = "failed"]
         ELSE [status |-> "pending", attempts |-> c.attempts + 1,
               wait |-> OutboxBackoff(c.attempts + 1)])

(* MarkFailed leaves the attempts as they were before this one.            *)
MarkRetryOrFailed(w, c) ==
  /\ Current(w, c)
  /\ Mark(w, c,
       IF c.attempts + 1 >= MaxAttempts
         THEN [box[c.id] EXCEPT !.status = "failed"]
         ELSE [status |-> "pending", attempts |-> c.attempts + 1,
               wait |-> OutboxBackoff(c.attempts + 1)])

(* The process of w dies; its open transaction is rolled back.             *)
CrashWorker(w) ==
  /\ "crash" \in BoxFaults
  /\ batch[w] # {} \/ locked[w] # {}
  /\ batch'  = [batch EXCEPT ![w] = {}]
  /\ locked' = [locked EXCEPT ![w] = {}]
  /\ UNCHANGED box

(* Only a pending row is looked at for its time.                           *)
Waiting(i) == box[i].status = "pending" /\ box[i].wait > 0

BoxTick ==
  /\ \E i \in Item : Waiting(i)
  /\ box' = [i \in Item |-> IF Waiting(i) THEN [box[i] EXCEPT !.wait = @ - 1] ELSE box[i]]
  /\ UNCHANGED <<locked, batch>>

-----------------------------------------------------------------------------
BoxInit ==
  /\ box    = [i \in Item |-> [status |-> "absent", attempts |-> 0, wait |-> 0]]
  /\ locked = [w \in Worker |-> {}]
  /\ batch  = [w \in Worker |-> {}]

Claiming(w) == SelectDue(w) \/ CommitClaim(w) \/ ClaimFails(w)

Marking(w) == \E c \in batch[w] : MarkDone(w, c) \/ MarkRetryOrFailed(w, c)

BoxNext ==
  \/ \E i \in Item : Enqueue(i)
  \/ \E w \in Worker : Claiming(w) \/ Marking(w) \/ CrashWorker(w)
  \/ BoxTick

BoxSpec == BoxInit /\ [][BoxNext]_boxVars

(* The scheduler comes round, its calls return, time passes, and of the     *)
(* claims that are tried again and again one commits.                      *)
BoxFairness ==
  /\ \A w \in Worker : /\ WF_boxVars(Claiming(w)) /\ WF_boxVars(Marking(w))
                       /\ SF_boxVars(CommitClaim(w))
  /\ WF_boxVars(BoxTick)

FairBoxSpec == BoxSpec /\ BoxFairness

-----------------------------------------------------------------------------
(* Every variable keeps its type, and ids are handed out in order.         *)
BoxTypeOK ==
  /\ box \in [Item -> BoxRow]
  /\ locked \in [Worker -> SUBSET Item]
  /\ batch \in [Worker -> SUBSET Claim]

(* Two workers never work on the same item, a worker never twice, and what *)
(* a worker holds is what the table says: claimed, with the attempts that  *)
(* were counted.  A row about to be claimed is still to be worked on, by a *)
(* worker with nothing in hand.                                            *)
ClaimsAgree ==
  /\ \A w \in Worker : \A c \in batch[w] :
       /\ box[c.id].status = "processing"
       /\ box[c.id].attempts = c.attempts
       /\ \A v \in Worker : \A d \in batch[v] : d.id = c.id => v = w
  /\ \A w \in Worker : \A i \in locked[w] :
       /\ box[i].status = "pending"
       /\ \A v \in Worker : i \in locked[v] => v = w
  /\ \A w \in Worker : locked[w] = {} \/ batch[w] = {}

(* The marks ask for the id only.  Even so an item that is done or failed  *)
(* is never worked on nor changed again, by whichever worker.              *)
FinalStays ==
  [][\A i \in Item : box[i].status \in {"done", "failed"} => box'[i] = box[i]]_boxVars

(* An item is given up after MaxAttempts failures, not before, and an item *)
(* waiting for another attempt has one left.                               *)
GivenUpAtTheLimit ==
  \A i \in Item : /\ box[i].status = "failed" => box[i].attempts = MaxAttempts - 1
                  /\ box[i].attempts < MaxAttempts

(* Seen from outside the table is a work queue.                            *)
Ids(C) == {c.id : c \in C}
Queue == INSTANCE WorkQueue WITH
           todo     <- {i \in Item : box[i].status = "pending"},
           doing    <- [w \in Worker |-> Ids(batch[w])],
           finished <- {i \in Item : box[i].status \in {"done", "failed"}}

(* Claims, retries, marks and crashes never give an item to two workers    *)
(* nor a finished one to any.                                              *)
ImplementsQueue == Queue!QueueSpec

(* Every item is exported in the end or given up, unless a crash or a lost *)
(* mark leaves it in processing with no worker: claims that fail and the   *)
(* retries of other items never hold it up for ever.                       *)
Settled(i) == box[i].status \in {"done", "failed"}
EndsOrStranded ==
  \A i \in Item : box[i].status = "pending" ~>
    Settled(i) \/ (box[i].status = "processing" /\ \A w \in Worker : i \notin Ids(batch[w]))
=============================================================================
