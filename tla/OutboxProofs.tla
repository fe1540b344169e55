---------------------------- MODULE OutboxProofs -----------------------------
(***************************************************************************)
(* What SyncOutbox.tla promises, proved for any number of workers and      *)
(* items, any limits, and every fault.                                     *)
(***************************************************************************)
EXTENDS SyncOutbox, TLAPS

USE OutboxAssumption

(* Every wait before a retry is a natural number, also past the end of the *)
(* table of steps.                                                         *)
LEMMA BackoffIsNat ==
  ASSUME NEW a \in Nat
  PROVE  OutboxBackoff(a) \in Nat
BY DEF OutboxBackoff

(* The row a failed attempt leaves is a row of the table.                  *)
LEMMA MarkedRow ==
  ASSUME BoxTypeOK, NEW i \in Item, NEW a \in Nat
  PROVE  /\ [box[i] EXCEPT !.status = "done"] \in BoxRow
         /\ [box[i] EXCEPT !.status = "failed"] \in BoxRow
         /\ [status |-> "pending", attempts |-> a + 1, wait |-> OutboxBackoff(a + 1)] \in BoxRow
<1>1. box[i] \in BoxRow
  BY DEF BoxTypeOK
<1>2. a + 1 \in Nat /\ OutboxBackoff(a + 1) \in Nat
  BY BackoffIsNat, SMTT(30)
<1> QED
  BY <1>1, <1>2 DEF BoxRow

-----------------------------------------------------------------------------
(* Types.                                                                  *)

(* The empty table has the type.                                           *)
LEMMA BoxInitType == BoxInit => BoxTypeOK
BY DEF BoxInit, BoxTypeOK, BoxRow

(* A mark that sets a legal row keeps the types, whether it is written or  *)
(* lost.                                                                   *)
LEMMA MarkType ==
  ASSUME BoxTypeOK, NEW w \in Worker, NEW c \in batch[w], NEW row \in BoxRow, Mark(w, c, row)
  PROVE  BoxTypeOK'
<1>1. c \in Claim
  BY DEF BoxTypeOK
<1>2. box' \in [Item -> BoxRow]
  BY <1>1 DEF Mark, BoxTypeOK, Claim
<1>3. batch' \in [Worker -> SUBSET Claim]
  BY DEF Mark, BoxTypeOK
<1> QED
  BY <1>2, <1>3 DEF Mark, BoxTypeOK

(* Every step keeps the types.                                             *)
LEMMA BoxNextType == BoxTypeOK /\ [BoxNext]_boxVars => BoxTypeOK'
<1> SUFFICES ASSUME BoxTypeOK, [BoxNext]_boxVars PROVE BoxTypeOK'
  OBVIOUS
<1>1. ASSUME NEW i \in Item, Enqueue(i) PROVE BoxTypeOK'
  <2>1. [status |-> "pending", attempts |-> 0, wait |-> 0] \in BoxRow
    BY DEF BoxRow
  <2> QED
    BY <1>1, <2>1 DEF Enqueue, BoxTypeOK
<1>2. ASSUME NEW w \in Worker, SelectDue(w) PROVE BoxTypeOK'
  BY <1>2 DEF SelectDue, FirstOf, BoxTypeOK
<1>3. ASSUME NEW w \in Worker, CommitClaim(w) PROVE BoxTypeOK'
  <2>1. box' \in [Item -> BoxRow]
    BY <1>3 DEF CommitClaim, BoxTypeOK, BoxRow
  <2>2. \A i \in locked[w] : [id |-> i, attempts |-> box[i].attempts] \in Claim
    BY DEF BoxTypeOK, Claim, BoxRow
  <2>3. batch' \in [Worker -> SUBSET Claim]
    BY <1>3, <2>2 DEF CommitClaim, BoxTypeOK
  <2> QED
    BY <1>3, <2>1, <2>3 DEF CommitClaim, BoxTypeOK
<1>4. ASSUME NEW w \in Worker, ClaimFails(w) PROVE BoxTypeOK'
  BY <1>4 DEF ClaimFails, BoxTypeOK
<1>5. ASSUME NEW w \in Worker, NEW c \in batch[w], MarkDone(w, c) PROVE BoxTypeOK'
  <2>1. c.id \in Item /\ c.attempts \in Nat
    BY DEF BoxTypeOK, Claim
  <2> QED
    BY <1>5, <2>1, MarkedRow, MarkType DEF MarkDone
<1>6. ASSUME NEW w \in Worker, NEW c \in batch[w], MarkRetryOrFailed(w, c) PROVE BoxTypeOK'
  <2>1. c.id \in Item /\ c.attempts \in Nat
    BY DEF BoxTypeOK, Claim
  <2>2. CASE c.attempts + 1 >= MaxAttempts
    BY <1>6, <2>1, <2>2, MarkedRow, MarkType DEF MarkRetryOrFailed
  <2>3. CASE ~(c.attempts + 1 >= MaxAttempts)
    BY <1>6, <2>1, <2>3, MarkedRow, MarkType DEF MarkRetryOrFailed
  <2> QED
    BY <2>2, <2>3
<1>7. ASSUME NEW w \in Worker, CrashWorker(w) PROVE BoxTypeOK'
  BY <1>7 DEF CrashWorker, BoxTypeOK
<1>8. CASE BoxTick
  <2>1. ASSUME NEW i \in Item, Waiting(i)
        PROVE  [box[i] EXCEPT !.wait = @ - 1] \in BoxRow
    <3>1. box[i] \in BoxRow /\ box[i].wait \in Nat /\ box[i].wait > 0
      BY <2>1 DEF BoxTypeOK, BoxRow, Waiting
    <3>2. box[i].wait - 1 \in Nat
      BY <3>1
    <3> QED
      BY <3>1, <3>2 DEF BoxRow
  <2> QED
    BY <1>8, <2>1 DEF BoxTick, BoxTypeOK
<1>9. CASE UNCHANGED boxVars
  BY <1>9 DEF boxVars, BoxTypeOK
<1> QED
  BY <1>1, <1>2, <1>3, <1>4, <1>5, <1>6, <1>7, <1>8, <1>9 DEF BoxNext, Claiming, Marking

(* Every variable keeps its type whatever the workers and their faults do. *)
THEOREM BoxTypeCorrect == BoxSpec => []BoxTypeOK
BY BoxInitType, BoxNextType, PTL DEF BoxSpec
-----------------------------------------------------------------------------
(* Claims.                                                                 *)

(* Nothing is claimed at first.                                            *)
LEMMA ClaimsInit == BoxInit => ClaimsAgree
BY DEF BoxInit, ClaimsAgree

(* A mark touches the row of an item that only its worker holds, and takes *)
(* it out of that worker's hands.                                          *)
LEMMA MarkClaims ==
  ASSUME BoxTypeOK, ClaimsAgree, NEW w \in Worker, NEW c \in batch[w],
         NEW row \in BoxRow, Mark(w, c, row)
  PROVE  ClaimsAgree'
<1>1. c \in Claim /\ c.id \in Item
  BY DEF BoxTypeOK, Claim
<1>2. ASSUME NEW v \in Worker, NEW d \in batch'[v]
      PROVE  d \in batch[v] /\ d.id # c.id /\ d.id \in Item
  <2>1. d \in batch[v]
    BY DEF Mark, BoxTypeOK
  <2>2. d \in Claim
    BY <2>1 DEF BoxTypeOK
  <2>3. ASSUME d.id = c.id PROVE FALSE
    <3>1. v = w
      BY <2>1, <2>3 DEF ClaimsAgree
    <3>2. d.attempts = c.attempts
      BY <2>1, <2>3 DEF ClaimsAgree
    <3>3. d = c
      BY <1>1, <2>2, <2>3, <3>2 DEF Claim
    <3> QED
      BY <3>1, <3>3 DEF Mark, BoxTypeOK
  <2> QED
    BY <2>1, <2>2, <2>3 DEF Claim
<1>3. \A i \in Item : i # c.id => box'[i] = box[i]
  BY <1>1 DEF Mark, BoxTypeOK
<1>4. ASSUME NEW v \in Worker, NEW i \in locked[v] PROVE i # c.id /\ i \in Item
  BY DEF ClaimsAgree, BoxTypeOK
<1>5. locked' = locked
  BY DEF Mark
<1>6. ASSUME NEW v \in Worker, NEW d \in batch'[v]
      PROVE  /\ box'[d.id].status = "processing"
             /\ box'[d.id].attempts = d.attempts
             /\ \A u \in Worker : \A e \in batch'[u] : e.id = d.id => u = v
  BY <1>2, <1>3 DEF ClaimsAgree
<1>7. ASSUME NEW v \in Worker, NEW i \in locked'[v]
      PROVE  /\ box'[i].status = "pending"
             /\ \A u \in Worker : i \in locked'[u] => u = v
  BY <1>3, <1>4, <1>5 DEF ClaimsAgree
<1>8. \A v \in Worker : locked'[v] = {} \/ batch'[v] = {}
  BY DEF Mark, ClaimsAgree, BoxTypeOK
<1> QED
  BY <1>6, <1>7, <1>8 DEF ClaimsAgree

(* Committing a claim gives the locked rows to one worker only, since no   *)
(* other has them locked or in hand.                                       *)
LEMMA CommitClaims ==
  ASSUME BoxTypeOK, ClaimsAgree, NEW w \in Worker, CommitClaim(w)
  PROVE  ClaimsAgree'
<1>1. \A i \in Item : /\ i \in locked[w] => /\ box'[i].status = "processing"
                                            /\ box'[i].attempts = box[i].attempts
                      /\ i \notin locked[w] => box'[i] = box[i]
  BY DEF CommitClaim, BoxTypeOK, BoxRow
<1>2. ASSUME NEW v \in Worker, NEW d \in batch'[v]
      PROVE  \/ /\ v = w /\ d.id \in locked[w]
                /\ d.attempts = box[d.id].attempts
             \/ /\ v # w /\ d \in batch[v] /\ d.id \in Item /\ d.id \notin locked[w]
  <2>1. CASE v = w
    BY <2>1 DEF CommitClaim, BoxTypeOK
  <2>2. CASE v # w
    <3>1. d \in batch[v]
      BY <2>2 DEF CommitClaim, BoxTypeOK
    <3>2. d.id \in Item /\ box[d.id].status = "processing"
      BY <3>1 DEF BoxTypeOK, Claim, ClaimsAgree
    <3> QED
      BY <2>2, <3>1, <3>2 DEF ClaimsAgree
  <2> QED
    BY <2>1, <2>2
<1>3. \A i \in locked[w] : i \in Item
  BY DEF BoxTypeOK
<1>4. ASSUME NEW v \in Worker, NEW d \in batch'[v]
      PROVE  /\ box'[d.id].status = "processing"
             /\ box'[d.id].attempts = d.attempts
             /\ \A u \in Worker : \A e \in batch'[u] : e.id = d.id => u = v
  BY <1>1, <1>2, <1>3 DEF ClaimsAgree
<1>5. ASSUME NEW v \in Worker, NEW i \in locked'[v]
      PROVE  v # w /\ i \in locked[v] /\ i \in Item
  BY DEF CommitClaim, BoxTypeOK
<1>6. ASSUME NEW v \in Worker, NEW i \in locked'[v]
      PROVE  /\ box'[i].status = "pending"
             /\ \A u \in Worker : i \in locked'[u] => u = v
  <2>1. i \notin locked[w]
    BY <1>5 DEF ClaimsAgree
  <2>2. box'[i].status = "pending"
    BY <1>1, <1>5, <2>1 DEF ClaimsAgree
  <2> QED
    BY <1>5, <2>2 DEF ClaimsAgree
<1>7. \A v \in Worker : locked'[v] = {} \/ batch'[v] = {}
  BY DEF CommitClaim, ClaimsAgree, BoxTypeOK
<1> QED
  BY <1>4, <1>6, <1>7 DEF ClaimsAgree

(* Every step keeps the claims in agreement with the table.                *)
LEMMA ClaimsNext == BoxTypeOK /\ ClaimsAgree /\ [BoxNext]_boxVars => ClaimsAgree'
<1> SUFFICES ASSUME BoxTypeOK, ClaimsAgree, [BoxNext]_boxVars PROVE ClaimsAgree'
  OBVIOUS
<1>1. ASSUME NEW i \in Item, Enqueue(i) PROVE ClaimsAgree'
  BY <1>1 DEF Enqueue, ClaimsAgree, BoxTypeOK, Claim
<1>2. ASSUME NEW w \in Worker, SelectDue(w) PROVE ClaimsAgree'
  <2>1. \A i \in locked'[w] : /\ i \in Item /\ box[i].status = "pending"
                              /\ \A v \in Worker : i \notin locked[v]
    BY <1>2 DEF SelectDue, FirstOf, Due, BoxTypeOK
  <2>2. \A v \in Worker \ {w} : locked'[v] = locked[v]
    BY <1>2 DEF SelectDue, BoxTypeOK
  <2>3. box' = box /\ batch' = batch /\ batch[w] = {}
    BY <1>2 DEF SelectDue
  <2> QED
    BY <2>1, <2>2, <2>3 DEF ClaimsAgree
<1>3. ASSUME NEW w \in Worker, CommitClaim(w) PROVE ClaimsAgree'
  BY <1>3, CommitClaims
<1>4. ASSUME NEW w \in Worker, ClaimFails(w) PROVE ClaimsAgree'
  BY <1>4, SMTT(30) DEF ClaimFails, ClaimsAgree, BoxTypeOK
<1>5. ASSUME NEW w \in Worker, NEW c \in batch[w], MarkDone(w, c) PROVE ClaimsAgree'
  <2>1. c.id \in Item /\ c.attempts \in Nat
    BY DEF BoxTypeOK, Claim
  <2> QED
    BY <1>5, <2>1, MarkedRow, MarkClaims DEF MarkDone
<1>6. ASSUME NEW w \in Worker, NEW c \in batch[w], MarkRetryOrFailed(w, c) PROVE ClaimsAgree'
  <2>1. c.id \in Item /\ c.attempts \in Nat
    BY DEF BoxTypeOK, Claim
  <2>2. CASE c.attempts + 1 >= MaxAttempts
    BY <1>6, <2>1, <2>2, MarkedRow, MarkClaims DEF MarkRetryOrFailed
  <2>3. CASE ~(c.attempts + 1 >= MaxAttempts)
    BY <1>6, <2>1, <2>3, MarkedRow, MarkClaims DEF MarkRetryOrFailed
  <2> QED
    BY <2>2, <2>3
<1>7. ASSUME NEW w \in Worker, CrashWorker(w) PROVE ClaimsAgree'
  BY <1>7 DEF CrashWorker, ClaimsAgree, BoxTypeOK
<1>8. CASE BoxTick
  <2>1. \A i \in Item : /\ box'[i].status = box[i].status
                        /\ box'[i].attempts = box[i].attempts
    BY <1>8 DEF BoxTick, BoxTypeOK, BoxRow
  <2> QED
    BY <1>8, <2>1 DEF BoxTick, ClaimsAgree, BoxTypeOK, Claim
<1>9. CASE UNCHANGED boxVars
  BY <1>9 DEF boxVars, ClaimsAgree
<1> QED
  BY <1>1, <1>2, <1>3, <1>4, <1>5, <1>6, <1>7, <1>8, <1>9 DEF BoxNext, Claiming, Marking

(* No two workers hold the same item, and a worker's claim is what the     *)
(* table says of it.                                                       *)
THEOREM ClaimsCorrect == BoxSpec => []ClaimsAgree
<1>1. BoxTypeOK /\ ClaimsAgree /\ [BoxNext]_boxVars => (BoxTypeOK /\ ClaimsAgree)'
  BY BoxNextType, ClaimsNext
<1> QED
  BY BoxInitType, ClaimsInit, <1>1, PTL DEF BoxSpec

-----------------------------------------------------------------------------
(* The limit on attempts.                                                  *)

(* A mark that respects the limit for its own row keeps it for all rows.   *)
LEMMA MarkLimit ==
  ASSUME BoxTypeOK, GivenUpAtTheLimit, NEW w \in Worker, NEW c \in batch[w],
         NEW row, Mark(w, c, row), row.attempts < MaxAttempts,
         row.status = "failed" => row.attempts = MaxAttempts - 1
  PROVE  GivenUpAtTheLimit'
<1>1. \A i \in Item : box'[i] = box[i] \/ box'[i] = row
  BY DEF Mark, BoxTypeOK
<1> QED
  BY <1>1 DEF GivenUpAtTheLimit

(* Every step keeps the limit.                                             *)
LEMMA LimitNext ==
  ASSUME BoxTypeOK, ClaimsAgree, GivenUpAtTheLimit, [BoxNext]_boxVars
  PROVE  GivenUpAtTheLimit'
<1>1. ASSUME NEW i \in Item, Enqueue(i) PROVE GivenUpAtTheLimit'
  BY <1>1 DEF Enqueue, GivenUpAtTheLimit, BoxTypeOK
<1>2. ASSUME NEW w \in Worker, SelectDue(w) \/ ClaimFails(w) \/ CrashWorker(w)
      PROVE  GivenUpAtTheLimit'
  BY <1>2 DEF SelectDue, ClaimFails, CrashWorker, GivenUpAtTheLimit
<1>3. ASSUME NEW w \in Worker, CommitClaim(w) PROVE GivenUpAtTheLimit'
  BY <1>3 DEF CommitClaim, GivenUpAtTheLimit, BoxTypeOK, BoxRow
<1>4. ASSUME NEW w \in Worker, NEW c \in batch[w], MarkDone(w, c) \/ MarkRetryOrFailed(w, c)
      PROVE  GivenUpAtTheLimit'
  <2>1. c.id \in Item /\ c.attempts \in Nat /\ box[c.id] \in BoxRow
    BY DEF BoxTypeOK, Claim
  <2>2. box[c.id].attempts = c.attempts
    BY DEF ClaimsAgree
  <2>3. c.attempts < MaxAttempts
    BY <2>1, <2>2 DEF GivenUpAtTheLimit
  <2> DEFINE Set(status) == [box[c.id] EXCEPT !.status = status]
             Retry == [status |-> "pending", attempts |-> c.attempts + 1,
                       wait |-> OutboxBackoff(c.attempts + 1)]
  <2>4. \A status : Set(status).attempts = c.attempts /\ Set(status).status = status
    BY <2>1, <2>2 DEF BoxRow
  <2>5. CASE MarkDone(w, c)
    BY <2>3, <2>4, <2>5, MarkLimit DEF MarkDone
  <2>6. CASE MarkRetryOrFailed(w, c) /\ c.attempts + 1 >= MaxAttempts
    <3>1. c.attempts = MaxAttempts - 1
      BY <2>1, <2>3, <2>6
    <3>2. Mark(w, c, Set("failed"))
      BY <2>6 DEF MarkRetryOrFailed
    <3> HIDE DEF Set
    <3> QED
      BY <2>3, <2>4, <3>1, <3>2, MarkLimit
  <2>7. CASE MarkRetryOrFailed(w, c) /\ ~(c.attempts + 1 >= MaxAttempts)
    <3>1. c.attempts + 1 < MaxAttempts
      BY <2>1, <2>7
    <3>2. Mark(w, c, Retry)
      BY <2>7 DEF MarkRetryOrFailed
    <3>3. Retry.attempts = c.attempts + 1 /\ Retry.status = "pending"
      OBVIOUS
    <3> HIDE DEF Retry
    <3> QED
      BY <3>1, <3>2, <3>3, MarkLimit
  <2> QED
    BY <1>4, <2>5, <2>6, <2>7
<1>5. CASE BoxTick
  BY <1>5 DEF BoxTick, Waiting, GivenUpAtTheLimit, BoxTypeOK, BoxRow
<1>6. CASE UNCHANGED boxVars
  BY <1>6 DEF boxVars, GivenUpAtTheLimit
<1> QED
  BY <1>1, <1>2, <1>3, <1>4, <1>5, <1>6 DEF BoxNext, Claiming, Marking

(* An item is given up at MaxAttempts failures, not before and not later.  *)
THEOREM LimitCorrect == BoxSpec => []GivenUpAtTheLimit
<1>1. BoxInit => GivenUpAtTheLimit
  BY DEF BoxInit, GivenUpAtTheLimit
<1>2. BoxTypeOK /\ ClaimsAgree /\ GivenUpAtTheLimit /\ [BoxNext]_boxVars
        => (BoxTypeOK /\ ClaimsAgree /\ GivenUpAtTheLimit)'
  BY BoxNextType, ClaimsNext, LimitNext
<1> QED
  BY BoxInitType, ClaimsInit, <1>1, <1>2, PTL DEF BoxSpec

-----------------------------------------------------------------------------
(* Finished items.                                                         *)

(* A finished item never changes: nobody holds it, so nobody marks it.     *)
THEOREM FinishedStays == BoxSpec => FinalStays
<1>1. ASSUME BoxTypeOK, ClaimsAgree, [BoxNext]_boxVars,
             NEW i \in Item, box[i].status \in {"done", "failed"}
      PROVE  box'[i] = box[i]
  <2>1. ASSUME NEW j \in Item, Enqueue(j) PROVE box'[i] = box[i]
    BY <1>1, <2>1 DEF Enqueue, BoxTypeOK
  <2>2. ASSUME NEW w \in Worker, SelectDue(w) \/ ClaimFails(w) \/ CrashWorker(w)
        PROVE  box'[i] = box[i]
    BY <2>2 DEF SelectDue, ClaimFails, CrashWorker
  <2>3. ASSUME NEW w \in Worker, CommitClaim(w) PROVE box'[i] = box[i]
    <3>1. i \notin locked[w]
      BY <1>1 DEF ClaimsAgree
    <3> QED
      BY <2>3, <3>1 DEF CommitClaim
  <2>4. ASSUME NEW w \in Worker, NEW c \in batch[w], MarkDone(w, c) \/ MarkRetryOrFailed(w, c)
        PROVE  box'[i] = box[i]
    <3>1. c.id # i
      BY <1>1 DEF ClaimsAgree
    <3> QED
      BY <1>1, <2>4, <3>1 DEF MarkDone, MarkRetryOrFailed, Mark, BoxTypeOK
  <2>5. CASE BoxTick
    BY <1>1, <2>5 DEF BoxTick, Waiting
  <2>6. CASE UNCHANGED boxVars
    BY <2>6 DEF boxVars
  <2> QED
    BY <1>1, <2>1, <2>2, <2>3, <2>4, <2>5, <2>6 DEF BoxNext, Claiming, Marking
<1>2. BoxTypeOK /\ ClaimsAgree /\ [BoxNext]_boxVars
        => [\A i \in Item : box[i].status \in {"done", "failed"} => box'[i] = box[i]]_boxVars
  BY <1>1
<1> QED
  BY BoxTypeCorrect, ClaimsCorrect, <1>2, PTL DEF BoxSpec, FinalStays

-----------------------------------------------------------------------------
(* Refinement.                                                             *)

Todo     == {i \in Item : box[i].status = "pending"}
Doing    == [w \in Worker |-> Ids(batch[w])]
Finished == {i \in Item : box[i].status \in {"done", "failed"}}

(* A mark takes one id out of one worker's hands.                          *)
LEMMA MarkDoing ==
  ASSUME BoxTypeOK, ClaimsAgree, NEW w \in Worker, NEW c \in batch[w], NEW row, Mark(w, c, row)
  PROVE  /\ c.id \in Item /\ c.id \in Doing[w] /\ box[c.id].status = "processing"
         /\ Doing' = [Doing EXCEPT ![w] = @ \ {c.id}]
<1>1. c \in Claim /\ c.id \in Item
  BY DEF BoxTypeOK, Claim
<1>2. ASSUME NEW d \in batch[w], d.id = c.id PROVE d = c
  <2>1. d \in Claim /\ d.attempts = c.attempts
    BY <1>2 DEF BoxTypeOK, ClaimsAgree
  <2> QED
    BY <1>1, <1>2, <2>1 DEF Claim
<1>3. Ids(batch'[w]) = Ids(batch[w]) \ {c.id}
  <2>1. batch'[w] = batch[w] \ {c}
    BY DEF Mark, BoxTypeOK
  <2> QED
    BY <1>2, <2>1 DEF Ids
<1>4. \A v \in Worker \ {w} : Ids(batch'[v]) = Ids(batch[v])
  BY DEF Mark, BoxTypeOK
<1>5. c.id \in Doing[w] /\ box[c.id].status = "processing"
  BY DEF Doing, Ids, ClaimsAgree
<1> QED
  BY <1>1, <1>3, <1>4, <1>5 DEF Doing

(* Every step of the table is a step of the abstract queue or changes      *)
(* nothing that the queue sees.                                            *)
LEMMA BoxStepIsQueueStep ==
  ASSUME BoxTypeOK, ClaimsAgree, [BoxNext]_boxVars
  PROVE  [Queue!QueueNext]_(Queue!qVars)
<1>1. ASSUME NEW i \in Item, Enqueue(i) PROVE Queue!Add(i)
  <2>1. box[i].status = "absent" /\ box'[i].status = "pending"
    BY <1>1 DEF Enqueue, BoxTypeOK
  <2>2. \A j \in Item : j # i => box'[j] = box[j]
    BY <1>1 DEF Enqueue, BoxTypeOK
  <2>3. \A w \in Worker : i \notin Ids(batch[w])
    BY <2>1 DEF Ids, ClaimsAgree
  <2>4. batch' = batch
    BY <1>1 DEF Enqueue
  <2> QED
    BY <2>1, <2>2, <2>3, <2>4 DEF Queue!Add, Queue!InHand
<1>2. ASSUME NEW w \in Worker, SelectDue(w) \/ ClaimFails(w) PROVE UNCHANGED Queue!qVars
  BY <1>2 DEF SelectDue, ClaimFails, Queue!qVars
<1>3. ASSUME NEW w \in Worker, CommitClaim(w) PROVE \E S \in SUBSET Item : Queue!Take(w, S)
  <2>1. locked[w] \in SUBSET Item /\ \A i \in locked[w] : box[i].status = "pending"
    BY DEF BoxTypeOK, ClaimsAgree
  <2>2. Todo' = Todo \ locked[w]
    BY <1>3, <2>1 DEF CommitClaim, BoxTypeOK, BoxRow, Todo
  <2>3. Finished' = Finished
    BY <1>3, <2>1 DEF CommitClaim, BoxTypeOK, BoxRow, Finished
  <2>4. Ids(batch'[w]) = locked[w]
    <3>1. batch'[w] = {[id |-> i, attempts |-> box[i].attempts] : i \in locked[w]}
      BY <1>3 DEF CommitClaim, BoxTypeOK
    <3> DEFINE claim(i) == [id |-> i, attempts |-> box[i].attempts]
    <3>2. \A i : claim(i).id = i
      OBVIOUS
    <3> HIDE DEF claim
    <3>3. batch'[w] = {claim(i) : i \in locked[w]}
      BY <3>1 DEF claim
    <3>4. \A i \in locked[w] : i \in Ids(batch'[w])
      BY <3>2, <3>3 DEF Ids
    <3>5. \A i \in Ids(batch'[w]) : i \in locked[w]
      BY <3>2, <3>3 DEF Ids
    <3> QED
      BY <3>4, <3>5
  <2>5. \A v \in Worker \ {w} : batch'[v] = batch[v]
    BY <1>3 DEF CommitClaim, BoxTypeOK
  <2>6. Doing' = [Doing EXCEPT ![w] = locked[w]]
    BY <2>4, <2>5 DEF Doing
  <2>7. Doing[w] = {}
    BY <1>3 DEF CommitClaim, ClaimsAgree, Doing, Ids
  <2>8. PICK S \in SUBSET Item : S = locked[w]
    BY <2>1
  <2>9. S \subseteq Todo /\ Todo' = Todo \ S /\ Doing' = [Doing EXCEPT ![w] = S]
    BY <2>1, <2>2, <2>6, <2>8 DEF Todo
  <2>10. Queue!Take(w, S)
    BY <2>3, <2>7, <2>9 DEF Queue!Take, Todo, Doing, Finished
  <2> QED
    BY <2>10
<1>4. ASSUME NEW w \in Worker, NEW c \in batch[w], MarkDone(w, c) \/ MarkRetryOrFailed(w, c)
      PROVE  \E i \in Item : Queue!PutBack(w, i) \/ Queue!Finish(w, i) \/ Queue!Lose(w, {i})
  <2>1. PICK row : Mark(w, c, row) /\ row.status \in {"pending", "done", "failed"}
    <3>1. c.id \in Item /\ box[c.id] \in BoxRow
      BY DEF BoxTypeOK, Claim
    <3>2. \A status : [box[c.id] EXCEPT !.status = status].status = status
      BY <3>1 DEF BoxRow
    <3>3. CASE MarkDone(w, c)
      BY <3>2, <3>3 DEF MarkDone
    <3>4. CASE MarkRetryOrFailed(w, c) /\ c.attempts + 1 >= MaxAttempts
      BY <3>2, <3>4 DEF MarkRetryOrFailed
    <3>5. CASE MarkRetryOrFailed(w, c) /\ ~(c.attempts + 1 >= MaxAttempts)
      BY <3>5 DEF MarkRetryOrFailed
    <3> QED
      BY <1>4, <3>3, <3>4, <3>5
  <2>2. /\ c.id \in Item /\ c.id \in Doing[w] /\ box[c.id].status = "processing"
        /\ Doing' = [Doing EXCEPT ![w] = @ \ {c.id}]
    BY <2>1, MarkDoing
  <2>3. CASE box' = box
    <3>1. Todo' = Todo /\ Finished' = Finished
      BY <2>3 DEF Todo, Finished
    <3>2. {c.id} \subseteq Doing[w]
      BY <2>2
    <3>3. Queue!Lose(w, {c.id})
      BY <2>2, <3>1, <3>2 DEF Queue!Lose, Todo, Doing, Finished
    <3> QED
      BY <2>2, <3>3
  <2>4. CASE box' = [box EXCEPT ![c.id] = row] /\ row.status = "pending"
    <3>1. Todo' = Todo \cup {c.id} /\ Finished' = Finished
      BY <2>2, <2>4 DEF Todo, Finished, BoxTypeOK
    <3> QED
      BY <2>2, <3>1 DEF Queue!PutBack, Todo, Doing, Finished
  <2>5. CASE box' = [box EXCEPT ![c.id] = row] /\ row.status \in {"done", "failed"}
    <3>1. Todo' = Todo /\ Finished' = Finished \cup {c.id}
      BY <2>2, <2>5 DEF Todo, Finished, BoxTypeOK
    <3> QED
      BY <2>2, <3>1 DEF Queue!Finish, Todo, Doing, Finished
  <2> QED
    BY <2>1, <2>3, <2>4, <2>5 DEF Mark
<1>5. ASSUME NEW w \in Worker, CrashWorker(w) PROVE \E S \in SUBSET Item : Queue!Lose(w, S)
  <2>1. Ids(batch[w]) \in SUBSET Item
    BY DEF Ids, BoxTypeOK, Claim
  <2>2. Doing' = [Doing EXCEPT ![w] = @ \ Ids(batch[w])]
    <3>1. Ids(batch'[w]) = {}
      BY <1>5 DEF CrashWorker, BoxTypeOK, Ids
    <3>2. \A v \in Worker \ {w} : batch'[v] = batch[v]
      BY <1>5 DEF CrashWorker, BoxTypeOK
    <3> QED
      BY <3>1, <3>2 DEF Doing
  <2>3. Todo' = Todo /\ Finished' = Finished
    BY <1>5 DEF CrashWorker, Todo, Finished
  <2>4. Queue!Lose(w, Ids(batch[w]))
    BY <2>2, <2>3 DEF Queue!Lose, Todo, Doing, Finished
  <2> QED
    BY <2>1, <2>4
<1>6. CASE BoxTick
  <2>1. \A i \in Item : box'[i].status = box[i].status
    BY <1>6 DEF BoxTick, Waiting, BoxTypeOK, BoxRow
  <2>2. UNCHANGED Queue!qVars
    BY <1>6, <2>1 DEF BoxTick, Queue!qVars
  <2> QED
    BY <2>2
<1>7. CASE UNCHANGED boxVars
  BY <1>7 DEF boxVars, Queue!qVars
<1> QED
  <2>1. CASE \E i \in Item : Enqueue(i)
    <3>1. PICK i \in Item : Queue!Add(i)
      BY <1>1, <2>1
    <3> QED
      BY <3>1 DEF Queue!QueueNext
  <2>2. CASE \E w \in Worker : SelectDue(w) \/ ClaimFails(w)
    BY <1>2, <2>2
  <2>3. CASE \E w \in Worker : CommitClaim(w)
    <3>1. PICK w \in Worker : CommitClaim(w)
      BY <2>3
    <3>2. \E S \in SUBSET Item : Queue!Take(w, S)
      BY <1>3, <3>1
    <3> QED
      BY <3>2 DEF Queue!QueueNext
  <2>4. CASE \E w \in Worker : Marking(w)
    <3>1. PICK w \in Worker : Marking(w)
      BY <2>4
    <3>2. PICK c \in batch[w] : MarkDone(w, c) \/ MarkRetryOrFailed(w, c)
      BY <3>1 DEF Marking
    <3>3. PICK i \in Item : Queue!PutBack(w, i) \/ Queue!Finish(w, i) \/ Queue!Lose(w, {i})
      BY <1>4, <3>2
    <3>4. {i} \in SUBSET Item
      OBVIOUS
    <3> QED
      BY <3>3, <3>4 DEF Queue!QueueNext
  <2>5. CASE \E w \in Worker : CrashWorker(w)
    <3>1. PICK w \in Worker : \E S \in SUBSET Item : Queue!Lose(w, S)
      BY <1>5, <2>5
    <3> QED
      BY <3>1 DEF Queue!QueueNext
  <2> QED
    BY <1>6, <1>7, <2>1, <2>2, <2>3, <2>4, <2>5 DEF BoxNext, Claiming

(* The table with its locks, attempts and times, and the workers with      *)
(* their crashes and lost marks, are a work queue.                         *)
THEOREM OutboxIsQueue == BoxSpec => ImplementsQueue
<1>1. BoxInit => Queue!QueueInit
  BY DEF BoxInit, Queue!QueueInit, Ids
<1>2. BoxTypeOK /\ ClaimsAgree /\ [BoxNext]_boxVars => [Queue!QueueNext]_(Queue!qVars)
  BY BoxStepIsQueueStep
<1> QED
  BY BoxTypeCorrect, ClaimsCorrect, <1>1, <1>2, PTL DEF BoxSpec, ImplementsQueue, Queue!QueueSpec
=============================================================================
