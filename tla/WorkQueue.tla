------------------------------ MODULE WorkQueue ------------------------------
(***************************************************************************)
(* What the export outbox promises, without tables, locks and attempts:    *)
(* an item waits, is in the hands of one worker, or is finished; nobody    *)
(* works on a finished one.  An item may be lost in a worker's hands       *)
(* (ClaimDue commits before the work is done, and nothing gives the claim  *)
(* back), but never reaches two.                                           *)
(***************************************************************************)
CONSTANTS Worker, Item

VARIABLES
  todo,      (* items waiting, for the first time or again.                *)
  doing,     (* the items in the hands of each worker.                     *)
  finished   (* items that are done or given up.                           *)

qVars == <<todo, doing, finished>>

InHand == UNION {doing[w] : w \in Worker}

QueueInit ==
  /\ todo = {}
  /\ doing = [w \in Worker |-> {}]
  /\ finished = {}

Add(i) ==
  /\ i \notin todo \cup InHand \cup finished
  /\ todo' = todo \cup {i}
  /\ UNCHANGED <<doing, finished>>

Take(w, S) ==
  /\ doing[w] = {}
  /\ S \subseteq todo
  /\ todo' = todo \ S
  /\ doing' = [doing EXCEPT ![w] = S]
  /\ UNCHANGED finished

PutBack(w, i) ==
  /\ i \in doing[w]
  /\ todo' = todo \cup {i}
  /\ doing' = [doing EXCEPT ![w] = @ \ {i}]
  /\ UNCHANGED finished

Finish(w, i) ==
  /\ i \in doing[w]
  /\ finished' = finished \cup {i}
  /\ doing' = [doing EXCEPT ![w] = @ \ {i}]
  /\ UNCHANGED todo

Lose(w, S) ==
  /\ S \subseteq doing[w]
  /\ doing' = [doing EXCEPT ![w] = @ \ S]
  /\ UNCHANGED <<todo, finished>>

QueueNext ==
  \/ \E i \in Item : Add(i)
  \/ \E w \in Worker, S \in SUBSET Item : Take(w, S) \/ Lose(w, S)
  \/ \E w \in Worker, i \in Item : PutBack(w, i) \/ Finish(w, i)

QueueSpec == QueueInit /\ [][QueueNext]_qVars
=============================================================================
