---------------------------- MODULE ExportProofs -----------------------------
(***************************************************************************)
(* Theorems about CalendarExport: the exports keep to the protocol of the  *)
(* outbox, so that everything proved of SyncOutbox holds of them.          *)
(***************************************************************************)
EXTENDS CalendarExport, OutboxProofs, FiniteSetTheorems, SequenceTheorems,
        WellFoundedInduction

USE ExportAssumption

(* Every step of a request, a scheduler or the clock is a step of the      *)
(* outbox or leaves it alone.                                              *)
LEMMA ExportStepIsBoxStep == ExportNext => [BoxNext]_boxVars
<1> SUFFICES ASSUME ExportNext PROVE [BoxNext]_boxVars
  OBVIOUS
<1>1. CASE \E c \in Client : Request(c)
  <2>1. PICK c \in Client : Request(c)
    BY <1>1
  <2>2. CASE HookEnqueue(c)
    <3>1. (\E i \in Item : Enqueue(i)) \/ UNCHANGED boxVars
      BY <2>2 DEF HookEnqueue
    <3> QED
      BY <3>1 DEF BoxNext
  <2>3. CASE HookReadTask(c) \/ HookReadLink(c)
    BY <2>3 DEF HookReadTask, HookReadLink
  <2>4. CASE \E t \in TaskId : UpdateTask(c, t) \/ DeleteTask(c, t)
    BY <2>4 DEF UpdateTask, DeleteTask, Change
  <2>5. CASE \E t \in TaskId, S \in SUBSET Binding : CreateTask(c, t, S) \/ MoveTask(c, t, S)
    BY <2>5 DEF CreateTask, MoveTask, Change
  <2> QED
    BY <2>1, <2>2, <2>3, <2>4, <2>5 DEF Request
<1>2. CASE \E w \in Worker : ClaimBatch(w)
  BY <1>2 DEF ClaimBatch, BoxNext
<1>3. CASE \E w \in Worker : ProcessItem(w)
  <2>1. PICK w \in Worker : ProcessItem(w)
    BY <1>3
  <2>2. PICK c \in batch[w] :
          \/ UpsertReadTask(w, c) \/ UpsertReadLink(w, c)
          \/ UpsertCallGoogle(w, c) \/ UpsertWriteLink(w, c)
          \/ DeleteReadLink(w, c) \/ DeleteCallGoogle(w, c) \/ DeleteWriteLink(w, c)
          \/ FinishItem(w, c)
    BY <2>1 DEF ProcessItem
  <2>3. CASE UpsertReadTask(w, c) \/ UpsertReadLink(w, c)
    BY <2>3 DEF UpsertReadTask, UpsertReadLink
  <2>4. CASE UpsertCallGoogle(w, c) \/ UpsertWriteLink(w, c)
    BY <2>4 DEF UpsertCallGoogle, UpsertWriteLink
  <2>5. CASE DeleteReadLink(w, c) \/ DeleteCallGoogle(w, c) \/ DeleteWriteLink(w, c)
    BY <2>5 DEF DeleteReadLink, DeleteCallGoogle, DeleteWriteLink
  <2>6. CASE FinishItem(w, c)
    <3>1. Marking(w)
      BY <2>6 DEF FinishItem, Marking
    <3> QED
      BY <3>1 DEF BoxNext
  <2> QED
    BY <2>2, <2>3, <2>4, <2>5, <2>6
<1>4. CASE \E w \in Worker : Crash(w)
  BY <1>4 DEF Crash, BoxNext
<1>5. CASE TimePasses
  BY <1>5 DEF TimePasses, BoxNext
<1> QED
  BY <1>1, <1>2, <1>3, <1>4, <1>5 DEF ExportNext

(* The calendar export implements the outbox, whose items and outcomes     *)
(* SyncOutbox leaves open.                                                 *)
THEOREM ExportIsOutbox == ExportSpec => BoxSpec
<1>1. ExportInit => BoxInit
  BY DEF ExportInit
<1>2. [ExportNext]_exportVars => [BoxNext]_boxVars
  BY ExportStepIsBoxStep DEF exportVars, boxVars
<1> QED
  BY <1>1, <1>2, PTL DEF ExportSpec, BoxSpec

(* No two schedulers ever export the same item, and one that is through is *)
(* never exported again, whatever requests, Google and crashes do.         *)
THEOREM ExportIsQueue == ExportSpec => ImplementsQueue /\ []ClaimsAgree
  BY ExportIsOutbox, OutboxIsQueue, ClaimsCorrect, PTL
-----------------------------------------------------------------------------
(* Types.                                                                  *)

(* A set of ids below a bound has a greatest one.                          *)
LEMMA Greatest ==
  ASSUME NEW n \in Nat, NEW S \in SUBSET (1..n), S # {}
  PROVE  \E m \in S : \A k \in S : k <= m
<1> DEFINE T == {n - k : k \in S}
<1>1. T \subseteq Nat /\ T # {}
  <2>1. \A k \in S : k \in 1..n
    OBVIOUS
  <2>2. \A k \in 1..n : n - k \in Nat
    OBVIOUS
  <2>3. \E k \in S : TRUE
    OBVIOUS
  <2> QED
    BY <2>1, <2>2, <2>3
<1>2. PICK x \in T : \A y \in T : ~ (<<y, x>> \in OpToRel(<, Nat))
  BY <1>1, NatLessThanWellFounded, WFMin
<1>3. \A y \in T : ~(y < x)
  BY <1>1, <1>2 DEF OpToRel
<1>4. PICK m \in S : x = n - m
  BY <1>2
<1>5. ASSUME NEW k \in S PROVE k <= m
  <2>1. ~(n - k < n - m)
    BY <1>3, <1>4
  <2> QED
    BY <2>1
<1> QED
  BY <1>5

(* The newest link of a task is a live row of that task, or there is none. *)
LEMMA NewestLink ==
  ASSUME links \in Seq(Link), NEW t
  PROVE  \/ GetByTaskID(t) = 0 /\ LinksOf(t) = {}
         \/ /\ GetByTaskID(t) \in 1..Len(links) /\ GetByTaskID(t) \in LinksOf(t)
            /\ links[GetByTaskID(t)] \in Link
<1>1. DOMAIN links = 1..Len(links) /\ Len(links) \in Nat
  BY LenProperties
<1>2. LinksOf(t) \in SUBSET (1..Len(links))
  BY <1>1 DEF LinksOf
<1>3. CASE LinksOf(t) = {}
  BY <1>3 DEF GetByTaskID
<1>4. CASE LinksOf(t) # {}
  <2>1. \E m \in LinksOf(t) : \A k \in LinksOf(t) : k <= m
    BY <1>1, <1>2, <1>4, Greatest
  <2>2. GetByTaskID(t) \in LinksOf(t)
    BY <1>4, <2>1 DEF GetByTaskID
  <2> QED
    BY <1>2, <2>2, ElementOfSeq
<1> QED
  BY <1>3, <1>4

(* Replacing a row keeps a table a table, also where there is no such row. *)
LEMMA TableExcept ==
  ASSUME NEW S, NEW seq \in Seq(S), NEW i, NEW e, i \in DOMAIN seq => e \in S
  PROVE  [seq EXCEPT ![i] = e] \in Seq(S)
<1>1. DOMAIN seq = 1..Len(seq) /\ Len(seq) \in Nat
  BY LenProperties
<1>2. CASE i \in DOMAIN seq
  BY <1>1, <1>2, ExceptSeq
<1>3. CASE i \notin DOMAIN seq
  <2>1. seq \in [1..Len(seq) -> S]
    BY LenProperties
  <2>2. [seq EXCEPT ![i] = e] = seq
    BY <1>1, <1>3, <2>1
  <2> QED
    BY <2>2
<1> QED
  BY <1>2, <1>3

(* What a hook queues are items for tasks and bindings that exist.         *)
LEMMA JobsOfExports ==
  ASSUME links \in Seq(Link), NEW t \in TaskId, NEW gone, NEW S \in SUBSET Binding
  PROVE  ExportsOf(t, gone, S) \in SUBSET Job
<1>1. {links[l].binding : l \in LinksOf(t) \cap {GetByTaskID(t)}} \subseteq Binding
  BY NewestLink DEF Link
<1>2. \A R \in SUBSET Binding : /\ Jobs("export_upsert", t, R) \subseteq Job
                                /\ Jobs("export_delete", t, R) \subseteq Job
  BY DEF Jobs, Job
<1> QED
  BY <1>1, <1>2 DEF ExportsOf

(* One more change is still a row.                                         *)
LEMMA ChangedRow ==
  ASSUME NEW r \in TaskRow
  PROVE  [r EXCEPT !.ver = @ + 1] \in TaskRow
<1>1. r.ver \in Nat /\ r.ver + 1 \in Nat
  BY DEF TaskRow
<1>2. [r EXCEPT !.ver = @ + 1]
        = [db |-> r.db, scope |-> r.scope, ver |-> r.ver + 1]
  BY DEF TaskRow
<1> QED
  BY <1>1, <1>2 DEF TaskRow

(* No step of a request, a scheduler or the clock breaks the types.        *)
LEMMA ExportTypeStep ==
  ASSUME BoxTypeOK, ExportTypeOK, ExportNext
  PROVE  ExportTypeOK'
<1> USE DEF ExportTypeOK
<1>1. ASSUME NEW c \in Client, NEW t \in TaskId, NEW row \in TaskRow, Change(c, t, row)
      PROVE  ExportTypeOK'
  <2> DEFINE gone == row.db = "gone"
             h == [NoHook EXCEPT !.at = "task", !.task = t, !.gone = gone]
  <2>1. t # NoTask
    BY DEF NoTask, TaskId
  <2>2. gone \in BOOLEAN
    OBVIOUS
  <2>3. hook' = [hook EXCEPT ![c] = h]
    BY <1>1 DEF Change
  <2> HIDE DEF gone
  <2>4. h \in Hook /\ h.task # NoTask
    BY <2>1, <2>2 DEF NoHook, Hook
  <2> HIDE DEF h
  <2>5. /\ hook' \in [Client -> Hook]
        /\ \A d \in Client : hook'[d].at = "idle" \/ hook'[d].task # NoTask
    BY <2>3, <2>4
  <2>6. /\ tasks' = [tasks EXCEPT ![t] = row] /\ changes' = changes + 1
        /\ UNCHANGED <<boxVars, job, workVars>>
    BY <1>1, Zenon DEF Change
  <2>7. tasks' \in [TaskId -> TaskRow] /\ changes' \in Nat
    BY <2>6
  <2> QED
    BY <2>5, <2>6, <2>7 DEF workVars
<1>2. ASSUME NEW c \in Client, NEW t \in TaskId, UpdateTask(c, t) \/ DeleteTask(c, t)
      PROVE  ExportTypeOK'
  <2>1. tasks[t] \in TaskRow
    OBVIOUS
  <2>2. [tasks[t] EXCEPT !.ver = @ + 1] \in TaskRow
    BY <2>1, ChangedRow
  <2>3. [tasks[t] EXCEPT !.db = "gone"] \in TaskRow
    BY <2>1 DEF TaskRow
  <2> QED
    BY <1>1, <1>2, <2>2, <2>3 DEF UpdateTask, DeleteTask
<1>3. ASSUME NEW c \in Client, NEW t \in TaskId, NEW S \in SUBSET Binding,
             CreateTask(c, t, S) \/ MoveTask(c, t, S)
      PROVE  ExportTypeOK'
  <2>1. tasks[t] \in TaskRow
    OBVIOUS
  <2>2. [tasks[t] EXCEPT !.scope = S] \in TaskRow
    BY <2>1 DEF TaskRow
  <2>3. [db |-> "live", scope |-> S, ver |-> 1] \in TaskRow
    BY DEF TaskRow
  <2> QED
    BY <1>1, <1>3, <2>2, <2>3 DEF CreateTask, MoveTask
<1>4. NoHook \in Hook /\ NoHook.at = "idle"
  BY DEF NoHook, Hook, NoTask
<1>5. ASSUME NEW c \in Client, HookReadTask(c) PROVE ExportTypeOK'
  <2>0. hook[c].task \in TaskId
    BY <1>5 DEF HookReadTask, Hook
  <2>1. [hook[c] EXCEPT !.at = "link", !.scope = tasks[hook[c].task].scope] \in Hook
    BY <1>5, <2>0 DEF Hook, TaskRow
  <2> QED
    BY <1>4, <1>5, <2>0, <2>1 DEF HookReadTask, workVars
<1>6. ASSUME NEW c \in Client, HookReadLink(c) PROVE ExportTypeOK'
  <2>0. hook[c].task \in TaskId
    BY <1>6 DEF HookReadLink, Hook
  <2> DEFINE jobs == ExportsOf(hook[c].task, hook[c].gone, hook[c].scope)
  <2>1. jobs \in SUBSET Job
    BY <2>0, JobsOfExports DEF Hook
  <2> HIDE DEF jobs
  <2>2. [hook[c] EXCEPT !.at = "send", !.jobs = jobs] \in Hook
    BY <2>1 DEF Hook
  <2> QED
    BY <1>4, <1>6, <2>0, <2>2 DEF HookReadLink, workVars, jobs
<1>7. ASSUME NEW c \in Client, HookEnqueue(c) PROVE ExportTypeOK'
  <2>1. PICK j \in hook[c].jobs, i \in Item :
          \/ /\ job' = [job EXCEPT ![i] = j]
             /\ hook' = [hook EXCEPT ![c] = IF hook[c].jobs = {j} THEN NoHook
                                            ELSE [hook[c] EXCEPT !.jobs = @ \ {j}]]
          \/ hook' = [hook EXCEPT ![c] = NoHook] /\ job' = job
    BY <1>7 DEF HookEnqueue
  <2>2. j \in Job /\ hook[c].at = "send" /\ hook[c].task # NoTask
    BY <1>7 DEF Hook, HookEnqueue
  <2> DEFINE h == [hook[c] EXCEPT !.jobs = @ \ {j}]
  <2>3. h \in Hook /\ h.task # NoTask
    BY <2>2 DEF Hook
  <2>4. hook' = [hook EXCEPT ![c] = NoHook] \/ hook' = [hook EXCEPT ![c] = h]
    BY <2>1
  <2> HIDE DEF h
  <2>5. /\ hook' \in [Client -> Hook]
        /\ \A d \in Client : hook'[d].at = "idle" \/ hook'[d].task # NoTask
    BY <1>4, <2>3, <2>4
  <2>6. job' \in [Item -> Job \cup {NoJob}]
    BY <2>1, <2>2
  <2> QED
    BY <1>7, <2>5, <2>6 DEF HookEnqueue, workVars
<1>8. ASSUME NEW w \in Worker, ClaimBatch(w) PROVE ExportTypeOK'
  BY <1>8 DEF ClaimBatch, clientVars, workVars
<1>9. NoWork \in Work
  BY DEF NoWork, Work
<1>14. ASSUME NEW w \in Worker PROVE Unlinked(w) \subseteq Nat
  BY DEF Unlinked, Work
<1>10. ASSUME NEW w \in Worker, Crash(w) PROVE ExportTypeOK'
  <2>1. orphans' \subseteq Nat
    BY <1>10, <1>14 DEF Crash
  <2> QED
    BY <1>9, <1>10, <2>1 DEF Crash, Goes, clientVars
<1>11. ASSUME NEW w \in Worker, ProcessItem(w) PROVE ExportTypeOK'
  <2> PICK c \in batch[w] :
        \/ UpsertReadTask(w, c) \/ UpsertReadLink(w, c)
        \/ UpsertCallGoogle(w, c) \/ UpsertWriteLink(w, c)
        \/ DeleteReadLink(w, c) \/ DeleteCallGoogle(w, c) \/ DeleteWriteLink(w, c)
        \/ FinishItem(w, c)
    BY <1>11 DEF ProcessItem
  <2> DEFINE j == job[c.id]
  <2>1. c.id \in Item /\ (j.kind \in {"export_upsert", "export_delete"} => j \in Job)
    BY DEF BoxTypeOK, Claim, NoJob
  <2>2. work[w] \in Work
    OBVIOUS
  <2>3. CASE UpsertReadTask(w, c)
    <3>1. [NoWork EXCEPT !.at = "error"] \in Work
      BY DEF NoWork, Work
    <3>2. [NoWork EXCEPT !.at = "link", !.ver = tasks[j.task].ver] \in Work
      BY <2>1, <2>3 DEF UpsertReadTask, Upserting, NoWork, Work, Job, TaskRow
    <3> QED
      BY <2>3, <3>1, <3>2 DEF UpsertReadTask, Goes, clientVars
  <2>4. CASE UpsertReadLink(w, c)
    <3> DEFINE l == GetByTaskID(j.task)
               e == IF l # 0 /\ links[l].binding = j.binding THEN links[l].event ELSE 0
    <3>1. l \in Nat /\ e \in Nat
      BY NewestLink DEF Link
    <3> HIDE DEF l, e
    <3>2. [work[w] EXCEPT !.at = "google", !.link = l, !.event = e] \in Work
      BY <2>2, <3>1 DEF Work
    <3> QED
      BY <2>4, <3>2 DEF UpsertReadLink, Goes, clientVars, l, e
  <2>5. CASE UpsertCallGoogle(w, c)
    <3> DEFINE e == work[w].event
               created == [live |-> TRUE, task |-> j.task,
                           binding |-> j.binding, ver |-> work[w].ver]
    <3>1. created \in Event
      BY <2>1, <2>5 DEF UpsertCallGoogle, Upserting, Event, Job, Work
    <3>2. Append(events, created) \in Seq(Event)
      BY <3>1, AppendProperties
    <3>3. [events EXCEPT ![e].ver = work[w].ver] \in Seq(Event)
      <4>1. ASSUME e \in DOMAIN events PROVE [events[e] EXCEPT !.ver = work[w].ver] \in Event
        <5>1. events[e] \in Event
          BY <4>1, LenProperties, ElementOfSeq
        <5> QED
          BY <2>2, <5>1 DEF Event, Work
      <4> QED
        BY <4>1, TableExcept
    <3> DEFINE n == IF e # 0 THEN e ELSE Len(events')
    <3>4. events' \in Seq(Event) /\ \E answer : Called(w, answer, n)
      BY <2>5, <3>2, <3>3 DEF UpsertCallGoogle
    <3>5. n \in Nat
      BY <2>2, <3>4, LenProperties DEF Work
    <3> HIDE DEF n
    <3>6. /\ [work[w] EXCEPT !.at = "write", !.event = n] \in Work
          /\ [work[w] EXCEPT !.at = "error"] \in Work
      BY <2>2, <3>5 DEF Work
    <3>7. Len(events') \in Nat /\ orphans' \subseteq orphans \cup {Len(events')}
      BY <2>5, <3>4, LenProperties DEF UpsertCallGoogle
    <3>8. orphans' \subseteq Nat
      BY <3>7
    <3>9. work' \in [Worker -> Work]
      BY <3>4, <3>6 DEF Called, Goes
    <3> QED
      BY <2>5, <3>4, <3>8, <3>9 DEF UpsertCallGoogle, clientVars
  <2>6. CASE UpsertWriteLink(w, c)
    <3> DEFINE l == work[w].link
               row == [live |-> TRUE, task |-> j.task, binding |-> j.binding,
                       event |-> work[w].event]
    <3>1. row \in Link
      BY <2>1, <2>6 DEF UpsertWriteLink, Upserting, Link, Job, Work
    <3>2. Append(links, row) \in Seq(Link) /\ [links EXCEPT ![l] = row] \in Seq(Link)
      BY <3>1, AppendProperties, TableExcept
    <3>3. links' \in Seq(Link)
      BY <2>6, <3>2 DEF UpsertWriteLink
    <3>4. [NoWork EXCEPT !.at = "ok"] \in Work /\ [NoWork EXCEPT !.at = "error"] \in Work
      BY DEF NoWork, Work
    <3>5. work' \in [Worker -> Work]
      BY <2>6, <3>4 DEF UpsertWriteLink, Goes
    <3>6. orphans' \subseteq orphans \cup Unlinked(w)
      BY <2>6 DEF UpsertWriteLink
    <3>7. orphans' \subseteq Nat
      BY <1>14, <3>6
    <3> QED
      BY <2>6, <3>3, <3>5, <3>7 DEF UpsertWriteLink, clientVars
  <2>7. CASE DeleteReadLink(w, c)
    <3> DEFINE l == GetByTaskID(j.task)
    <3>1. [NoWork EXCEPT !.at = "ok"] \in Work
      BY DEF NoWork, Work
    <3>2. l # 0 => l \in Nat /\ links[l].event \in Nat
      BY NewestLink DEF Link
    <3> HIDE DEF l
    <3>3. l # 0 => [NoWork EXCEPT !.at = "google", !.link = l, !.event = links[l].event] \in Work
      BY <3>2 DEF NoWork, Work
    <3>4. work' \in [Worker -> Work]
      BY <2>7, <3>1, <3>3 DEF DeleteReadLink, Goes, l
    <3> QED
      BY <2>7, <3>4 DEF DeleteReadLink, clientVars
  <2>8. CASE DeleteCallGoogle(w, c)
    <3> DEFINE e == work[w].event
    <3>1. [events EXCEPT ![e].live = FALSE] \in Seq(Event)
      <4>1. ASSUME e \in DOMAIN events PROVE [events[e] EXCEPT !.live = FALSE] \in Event
        <5>1. events[e] \in Event
          BY <4>1, LenProperties, ElementOfSeq
        <5> QED
          BY <5>1 DEF Event
      <4> QED
        BY <4>1, TableExcept
    <3>2. events' \in Seq(Event)
      BY <2>8, <3>1 DEF DeleteCallGoogle
    <3>3. /\ [work[w] EXCEPT !.at = "write", !.event = e] \in Work
          /\ [work[w] EXCEPT !.at = "error"] \in Work
      BY <2>2 DEF Work
    <3>4. work' \in [Worker -> Work]
      BY <2>8, <3>3 DEF DeleteCallGoogle, Called, Goes
    <3> QED
      BY <2>8, <3>2, <3>4 DEF DeleteCallGoogle, clientVars
  <2>9. CASE DeleteWriteLink(w, c)
    <3> DEFINE l == work[w].link
    <3>1. [links EXCEPT ![l].live = FALSE] \in Seq(Link)
      <4>1. ASSUME l \in DOMAIN links PROVE [links[l] EXCEPT !.live = FALSE] \in Link
        <5>1. links[l] \in Link
          BY <4>1, LenProperties, ElementOfSeq
        <5> QED
          BY <5>1 DEF Link
      <4> QED
        BY <4>1, TableExcept
    <3>2. links' \in Seq(Link)
      BY <2>9, <3>1 DEF DeleteWriteLink
    <3>3. [NoWork EXCEPT !.at = "ok"] \in Work /\ [NoWork EXCEPT !.at = "error"] \in Work
      BY DEF NoWork, Work
    <3>4. work' \in [Worker -> Work]
      BY <2>9, <3>3 DEF DeleteWriteLink, Goes
    <3> QED
      BY <2>9, <3>2, <3>4 DEF DeleteWriteLink, clientVars
  <2>10. CASE FinishItem(w, c)
    BY <1>9, <2>10 DEF FinishItem, Goes, clientVars
  <2> QED
    BY <2>3, <2>4, <2>5, <2>6, <2>7, <2>8, <2>9, <2>10
<1>12. CASE TimePasses
  BY <1>12 DEF TimePasses, clientVars, workVars
<1>13. CASE \E c \in Client : Request(c)
  <2> PICK c \in Client : Request(c)
    BY <1>13
  <2>1. CASE \E t \in TaskId : UpdateTask(c, t) \/ DeleteTask(c, t)
    BY <1>2, <2>1
  <2>2. CASE \E t \in TaskId, S \in SUBSET Binding : CreateTask(c, t, S) \/ MoveTask(c, t, S)
    BY <1>3, <2>2
  <2> QED
    BY <1>5, <1>6, <1>7, <2>1, <2>2 DEF Request
<1> QED
  BY <1>8, <1>10, <1>11, <1>12, <1>13 DEF ExportNext

(* The types of CalendarExport, for any number of tasks, bindings,         *)
(* requests and schedulers, with every fault.                              *)
THEOREM ExportTypeCorrect == ExportSpec => []ExportTypeOK
<1>1. ExportInit => ExportTypeOK
  <2> SUFFICES ASSUME ExportInit PROVE ExportTypeOK
    OBVIOUS
  <2>1. <<>> \in Seq(Link) /\ <<>> \in Seq(Event)
    OBVIOUS
  <2>2. NoHook \in Hook /\ NoHook.at = "idle"
    BY DEF NoHook, Hook, NoTask
  <2>3. NoWork \in Work
    BY DEF NoWork, Work
  <2> QED
    BY <2>1, <2>2, <2>3 DEF ExportInit, ExportTypeOK, TaskRow
<1>2. BoxTypeOK /\ ExportTypeOK /\ [ExportNext]_exportVars => ExportTypeOK'
  <2>1. CASE ExportNext
    BY <2>1, ExportTypeStep
  <2>2. CASE UNCHANGED exportVars
    BY <2>2 DEF exportVars, ExportTypeOK
  <2> QED
    BY <2>1, <2>2
<1> QED
  BY <1>1, <1>2, ExportIsOutbox, BoxTypeCorrect, PTL DEF ExportSpec

-----------------------------------------------------------------------------
(* What one scheduler knows of one calendar.                               *)
OneExporter ==
  /\ \A v, w \in Worker : v = w
  /\ \A a, b \in Binding : a = b

(* A scheduler that has begun is at the item whose turn it is.             *)
ItemInHand ==
  \A w \in Worker : work[w].at # "idle" => \E c \in batch[w] : Current(w, c)

OneLink ==
  \A k, l \in DOMAIN links :
    links[k].live /\ links[l].live /\ links[k].task = links[l].task => k = l

LinkNamesEvent ==
  \A l \in DOMAIN links : links[l].live =>
    /\ links[l].event \in DOMAIN events
    /\ events[links[l].event].task = links[l].task

(* What an upsert has read and done is still so, until it writes the link. *)
UpsertKnows ==
  \A w \in Worker : \A c \in batch[w] :
    Upserting(w, c) /\ work[w].at \in {"google", "write"} =>
      LET t == job[c.id].task  l == work[w].link  e == work[w].event IN
      \/ l \in LinksOf(t) /\ e = links[l].event
      \/ /\ l = 0 /\ LinksOf(t) = {}
         /\ work[w].at = "google" => e = 0
         /\ work[w].at = "write" => /\ e \in DOMAIN events
                                    /\ events[e].task = t /\ events[e].live

DeleteKnows ==
  \A w \in Worker : \A c \in batch[w] : Deleting(w, c) =>
    LET l == work[w].link  e == work[w].event IN
    /\ work[w].at # "link"
    /\ work[w].at \in {"google", "write"} => /\ l \in LinksOf(job[c.id].task)
                                             /\ e = links[l].event
    /\ work[w].at = "write" => ~ events[e].live

NamedByLink(e) == \E l \in LinksOf(events[e].task) : links[l].event = e

NotLinkedYet(e) ==
  \E w \in Worker : \E c \in batch[w] :
    /\ Upserting(w, c) /\ work[w].at = "write"
    /\ work[w].link = 0 /\ work[w].event = e

(* The scheduler that had claimed i has died or could not mark it.         *)
Stranded(i) ==
  box[i].status = "processing" /\ \A w \in Worker : \A c \in batch[w] : c.id # i

(* No event is forgotten, but for the orphans: a link names it, or the     *)
(* scheduler that created it is about to write one.                        *)
EventsNamed ==
  \A e \in DOMAIN events : events[e].live =>
    NamedByLink(e) \/ NotLinkedYet(e) \/ e \in orphans

OneInv ==
  /\ ItemInHand /\ OneLink /\ LinkNamesEvent
  /\ UpsertKnows /\ DeleteKnows /\ EventsNamed

(* A row of the outbox keeps its job.                                      *)
LEMMA JobsStay ==
  ASSUME BoxTypeOK, ExportTypeOK, [ExportNext]_exportVars,
         NEW i \in Item, box[i].status # "absent"
  PROVE  job'[i] = job[i] /\ box'[i].status # "absent"
<1>1. job'[i] = job[i]
  <2>1. ASSUME NEW c \in Client, HookEnqueue(c) PROVE job'[i] = job[i]
    <3>1. PICK k \in Item : /\ box[k].status = "absent"
                            /\ job' = job \/ \E j : job' = [job EXCEPT ![k] = j]
      BY <2>1 DEF HookEnqueue
    <3> QED
      BY <3>1 DEF ExportTypeOK
  <2>2. ASSUME NEW c \in Client, Request(c) PROVE job'[i] = job[i]
    BY <2>1, <2>2
    DEF Request, UpdateTask, DeleteTask, CreateTask, MoveTask, Change, HookReadTask, HookReadLink
  <2>3. ASSUME NEW w \in Worker, ClaimBatch(w) \/ ProcessItem(w) \/ Crash(w)
        PROVE  job'[i] = job[i]
    BY <2>3
    DEF ClaimBatch, Crash, ProcessItem, UpsertReadTask, UpsertReadLink, UpsertCallGoogle,
        UpsertWriteLink, DeleteReadLink, DeleteCallGoogle, DeleteWriteLink, FinishItem
  <2>4. TimePasses \/ UNCHANGED exportVars => job'[i] = job[i]
    BY DEF TimePasses, exportVars
  <2> QED
    BY <2>2, <2>3, <2>4 DEF ExportNext
<1>2. [BoxNext]_boxVars
  BY ExportStepIsBoxStep DEF exportVars, boxVars
<1>3. box'[i].status # "absent"
  <2>1. CASE UNCHANGED boxVars
    BY <2>1 DEF boxVars
  <2>2. ASSUME NEW k \in Item, Enqueue(k) PROVE box'[i].status # "absent"
    BY <2>2 DEF Enqueue, BoxTypeOK
  <2>3. ASSUME NEW w \in Worker, Claiming(w) \/ CrashWorker(w) PROVE box'[i].status # "absent"
    BY <2>3 DEF Claiming, SelectDue, CommitClaim, ClaimFails, CrashWorker, BoxTypeOK, BoxRow
  <2>4. ASSUME NEW w \in Worker, Marking(w) PROVE box'[i].status # "absent"
    <3>1. PICK c \in batch[w] : MarkDone(w, c) \/ MarkRetryOrFailed(w, c)
      BY <2>4 DEF Marking
    <3>2. c.id \in Item
      BY DEF BoxTypeOK, Claim
    <3>3. box' = box \/ \E row : row.status # "absent" /\ box' = [box EXCEPT ![c.id] = row]
      <4>1. [box[c.id] EXCEPT !.status = "done"].status # "absent"
        BY <3>2 DEF BoxTypeOK, BoxRow
      <4>2. [box[c.id] EXCEPT !.status = "failed"].status # "absent"
        BY <3>2 DEF BoxTypeOK, BoxRow
      <4> QED
        BY <3>1, <4>1, <4>2 DEF MarkDone, MarkRetryOrFailed, Mark
    <3> QED
      BY <3>3 DEF BoxTypeOK
  <2>5. CASE BoxTick
    BY <2>5 DEF BoxTick, BoxTypeOK, BoxRow
  <2> QED
    BY <1>2, <2>1, <2>2, <2>3, <2>4, <2>5 DEF BoxNext
<1> QED
  BY <1>1, <1>3

(* An item that was left in processing stays there.                        *)
LEMMA StrandedStays ==
  ASSUME BoxTypeOK, ClaimsAgree, [BoxNext]_boxVars, NEW i \in Item, Stranded(i)
  PROVE  Stranded(i)'
<1> SUFFICES box'[i].status = "processing" /\ \A w \in Worker : \A c \in batch'[w] : c.id # i
  BY DEF Stranded
<1> USE DEF Stranded
<1>1. CASE UNCHANGED boxVars
  BY <1>1 DEF boxVars
<1>2. ASSUME NEW k \in Item, Enqueue(k)
      PROVE  box'[i].status = "processing" /\ \A w \in Worker : \A c \in batch'[w] : c.id # i
  BY <1>2 DEF Enqueue, BoxTypeOK
<1>3. ASSUME NEW w \in Worker, SelectDue(w) \/ ClaimFails(w) \/ CrashWorker(w)
      PROVE  box'[i].status = "processing" /\ \A v \in Worker : \A c \in batch'[v] : c.id # i
  BY <1>3 DEF SelectDue, ClaimFails, CrashWorker, BoxTypeOK
<1>4. ASSUME NEW w \in Worker, CommitClaim(w)
      PROVE  box'[i].status = "processing" /\ \A v \in Worker : \A c \in batch'[v] : c.id # i
  <2>1. i \notin locked[w]
    BY DEF ClaimsAgree
  <2>2. box'[i] = box[i]
    BY <1>4, <2>1 DEF CommitClaim
  <2>3. ASSUME NEW v \in Worker, NEW c \in batch'[v] PROVE c.id # i
    BY <1>4, <2>1, <2>3 DEF CommitClaim, BoxTypeOK
  <2> QED
    BY <2>2, <2>3
<1>5. ASSUME NEW w \in Worker, Marking(w)
      PROVE  box'[i].status = "processing" /\ \A v \in Worker : \A c \in batch'[v] : c.id # i
  <2>1. PICK c \in batch[w] : MarkDone(w, c) \/ MarkRetryOrFailed(w, c)
    BY <1>5 DEF Marking
  <2>2. c.id # i /\ c.id \in Item
    BY DEF BoxTypeOK, Claim
  <2>3. /\ box' = box \/ \E row : box' = [box EXCEPT ![c.id] = row]
        /\ batch' = [batch EXCEPT ![w] = @ \ {c}]
    BY <2>1 DEF MarkDone, MarkRetryOrFailed, Mark
  <2> QED
    BY <2>2, <2>3 DEF BoxTypeOK
<1>6. CASE BoxTick
  BY <1>6 DEF BoxTick, BoxTypeOK, Waiting
<1> QED
  BY <1>1, <1>2, <1>3, <1>4, <1>5, <1>6 DEF BoxNext, Claiming

(* An orphan stays one.                                                    *)
LEMMA OrphansStay ==
  ASSUME [ExportNext]_exportVars
  PROVE  orphans \subseteq orphans'
<1>1. ASSUME NEW c \in Client, Request(c) PROVE orphans' = orphans
  BY <1>1
  DEF Request, UpdateTask, DeleteTask, CreateTask, MoveTask, Change, HookReadTask,
      HookReadLink, HookEnqueue, workVars
<1>2. ASSUME NEW w \in Worker, ClaimBatch(w) PROVE orphans' = orphans
  BY <1>2 DEF ClaimBatch, workVars
<1>3. ASSUME NEW w \in Worker, Crash(w) PROVE orphans \subseteq orphans'
  BY <1>3 DEF Crash
<1>4. ASSUME NEW w \in Worker, NEW c \in batch[w],
             \/ UpsertReadTask(w, c) \/ UpsertReadLink(w, c) \/ DeleteReadLink(w, c)
             \/ DeleteCallGoogle(w, c) \/ DeleteWriteLink(w, c) \/ FinishItem(w, c)
      PROVE  orphans' = orphans
  BY <1>4 DEF UpsertReadTask, UpsertReadLink, DeleteReadLink, DeleteCallGoogle,
              DeleteWriteLink, FinishItem
<1>5. ASSUME NEW w \in Worker, NEW c \in batch[w], UpsertCallGoogle(w, c) \/ UpsertWriteLink(w, c)
      PROVE  orphans \subseteq orphans'
  BY <1>5 DEF UpsertCallGoogle, UpsertWriteLink
<1>6. TimePasses \/ UNCHANGED exportVars => orphans' = orphans
  BY DEF TimePasses, workVars, exportVars
<1> QED
  BY <1>1, <1>2, <1>3, <1>4, <1>5, <1>6 DEF ExportNext, ProcessItem

(* A claim is known by its item, so that one item is current at a time.    *)
LEMMA OneCurrent ==
  ASSUME BoxTypeOK, ClaimsAgree, NEW w \in Worker, NEW c, Current(w, c)
  PROVE  /\ c.id \in Item /\ box[c.id].status = "processing"
         /\ \A d : Current(w, d) => d = c
<1>1. \A d \in batch[w] : d \in Claim /\ box[d.id].attempts = d.attempts
  BY DEF BoxTypeOK, ClaimsAgree
<1>2. c \in batch[w] /\ c.id \in Item /\ box[c.id].status = "processing"
  BY DEF Current, BoxTypeOK, Claim, ClaimsAgree
<1>3. ASSUME NEW d, Current(w, d) PROVE d = c
  <2>1. d \in batch[w] /\ d.id <= c.id /\ c.id <= d.id
    BY <1>2, <1>3 DEF Current
  <2>2. d.id = c.id
    BY <1>1, <1>2, <2>1 DEF Claim, Item
  <2> QED
    BY <1>1, <1>2, <2>1, <2>2 DEF Claim
<1> QED
  BY <1>2, <1>3

(* What holds links, events and the work in hand.                          *)
LEMMA OneQuiet ==
  ASSUME BoxTypeOK, ExportTypeOK, ClaimsAgree, OneInv, [ExportNext]_exportVars,
         links' = links, events' = events, work' = work, batch' = batch
  PROVE  OneInv'
<1>1. \A w \in Worker : \A c \in batch[w] : job'[c.id] = job[c.id]
  <2> SUFFICES ASSUME NEW w \in Worker, NEW c \in batch[w] PROVE job'[c.id] = job[c.id]
    OBVIOUS
  <2>1. c.id \in Item /\ box[c.id].status = "processing"
    BY DEF BoxTypeOK, Claim, ClaimsAgree
  <2> QED
    BY <2>1, JobsStay
<1>2. ItemInHand' /\ OneLink' /\ LinkNamesEvent'
  BY DEF OneInv, ItemInHand, Current, OneLink, LinkNamesEvent
<1>3. UpsertKnows'
  BY <1>1 DEF OneInv, UpsertKnows, Upserting, Current, LinksOf
<1>4. DeleteKnows'
  BY <1>1 DEF OneInv, DeleteKnows, Deleting, Current, LinksOf
<1>5. ASSUME NEW e \in DOMAIN events, events[e].live
      PROVE  (NamedByLink(e) \/ NotLinkedYet(e) \/ e \in orphans)'
  <2>1. CASE NamedByLink(e)
    BY <2>1 DEF NamedByLink, LinksOf
  <2>2. CASE NotLinkedYet(e)
    BY <1>1, <2>2 DEF NotLinkedYet, Upserting, Current
  <2>3. CASE e \in orphans
    BY <2>3, OrphansStay
  <2> QED
    BY <1>5, <2>1, <2>2, <2>3 DEF OneInv, EventsNamed
<1> QED
  BY <1>2, <1>3, <1>4, <1>5 DEF OneInv, EventsNamed

(* A scheduler that puts its work aside: an event that it was about to     *)
(* write into a link is an orphan.                                         *)
LEMMA OneIdle ==
  ASSUME OneExporter, BoxTypeOK, ExportTypeOK, ClaimsAgree, OneInv, [ExportNext]_exportVars,
         links' = links, events' = events, NEW w \in Worker, work'[w].at = "idle",
         \A e \in DOMAIN events : NotLinkedYet(e) => e \in orphans'
  PROVE  OneInv'
<1>1. \A v \in Worker : work'[v].at = "idle"
  BY DEF OneExporter
<1>2. ItemInHand' /\ OneLink' /\ LinkNamesEvent' /\ UpsertKnows' /\ DeleteKnows'
  BY <1>1 DEF OneInv, ItemInHand, OneLink, LinkNamesEvent, UpsertKnows, DeleteKnows
<1>5. ASSUME NEW e \in DOMAIN events, events[e].live
      PROVE  (NamedByLink(e) \/ NotLinkedYet(e) \/ e \in orphans)'
  <2>1. CASE NamedByLink(e)
    BY <2>1 DEF NamedByLink, LinksOf
  <2>2. CASE NotLinkedYet(e)
    BY <2>2
  <2>3. CASE e \in orphans
    BY <2>3, OrphansStay
  <2> QED
    BY <1>5, <2>1, <2>2, <2>3 DEF OneInv, EventsNamed
<1> QED
  BY <1>2, <1>5 DEF OneInv, EventsNamed

(* The scheduler and its item, while it works on the item.                 *)
LEMMA AtWork ==
  ASSUME OneExporter, BoxTypeOK, ClaimsAgree, NEW w \in Worker, NEW c \in batch[w],
         Current(w, c), UNCHANGED boxVars, UNCHANGED job
  PROVE  /\ \A v \in Worker : \A d \in batch[v] : Current(v, d) => v = w /\ d = c
         /\ \A v \in Worker : \A d \in batch'[v] : Current(v, d)' => v = w /\ d = c
         /\ Current(w, c)' /\ c \in batch'[w] /\ c.id \in Item
<1>1. \A v \in Worker : v = w
  BY DEF OneExporter
<1>2. c.id \in Item /\ \A d : Current(w, d) => d = c
  BY OneCurrent
<1> QED
  BY <1>1, <1>2 DEF Current, boxVars

(* A step that touches neither links nor events; an event that was to be   *)
(* written into a link is an orphan.                                       *)
LEMMA NamedStays ==
  ASSUME OneInv, links' = links, events' = events, orphans \subseteq orphans',
         \A e \in DOMAIN events : NotLinkedYet(e) => e \in orphans'
  PROVE  OneLink' /\ LinkNamesEvent' /\ EventsNamed'
<1>1. OneLink' /\ LinkNamesEvent'
  BY DEF OneInv, OneLink, LinkNamesEvent
<1>2. ASSUME NEW e \in DOMAIN events, events[e].live
      PROVE  (NamedByLink(e) \/ e \in orphans)'
  <2>1. NamedByLink(e) \/ e \in orphans'
    BY <1>2 DEF OneInv, EventsNamed
  <2> QED
    BY <2>1 DEF NamedByLink, LinksOf
<1> QED
  BY <1>1, <1>2 DEF EventsNamed

(* The steps that read.                                                    *)
LEMMA OneReads ==
  ASSUME OneExporter, BoxTypeOK, ExportTypeOK, ClaimsAgree, OneInv,
         NEW w \in Worker, NEW c \in batch[w],
         UpsertReadTask(w, c) \/ UpsertReadLink(w, c) \/ DeleteReadLink(w, c)
  PROVE  OneInv'
<1>1. /\ Current(w, c) /\ UNCHANGED boxVars /\ UNCHANGED job /\ links' = links /\ events' = events
      /\ orphans' = orphans /\ work[w].at # "write" /\ \E step : work' = [work EXCEPT ![w] = step]
  BY DEF UpsertReadTask, UpsertReadLink, DeleteReadLink, Upserting, Deleting, Goes
<1>2. /\ \A v \in Worker : \A d \in batch[v] : Current(v, d) => v = w /\ d = c
      /\ \A v \in Worker : \A d \in batch'[v] : Current(v, d)' => v = w /\ d = c
      /\ Current(w, c)' /\ c \in batch'[w] /\ c.id \in Item
  BY <1>1, AtWork
<1>3. \A v \in Worker : v = w
  BY DEF OneExporter
<1>4. \A e \in DOMAIN events : ~ NotLinkedYet(e)
  BY <1>1, <1>3 DEF NotLinkedYet
<1>5. OneLink' /\ LinkNamesEvent' /\ EventsNamed'
  BY <1>1, <1>4, NamedStays
<1>6. ItemInHand'
  BY <1>2, <1>3 DEF ItemInHand
<1>7. links \in Seq(Link) /\ work \in [Worker -> Work]
  BY DEF ExportTypeOK
<1>8. CASE UpsertReadTask(w, c)
  <2>1. work'[w].at \in {"error", "link"} /\ Upserting(w, c)
    BY <1>7, <1>8 DEF UpsertReadTask, Goes, NoWork
  <2>2. ~ Deleting(w, c)' /\ UpsertKnows'
    BY <1>1, <1>2, <2>1 DEF Upserting, Deleting, UpsertKnows
  <2>3. DeleteKnows'
    BY <1>2, <2>2 DEF DeleteKnows, Deleting
  <2> QED
    BY <1>5, <1>6, <2>2, <2>3 DEF OneInv
<1>9. CASE UpsertReadLink(w, c)
  <2> DEFINE t == job[c.id].task
             l == GetByTaskID(t)
  <2>1. Upserting(w, c) /\ c.id \in Item /\ t \in TaskId /\ job[c.id].binding \in Binding
    BY <1>2, <1>9 DEF UpsertReadLink, Upserting, ExportTypeOK, NoJob, Job
  <2>2. \/ l = 0 /\ LinksOf(t) = {}
        \/ l \in 1..Len(links) /\ l \in LinksOf(t) /\ links[l] \in Link
    BY <1>7, NewestLink
  <2>3. l # 0 => links[l].binding = job[c.id].binding
    BY <2>1, <2>2 DEF OneExporter, Link
  <2>4. work'[w] = [work[w] EXCEPT !.at = "google", !.link = l,
                      !.event = IF l # 0 THEN links[l].event ELSE 0]
    BY <1>7, <1>9, <2>3 DEF UpsertReadLink, Goes
  <2> HIDE DEF l
  <2>5. /\ work'[w].at = "google" /\ work'[w].link = l
        /\ work'[w].event = IF l # 0 THEN links[l].event ELSE 0
    BY <1>7, <2>4 DEF Work
  <2>6. ~ Deleting(w, c)' /\ LinksOf(t)' = LinksOf(t)
    BY <1>1, <2>1 DEF Deleting, Upserting, LinksOf
  <2>7. DeleteKnows'
    BY <1>2, <2>6 DEF DeleteKnows, Deleting
  <2>8. UpsertKnows'
    <3>1. \/ l = 0 /\ LinksOf(t) = {}
          \/ l # 0 /\ l \in LinksOf(t)
      BY <2>2 DEF l
    <3> SUFFICES ASSUME NEW v \in Worker, NEW d \in batch'[v], Upserting(v, d)'
                 PROVE  (\/ /\ work[v].link \in LinksOf(job[d.id].task)
                            /\ work[v].event = links[work[v].link].event
                         \/ /\ work[v].link = 0 /\ LinksOf(job[d.id].task) = {}
                            /\ work[v].event = 0 /\ work[v].at = "google")'
      BY DEF UpsertKnows
    <3>2. v = w /\ d = c
      BY <1>2 DEF Upserting
    <3> QED
      BY <1>1, <2>5, <3>1, <3>2 DEF LinksOf
  <2> QED
    BY <1>5, <1>6, <2>7, <2>8 DEF OneInv
<1>10. CASE DeleteReadLink(w, c)
  <2> DEFINE t == job[c.id].task
             l == GetByTaskID(t)
  <2>1. Deleting(w, c)
    BY <1>10 DEF DeleteReadLink
  <2>2. \/ l = 0 /\ LinksOf(t) = {}
        \/ l \in 1..Len(links) /\ l \in LinksOf(t) /\ links[l] \in Link
    BY <1>7, NewestLink
  <2>3. \/ work'[w] = [NoWork EXCEPT !.at = "ok"]
        \/ l # 0 /\ work'[w] = [NoWork EXCEPT !.at = "google", !.link = l, !.event = links[l].event]
    BY <1>7, <1>10 DEF DeleteReadLink, Goes
  <2>4. l # 0 => l \in LinksOf(t)
    BY <2>2
  <2> HIDE DEF l
  <2>5. \/ work'[w].at = "ok"
        \/ work'[w].at = "google" /\ work'[w].link \in LinksOf(t)
           /\ work'[w].event = links[work'[w].link].event
    BY <2>3, <2>4 DEF NoWork
  <2>6. ~ Upserting(w, c)' /\ LinksOf(t)' = LinksOf(t)
    BY <1>1, <2>1 DEF Deleting, Upserting, LinksOf
  <2>7. UpsertKnows'
    BY <1>2, <2>6 DEF UpsertKnows, Upserting
  <2>8. DeleteKnows'
    <3> SUFFICES ASSUME NEW v \in Worker, NEW d \in batch'[v], Deleting(v, d)'
                 PROVE  (\/ work[v].at = "ok"
                         \/ /\ work[v].at = "google"
                            /\ work[v].link \in LinksOf(job[d.id].task)
                            /\ work[v].event = links[work[v].link].event)'
      BY DEF DeleteKnows
    <3>2. v = w /\ d = c
      BY <1>2 DEF Deleting
    <3> QED
      BY <1>1, <2>5, <3>2 DEF LinksOf
  <2> QED
    BY <1>5, <1>6, <2>7, <2>8 DEF OneInv
<1> QED
  BY <1>8, <1>9, <1>10

(* A call about an event neither moves nor revives one, and an event it    *)
(* creates is still to be written into a link.                             *)
LEMMA CallsKeep ==
  ASSUME ExportTypeOK, OneInv, links' = links, orphans \subseteq orphans',
         DOMAIN events \subseteq DOMAIN events',
         \A x \in DOMAIN events : /\ events'[x].task = events[x].task
                                  /\ events'[x].live => events[x].live,
         \A x \in DOMAIN events' : x \in DOMAIN events \/ NotLinkedYet(x)' \/ x \in orphans',
         \A x \in DOMAIN events : ~ NotLinkedYet(x)
  PROVE  OneLink' /\ LinkNamesEvent' /\ EventsNamed'
<1>1. OneLink' /\ LinkNamesEvent'
  BY DEF OneInv, OneLink, LinkNamesEvent
<1>2. ASSUME NEW x \in DOMAIN events', events'[x].live
      PROVE  (NamedByLink(x) \/ NotLinkedYet(x) \/ x \in orphans)'
  <2>1. CASE x \in DOMAIN events
    <3>1. events[x].live /\ events'[x].task = events[x].task
      BY <1>2, <2>1
    <3>2. NamedByLink(x) \/ x \in orphans'
      BY <2>1, <3>1 DEF OneInv, EventsNamed
    <3> QED
      BY <3>1, <3>2 DEF NamedByLink, LinksOf
  <2> QED
    BY <2>1
<1> QED
  BY <1>1, <1>2 DEF EventsNamed

LEMMA UpsertCalls ==
  ASSUME OneExporter, BoxTypeOK, ExportTypeOK, ClaimsAgree, OneInv,
         NEW w \in Worker, NEW c \in batch[w], UpsertCallGoogle(w, c)
  PROVE  OneInv'
<1> DEFINE t == job[c.id].task
           l == work[w].link
           e == work[w].event
           created == [live |-> TRUE, task |-> t, binding |-> job[c.id].binding,
                       ver |-> work[w].ver]
<1>1. /\ Upserting(w, c) /\ Current(w, c) /\ UNCHANGED boxVars /\ UNCHANGED job
      /\ links' = links /\ work[w].at = "google"
  BY DEF UpsertCallGoogle, Upserting
<1>2. /\ \A v \in Worker : \A d \in batch[v] : Current(v, d) => v = w /\ d = c
      /\ \A v \in Worker : \A d \in batch'[v] : Current(v, d)' => v = w /\ d = c
      /\ Current(w, c)' /\ c \in batch'[w] /\ c.id \in Item
  BY <1>1, AtWork
<1>3. \A v \in Worker : v = w
  BY DEF OneExporter
<1>4. /\ links \in Seq(Link) /\ events \in Seq(Event) /\ work \in [Worker -> Work]
      /\ DOMAIN events = 1..Len(events) /\ Len(events) \in Nat /\ DOMAIN links = 1..Len(links)
  BY LenProperties DEF ExportTypeOK
<1>5. \/ l \in LinksOf(t) /\ e = links[l].event
      \/ l = 0 /\ LinksOf(t) = {} /\ e = 0
  BY <1>1 DEF OneInv, UpsertKnows
<1>6. l \in LinksOf(t) => e \in DOMAIN events /\ e # 0 /\ l # 0
  BY <1>4, <1>5 DEF OneInv, LinkNamesEvent, LinksOf
<1>7. \A x \in DOMAIN events : ~ NotLinkedYet(x)
  BY <1>1, <1>3 DEF NotLinkedYet
<1>8. ItemInHand' /\ ~ Deleting(w, c)'
  BY <1>1, <1>2, <1>3 DEF ItemInHand, Deleting, Upserting
<1>9. DeleteKnows'
  BY <1>2, <1>8 DEF DeleteKnows, Deleting
<1>10. Upserting(w, c)'
  BY <1>1, <1>2 DEF Upserting
<1>11. LinksOf(t)' = LinksOf(t) /\ job'[c.id].task = t
  BY <1>1 DEF LinksOf
<1>12. CASE events' = events /\ orphans' = orphans /\ work'[w].at = "error"
  <2>1. UpsertKnows'
    BY <1>3, <1>12 DEF UpsertKnows
  <2> QED
    BY <1>1, <1>7, <1>8, <1>9, <1>12, <2>1, NamedStays DEF OneInv
<1>13. CASE /\ e # 0 /\ events' = [events EXCEPT ![e].ver = work[w].ver] /\ orphans' = orphans
            /\ \/ work'[w].at = "error"
               \/ work' = [work EXCEPT ![w] = [work[w] EXCEPT !.at = "write", !.event = e]]
  <2>1. e \in DOMAIN events /\ l \in LinksOf(t) /\ e = links[l].event
    BY <1>5, <1>6, <1>13
  <2>2. work'[w].at = "error" \/ (work'[w].link = l /\ work'[w].event = e)
    <3>1. ASSUME work' = [work EXCEPT ![w] = [work[w] EXCEPT !.at = "write", !.event = e]]
          PROVE  work'[w].link = l /\ work'[w].event = e
      BY <1>4, <3>1 DEF Work
    <3> QED
      BY <1>13, <3>1
  <2>3. DOMAIN events' = DOMAIN events /\ \A x \in DOMAIN events :
          events'[x].task = events[x].task /\ events'[x].live = events[x].live
    <3>1. events[e] \in Event
      BY <1>4, <2>1, ElementOfSeq
    <3> QED
      BY <1>13, <2>1, <3>1 DEF Event
  <2>4. OneLink' /\ LinkNamesEvent' /\ EventsNamed'
    BY <1>1, <1>7, <1>13, <2>3, CallsKeep
  <2>5. UpsertKnows'
    <3> SUFFICES ASSUME NEW v \in Worker, NEW d \in batch'[v], Upserting(v, d)'
                 PROVE  (\/ work[v].at = "error"
                         \/ /\ work[v].link \in LinksOf(job[d.id].task)
                            /\ work[v].event = links[work[v].link].event)'
      BY DEF UpsertKnows
    <3>1. v = w /\ d = c
      BY <1>2 DEF Upserting
    <3> QED
      BY <1>1, <2>1, <2>2, <3>1 DEF LinksOf
  <2> QED
    BY <1>8, <1>9, <2>4, <2>5 DEF OneInv
<1>14. CASE /\ e = 0 /\ events' = Append(events, created) /\ orphans' = orphans
            /\ work' = [work EXCEPT ![w] = [work[w] EXCEPT !.at = "write", !.event = Len(events')]]
  <2>1. l = 0 /\ LinksOf(t) = {}
    BY <1>5, <1>6, <1>14
  <2>2. /\ DOMAIN events' = 1..(Len(events) + 1) /\ Len(events') = Len(events) + 1
        /\ \A x \in DOMAIN events : events'[x] = events[x]
        /\ events'[Len(events) + 1] = created
    <3> HIDE DEF created
    <3>1. created \in Event
      BY <1>1, <1>2, <1>4 DEF created, Event, Upserting, ExportTypeOK, Job, NoJob, Work
    <3> QED
      BY <1>4, <1>14, <3>1, AppendProperties, LenProperties
  <2>3. work'[w].link = 0 /\ work'[w].event = Len(events) + 1 /\ work'[w].at = "write"
    BY <1>4, <1>14, <2>1, <2>2 DEF Work
  <2>4. PICK n : n = Len(events) + 1
    OBVIOUS
  <2>5. \A x \in DOMAIN events' : x \in DOMAIN events \/ NotLinkedYet(x)'
    <3>1. \A x \in DOMAIN events' : x \in DOMAIN events \/ x = Len(events) + 1
      BY <1>4, <2>2
    <3>2. NotLinkedYet(n)'
      BY <1>2, <1>10, <2>3, <2>4 DEF NotLinkedYet
    <3> QED
      BY <2>4, <3>1, <3>2
  <2>6. DOMAIN events \subseteq DOMAIN events'
    BY <1>4, <2>2
  <2>7. OneLink' /\ LinkNamesEvent' /\ EventsNamed'
    BY <1>1, <1>7, <1>14, <2>2, <2>5, <2>6, CallsKeep
  <2>8. UpsertKnows'
    <3> SUFFICES ASSUME NEW v \in Worker, NEW d \in batch'[v], Upserting(v, d)'
                 PROVE  (/\ work[v].link = 0 /\ LinksOf(job[d.id].task) = {}
                         /\ work[v].at = "write"
                         /\ work[v].event \in DOMAIN events
                         /\ events[work[v].event].task = job[d.id].task
                         /\ events[work[v].event].live)'
      BY DEF UpsertKnows
    <3>1. v = w /\ d = c
      BY <1>2 DEF Upserting
    <3>2. Len(events) + 1 \in DOMAIN events'
      BY <1>4, <2>2
    <3> QED
      BY <1>1, <2>1, <2>2, <2>3, <3>1, <3>2 DEF LinksOf
  <2> QED
    BY <1>8, <1>9, <2>7, <2>8 DEF OneInv
<1>20. CASE /\ e = 0 /\ events' = Append(events, created) /\ work'[w].at = "error"
            /\ orphans' = orphans \cup {Len(events')}
  <2>1. /\ DOMAIN events' = 1..(Len(events) + 1) /\ Len(events') = Len(events) + 1
        /\ \A x \in DOMAIN events : events'[x] = events[x]
    <3> HIDE DEF created
    <3>1. created \in Event
      BY <1>1, <1>2, <1>4 DEF created, Event, Upserting, ExportTypeOK, Job, NoJob, Work
    <3> QED
      BY <1>4, <1>20, <3>1, AppendProperties, LenProperties
  <2>2. \A x \in DOMAIN events' : x \in DOMAIN events \/ x \in orphans'
    BY <1>4, <1>20, <2>1
  <2>3. DOMAIN events \subseteq DOMAIN events' /\ orphans \subseteq orphans'
    BY <1>4, <1>20, <2>1
  <2>4. OneLink' /\ LinkNamesEvent' /\ EventsNamed'
    BY <1>1, <1>7, <2>1, <2>2, <2>3, CallsKeep
  <2>5. UpsertKnows'
    BY <1>3, <1>20 DEF UpsertKnows
  <2> QED
    BY <1>8, <1>9, <2>4, <2>5 DEF OneInv
<1>15. PICK answer \in Answers(e) :
         /\ events' = IF answer = "call" THEN events
                      ELSE IF e # 0 THEN [events EXCEPT ![e].ver = work[w].ver]
                      ELSE Append(events, created)
         /\ orphans' = IF answer = "lost" /\ e = 0 THEN orphans \cup {Len(events')} ELSE orphans
         /\ Called(w, answer, IF e # 0 THEN e ELSE Len(events'))
  BY DEF UpsertCallGoogle
<1>16. answer \in {"ok", "call", "lost"}
  BY DEF Answers
<1>21. answer # "ok" => work'[w].at = "error"
  <2>1. answer # "ok" => work' = [work EXCEPT ![w] = [work[w] EXCEPT !.at = "error"]]
    BY <1>15 DEF Called, Goes
  <2> QED
    BY <1>4, <2>1 DEF Work
<1>17. answer = "call" => events' = events /\ orphans' = orphans
  BY <1>15
<1>18. answer # "call" /\ e # 0 =>
         /\ events' = [events EXCEPT ![e].ver = work[w].ver] /\ orphans' = orphans
         /\ answer = "ok" =>
              work' = [work EXCEPT ![w] = [work[w] EXCEPT !.at = "write", !.event = e]]
  BY <1>15 DEF Called, Goes
<1>22. answer = "lost" /\ e = 0 =>
         /\ events' = Append(events, created)
         /\ orphans' = orphans \cup {Len(events')}
  BY <1>15
<1>19. answer = "ok" /\ e = 0 =>
         /\ events' = Append(events, created) /\ orphans' = orphans
         /\ work' = [work EXCEPT ![w] = [work[w] EXCEPT !.at = "write", !.event = Len(events')]]
  BY <1>15 DEF Called, Goes
<1> QED
  BY <1>12, <1>13, <1>14, <1>16, <1>17, <1>18, <1>19, <1>20, <1>21, <1>22

LEMMA UpsertWrites ==
  ASSUME OneExporter, BoxTypeOK, ExportTypeOK, ClaimsAgree, OneInv,
         NEW w \in Worker, NEW c \in batch[w], UpsertWriteLink(w, c)
  PROVE  /\ OneInv'
         /\ \/ work'[w].at = "ok"
            \/ work'[w].at = "error" /\ links' = links
<1> DEFINE t == job[c.id].task
           l == work[w].link
           e == work[w].event
           row == [live |-> TRUE, task |-> t, binding |-> job[c.id].binding, event |-> e]
<1>1. /\ Upserting(w, c) /\ Current(w, c) /\ UNCHANGED boxVars /\ UNCHANGED job
      /\ events' = events /\ work[w].at = "write"
  BY DEF UpsertWriteLink, Upserting
<1>2. /\ \A v \in Worker : \A d \in batch[v] : Current(v, d) => v = w /\ d = c
      /\ \A v \in Worker : \A d \in batch'[v] : Current(v, d)' => v = w /\ d = c
      /\ Current(w, c)' /\ c \in batch'[w] /\ c.id \in Item
  BY <1>1, AtWork
<1>3. \A v \in Worker : v = w
  BY DEF OneExporter
<1>4. /\ links \in Seq(Link) /\ work \in [Worker -> Work] /\ work[w] \in Work
      /\ Len(links) \in Nat /\ DOMAIN links = 1..Len(links)
  BY LenProperties DEF ExportTypeOK
<1>5. \/ l \in LinksOf(t) /\ e = links[l].event
      \/ l = 0 /\ LinksOf(t) = {} /\ e \in DOMAIN events /\ events[e].task = t
  BY <1>1 DEF OneInv, UpsertKnows
<1>6. l \in LinksOf(t) => l \in DOMAIN links /\ links[l].live /\ links[l].task = t /\ l # 0
  BY <1>4 DEF LinksOf
<1>7. PICK ok \in BOOLEAN :
        /\ links' = IF ~ ok THEN links
                    ELSE IF l = 0 THEN Append(links, row) ELSE [links EXCEPT ![l] = row]
        /\ orphans' = IF ok THEN orphans ELSE orphans \cup Unlinked(w)
        /\ work' = [work EXCEPT ![w] = [NoWork EXCEPT !.at = IF ok THEN "ok" ELSE "error"]]
  <2>1. PICK may \in MayFail("write") : LET written == may /\ (l = 0 \/ links[l].live) IN
          /\ links' = IF ~ written THEN links
                      ELSE IF l = 0 THEN Append(links, row) ELSE [links EXCEPT ![l] = row]
          /\ orphans' = IF written THEN orphans ELSE orphans \cup Unlinked(w)
          /\ Goes(w, [NoWork EXCEPT !.at = IF written THEN "ok" ELSE "error"])
    BY DEF UpsertWriteLink
  <2>2. may \in BOOLEAN /\ (l = 0 \/ links[l].live)
    BY <1>5, <1>6 DEF MayFail
  <2> QED
    BY <2>1, <2>2 DEF Goes
<1>8. work'[w].at = IF ok THEN "ok" ELSE "error"
  BY <1>4, <1>7 DEF NoWork
<1>9. ItemInHand' /\ UpsertKnows' /\ DeleteKnows'
  <2>1. ~ Deleting(w, c)'
    BY <1>1 DEF Deleting, Upserting
  <2> QED
    BY <1>2, <1>3, <1>8, <2>1 DEF ItemInHand, UpsertKnows, DeleteKnows, Deleting
<1>10. t \in TaskId /\ job[c.id].binding \in Binding
  BY <1>1, <1>2 DEF Upserting, ExportTypeOK, Job, NoJob
<1>11. ASSUME NEW x \in DOMAIN events, NotLinkedYet(x) PROVE l = 0 /\ x = e
  BY <1>2, <1>3, <1>11 DEF NotLinkedYet
<1>14. ASSUME ~ ok PROVE OneInv' /\ links' = links
  <2>1. links' = links /\ orphans \subseteq orphans' /\ Unlinked(w) \subseteq orphans'
    BY <1>7, <1>14
  <2>2. ASSUME NEW x \in DOMAIN events, NotLinkedYet(x) PROVE x \in orphans'
    <3>1. l = 0 /\ x = e
      BY <1>11, <2>2
    <3>2. LinksOf(t) = {} /\ events[e].task = t
      BY <1>5, <1>6, <3>1
    <3>3. \A k \in DOMAIN links : links[k].live => links[k].event # e
      BY <3>2 DEF OneInv, LinkNamesEvent, LinksOf
    <3>4. x # 0
      BY LenProperties DEF ExportTypeOK
    <3> QED
      BY <1>1, <2>1, <3>1, <3>3, <3>4 DEF Unlinked
  <2>3. OneLink' /\ LinkNamesEvent' /\ EventsNamed'
    BY <1>1, <2>1, <2>2, NamedStays
  <2> QED
    BY <1>9, <2>1, <2>3 DEF OneInv
<1>12. CASE ok /\ l # 0
  <2>1. links[l] \in Link /\ l \in DOMAIN links /\ links[l].live /\ links[l].task = t
        /\ links[l].event = e
    BY <1>4, <1>5, <1>6, <1>12, ElementOfSeq
  <2>2. links[l] = row
    BY <1>10, <2>1 DEF Link, OneExporter
  <2>3. links' = links
    <3>1. links \in [1..Len(links) -> Link]
      BY <1>4, LenProperties
    <3> QED
      BY <1>7, <1>12, <2>1, <2>2, <3>1
  <2>4. OneLink' /\ LinkNamesEvent' /\ EventsNamed'
    BY <1>1, <1>7, <1>11, <1>12, <2>3, NamedStays
  <2> QED
    BY <1>8, <1>9, <1>12, <2>4 DEF OneInv
<1>13. CASE ok /\ l = 0
  <2>1. LinksOf(t) = {} /\ e \in DOMAIN events /\ events[e].task = t
    BY <1>5, <1>6, <1>13
  <2>2. /\ DOMAIN links' = 1..(Len(links) + 1)
        /\ \A k \in DOMAIN links : links'[k] = links[k]
        /\ links'[Len(links) + 1] = row
    <3> HIDE DEF row
    <3>1. row \in Link
      BY <1>1, <1>2, <1>4, <1>10 DEF row, Link, Work
    <3> QED
      BY <1>4, <1>7, <1>13, <3>1, AppendProperties, LenProperties
  <2>3. PICK n : n = Len(links) + 1
    OBVIOUS
  <2>4. /\ \A k : k \in DOMAIN links' <=> k \in DOMAIN links \/ k = n
        /\ n \notin DOMAIN links
        /\ links'[n].live /\ links'[n].task = t /\ links'[n].event = e
    BY <1>4, <2>2, <2>3
  <2>5. \A k \in DOMAIN links : ~(links[k].live /\ links[k].task = t)
    BY <2>1 DEF LinksOf
  <2>6. OneLink'
    <3> SUFFICES ASSUME NEW k \in DOMAIN links', NEW m \in DOMAIN links',
                        links'[k].live, links'[m].live, links'[k].task = links'[m].task
                 PROVE  k = m
      BY DEF OneLink
    <3>1. CASE k \in DOMAIN links /\ m \in DOMAIN links
      BY <2>2, <3>1 DEF OneInv, OneLink
    <3> QED
      BY <2>2, <2>4, <2>5, <3>1
  <2>7. LinkNamesEvent'
    <3> SUFFICES ASSUME NEW k \in DOMAIN links', links'[k].live
                 PROVE  /\ links'[k].event \in DOMAIN events
                        /\ events[links'[k].event].task = links'[k].task
      BY <1>1 DEF LinkNamesEvent
    <3>1. CASE k \in DOMAIN links
      BY <2>2, <3>1 DEF OneInv, LinkNamesEvent
    <3> QED
      BY <2>1, <2>4, <3>1
  <2>8. EventsNamed'
    <3> SUFFICES ASSUME NEW x \in DOMAIN events, events[x].live
                 PROVE  (NamedByLink(x) \/ x \in orphans)'
      BY <1>1 DEF EventsNamed
    <3>1. CASE x = e
      BY <1>1, <2>1, <2>4, <3>1 DEF NamedByLink, LinksOf
    <3>2. CASE NamedByLink(x)
      BY <1>1, <2>2, <2>4, <3>2 DEF NamedByLink, LinksOf
    <3>3. CASE x \in orphans
      BY <1>7, <1>13, <3>3
    <3> QED
      BY <1>11, <3>1, <3>2, <3>3 DEF OneInv, EventsNamed
  <2> QED
    BY <1>8, <1>9, <1>13, <2>6, <2>7, <2>8 DEF OneInv
<1> QED
  BY <1>8, <1>12, <1>13, <1>14

LEMMA DeleteCalls ==
  ASSUME OneExporter, BoxTypeOK, ExportTypeOK, ClaimsAgree, OneInv,
         NEW w \in Worker, NEW c \in batch[w], DeleteCallGoogle(w, c)
  PROVE  OneInv'
<1> DEFINE t == job[c.id].task
           l == work[w].link
           e == work[w].event
<1>1. /\ Deleting(w, c) /\ Current(w, c) /\ UNCHANGED boxVars /\ UNCHANGED job
      /\ links' = links /\ orphans' = orphans /\ work[w].at = "google"
  BY DEF DeleteCallGoogle, Deleting
<1>2. /\ \A v \in Worker : \A d \in batch[v] : Current(v, d) => v = w /\ d = c
      /\ \A v \in Worker : \A d \in batch'[v] : Current(v, d)' => v = w /\ d = c
      /\ Current(w, c)' /\ c \in batch'[w] /\ c.id \in Item
  BY <1>1, AtWork
<1>3. \A v \in Worker : v = w
  BY DEF OneExporter
<1>4. /\ events \in Seq(Event) /\ work \in [Worker -> Work] /\ work[w] \in Work
  BY DEF ExportTypeOK
<1>5. l \in LinksOf(t) /\ e = links[l].event /\ e \in DOMAIN events
  BY <1>1 DEF OneInv, DeleteKnows, LinkNamesEvent, LinksOf
<1>6. \A x \in DOMAIN events : ~ NotLinkedYet(x)
  BY <1>1, <1>3 DEF NotLinkedYet
<1>7. ItemInHand' /\ UpsertKnows'
  <2>1. ~ Upserting(w, c)'
    BY <1>1 DEF Deleting, Upserting
  <2> QED
    BY <1>2, <1>3, <2>1 DEF ItemInHand, UpsertKnows, Upserting
<1>8. PICK answer \in Answers(e) :
         /\ events' = IF answer = "call" THEN events ELSE [events EXCEPT ![e].live = FALSE]
         /\ Called(w, answer, e)
  BY DEF DeleteCallGoogle
<1>9. answer \in {"ok", "call", "lost"}
  BY DEF Answers
<1>10. CASE answer = "call"
  <2>1. events' = events /\ work'[w].at = "error"
    BY <1>4, <1>8, <1>10 DEF Called, Goes
  <2>2. DeleteKnows'
    BY <1>3, <2>1 DEF DeleteKnows
  <2> QED
    BY <1>1, <1>6, <1>7, <2>1, <2>2, NamedStays DEF OneInv
<1>11. CASE answer # "call"
  <2>1. /\ events' = [events EXCEPT ![e].live = FALSE]
        /\ \/ work'[w] = [work[w] EXCEPT !.at = "write", !.event = e]
           \/ work'[w] = [work[w] EXCEPT !.at = "error"]
    BY <1>4, <1>8, <1>11 DEF Called, Goes
  <2>2. \/ work'[w].at = "write" /\ work'[w].link = l /\ work'[w].event = e
        \/ work'[w].at = "error"
    BY <1>4, <2>1 DEF Work
  <2>3. /\ DOMAIN events' = DOMAIN events
        /\ \A x \in DOMAIN events : /\ events'[x].task = events[x].task
                                    /\ events'[x].live => events[x].live
        /\ ~ events'[e].live
    <3>1. events[e] \in Event
      BY <1>4, <1>5, LenProperties, ElementOfSeq
    <3> QED
      BY <1>5, <2>1, <3>1 DEF Event
  <2>4. OneLink' /\ LinkNamesEvent' /\ EventsNamed'
    BY <1>1, <1>6, <2>3, CallsKeep
  <2>5. DeleteKnows'
    <3> SUFFICES ASSUME NEW v \in Worker, NEW d \in batch'[v], Deleting(v, d)'
                 PROVE  (\/ work[v].at = "error"
                         \/ /\ work[v].at = "write" /\ ~ events[work[v].event].live
                            /\ work[v].link \in LinksOf(job[d.id].task)
                            /\ work[v].event = links[work[v].link].event)'
      BY DEF DeleteKnows
    <3>1. v = w /\ d = c
      BY <1>2 DEF Deleting
    <3> QED
      BY <1>1, <1>5, <2>2, <2>3, <3>1 DEF LinksOf
  <2> QED
    BY <1>7, <2>4, <2>5 DEF OneInv
<1> QED
  BY <1>9, <1>10, <1>11

(* The row of a link is deleted after its event.                           *)
LEMMA DeleteWrites ==
  ASSUME OneExporter, BoxTypeOK, ExportTypeOK, ClaimsAgree, OneInv,
         NEW w \in Worker, NEW c \in batch[w], DeleteWriteLink(w, c)
  PROVE  /\ OneInv'
         /\ \A t : LinksOf(t)' \subseteq LinksOf(t)
         /\ \/ work'[w].at = "ok" /\ LinksOf(job[c.id].task)' = {}
            \/ work'[w].at = "error" /\ links' = links
<1> DEFINE l == work[w].link
           e == work[w].event
<1>1. /\ Deleting(w, c) /\ Current(w, c) /\ UNCHANGED boxVars /\ UNCHANGED job
      /\ events' = events /\ orphans' = orphans /\ work[w].at = "write"
  BY DEF DeleteWriteLink, Deleting
<1>2. /\ \A v \in Worker : \A d \in batch[v] : Current(v, d) => v = w /\ d = c
      /\ \A v \in Worker : \A d \in batch'[v] : Current(v, d)' => v = w /\ d = c
      /\ Current(w, c)' /\ c \in batch'[w] /\ c.id \in Item
  BY <1>1, AtWork
<1>3. \A v \in Worker : v = w
  BY DEF OneExporter
<1>4. /\ links \in Seq(Link) /\ work \in [Worker -> Work] /\ work[w] \in Work
  BY DEF ExportTypeOK
<1>5. /\ l \in LinksOf(job[c.id].task) /\ e = links[l].event /\ ~ events[e].live
      /\ l \in DOMAIN links /\ links[l].live /\ links[l].task = job[c.id].task
  BY <1>1 DEF OneInv, DeleteKnows, LinksOf
<1>6. \/ links' = [links EXCEPT ![l].live = FALSE] /\ work'[w].at = "ok"
      \/ links' = links /\ work'[w].at = "error"
  <2>1. PICK ok \in MayFail("write") :
          /\ links' = IF ok THEN [links EXCEPT ![l].live = FALSE] ELSE links
          /\ Goes(w, [NoWork EXCEPT !.at = IF ok /\ links[l].live THEN "ok" ELSE "error"])
    BY DEF DeleteWriteLink
  <2>2. work'[w].at = IF ok THEN "ok" ELSE "error"
    BY <1>4, <1>5, <2>1 DEF Goes, NoWork
  <2> QED
    BY <2>1, <2>2
<1>7. ItemInHand' /\ UpsertKnows' /\ DeleteKnows'
  <2>1. ~ Upserting(w, c)'
    BY <1>1 DEF Deleting, Upserting
  <2>2. \A v \in Worker : work'[v].at \in {"ok", "error"}
    BY <1>3, <1>6
  <2> QED
    BY <1>2, <1>3, <2>1, <2>2 DEF ItemInHand, UpsertKnows, DeleteKnows, Upserting
<1>13. CASE links' = links /\ work'[w].at = "error"
  <2>1. \A x \in DOMAIN events : ~ NotLinkedYet(x)
    BY <1>1, <1>2 DEF NotLinkedYet, Upserting, Deleting
  <2>2. OneLink' /\ LinkNamesEvent' /\ EventsNamed'
    BY <1>1, <1>13, <2>1, NamedStays
  <2>3. \A u : LinksOf(u)' = LinksOf(u)
    BY <1>13 DEF LinksOf
  <2> QED
    BY <1>7, <1>13, <2>2, <2>3 DEF OneInv
<1>14. SUFFICES ASSUME links' = [links EXCEPT ![l].live = FALSE], work'[w].at = "ok"
                PROVE  /\ OneInv'
                       /\ \A t : LinksOf(t)' \subseteq LinksOf(t)
                       /\ work'[w].at = "ok" /\ LinksOf(job[c.id].task)' = {}
  BY <1>6, <1>13
<1>8. /\ DOMAIN links' = DOMAIN links /\ ~ links'[l].live
      /\ \A k \in DOMAIN links : k # l => links'[k] = links[k]
      /\ links'[l].task = links[l].task /\ links'[l].event = links[l].event
  <2>1. links[l] \in Link
    BY <1>4, <1>5, LenProperties, ElementOfSeq
  <2> QED
    BY <1>5, <1>14, <2>1 DEF Link
<1>9. OneLink' /\ LinkNamesEvent'
  <2>1. OneLink'
    BY <1>8 DEF OneInv, OneLink
  <2>2. LinkNamesEvent'
    BY <1>1, <1>8 DEF OneInv, LinkNamesEvent
  <2> QED
    BY <2>1, <2>2
<1>10. EventsNamed'
  <2> SUFFICES ASSUME NEW x \in DOMAIN events, events[x].live
               PROVE  (NamedByLink(x) \/ x \in orphans)'
    BY <1>1 DEF EventsNamed
  <2>1. ~ NotLinkedYet(x)
    BY <1>1, <1>2 DEF NotLinkedYet, Upserting, Deleting
  <2>2. CASE NamedByLink(x)
    <3>1. PICK k \in DOMAIN links : links[k].live /\ links[k].task = events[x].task
                                    /\ links[k].event = x
      BY <2>2 DEF NamedByLink, LinksOf
    <3>2. k # l
      BY <1>5, <3>1
    <3> QED
      BY <1>1, <1>8, <3>1, <3>2 DEF NamedByLink, LinksOf
  <2>3. CASE x \in orphans
    BY <1>1, <2>3
  <2> QED
    BY <2>1, <2>2, <2>3 DEF OneInv, EventsNamed
<1>11. LinksOf(job[c.id].task)' = {}
  <2> SUFFICES ASSUME NEW k \in DOMAIN links', links'[k].live, links'[k].task = job[c.id].task
               PROVE  FALSE
    BY <1>1 DEF LinksOf
  <2>1. k # l /\ links[k].live /\ links[k].task = job[c.id].task /\ k \in DOMAIN links
    BY <1>8
  <2> QED
    BY <1>5, <2>1 DEF OneInv, OneLink
<1>12. \A t : LinksOf(t)' \subseteq LinksOf(t)
  BY <1>8 DEF LinksOf
<1> QED
  BY <1>7, <1>9, <1>10, <1>11, <1>12, <1>14 DEF OneInv

LEMMA OneStep1 ==
  ASSUME OneExporter, BoxTypeOK, ExportTypeOK, ClaimsAgree, OneInv, ExportNext
  PROVE  OneInv'
<1>0. [ExportNext]_exportVars
  OBVIOUS
<1>1. ASSUME NEW c \in Client, Request(c) PROVE OneInv'
  <2>1. links' = links /\ events' = events /\ work' = work /\ batch' = batch
    BY <1>1
    DEF Request, UpdateTask, DeleteTask, CreateTask, MoveTask, Change, HookReadTask,
        HookReadLink, HookEnqueue, Enqueue, workVars, boxVars
  <2> QED
    BY <1>0, <2>1, OneQuiet
<1>2. ASSUME NEW w \in Worker, ClaimBatch(w) PROVE OneInv'
  <2>1. links' = links /\ events' = events /\ work' = work
    BY <1>2 DEF ClaimBatch, workVars
  <2>2. CASE SelectDue(w) \/ ClaimFails(w)
    <3>1. batch' = batch
      BY <2>2 DEF SelectDue, ClaimFails
    <3> QED
      BY <1>0, <2>1, <3>1, OneQuiet
  <2>3. CASE CommitClaim(w)
    <3>1. batch[w] = {}
      BY <2>3 DEF CommitClaim, ClaimsAgree
    <3>2. work'[w].at = "idle"
      BY <2>1, <3>1 DEF OneInv, ItemInHand
    <3>3. \A e \in DOMAIN events : ~ NotLinkedYet(e)
      BY <3>1 DEF NotLinkedYet, OneExporter
    <3> QED
      BY <1>0, <2>1, <3>2, <3>3, OneIdle
  <2> QED
    BY <1>2, <2>2, <2>3 DEF ClaimBatch, Claiming
<1>3. ASSUME NEW w \in Worker, Crash(w) PROVE OneInv'
  <2>1. /\ links' = links /\ events' = events /\ job' = job /\ box' = box
        /\ work'[w].at = "idle" /\ batch' = [batch EXCEPT ![w] = {}]
    BY <1>3 DEF Crash, CrashWorker, Goes, clientVars, NoWork, ExportTypeOK
  <2>2. ASSUME NEW e \in DOMAIN events, NotLinkedYet(e) PROVE e \in orphans'
    <3>1. PICK c \in batch[w] :
            /\ Upserting(w, c) /\ work[w].at = "write" /\ work[w].link = 0 /\ work[w].event = e
      BY <2>2 DEF NotLinkedYet, OneExporter
    <3>2. LinksOf(job[c.id].task) = {} /\ events[e].task = job[c.id].task
      <4>1. 0 \notin LinksOf(job[c.id].task)
        BY LenProperties DEF LinksOf, ExportTypeOK
      <4> QED
        BY <3>1, <4>1 DEF OneInv, UpsertKnows
    <3>3. \A k \in DOMAIN links : links[k].live => links[k].event # e
      BY <3>2 DEF OneInv, LinkNamesEvent, LinksOf
    <3>4. e # 0
      BY LenProperties DEF ExportTypeOK
    <3> QED
      BY <1>3, <3>1, <3>3, <3>4 DEF Crash, Unlinked
  <2> QED
    BY <1>0, <2>1, <2>2, OneIdle
<1>4. ASSUME NEW w \in Worker, NEW c \in batch[w], FinishItem(w, c) PROVE OneInv'
  <2>1. /\ links' = links /\ events' = events /\ work'[w].at = "idle"
        /\ work[w].at \in {"ok", "error"}
    BY <1>4 DEF FinishItem, Goes, NoWork, ExportTypeOK
  <2>2. \A e \in DOMAIN events : ~ NotLinkedYet(e)
    BY <2>1 DEF NotLinkedYet, OneExporter
  <2> QED
    BY <1>0, <2>1, <2>2, OneIdle
<1>5. ASSUME NEW w \in Worker, ProcessItem(w) PROVE OneInv'
  BY <1>4, <1>5, OneReads, UpsertCalls, UpsertWrites, DeleteCalls, DeleteWrites DEF ProcessItem
<1>6. CASE TimePasses
  <2>1. links' = links /\ events' = events /\ work' = work /\ batch' = batch
    BY <1>6 DEF TimePasses, BoxTick, workVars
  <2> QED
    BY <1>0, <2>1, OneQuiet
<1> QED
  BY <1>1, <1>2, <1>3, <1>5, <1>6 DEF ExportNext

LEMMA OneInvHolds ==
  ASSUME OneExporter
  PROVE  ExportSpec => [](BoxTypeOK /\ ClaimsAgree /\ ExportTypeOK /\ OneInv)
<1>1. ExportInit => OneInv
  BY DEF ExportInit, BoxInit, OneInv, ItemInHand, OneLink, LinkNamesEvent, UpsertKnows,
         DeleteKnows, EventsNamed, NoWork
<1>2. BoxTypeOK /\ ExportTypeOK /\ ClaimsAgree /\ OneInv /\ [ExportNext]_exportVars => OneInv'
  <2>1. CASE ExportNext
    BY <2>1, OneStep1
  <2>2. CASE UNCHANGED exportVars
    <3>1. links' = links /\ events' = events /\ work' = work /\ batch' = batch
      BY <2>2 DEF exportVars
    <3> QED
      BY <2>2, <3>1, OneQuiet
  <2> QED
    BY <2>1, <2>2
<1> QED
  BY <1>1, <1>2, ExportIsOutbox, BoxTypeCorrect, ClaimsCorrect, ExportTypeCorrect, PTL
  DEF ExportSpec

-----------------------------------------------------------------------------
(* One event for a task, and one more for each further scheduler, but for  *)
(* orphans.  True of one calendar, with any number of schedulers and every *)
(* fault: an event is created by a scheduler that found no link, so that   *)
(* the links of a task, and the schedulers that are about to add one, are  *)
(* never more than the schedulers.                                         *)
OneCalendar == \A a, b \in Binding : a = b

LinksName ==
  \A l \in DOMAIN links : /\ links[l].event \in DOMAIN events
                          /\ events[links[l].event].task = links[l].task

(* What an upsert, or a delete, of the item c has read and done.           *)
UpsertHolds(w, c) ==
  LET t == job[c.id].task  l == work[w].link  e == work[w].event IN
  \/ l \in DOMAIN links /\ links[l].task = t /\ links[l].event = e
  \/ /\ l = 0
     /\ work[w].at = "google" => e = 0
     /\ work[w].at = "write" => e \in DOMAIN events /\ events[e].task = t

DeleteHolds(w, c) ==
  LET l == work[w].link  e == work[w].event IN
  /\ l \in DOMAIN links /\ links[l].event = e
  /\ work[w].at = "write" => ~ events[e].live

Held(w) ==
  \A c \in batch[w] : work[w].at \in {"google", "write"} =>
    /\ Upserting(w, c) => UpsertHolds(w, c)
    /\ Deleting(w, c) => DeleteHolds(w, c)

(* Scheduler w found no link of t, and will create an event and a link.    *)
Making(w, t) ==
  /\ work[w].at \in {"google", "write"} /\ work[w].link = 0
  /\ \E c \in batch[w] : Upserting(w, c) /\ job[c.id].task = t
Makers(t) == {w \in Worker : Making(w, t)}

FewMakers ==
  \A t \in TaskId :
    Cardinality(LinksOf(t)) + Cardinality(Makers(t)) <= Cardinality(Worker)

(* Scheduler w has created e and has still to write the link.              *)
Pending(w, e) ==
  \E c \in batch[w] : /\ Upserting(w, c) /\ work[w].at = "write"
                      /\ work[w].link = 0 /\ work[w].event = e

NamedOrOrphan ==
  \A e \in DOMAIN events : events[e].live =>
    \/ e \in orphans
    \/ \E l \in DOMAIN links : links[l].live /\ links[l].event = e
    \/ \E w \in Worker : Pending(w, e)

BoundInv ==
  /\ ItemInHand /\ LinksName /\ \A w \in Worker : Held(w)
  /\ FewMakers /\ NamedOrOrphan

(* No row of a link or an event is taken back, nor moved, nor revived.     *)
TablesGrow ==
  /\ \A l \in DOMAIN links : /\ l \in DOMAIN links'
                             /\ links'[l].task = links[l].task
                             /\ links'[l].event = links[l].event
                             /\ links'[l].live => links[l].live
  /\ \A e \in DOMAIN events : /\ e \in DOMAIN events'
                              /\ events'[e].task = events[e].task
                              /\ events'[e].live => events[e].live

LEMMA HeldStays ==
  ASSUME LinksName, TablesGrow, NEW w \in Worker, Held(w),
         work'[w] = work[w], batch'[w] = batch[w],
         \A c \in batch[w] : job'[c.id] = job[c.id]
  PROVE  Held(w)'
<1> SUFFICES ASSUME NEW c \in batch[w], work[w].at \in {"google", "write"}
             PROVE  /\ Upserting(w, c)' => UpsertHolds(w, c)'
                    /\ Deleting(w, c)' => DeleteHolds(w, c)'
  BY DEF Held
<1>1. /\ Upserting(w, c)' => Upserting(w, c)
      /\ Deleting(w, c)' => Deleting(w, c)
  BY DEF Upserting, Deleting, Current
<1>2. Upserting(w, c) => UpsertHolds(w, c)
  BY DEF Held
<1>3. Deleting(w, c) => DeleteHolds(w, c)
  BY DEF Held
<1>4. UpsertHolds(w, c) => UpsertHolds(w, c)'
  BY DEF UpsertHolds, TablesGrow
<1>5. DeleteHolds(w, c) => DeleteHolds(w, c)'
  BY DEF DeleteHolds, TablesGrow, LinksName
<1> QED
  BY <1>1, <1>2, <1>3, <1>4, <1>5

(* Where links and makers only become fewer, they stay few.                *)
LEMMA FewStay ==
  ASSUME IsFiniteSet(Worker), links \in Seq(Link), NEW t \in TaskId, FewMakers,
         LinksOf(t)' \subseteq LinksOf(t), Makers(t)' \subseteq Makers(t)
  PROVE  Cardinality(LinksOf(t)') + Cardinality(Makers(t)') <= Cardinality(Worker)
<1>1. IsFiniteSet(LinksOf(t))
  <2>1. DOMAIN links = 1..Len(links) /\ Len(links) \in Nat
    BY LenProperties
  <2>2. IsFiniteSet(1..Len(links))
    BY <2>1, FS_Interval
  <2> QED
    BY <2>1, <2>2, FS_Subset DEF LinksOf
<1>2. IsFiniteSet(Makers(t))
  BY FS_Subset DEF Makers
<1>3. /\ Cardinality(LinksOf(t)') <= Cardinality(LinksOf(t))
      /\ Cardinality(LinksOf(t)') \in Nat /\ Cardinality(LinksOf(t)) \in Nat
  BY <1>1, FS_Subset, FS_CardinalityType
<1>4. /\ Cardinality(Makers(t)') <= Cardinality(Makers(t))
      /\ Cardinality(Makers(t)') \in Nat /\ Cardinality(Makers(t)) \in Nat
  BY <1>2, FS_Subset, FS_CardinalityType
<1>5. Cardinality(Worker) \in Nat
  BY FS_CardinalityType
<1>6. Cardinality(LinksOf(t)) + Cardinality(Makers(t)) <= Cardinality(Worker)
  BY DEF FewMakers
<1> QED
  BY <1>3, <1>4, <1>5, <1>6

(* What touches no link, no event and no work.                             *)
LEMMA BoundQuiet ==
  ASSUME IsFiniteSet(Worker), BoxTypeOK, ExportTypeOK, ClaimsAgree, BoundInv,
         [ExportNext]_exportVars, links' = links, events' = events, work' = work,
         batch' = batch, orphans' = orphans
  PROVE  BoundInv'
<1>1. \A w \in Worker : \A c \in batch[w] : job'[c.id] = job[c.id]
  <2> SUFFICES ASSUME NEW w \in Worker, NEW c \in batch[w] PROVE job'[c.id] = job[c.id]
    OBVIOUS
  <2>1. c.id \in Item /\ box[c.id].status = "processing"
    BY DEF BoxTypeOK, Claim, ClaimsAgree
  <2> QED
    BY <2>1, JobsStay
<1>2. TablesGrow /\ LinksName
  BY DEF TablesGrow, BoundInv
<1>3. ItemInHand' /\ LinksName'
  BY DEF BoundInv, ItemInHand, Current, LinksName
<1>4. \A w \in Worker : Held(w)'
  <2> SUFFICES ASSUME NEW w \in Worker PROVE Held(w)'
    OBVIOUS
  <2>1. Held(w)
    BY DEF BoundInv
  <2> QED
    BY <1>1, <1>2, <2>1, HeldStays
<1>5. FewMakers'
  <2> SUFFICES ASSUME NEW t \in TaskId
               PROVE  Cardinality(LinksOf(t)') + Cardinality(Makers(t)') <= Cardinality(Worker)
    BY DEF FewMakers
  <2>1. LinksOf(t)' \subseteq LinksOf(t)
    BY DEF LinksOf
  <2>2. Makers(t)' \subseteq Makers(t)
    BY <1>1 DEF Makers, Making, Upserting, Current
  <2>3. links \in Seq(Link) /\ FewMakers
    BY DEF ExportTypeOK, BoundInv
  <2> QED
    BY <2>1, <2>2, <2>3, FewStay
<1>6. NamedOrOrphan'
  BY <1>1 DEF BoundInv, NamedOrOrphan, Pending, Upserting, Current
<1> QED
  BY <1>3, <1>4, <1>5, <1>6 DEF BoundInv

(* What sets w back to idle: links, events and the others are as before,   *)
(* and an event that w had still to write is named, or an orphan.          *)
LEMMA BoundIdle ==
  ASSUME IsFiniteSet(Worker), BoxTypeOK, ExportTypeOK, BoundInv,
         NEW w \in Worker, UNCHANGED <<links, events, job>>,
         work'[w].at = "idle",
         \A v \in Worker \ {w} : work'[v] = work[v] /\ batch'[v] = batch[v],
         orphans \subseteq orphans',
         \A e \in DOMAIN events : Pending(w, e) =>
           \/ e \in orphans'
           \/ \E l \in DOMAIN links : links[l].live /\ links[l].event = e
  PROVE  BoundInv'
<1>1. /\ work'[w].at = "idle"
      /\ \A v \in Worker \ {w} : work'[v] = work[v] /\ batch'[v] = batch[v]
  OBVIOUS
<1>2. TablesGrow /\ LinksName
  BY DEF TablesGrow, BoundInv
<1>3. LinksName'
  BY <1>2 DEF LinksName
<1>4. ItemInHand'
  BY <1>1 DEF BoundInv, ItemInHand, Current
<1>5. \A v \in Worker : Held(v)'
  <2> SUFFICES ASSUME NEW v \in Worker PROVE Held(v)'
    OBVIOUS
  <2>1. CASE v = w
    BY <1>1, <2>1 DEF Held
  <2>2. CASE v # w
    <3>1. Held(v)
      BY DEF BoundInv
    <3>2. work'[v] = work[v] /\ batch'[v] = batch[v] /\ \A c \in batch[v] : job'[c.id] = job[c.id]
      BY <1>1, <2>2
    <3> QED
      BY <1>2, <3>1, <3>2, HeldStays
  <2> QED
    BY <2>1, <2>2
<1>6. FewMakers'
  <2> SUFFICES ASSUME NEW t \in TaskId
               PROVE  Cardinality(LinksOf(t)') + Cardinality(Makers(t)') <= Cardinality(Worker)
    BY DEF FewMakers
  <2>1. LinksOf(t)' \subseteq LinksOf(t)
    BY DEF LinksOf
  <2>2. Makers(t)' \subseteq Makers(t)
    BY <1>1 DEF Makers, Making, Upserting, Current
  <2>3. links \in Seq(Link) /\ FewMakers
    BY DEF ExportTypeOK, BoundInv
  <2> QED
    BY <2>1, <2>2, <2>3, FewStay
<1>7. NamedOrOrphan'
  <2> SUFFICES ASSUME NEW e \in DOMAIN events, events[e].live
               PROVE  \/ e \in orphans'
                      \/ \E l \in DOMAIN links : links[l].live /\ links[l].event = e
                      \/ \E v \in Worker : Pending(v, e)'
    BY DEF NamedOrOrphan
  <2>1. \/ e \in orphans
        \/ \E l \in DOMAIN links : links[l].live /\ links[l].event = e
        \/ \E v \in Worker : Pending(v, e)
    BY DEF BoundInv, NamedOrOrphan
  <2>2. \A v \in Worker \ {w} : Pending(v, e) => Pending(v, e)'
    BY <1>1 DEF Pending, Upserting, Current
  <2> QED
    BY <2>1, <2>2
<1> QED
  BY <1>3, <1>4, <1>5, <1>6, <1>7 DEF BoundInv

(* A step of w on its item c: the others hold what they held.              *)
LEMMA OthersHold ==
  ASSUME ExportTypeOK, BoundInv, NEW w \in Worker, NEW c \in batch[w], Current(w, c),
         UNCHANGED boxVars, UNCHANGED job, NEW step, step.at # "idle",
         work' = [work EXCEPT ![w] = step], TablesGrow, Held(w)'
  PROVE  /\ ItemInHand' /\ \A v \in Worker : Held(v)'
         /\ \A v \in Worker \ {w} :
              /\ \A t : Making(v, t)' => Making(v, t)
              /\ \A e : Pending(v, e) => Pending(v, e)'
<1>1. /\ work'[w] = step /\ batch' = batch
      /\ \A v \in Worker \ {w} : work'[v] = work[v]
  BY DEF ExportTypeOK, boxVars
<1>2. ItemInHand'
  <2> SUFFICES ASSUME NEW v \in Worker, work'[v].at # "idle"
               PROVE  \E d \in batch[v] : Current(v, d)'
    BY <1>1 DEF ItemInHand
  <2>1. \E d \in batch[v] : Current(v, d)
    BY <1>1 DEF BoundInv, ItemInHand
  <2> QED
    BY <1>1, <2>1 DEF Current
<1>3. \A v \in Worker : Held(v)'
  <2> SUFFICES ASSUME NEW v \in Worker, v # w PROVE Held(v)'
    OBVIOUS
  <2>1. Held(v) /\ LinksName
    BY DEF BoundInv
  <2>2. work'[v] = work[v] /\ batch'[v] = batch[v] /\ \A d \in batch[v] : job'[d.id] = job[d.id]
    BY <1>1
  <2> QED
    BY <2>1, <2>2, HeldStays
<1>4. ASSUME NEW v \in Worker \ {w}
      PROVE  /\ \A t : Making(v, t)' => Making(v, t)
             /\ \A e : Pending(v, e) => Pending(v, e)'
  BY <1>1 DEF Making, Pending, Upserting, Current
<1> QED
  BY <1>2, <1>3, <1>4

(* The step of w on c that changes no table, and takes no event from w     *)
(* that is still to be written.                                            *)
LEMMA BoundReads ==
  ASSUME IsFiniteSet(Worker), BoxTypeOK, ExportTypeOK, BoundInv,
         NEW w \in Worker, NEW c \in batch[w], Current(w, c),
         UNCHANGED boxVars, UNCHANGED <<job, links, events, orphans>>,
         NEW step, step.at # "idle", work' = [work EXCEPT ![w] = step], Held(w)',
         work[w].at # "write",
         \A t \in TaskId : Making(w, t)' => Making(w, t) \/ LinksOf(t) = {}
  PROVE  BoundInv'
<1>1. TablesGrow
  BY DEF TablesGrow
<1>2. /\ ItemInHand' /\ \A v \in Worker : Held(v)'
      /\ \A v \in Worker \ {w} : /\ \A t : Making(v, t)' => Making(v, t)
                                 /\ \A e : Pending(v, e) => Pending(v, e)'
  BY <1>1, OthersHold
<1>3. LinksName'
  BY DEF BoundInv, LinksName
<1>4. FewMakers'
  <2> SUFFICES ASSUME NEW t \in TaskId
               PROVE  Cardinality(LinksOf(t)') + Cardinality(Makers(t)') <= Cardinality(Worker)
    BY DEF FewMakers
  <2>1. LinksOf(t)' = LinksOf(t) /\ links \in Seq(Link) /\ FewMakers
    BY DEF LinksOf, ExportTypeOK, BoundInv
  <2>2. CASE Making(w, t)' => Making(w, t)
    <3>1. Makers(t)' \subseteq Makers(t)
      BY <1>2, <2>2 DEF Makers
    <3> QED
      BY <2>1, <3>1, FewStay
  <2>3. CASE LinksOf(t) = {}
    <3>1. Makers(t)' \subseteq Worker
      BY DEF Makers
    <3>2. /\ Cardinality(Makers(t)') <= Cardinality(Worker)
          /\ Cardinality(Makers(t)') \in Nat
      BY <3>1, FS_Subset, FS_CardinalityType
    <3>3. LinksOf(t)' = {} /\ Cardinality({}) = 0
      BY <2>1, <2>3, FS_EmptySet
    <3>4. Cardinality(LinksOf(t)') = 0
      BY <3>3
    <3> QED
      BY <3>2, <3>4
  <2> QED
    BY <2>2, <2>3
<1>5. NamedOrOrphan'
  <2>1. \A e : ~ Pending(w, e)
    BY DEF Pending
  <2> QED
    BY <1>2, <2>1 DEF BoundInv, NamedOrOrphan
<1> QED
  BY <1>2, <1>3, <1>4, <1>5 DEF BoundInv

(* The step of w on c that adds no link.                                   *)
LEMMA BoundMoves ==
  ASSUME IsFiniteSet(Worker), BoxTypeOK, ExportTypeOK, BoundInv,
         NEW w \in Worker, NEW c \in batch[w], Current(w, c),
         UNCHANGED boxVars, UNCHANGED job, orphans \subseteq orphans',
         NEW step, step.at # "idle", work' = [work EXCEPT ![w] = step], Held(w)',
         TablesGrow, LinksName', DOMAIN links' = DOMAIN links,
         \A t \in TaskId : Making(w, t)' => Making(w, t),
         \A e \in DOMAIN events' : events'[e].live =>
           /\ \A l \in DOMAIN links : links[l].live /\ links[l].event = e => links'[l].live
           /\ e \in DOMAIN events \/ e \in orphans' \/ Pending(w, e)'
           /\ Pending(w, e) =>
                \/ e \in orphans' \/ Pending(w, e)'
                \/ \E l \in DOMAIN links' : links'[l].live /\ links'[l].event = e
  PROVE  BoundInv'
<1>2. /\ ItemInHand' /\ \A v \in Worker : Held(v)'
      /\ \A v \in Worker \ {w} : /\ \A t : Making(v, t)' => Making(v, t)
                                 /\ \A e : Pending(v, e) => Pending(v, e)'
  BY OthersHold
<1>4. FewMakers'
  <2> SUFFICES ASSUME NEW t \in TaskId
               PROVE  Cardinality(LinksOf(t)') + Cardinality(Makers(t)') <= Cardinality(Worker)
    BY DEF FewMakers
  <2>1. LinksOf(t)' \subseteq LinksOf(t)
    BY DEF LinksOf, TablesGrow
  <2>2. Makers(t)' \subseteq Makers(t)
    BY <1>2 DEF Makers
  <2>3. links \in Seq(Link) /\ FewMakers
    BY DEF ExportTypeOK, BoundInv
  <2> QED
    BY <2>1, <2>2, <2>3, FewStay
<1>5. NamedOrOrphan'
  <2> SUFFICES ASSUME NEW e \in DOMAIN events', events'[e].live
               PROVE  \/ e \in orphans'
                      \/ \E l \in DOMAIN links' : links'[l].live /\ links'[l].event = e
                      \/ \E v \in Worker : Pending(v, e)'
    BY DEF NamedOrOrphan
  <2>1. CASE e \notin DOMAIN events
    BY <2>1
  <2>2. CASE e \in DOMAIN events
    <3>1. events[e].live
      BY <2>2 DEF TablesGrow
    <3>2. \/ e \in orphans
          \/ \E l \in DOMAIN links : links[l].live /\ links[l].event = e
          \/ \E v \in Worker : Pending(v, e)
      BY <2>2, <3>1 DEF BoundInv, NamedOrOrphan
    <3>3. CASE \E l \in DOMAIN links : links[l].live /\ links[l].event = e
      <4>1. PICK l \in DOMAIN links : links[l].live /\ links[l].event = e
        BY <3>3
      <4>2. links'[l].live /\ links'[l].event = e
        BY <4>1 DEF TablesGrow
      <4> QED
        BY <4>1, <4>2
    <3>4. CASE \E v \in Worker : Pending(v, e)
      BY <1>2, <3>4
    <3> QED
      BY <3>2, <3>3, <3>4
  <2> QED
    BY <2>1, <2>2
<1> QED
  BY <1>2, <1>4, <1>5 DEF BoundInv

LEMMA BoundUpsertReads ==
  ASSUME IsFiniteSet(Worker), OneCalendar, BoxTypeOK, ExportTypeOK, ClaimsAgree, BoundInv,
         NEW w \in Worker, NEW c \in batch[w], UpsertReadTask(w, c) \/ UpsertReadLink(w, c)
  PROVE  BoundInv'
<1>1. /\ Upserting(w, c) /\ Current(w, c) /\ UNCHANGED boxVars
      /\ UNCHANGED <<job, links, events, orphans>> /\ work[w].at # "write"
  BY DEF UpsertReadTask, UpsertReadLink, Upserting
<1>2. /\ links \in Seq(Link) /\ work \in [Worker -> Work] /\ work[w] \in Work
      /\ DOMAIN links = 1..Len(links) /\ Len(links) \in Nat
  BY LenProperties DEF ExportTypeOK
<1>3. c.id \in Item /\ \A d : Current(w, d) => d = c
  BY <1>1, OneCurrent
<1>4. \A d : Upserting(w, d)' \/ Deleting(w, d)' => d = c /\ Upserting(w, d)'
  BY <1>1, <1>3 DEF Upserting, Deleting, Current, boxVars
<1>5. CASE UpsertReadTask(w, c)
  <2> DEFINE step == IF tasks[job[c.id].task].db = "gone" THEN [NoWork EXCEPT !.at = "error"]
                     ELSE [NoWork EXCEPT !.at = "link", !.ver = tasks[job[c.id].task].ver]
  <2>1. work' = [work EXCEPT ![w] = step] /\ step.at \in {"error", "link"}
    BY <1>5 DEF UpsertReadTask, Goes, NoWork
  <2> HIDE DEF step
  <2>2. work'[w].at \in {"error", "link"}
    BY <1>2, <2>1
  <2>3. Held(w)' /\ \A t \in TaskId : ~ Making(w, t)'
    BY <2>2 DEF Held, Making
  <2> QED
    BY <1>1, <2>1, <2>3, BoundReads
<1>6. CASE UpsertReadLink(w, c)
  <2> DEFINE t == job[c.id].task
             l == GetByTaskID(t)
             e == IF l # 0 THEN links[l].event ELSE 0
             step == [work[w] EXCEPT !.at = "google", !.link = l, !.event = e]
  <2>1. t \in TaskId /\ job[c.id].binding \in Binding
    BY <1>1, <1>3 DEF Upserting, ExportTypeOK, NoJob, Job
  <2>2. \/ l = 0 /\ LinksOf(t) = {}
        \/ l \in 1..Len(links) /\ l \in LinksOf(t) /\ links[l] \in Link
    BY <1>2, NewestLink
  <2>3. l # 0 => links[l].binding = job[c.id].binding
    BY <2>1, <2>2 DEF OneCalendar, Link
  <2>4. work' = [work EXCEPT ![w] = step]
    BY <1>6, <2>3 DEF UpsertReadLink, Goes
  <2> HIDE DEF l
  <2>5. step.at = "google" /\ step.link = l /\ step.event = e
    BY <1>2 DEF Work
  <2> HIDE DEF step
  <2>6. work'[w] = step
    BY <1>2, <2>4
  <2>7. \/ l = 0 /\ e = 0
        \/ l \in DOMAIN links /\ links[l].task = t /\ links[l].event = e
    BY <1>2, <2>2 DEF LinksOf
  <2>8. UpsertHolds(w, c)'
    BY <1>1, <2>5, <2>6, <2>7 DEF UpsertHolds
  <2>9. Held(w)'
    BY <1>1, <1>4, <2>8 DEF Held, Upserting, Deleting
  <2>10. ASSUME NEW u \in TaskId, Making(w, u)' PROVE LinksOf(u) = {}
    <3>1. u = t /\ l = 0
      BY <1>1, <1>4, <2>5, <2>6, <2>10 DEF Making
    <3> QED
      BY <2>2, <3>1
  <2>11. step.at # "idle"
    BY <2>5
  <2> QED
    BY <1>1, <2>4, <2>9, <2>10, <2>11, BoundReads
<1> QED
  BY <1>5, <1>6

LEMMA BoundDeleteReads ==
  ASSUME IsFiniteSet(Worker), BoxTypeOK, ExportTypeOK, ClaimsAgree, BoundInv,
         NEW w \in Worker, NEW c \in batch[w], DeleteReadLink(w, c)
  PROVE  BoundInv'
<1>1. /\ Deleting(w, c) /\ Current(w, c) /\ UNCHANGED boxVars
      /\ UNCHANGED <<job, links, events, orphans>> /\ work[w].at # "write"
  BY DEF DeleteReadLink, Deleting
<1>2. /\ links \in Seq(Link) /\ work \in [Worker -> Work] /\ work[w] \in Work
      /\ DOMAIN links = 1..Len(links) /\ Len(links) \in Nat
  BY LenProperties DEF ExportTypeOK
<1>3. c.id \in Item /\ \A d : Current(w, d) => d = c
  BY <1>1, OneCurrent
<1>4. \A d : ~ Upserting(w, d)' /\ (Deleting(w, d)' => d = c)
  BY <1>1, <1>3 DEF Upserting, Deleting, Current, boxVars
<1> DEFINE l == GetByTaskID(job[c.id].task)
           step == IF l = 0 THEN [NoWork EXCEPT !.at = "ok"]
                   ELSE [NoWork EXCEPT !.at = "google", !.link = l, !.event = links[l].event]
<1>5. l = 0 \/ l \in DOMAIN links
  BY <1>2, NewestLink
<1>6. work' = [work EXCEPT ![w] = step]
  BY DEF DeleteReadLink, Goes
<1> HIDE DEF l
<1>7. \/ step.at = "ok"
      \/ step.at = "google" /\ step.link \in DOMAIN links /\ step.event = links[step.link].event
  BY <1>5 DEF NoWork
<1> HIDE DEF step
<1>8. work'[w] = step /\ step.at # "idle"
  BY <1>2, <1>6, <1>7
<1>9. Held(w)'
  BY <1>1, <1>4, <1>7, <1>8 DEF Held, DeleteHolds
<1>10. \A t \in TaskId : ~ Making(w, t)'
  BY <1>4 DEF Making
<1> QED
  BY <1>1, <1>6, <1>8, <1>9, <1>10, BoundReads

LEMMA BoundUpsertCalls ==
  ASSUME IsFiniteSet(Worker), BoxTypeOK, ExportTypeOK, ClaimsAgree, BoundInv,
         NEW w \in Worker, NEW c \in batch[w], UpsertCallGoogle(w, c)
  PROVE  BoundInv'
<1> DEFINE t == job[c.id].task
           l == work[w].link
           e == work[w].event
           created == [live |-> TRUE, task |-> t, binding |-> job[c.id].binding,
                       ver |-> work[w].ver]
<1>1. /\ Upserting(w, c) /\ Current(w, c) /\ UNCHANGED boxVars /\ UNCHANGED job
      /\ links' = links /\ work[w].at = "google"
  BY DEF UpsertCallGoogle, Upserting
<1>2. c.id \in Item /\ \A d : Current(w, d) => d = c
  BY <1>1, OneCurrent
<1>3. /\ \A d : Upserting(w, d)' \/ Deleting(w, d)' => d = c /\ Upserting(w, d)'
      /\ \A x : ~ Pending(w, x)
  BY <1>1, <1>2 DEF Upserting, Deleting, Current, boxVars, Pending
<1>4. /\ links \in Seq(Link) /\ events \in Seq(Event) /\ work \in [Worker -> Work]
      /\ work[w] \in Work
      /\ DOMAIN events = 1..Len(events) /\ Len(events) \in Nat
      /\ DOMAIN links = 1..Len(links) /\ Len(links) \in Nat
  BY LenProperties DEF ExportTypeOK
<1>5. \/ l \in DOMAIN links /\ links[l].task = t /\ links[l].event = e /\ e \in DOMAIN events
      \/ l = 0 /\ e = 0
  <2>1. UpsertHolds(w, c)
    BY <1>1 DEF BoundInv, Held
  <2> QED
    BY <1>1, <2>1 DEF UpsertHolds, BoundInv, LinksName
<1>6. PICK answer \in Answers(e) :
         /\ events' = IF answer = "call" THEN events
                      ELSE IF e # 0 THEN [events EXCEPT ![e].ver = work[w].ver]
                      ELSE Append(events, created)
         /\ orphans' = IF answer = "lost" /\ e = 0 THEN orphans \cup {Len(events')} ELSE orphans
         /\ Called(w, answer, IF e # 0 THEN e ELSE Len(events'))
  BY DEF UpsertCallGoogle
<1> DEFINE n == IF e # 0 THEN e ELSE Len(events')
           step == IF answer = "ok" THEN [work[w] EXCEPT !.at = "write", !.event = n]
                   ELSE [work[w] EXCEPT !.at = "error"]
<1>7. work' = [work EXCEPT ![w] = step]
  BY <1>6 DEF Called, Goes
<1>8. /\ step.at = (IF answer = "ok" THEN "write" ELSE "error") /\ step.link = l
      /\ answer = "ok" => step.event = n
  BY <1>4 DEF Work
<1>9. PICK s : s = step
  OBVIOUS
<1> HIDE DEF step
<1>10. /\ work' = [work EXCEPT ![w] = s] /\ work'[w] = s /\ s.at # "idle"
       /\ s.at = (IF answer = "ok" THEN "write" ELSE "error") /\ s.link = l
       /\ answer = "ok" => s.event = n
  BY <1>4, <1>7, <1>8, <1>9
<1>11. \A u \in TaskId : Making(w, u)' => Making(w, u)
  BY <1>1, <1>3, <1>10 DEF Making
<1>12. CASE answer = "call"
  <2>1. events' = events /\ orphans' = orphans /\ s.at = "error"
    BY <1>6, <1>10, <1>12
  <2>2. Held(w)'
    BY <1>10, <2>1 DEF Held
  <2> QED
    BY <1>1, <1>10, <1>11, <2>1, <2>2, BoundReads
<1>13. CASE answer # "call" /\ e # 0
  <2>1. /\ events' = [events EXCEPT ![e].ver = work[w].ver] /\ orphans' = orphans
        /\ e \in DOMAIN events /\ l \in DOMAIN links /\ links[l].task = t /\ links[l].event = e
    BY <1>5, <1>6, <1>13
  <2>2. DOMAIN events' = DOMAIN events /\ \A x \in DOMAIN events :
          events'[x].task = events[x].task /\ events'[x].live = events[x].live
    <3>1. events[e] \in Event
      BY <1>4, <2>1, ElementOfSeq
    <3> QED
      BY <2>1, <3>1 DEF Event
  <2>3. TablesGrow /\ LinksName'
    BY <1>1, <2>2 DEF TablesGrow, BoundInv, LinksName
  <2>4. Held(w)'
    <3>1. s.at = "write" => s.event = e
      BY <1>10, <1>13
    <3>2. s.at = "write" => UpsertHolds(w, c)'
      BY <1>1, <1>10, <2>1, <3>1 DEF UpsertHolds
    <3> QED
      BY <1>1, <1>3, <1>10, <3>2 DEF Held, Upserting, Deleting
  <2>5. /\ orphans \subseteq orphans' /\ DOMAIN links' = DOMAIN links
        /\ \A x \in DOMAIN events' : events'[x].live =>
             /\ \A k \in DOMAIN links : links[k].live /\ links[k].event = x => links'[k].live
             /\ x \in DOMAIN events \/ x \in orphans' \/ Pending(w, x)'
             /\ Pending(w, x) =>
                  \/ x \in orphans' \/ Pending(w, x)'
                  \/ \E k \in DOMAIN links' : links'[k].live /\ links'[k].event = x
    BY <1>1, <1>3, <2>1, <2>2
  <2> QED
    BY <1>1, <1>10, <1>11, <2>3, <2>4, <2>5, BoundMoves
<1>14. CASE answer # "call" /\ e = 0
  <2>1. events' = Append(events, created) /\ l = 0
    BY <1>4, <1>5, <1>6, <1>14
  <2>2. /\ DOMAIN events' = 1..(Len(events) + 1) /\ Len(events') = Len(events) + 1
        /\ \A x \in DOMAIN events : events'[x] = events[x]
        /\ events'[Len(events) + 1] = created
    <3> HIDE DEF created
    <3>1. created \in Event
      BY <1>1, <1>2, <1>4 DEF created, Event, Upserting, ExportTypeOK, Job, NoJob, Work
    <3> QED
      BY <1>4, <2>1, <3>1, AppendProperties, LenProperties
  <2>3. PICK m : m = Len(events')
    OBVIOUS
  <2>4. /\ m \in DOMAIN events' /\ events'[m].task = t
        /\ \A x \in DOMAIN events' : x \in DOMAIN events \/ x = m
        /\ \A x \in DOMAIN events : x \in DOMAIN events' /\ events'[x] = events[x]
        /\ answer = "ok" => s.event = m
    BY <1>4, <1>10, <1>14, <2>2, <2>3
  <2>5. TablesGrow /\ LinksName'
    BY <1>1, <2>4 DEF TablesGrow, BoundInv, LinksName
  <2>6. s.at = "write" => UpsertHolds(w, c)'
    BY <1>1, <1>10, <2>1, <2>4 DEF UpsertHolds
  <2>7. Held(w)'
    BY <1>1, <1>3, <1>10, <2>6 DEF Held, Upserting, Deleting
  <2>8. m \in orphans' \/ Pending(w, m)'
    <3>1. CASE answer = "lost"
      BY <1>6, <1>14, <2>3, <3>1
    <3>2. CASE answer = "ok"
      <4>1. Upserting(w, c)' /\ c \in batch'[w]
        BY <1>1 DEF Upserting, Current, boxVars
      <4> QED
        BY <1>10, <2>1, <2>4, <3>2, <4>1 DEF Pending
    <3>3. answer \in {"ok", "lost"}
      BY <1>14 DEF Answers
    <3> QED
      BY <3>1, <3>2, <3>3
  <2>9. /\ orphans \subseteq orphans' /\ DOMAIN links' = DOMAIN links
        /\ \A x \in DOMAIN events' : events'[x].live =>
             /\ \A k \in DOMAIN links : links[k].live /\ links[k].event = x => links'[k].live
             /\ x \in DOMAIN events \/ x \in orphans' \/ Pending(w, x)'
             /\ Pending(w, x) =>
                  \/ x \in orphans' \/ Pending(w, x)'
                  \/ \E k \in DOMAIN links' : links'[k].live /\ links'[k].event = x
    BY <1>1, <1>3, <1>6, <2>4, <2>8
  <2> QED
    BY <1>1, <1>10, <1>11, <2>5, <2>7, <2>9, BoundMoves
<1> QED
  BY <1>12, <1>13, <1>14

(* A link that is written once more is as it was; a new one takes the      *)
(* place of the scheduler that found none.                                 *)
LEMMA BoundUpsertWrites ==
  ASSUME IsFiniteSet(Worker), OneCalendar, BoxTypeOK, ExportTypeOK, ClaimsAgree, BoundInv,
         NEW w \in Worker, NEW c \in batch[w], UpsertWriteLink(w, c)
  PROVE  BoundInv'
<1> DEFINE t == job[c.id].task
           l == work[w].link
           e == work[w].event
           row == [live |-> TRUE, task |-> t, binding |-> job[c.id].binding, event |-> e]
<1>1. /\ Upserting(w, c) /\ Current(w, c) /\ UNCHANGED boxVars /\ UNCHANGED job
      /\ events' = events /\ work[w].at = "write"
  BY DEF UpsertWriteLink, Upserting
<1>2. c.id \in Item /\ \A d : Current(w, d) => d = c
  BY <1>1, OneCurrent
<1>3. /\ links \in Seq(Link) /\ work \in [Worker -> Work] /\ work[w] \in Work
      /\ DOMAIN links = 1..Len(links) /\ Len(links) \in Nat
      /\ events \in Seq(Event) /\ DOMAIN events = 1..Len(events)
      /\ t \in TaskId /\ job[c.id].binding \in Binding
  BY <1>1, <1>2, LenProperties DEF ExportTypeOK, Upserting, NoJob, Job
<1>4. \/ l \in DOMAIN links /\ links[l].task = t /\ links[l].event = e
      \/ l = 0 /\ e \in DOMAIN events /\ events[e].task = t
  <2>1. UpsertHolds(w, c)
    BY <1>1 DEF BoundInv, Held
  <2> QED
    BY <1>1, <2>1 DEF UpsertHolds
<1>5. PICK ok \in MayFail("write") :
        LET written == ok /\ (l = 0 \/ links[l].live) IN
        /\ links' = IF ~written THEN links
                    ELSE IF l = 0 THEN Append(links, row) ELSE [links EXCEPT ![l] = row]
        /\ orphans' = IF written THEN orphans ELSE orphans \cup Unlinked(w)
        /\ Goes(w, [NoWork EXCEPT !.at = IF written THEN "ok" ELSE "error"])
  BY DEF UpsertWriteLink
<1>6. PICK written \in BOOLEAN : written = (ok /\ (l = 0 \/ links[l].live))
  OBVIOUS
<1>7. PICK s : s = [NoWork EXCEPT !.at = IF written THEN "ok" ELSE "error"]
  OBVIOUS
<1>8. /\ work' = [work EXCEPT ![w] = s] /\ work'[w] = s
      /\ s.at \in {"ok", "error"}
  BY <1>3, <1>5, <1>6, <1>7 DEF Goes, NoWork
<1>9. s.at # "idle" /\ Held(w)' /\ \A u \in TaskId : ~ Making(w, u)'
  BY <1>8 DEF Held, Making
<1>10. /\ links' = IF ~written THEN links
                   ELSE IF l = 0 THEN Append(links, row) ELSE [links EXCEPT ![l] = row]
       /\ orphans' = IF written THEN orphans ELSE orphans \cup Unlinked(w)
  BY <1>5, <1>6
<1>11. \A x \in DOMAIN events : Pending(w, x) => x = e /\ l = 0 /\ x # 0
  BY <1>2, <1>3 DEF Pending, Upserting
<1>12. CASE ~ written \/ l # 0
  <2>1. links' = links
    <3>1. CASE written
      <4>1. links[l] \in Link /\ l \in DOMAIN links /\ links[l].live /\ links[l].task = t
            /\ links[l].event = e
        BY <1>3, <1>4, <1>6, <1>12, <3>1, ElementOfSeq
      <4>2. links[l] = row
        BY <1>3, <4>1 DEF Link, OneCalendar
      <4>3. links \in [1..Len(links) -> Link]
        BY <1>3, LenProperties
      <4> QED
        BY <1>10, <1>12, <3>1, <4>1, <4>2, <4>3
    <3> QED
      BY <1>10, <3>1
  <2>2. TablesGrow /\ LinksName' /\ DOMAIN links' = DOMAIN links
    BY <1>1, <2>1 DEF TablesGrow, BoundInv, LinksName
  <2>3. orphans \subseteq orphans'
    BY <1>10
  <2>4. ASSUME NEW x \in DOMAIN events, Pending(w, x)
        PROVE  x \in orphans' \/ \E k \in DOMAIN links' : links'[k].live /\ links'[k].event = x
    <3>1. ~ written /\ x = e /\ x # 0
      BY <1>11, <1>12, <2>4
    <3> QED
      BY <1>1, <1>10, <2>1, <3>1 DEF Unlinked
  <2>5. \A x \in DOMAIN events' : events'[x].live =>
          /\ \A k \in DOMAIN links : links[k].live /\ links[k].event = x => links'[k].live
          /\ x \in DOMAIN events \/ x \in orphans' \/ Pending(w, x)'
          /\ Pending(w, x) =>
               \/ x \in orphans' \/ Pending(w, x)'
               \/ \E k \in DOMAIN links' : links'[k].live /\ links'[k].event = x
    BY <1>1, <2>1, <2>4
  <2> QED
    BY <1>1, <1>8, <1>9, <2>2, <2>3, <2>5, BoundMoves
<1>13. CASE written /\ l = 0
  <2>1. e \in DOMAIN events /\ events[e].task = t /\ orphans' = orphans
    BY <1>3, <1>4, <1>10, <1>13
  <2>2. /\ DOMAIN links' = 1..(Len(links) + 1)
        /\ \A k \in DOMAIN links : links'[k] = links[k]
        /\ links'[Len(links) + 1] = row
    <3> HIDE DEF row
    <3>1. row \in Link
      BY <1>3 DEF row, Link, Work
    <3> QED
      BY <1>3, <1>10, <1>13, <3>1, AppendProperties, LenProperties
  <2>3. PICK n : n = Len(links) + 1
    OBVIOUS
  <2>4. /\ \A k : k \in DOMAIN links' <=> k \in DOMAIN links \/ k = n
        /\ n \notin DOMAIN links
        /\ links'[n].live /\ links'[n].task = t /\ links'[n].event = e
    BY <1>3, <2>2, <2>3
  <2>5. TablesGrow /\ LinksName'
    BY <1>1, <2>1, <2>2, <2>4 DEF TablesGrow, BoundInv, LinksName
  <2>6. /\ ItemInHand' /\ \A v \in Worker : Held(v)'
        /\ \A v \in Worker \ {w} : /\ \A u : Making(v, u)' => Making(v, u)
                                   /\ \A x : Pending(v, x) => Pending(v, x)'
    BY <1>1, <1>8, <1>9, <2>5, OthersHold
  <2>7. FewMakers'
    <3> SUFFICES ASSUME NEW u \in TaskId
                 PROVE  Cardinality(LinksOf(u)') + Cardinality(Makers(u)') <= Cardinality(Worker)
      BY DEF FewMakers
    <3>1. CASE u # t
      <4>1. LinksOf(u)' \subseteq LinksOf(u)
        BY <2>2, <2>4, <3>1 DEF LinksOf
      <4>2. Makers(u)' \subseteq Makers(u)
        BY <1>9, <2>6 DEF Makers
      <4>3. FewMakers
        BY DEF BoundInv
      <4> QED
        BY <1>3, <4>1, <4>2, <4>3, FewStay
    <3>2. CASE u = t
      <4>1. LinksOf(u)' = LinksOf(u) \cup {n} /\ n \notin LinksOf(u)
        <5>1. n \in LinksOf(u)' /\ n \notin LinksOf(u)
          BY <3>2, <2>4 DEF LinksOf
        <5>2. ASSUME NEW k, k # n PROVE k \in LinksOf(u)' <=> k \in LinksOf(u)
          BY <3>2, <2>2, <2>4, <5>2 DEF LinksOf
        <5> QED
          BY <5>1, <5>2
      <4>2. Making(w, u)
        BY <1>1, <1>13, <3>2 DEF Making
      <4>3. w \in Makers(u) /\ Makers(u)' \subseteq Makers(u) \ {w}
        <5>1. w \in Makers(u) /\ w \notin Makers(u)'
          BY <1>3, <1>9, <4>2 DEF Makers
        <5> QED
          BY <2>6, <5>1 DEF Makers
      <4>4. IsFiniteSet(LinksOf(u))
        <5>1. IsFiniteSet(1..Len(links))
          BY <1>3, FS_Interval
        <5> QED
          BY <1>3, <5>1, FS_Subset DEF LinksOf
      <4>5. Cardinality(LinksOf(u) \cup {n}) = Cardinality(LinksOf(u)) + 1
        BY <4>1, <4>4, FS_AddElement
      <4>6. IsFiniteSet(Makers(u)) /\ IsFiniteSet(Makers(u) \ {w})
        BY FS_Subset DEF Makers
      <4>7. Cardinality(Makers(u) \ {w}) = Cardinality(Makers(u)) - 1
        BY <4>3, <4>6, FS_RemoveElement
      <4>8. Cardinality(Makers(u)') <= Cardinality(Makers(u) \ {w})
        BY <4>3, <4>6, FS_Subset
      <4>9. IsFiniteSet(Makers(u)')
        BY <4>3, <4>6, FS_Subset
      <4>10. /\ Cardinality(LinksOf(u)) \in Nat /\ Cardinality(Makers(u)) \in Nat
             /\ Cardinality(Makers(u)') \in Nat /\ Cardinality(Worker) \in Nat
        BY <4>4, <4>6, <4>9, FS_CardinalityType
      <4>11. Cardinality(LinksOf(u)) + Cardinality(Makers(u)) <= Cardinality(Worker)
        BY DEF BoundInv, FewMakers
      <4>12. Cardinality(LinksOf(u)') = Cardinality(LinksOf(u)) + 1
        BY <4>1, <4>5
      <4> QED
        BY <4>7, <4>8, <4>10, <4>11, <4>12
    <3> QED
      BY <3>1, <3>2
  <2>8. NamedOrOrphan'
    <3> SUFFICES ASSUME NEW x \in DOMAIN events, events[x].live
                 PROVE  \/ x \in orphans
                        \/ \E k \in DOMAIN links' : links'[k].live /\ links'[k].event = x
                        \/ \E v \in Worker : Pending(v, x)'
      BY <1>1, <2>1 DEF NamedOrOrphan
    <3>1. \/ x \in orphans
          \/ \E k \in DOMAIN links : links[k].live /\ links[k].event = x
          \/ \E v \in Worker : Pending(v, x)
      BY DEF BoundInv, NamedOrOrphan
    <3>2. CASE x = e
      BY <2>4, <3>2
    <3>3. CASE \E k \in DOMAIN links : links[k].live /\ links[k].event = x
      BY <2>2, <2>4, <3>3
    <3>4. ASSUME NEW v \in Worker, Pending(v, x), x # e PROVE Pending(v, x)'
      BY <1>11, <2>6, <3>4
    <3> QED
      BY <3>1, <3>2, <3>3, <3>4
  <2> QED
    BY <2>5, <2>6, <2>7, <2>8 DEF BoundInv
<1> QED
  BY <1>12, <1>13

LEMMA BoundDeleteCalls ==
  ASSUME IsFiniteSet(Worker), BoxTypeOK, ExportTypeOK, ClaimsAgree, BoundInv,
         NEW w \in Worker, NEW c \in batch[w], DeleteCallGoogle(w, c)
  PROVE  BoundInv'
<1> DEFINE l == work[w].link
           e == work[w].event
<1>1. /\ Deleting(w, c) /\ Current(w, c) /\ UNCHANGED boxVars /\ UNCHANGED job
      /\ links' = links /\ orphans' = orphans /\ work[w].at = "google"
  BY DEF DeleteCallGoogle, Deleting
<1>2. c.id \in Item /\ \A d : Current(w, d) => d = c
  BY <1>1, OneCurrent
<1>3. /\ \A d : ~ Upserting(w, d)' /\ (Deleting(w, d)' => d = c)
      /\ \A x : ~ Pending(w, x)
  BY <1>1, <1>2 DEF Upserting, Deleting, Current, boxVars, Pending
<1>4. /\ events \in Seq(Event) /\ work \in [Worker -> Work] /\ work[w] \in Work
  BY DEF ExportTypeOK
<1>5. l \in DOMAIN links /\ links[l].event = e /\ e \in DOMAIN events
  <2>1. DeleteHolds(w, c)
    BY <1>1 DEF BoundInv, Held
  <2> QED
    BY <2>1 DEF DeleteHolds, BoundInv, LinksName
<1>6. PICK answer \in Answers(e) :
         /\ events' = IF answer = "call" THEN events ELSE [events EXCEPT ![e].live = FALSE]
         /\ Called(w, answer, e)
  BY DEF DeleteCallGoogle
<1>7. PICK s : s = (IF answer = "ok" THEN [work[w] EXCEPT !.at = "write", !.event = e]
                    ELSE [work[w] EXCEPT !.at = "error"])
  OBVIOUS
<1>8. /\ work' = [work EXCEPT ![w] = s] /\ work'[w] = s
      /\ s.at = (IF answer = "ok" THEN "write" ELSE "error") /\ s.link = l /\ s.event = e
  BY <1>4, <1>6, <1>7 DEF Called, Goes, Work
<1>9. /\ DOMAIN events' = DOMAIN events
      /\ \A x \in DOMAIN events : /\ events'[x].task = events[x].task
                                  /\ events'[x].live => events[x].live
      /\ answer = "ok" => ~ events'[e].live
  <2>1. events[e] \in Event
    BY <1>4, <1>5, LenProperties, ElementOfSeq
  <2> QED
    BY <1>5, <1>6, <2>1 DEF Event
<1>10. TablesGrow /\ LinksName'
  BY <1>1, <1>9 DEF TablesGrow, BoundInv, LinksName
<1>11. Held(w)'
  <2>1. s.at = "write" => DeleteHolds(w, c)'
    BY <1>1, <1>5, <1>8, <1>9 DEF DeleteHolds
  <2> QED
    BY <1>1, <1>3, <1>8, <2>1 DEF Held
<1>12. s.at # "idle" /\ \A u \in TaskId : ~ Making(w, u)'
  BY <1>3, <1>8 DEF Making
<1>13. /\ orphans \subseteq orphans' /\ DOMAIN links' = DOMAIN links
       /\ \A x \in DOMAIN events' : events'[x].live =>
            /\ \A k \in DOMAIN links : links[k].live /\ links[k].event = x => links'[k].live
            /\ x \in DOMAIN events \/ x \in orphans' \/ Pending(w, x)'
            /\ Pending(w, x) =>
                 \/ x \in orphans' \/ Pending(w, x)'
                 \/ \E k \in DOMAIN links' : links'[k].live /\ links'[k].event = x
  BY <1>1, <1>3, <1>9
<1> QED
  BY <1>1, <1>8, <1>10, <1>11, <1>12, <1>13, BoundMoves

LEMMA BoundDeleteWrites ==
  ASSUME IsFiniteSet(Worker), BoxTypeOK, ExportTypeOK, ClaimsAgree, BoundInv,
         NEW w \in Worker, NEW c \in batch[w], DeleteWriteLink(w, c)
  PROVE  BoundInv'
<1> DEFINE l == work[w].link
           e == work[w].event
<1>1. /\ Deleting(w, c) /\ Current(w, c) /\ UNCHANGED boxVars /\ UNCHANGED job
      /\ events' = events /\ orphans' = orphans /\ work[w].at = "write"
  BY DEF DeleteWriteLink, Deleting
<1>2. c.id \in Item /\ \A d : Current(w, d) => d = c
  BY <1>1, OneCurrent
<1>3. \A x : ~ Pending(w, x)
  BY <1>1, <1>2 DEF Upserting, Deleting, Pending
<1>4. /\ links \in Seq(Link) /\ work \in [Worker -> Work] /\ work[w] \in Work
  BY DEF ExportTypeOK
<1>5. l \in DOMAIN links /\ links[l].event = e /\ ~ events[e].live
  <2>1. DeleteHolds(w, c)
    BY <1>1 DEF BoundInv, Held
  <2> QED
    BY <1>1, <2>1 DEF DeleteHolds
<1>6. PICK ok \in MayFail("write") :
        /\ links' = IF ok THEN [links EXCEPT ![l].live = FALSE] ELSE links
        /\ Goes(w, [NoWork EXCEPT !.at = IF ok /\ links[l].live THEN "ok" ELSE "error"])
  BY DEF DeleteWriteLink
<1>7. PICK s : s = [NoWork EXCEPT !.at = IF ok /\ links[l].live THEN "ok" ELSE "error"]
  OBVIOUS
<1>8. /\ work' = [work EXCEPT ![w] = s] /\ work'[w] = s /\ s.at \in {"ok", "error"}
  BY <1>4, <1>6, <1>7 DEF Goes, NoWork
<1>9. s.at # "idle" /\ Held(w)' /\ \A u \in TaskId : ~ Making(w, u)'
  BY <1>8 DEF Held, Making
<1>10. /\ DOMAIN links' = DOMAIN links
       /\ \A k \in DOMAIN links : /\ links'[k].task = links[k].task
                                  /\ links'[k].event = links[k].event
                                  /\ links'[k].live => links[k].live
                                  /\ k # l => links'[k] = links[k]
  <2>1. links[l] \in Link
    BY <1>4, <1>5, LenProperties, ElementOfSeq
  <2> QED
    BY <1>5, <1>6, <2>1 DEF Link
<1>11. TablesGrow /\ LinksName'
  BY <1>1, <1>10 DEF TablesGrow, BoundInv, LinksName
<1>12. /\ orphans \subseteq orphans' /\ DOMAIN links' = DOMAIN links
       /\ \A x \in DOMAIN events' : events'[x].live =>
            /\ \A k \in DOMAIN links : links[k].live /\ links[k].event = x => links'[k].live
            /\ x \in DOMAIN events \/ x \in orphans' \/ Pending(w, x)'
            /\ Pending(w, x) =>
                 \/ x \in orphans' \/ Pending(w, x)'
                 \/ \E k \in DOMAIN links' : links'[k].live /\ links'[k].event = x
  BY <1>1, <1>3, <1>5, <1>10
<1> QED
  BY <1>1, <1>8, <1>9, <1>11, <1>12, BoundMoves

LEMMA BoundStep ==
  ASSUME IsFiniteSet(Worker), OneCalendar, BoxTypeOK, ExportTypeOK, ClaimsAgree, BoundInv,
         ExportNext
  PROVE  BoundInv'
<1>0. [ExportNext]_exportVars
  OBVIOUS
<1>1. ASSUME NEW c \in Client, Request(c) PROVE BoundInv'
  <2>1. links' = links /\ events' = events /\ work' = work /\ batch' = batch /\ orphans' = orphans
    BY <1>1
    DEF Request, UpdateTask, DeleteTask, CreateTask, MoveTask, Change, HookReadTask,
        HookReadLink, HookEnqueue, Enqueue, workVars, boxVars
  <2> QED
    BY <1>0, <2>1, BoundQuiet
<1>2. ASSUME NEW w \in Worker, ClaimBatch(w) PROVE BoundInv'
  <2>1. links' = links /\ events' = events /\ work' = work /\ orphans' = orphans /\ job' = job
    BY <1>2 DEF ClaimBatch, workVars
  <2>2. CASE SelectDue(w) \/ ClaimFails(w)
    <3>1. batch' = batch
      BY <2>2 DEF SelectDue, ClaimFails
    <3> QED
      BY <1>0, <2>1, <3>1, BoundQuiet
  <2>3. CASE CommitClaim(w)
    <3>1. batch[w] = {}
      BY <2>3 DEF CommitClaim, ClaimsAgree
    <3>2. work'[w].at = "idle"
          /\ \A v \in Worker \ {w} : work'[v] = work[v] /\ batch'[v] = batch[v]
      BY <2>1, <2>3, <3>1 DEF BoundInv, ItemInHand, CommitClaim, BoxTypeOK
    <3>3. orphans \subseteq orphans' /\ UNCHANGED <<links, events, job>>
          /\ \A e : ~ Pending(w, e)
      BY <2>1, <3>1 DEF Pending
    <3> QED
      BY <2>1, <3>2, <3>3, BoundIdle
  <2> QED
    BY <1>2, <2>2, <2>3 DEF ClaimBatch, Claiming
<1>3. ASSUME NEW w \in Worker, Crash(w) PROVE BoundInv'
  <2>1. /\ UNCHANGED <<links, events, job>> /\ work'[w].at = "idle"
        /\ orphans' = orphans \cup Unlinked(w)
        /\ \A v \in Worker \ {w} : work'[v] = work[v] /\ batch'[v] = batch[v]
    BY <1>3 DEF Crash, CrashWorker, Goes, clientVars, BoxTypeOK, ExportTypeOK, NoWork
  <2>2. ASSUME NEW e \in DOMAIN events, Pending(w, e)
        PROVE  e \in orphans' \/ \E l \in DOMAIN links : links[l].live /\ links[l].event = e
    <3>1. e # 0
      BY LenProperties DEF ExportTypeOK
    <3> QED
      BY <2>1, <2>2, <3>1 DEF Pending, Unlinked
  <2>3. orphans \subseteq orphans'
    BY <2>1
  <2> QED
    BY <2>1, <2>2, <2>3, BoundIdle
<1>4. ASSUME NEW w \in Worker, NEW c \in batch[w], FinishItem(w, c) PROVE BoundInv'
  <2>1. /\ UNCHANGED <<links, events, job>> /\ work' = [work EXCEPT ![w] = NoWork]
        /\ orphans' = orphans /\ work[w].at \in {"ok", "error"}
        /\ \E B : batch' = [batch EXCEPT ![w] = B]
    BY <1>4 DEF FinishItem, Goes, clientVars, MarkDone, MarkRetryOrFailed, Mark
  <2>4. work'[w].at = "idle"
        /\ \A v \in Worker \ {w} : work'[v] = work[v] /\ batch'[v] = batch[v]
    BY <2>1 DEF BoxTypeOK, ExportTypeOK, NoWork
  <2>2. \A e : ~ Pending(w, e)
    BY <2>1 DEF Pending
  <2>3. orphans \subseteq orphans'
    BY <2>1
  <2> QED
    BY <2>1, <2>2, <2>3, <2>4, BoundIdle
<1>5. ASSUME NEW w \in Worker, ProcessItem(w) PROVE BoundInv'
  BY <1>4, <1>5, BoundUpsertReads, BoundDeleteReads, BoundUpsertCalls, BoundUpsertWrites,
     BoundDeleteCalls, BoundDeleteWrites DEF ProcessItem
<1>6. CASE TimePasses
  <2>1. links' = links /\ events' = events /\ work' = work /\ batch' = batch /\ orphans' = orphans
    BY <1>6 DEF TimePasses, BoxTick, workVars
  <2> QED
    BY <1>0, <2>1, BoundQuiet
<1> QED
  BY <1>1, <1>2, <1>3, <1>5, <1>6 DEF ExportNext

LEMMA ImageBound ==
  ASSUME NEW S, IsFiniteSet(S), NEW f, DOMAIN f = S
  PROVE  LET T == {f[x] : x \in S} IN IsFiniteSet(T) /\ Cardinality(T) <= Cardinality(S)
<1> DEFINE T == {f[x] : x \in S}
           g == [x \in S |-> f[x]]
<1>1. g \in Surjection(S, T)
  BY DEF Surjection
<1> QED
  BY <1>1, FS_Surjection

(* Each event of a task that is no orphan is named by a link of the task,  *)
(* or in the hands of a scheduler that makes one: at most as many as there *)
(* are schedulers, and one where there is one.                             *)
THEOREM OneEventCorrect ==
  ASSUME IsFiniteSet(Worker), OneCalendar
  PROVE  ExportSpec => []OneEventPerCalendar
<1>1. BoxTypeOK /\ ClaimsAgree /\ ExportTypeOK /\ BoundInv => OneEventPerCalendar
  <2> SUFFICES ASSUME BoxTypeOK, ClaimsAgree, ExportTypeOK, BoundInv,
                      NEW t \in TaskId, NEW b \in Binding
               PROVE  Cardinality(EventsOf(t, b) \ orphans) <= Cardinality(Worker)
    BY DEF OneEventPerCalendar
  <2> DEFINE named == {links[l].event : l \in LinksOf(t)}
             made  == {work[w].event : w \in Makers(t)}
  <2>1. EventsOf(t, b) \ orphans \subseteq named \cup made
    <3> SUFFICES ASSUME NEW e \in DOMAIN events, events[e].live, events[e].task = t,
                        e \notin orphans
                 PROVE  e \in named \cup made
      BY DEF EventsOf
    <3>1. CASE \E l \in DOMAIN links : links[l].live /\ links[l].event = e
      <4>1. PICK l \in DOMAIN links : links[l].live /\ links[l].event = e
        BY <3>1
      <4>2. links[l].task = t
        BY <4>1 DEF BoundInv, LinksName
      <4> QED
        BY <4>1, <4>2 DEF LinksOf
    <3>2. CASE \E w \in Worker : Pending(w, e)
      <4>1. PICK w \in Worker : Pending(w, e)
        BY <3>2
      <4>2. PICK c \in batch[w] : /\ Upserting(w, c) /\ work[w].at = "write"
                                  /\ work[w].link = 0 /\ work[w].event = e
        BY <4>1 DEF Pending
      <4>3. job[c.id].task = t
        <5>1. UpsertHolds(w, c) /\ 0 \notin DOMAIN links
          BY <4>2, LenProperties DEF BoundInv, Held, ExportTypeOK
        <5> QED
          BY <4>2, <5>1 DEF UpsertHolds
      <4> QED
        BY <4>2, <4>3 DEF Makers, Making
    <3> QED
      BY <3>1, <3>2 DEF BoundInv, NamedOrOrphan
  <2>2. IsFiniteSet(LinksOf(t)) /\ IsFiniteSet(Makers(t))
    <3>1. DOMAIN links = 1..Len(links) /\ Len(links) \in Nat
      BY LenProperties DEF ExportTypeOK
    <3>2. IsFiniteSet(1..Len(links))
      BY <3>1, FS_Interval
    <3> QED
      BY <3>1, <3>2, FS_Subset DEF LinksOf, Makers
  <2>3. IsFiniteSet(named) /\ Cardinality(named) <= Cardinality(LinksOf(t))
    <3> DEFINE f == [l \in LinksOf(t) |-> links[l].event]
    <3>1. DOMAIN f = LinksOf(t) /\ named = {f[l] : l \in LinksOf(t)}
      OBVIOUS
    <3> HIDE DEF f, named
    <3> QED
      BY <2>2, <3>1, ImageBound
  <2>4. IsFiniteSet(made) /\ Cardinality(made) <= Cardinality(Makers(t))
    <3> DEFINE f == [w \in Makers(t) |-> work[w].event]
    <3>1. DOMAIN f = Makers(t) /\ made = {f[w] : w \in Makers(t)}
      OBVIOUS
    <3> HIDE DEF f, made
    <3> QED
      BY <2>2, <3>1, ImageBound
  <2> HIDE DEF named, made
  <2>5. /\ IsFiniteSet(named \cup made)
        /\ Cardinality(named \cup made)
             = Cardinality(named) + Cardinality(made) - Cardinality(named \cap made)
    BY <2>3, <2>4, FS_Union
  <2>6. IsFiniteSet(named \cap made)
    BY <2>3, FS_Subset
  <2>7. IsFiniteSet(EventsOf(t, b) \ orphans)
        /\ Cardinality(EventsOf(t, b) \ orphans) <= Cardinality(named \cup made)
    BY <2>1, <2>5, FS_Subset
  <2>8. /\ Cardinality(named) \in Nat /\ Cardinality(made) \in Nat
        /\ Cardinality(named \cap made) \in Nat /\ Cardinality(LinksOf(t)) \in Nat
        /\ Cardinality(Makers(t)) \in Nat /\ Cardinality(Worker) \in Nat
        /\ Cardinality(EventsOf(t, b) \ orphans) \in Nat
    BY <2>2, <2>3, <2>4, <2>6, <2>7, FS_CardinalityType
  <2>9. Cardinality(LinksOf(t)) + Cardinality(Makers(t)) <= Cardinality(Worker)
    BY DEF BoundInv, FewMakers
  <2> QED
    BY <2>3, <2>4, <2>5, <2>7, <2>8, <2>9
<1>2. ExportInit => BoundInv
  <2> SUFFICES ASSUME ExportInit PROVE BoundInv
    OBVIOUS
  <2>1. ItemInHand /\ LinksName /\ NamedOrOrphan /\ \A w \in Worker : Held(w)
    BY DEF ExportInit, BoxInit, ItemInHand, LinksName, NamedOrOrphan, Held, NoWork
  <2>2. FewMakers
    <3> SUFFICES ASSUME NEW t \in TaskId
                 PROVE  Cardinality(LinksOf(t)) + Cardinality(Makers(t)) <= Cardinality(Worker)
      BY DEF FewMakers
    <3>1. LinksOf(t) = {} /\ Makers(t) = {}
      BY DEF ExportInit, BoxInit, LinksOf, Makers, Making, NoWork
    <3>2. Cardinality({}) = 0 /\ Cardinality(Worker) \in Nat
      BY FS_EmptySet, FS_CardinalityType
    <3> QED
      BY <3>1, <3>2
  <2> QED
    BY <2>1, <2>2 DEF BoundInv
<1>3. BoxTypeOK /\ ExportTypeOK /\ ClaimsAgree /\ BoundInv /\ [ExportNext]_exportVars => BoundInv'
  <2>1. CASE ExportNext
    BY <2>1, BoundStep
  <2>2. CASE UNCHANGED exportVars
    <3>1. links' = links /\ events' = events /\ work' = work /\ batch' = batch /\ orphans' = orphans
      BY <2>2 DEF exportVars
    <3> QED
      BY <2>2, <3>1, BoundQuiet
  <2> QED
    BY <2>1, <2>2
<1> QED
  BY <1>1, <1>2, <1>3, ExportIsOutbox, BoxTypeCorrect, ClaimsCorrect, ExportTypeCorrect, PTL
  DEF ExportSpec

-----------------------------------------------------------------------------
(* No event of a task that is gone.  True if, besides, a hook queues all   *)
(* it has to, and no task is deleted while it is being exported.           *)
CarefulExporter == OneExporter /\ ~ Overlap /\ "enqueue" \notin ExportFaults

GoneNotExported ==
  \A w \in Worker : \A c \in batch[w] :
    Upserting(w, c) /\ tasks[job[c.id].task].db = "gone"
      => work[w].at \notin {"link", "google", "write"}

DeletedHasNoLink ==
  \A w \in Worker : \A c \in batch[w] :
    Deleting(w, c) /\ work[w].at = "ok" => LinksOf(job[c.id].task) = {}

HookWillDelete(t) ==
  \E c \in Client :
    /\ hook[c].task = t
    /\ \/ hook[c].at \in {"task", "link"} /\ hook[c].gone
       \/ /\ hook[c].at = "send"
          /\ \E j \in hook[c].jobs : j.kind = "export_delete" /\ j.task = t

ItemWillDelete(t) ==
  \E i \in ItemsOf(t) : job[i].kind = "export_delete" /\ box[i].status # "done"

(* The link of a task that is gone is removed by someone, or its removal   *)
(* was given up.                                                           *)
GoneIsTold ==
  \A t \in TaskId : tasks[t].db = "gone" /\ LinksOf(t) # {}
    => HookWillDelete(t) \/ ItemWillDelete(t)

GoneInv == GoneNotExported /\ DeletedHasNoLink /\ GoneIsTold

(* A task that is gone stays gone, and only a deletion makes it so.        *)
LEMMA GoneTask ==
  ASSUME ExportTypeOK, [ExportNext]_exportVars, NEW t \in TaskId
  PROVE  /\ tasks[t].db = "gone" => tasks'[t] = tasks[t]
         /\ \/ tasks'[t].db = "gone" => tasks[t].db = "gone"
            \/ \E c \in Client : DeleteTask(c, t)
<1> DEFINE G == /\ tasks[t].db = "gone" => tasks'[t] = tasks[t]
                /\ \/ tasks'[t].db = "gone" => tasks[t].db = "gone"
                   \/ \E c \in Client : DeleteTask(c, t)
<1>1. tasks' = tasks => G
  OBVIOUS
<1>2. ASSUME NEW c \in Client, Request(c) PROVE G
  <2>1. CASE HookReadTask(c) \/ HookReadLink(c) \/ HookEnqueue(c)
    BY <1>1, <2>1 DEF HookReadTask, HookReadLink, HookEnqueue
  <2>2. ASSUME NEW u \in TaskId, UpdateTask(c, u) PROVE G
    <3>1. tasks' = [tasks EXCEPT ![u] = [tasks[u] EXCEPT !.ver = @ + 1]] /\ tasks[u].db = "live"
      BY <2>2 DEF UpdateTask, Change
    <3>2. [tasks[u] EXCEPT !.ver = @ + 1].db = tasks[u].db
      BY DEF ExportTypeOK, TaskRow
    <3> QED
      BY <3>1, <3>2 DEF ExportTypeOK
  <2>3. ASSUME NEW u \in TaskId, DeleteTask(c, u) PROVE G
    <3>1. /\ tasks[u].db = "live"
          /\ tasks' = [tasks EXCEPT ![u] = [tasks[u] EXCEPT !.db = "gone"]]
      BY <2>3 DEF DeleteTask, Change
    <3> QED
      BY <2>3, <3>1 DEF ExportTypeOK
  <2>4. ASSUME NEW u \in TaskId, NEW S \in SUBSET Binding, CreateTask(c, u, S) PROVE G
    <3>1. /\ tasks[u].db = "absent"
          /\ tasks' = [tasks EXCEPT ![u] = [db |-> "live", scope |-> S, ver |-> 1]]
      BY <2>4 DEF CreateTask, Change
    <3> QED
      BY <3>1 DEF ExportTypeOK
  <2>5. ASSUME NEW u \in TaskId, NEW S \in SUBSET Binding, MoveTask(c, u, S) PROVE G
    <3>1. /\ tasks[u].db = "live"
          /\ tasks' = [tasks EXCEPT ![u] = [tasks[u] EXCEPT !.scope = S]]
      BY <2>5 DEF MoveTask, Change
    <3>2. [tasks[u] EXCEPT !.scope = S].db = tasks[u].db
      BY DEF ExportTypeOK, TaskRow
    <3> QED
      BY <3>1, <3>2 DEF ExportTypeOK
  <2> QED
    BY <1>2, <2>1, <2>2, <2>3, <2>4, <2>5 DEF Request
<1>3. ASSUME NEW w \in Worker, ClaimBatch(w) \/ ProcessItem(w) \/ Crash(w) PROVE tasks' = tasks
  BY <1>3
  DEF ClaimBatch, Crash, ProcessItem, UpsertReadTask, UpsertReadLink, UpsertCallGoogle,
      UpsertWriteLink, DeleteReadLink, DeleteCallGoogle, DeleteWriteLink, FinishItem, clientVars
<1>4. TimePasses \/ UNCHANGED exportVars => tasks' = tasks
  BY DEF TimePasses, clientVars, exportVars
<1> QED
  BY <1>1, <1>2, <1>3, <1>4 DEF ExportNext

(* What a scheduler has in hand keeps its job.                             *)
LEMMA JobsInHand ==
  ASSUME BoxTypeOK, ExportTypeOK, ClaimsAgree, [ExportNext]_exportVars,
         NEW w \in Worker, NEW c \in batch[w]
  PROVE  c.id \in Item /\ job'[c.id] = job[c.id]
<1>1. c.id \in Item /\ box[c.id].status = "processing"
  BY DEF BoxTypeOK, Claim, ClaimsAgree
<1> QED
  BY <1>1, JobsStay

(* The steps by which a scheduler's work, or the links, change.            *)
LEMMA WorkSteps ==
  ASSUME OneExporter, BoxTypeOK, ExportTypeOK, ClaimsAgree, OneInv, [ExportNext]_exportVars,
         NEW w \in Worker
  PROVE  \/ work' = work /\ batch' = batch /\ links' = links
         \/ work'[w].at = "idle" /\ links' = links
         \/ \E c \in batch[w] :
              \/ UpsertReadTask(w, c) \/ UpsertReadLink(w, c)
              \/ UpsertCallGoogle(w, c) \/ UpsertWriteLink(w, c)
              \/ DeleteReadLink(w, c) \/ DeleteCallGoogle(w, c) \/ DeleteWriteLink(w, c)
<1>1. ASSUME NEW c \in Client, Request(c)
      PROVE  work' = work /\ batch' = batch /\ links' = links
  BY <1>1
  DEF Request, UpdateTask, DeleteTask, CreateTask, MoveTask, Change, HookReadTask,
      HookReadLink, HookEnqueue, Enqueue, workVars, boxVars
<1>2. \A v \in Worker : v = w
  BY DEF OneExporter
<1>3. CASE ClaimBatch(w)
  <2>1. links' = links /\ work' = work
    BY <1>3 DEF ClaimBatch, workVars
  <2>2. CASE SelectDue(w) \/ ClaimFails(w)
    BY <2>1, <2>2 DEF SelectDue, ClaimFails
  <2>3. CASE CommitClaim(w)
    BY <2>1, <2>3 DEF CommitClaim, ClaimsAgree, OneInv, ItemInHand
  <2> QED
    BY <1>3, <2>2, <2>3 DEF ClaimBatch, Claiming
<1>4. CASE Crash(w)
  BY <1>4 DEF Crash, Goes, NoWork, ExportTypeOK
<1>5. ASSUME NEW c \in batch[w], FinishItem(w, c) PROVE work'[w].at = "idle" /\ links' = links
  BY <1>5 DEF FinishItem, Goes, NoWork, ExportTypeOK
<1>6. CASE TimePasses
  BY <1>6 DEF TimePasses, BoxTick, workVars
<1>7. CASE UNCHANGED exportVars
  BY <1>7 DEF exportVars
<1> QED
  BY <1>1, <1>2, <1>3, <1>4, <1>5, <1>6, <1>7 DEF ExportNext, ProcessItem

LEMMA GoneNotExportedStep ==
  ASSUME CarefulExporter, BoxTypeOK, ExportTypeOK, ClaimsAgree, OneInv, GoneNotExported,
         [ExportNext]_exportVars
  PROVE  GoneNotExported'
<1> SUFFICES ASSUME NEW w \in Worker, NEW c \in batch'[w], Upserting(w, c)',
                    tasks'[job'[c.id].task].db = "gone",
                    work'[w].at \in {"link", "google", "write"}
             PROVE  FALSE
  BY DEF GoneNotExported
<1>0. OneExporter /\ ~ Overlap
  BY DEF CarefulExporter
<1>1. CASE work' = work /\ batch' = batch /\ links' = links
  <2>1. c \in batch[w] /\ c.id \in Item /\ job'[c.id] = job[c.id]
    BY <1>1, JobsInHand
  <2>2. Upserting(w, c) /\ job[c.id].task \in TaskId
    BY <1>1, <2>1 DEF Upserting, Current, ExportTypeOK, Job, NoJob
  <2>3. tasks[job[c.id].task].db # "gone"
    BY <1>1, <2>1, <2>2 DEF GoneNotExported
  <2>4. PICK d \in Client : DeleteTask(d, job[c.id].task)
    BY <2>1, <2>2, <2>3, GoneTask
  <2>5. ~ Exporting(w, job[c.id].task)
    BY <1>0, <2>4 DEF DeleteTask
  <2> QED
    BY <1>1, <2>2, <2>5 DEF Exporting, Upserting, Current
<1>2. CASE work'[w].at = "idle" /\ links' = links
  BY <1>2
<1>3. ASSUME NEW b \in batch[w],
             \/ UpsertReadTask(w, b) \/ UpsertReadLink(w, b)
             \/ UpsertCallGoogle(w, b) \/ UpsertWriteLink(w, b)
      PROVE  FALSE
  <2>1. Upserting(w, b) /\ UNCHANGED boxVars /\ UNCHANGED job /\ tasks' = tasks
    BY <1>3 DEF UpsertReadTask, UpsertReadLink, UpsertCallGoogle, UpsertWriteLink, clientVars
  <2>2. c = b
    BY <1>0, <2>1, AtWork DEF Upserting
  <2>3. tasks[job[b.id].task].db = "gone" /\ work[w].at \notin {"link", "google", "write"}
    BY <2>1, <2>2 DEF GoneNotExported
  <2>4. UpsertReadTask(w, b)
    BY <1>3, <2>3 DEF UpsertReadLink, UpsertCallGoogle, UpsertWriteLink
  <2>5. work'[w].at = "error"
    BY <2>3, <2>4 DEF UpsertReadTask, Goes, NoWork, ExportTypeOK
  <2> QED
    BY <2>5
<1>4. ASSUME NEW b \in batch[w],
             DeleteReadLink(w, b) \/ DeleteCallGoogle(w, b) \/ DeleteWriteLink(w, b)
      PROVE  FALSE
  <2>1. Deleting(w, b) /\ UNCHANGED boxVars /\ UNCHANGED job
    BY <1>4 DEF DeleteReadLink, DeleteCallGoogle, DeleteWriteLink
  <2>2. c = b
    BY <1>0, <2>1, AtWork DEF Upserting, Deleting
  <2> QED
    BY <2>1, <2>2 DEF Upserting, Deleting
<1> QED
  BY <1>0, <1>1, <1>2, <1>3, <1>4, WorkSteps

LEMMA DeletedHasNoLinkStep ==
  ASSUME OneExporter, BoxTypeOK, ExportTypeOK, ClaimsAgree, OneInv, DeletedHasNoLink,
         [ExportNext]_exportVars
  PROVE  DeletedHasNoLink'
<1> SUFFICES ASSUME NEW w \in Worker, NEW c \in batch'[w], Deleting(w, c)', work'[w].at = "ok"
             PROVE  (LinksOf(job[c.id].task) = {})'
  BY DEF DeletedHasNoLink
<1>1. CASE work' = work /\ batch' = batch /\ links' = links
  <2>1. c \in batch[w] /\ c.id \in Item /\ job'[c.id] = job[c.id]
    BY <1>1, JobsInHand
  <2>2. Deleting(w, c)
    BY <1>1, <2>1 DEF Deleting, Current
  <2> QED
    BY <1>1, <2>1, <2>2 DEF DeletedHasNoLink, LinksOf
<1>2. CASE work'[w].at = "idle" /\ links' = links
  BY <1>2
<1>3. ASSUME NEW b \in batch[w],
             \/ UpsertReadTask(w, b) \/ UpsertReadLink(w, b)
             \/ UpsertCallGoogle(w, b) \/ UpsertWriteLink(w, b)
      PROVE  FALSE
  <2>1. Upserting(w, b) /\ UNCHANGED boxVars /\ UNCHANGED job
    BY <1>3 DEF UpsertReadTask, UpsertReadLink, UpsertCallGoogle, UpsertWriteLink
  <2>2. c = b
    BY <2>1, AtWork DEF Upserting, Deleting
  <2> QED
    BY <2>1, <2>2 DEF Upserting, Deleting
<1>4. ASSUME NEW b \in batch[w],
             DeleteReadLink(w, b) \/ DeleteCallGoogle(w, b) \/ DeleteWriteLink(w, b)
      PROVE  (LinksOf(job[c.id].task) = {})'
  <2>1. Deleting(w, b) /\ UNCHANGED boxVars /\ UNCHANGED job
    BY <1>4 DEF DeleteReadLink, DeleteCallGoogle, DeleteWriteLink
  <2>2. c = b
    BY <2>1, AtWork DEF Deleting
  <2>3. CASE DeleteReadLink(w, b)
    <3>1. \/ GetByTaskID(job[b.id].task) = 0 /\ LinksOf(job[b.id].task) = {}
          \/ GetByTaskID(job[b.id].task) # 0
      BY NewestLink DEF ExportTypeOK
    <3>2. GetByTaskID(job[b.id].task) = 0
      BY <2>3 DEF DeleteReadLink, Goes, NoWork, ExportTypeOK
    <3> QED
      BY <2>1, <2>2, <2>3, <3>1, <3>2 DEF DeleteReadLink, LinksOf
  <2>4. CASE DeleteCallGoogle(w, b)
    <3>1. \E answer : work'[w].at = IF answer = "ok" THEN "write" ELSE "error"
      BY <2>4 DEF DeleteCallGoogle, Called, Goes, ExportTypeOK, Work
    <3> QED
      BY <3>1
  <2>5. CASE DeleteWriteLink(w, b)
    <3>1. LinksOf(job[b.id].task)' = {}
      <4>1. work'[w].at # "error"
        OBVIOUS
      <4> QED
        BY <2>5, <4>1, DeleteWrites
    <3> QED
      BY <2>1, <2>2, <3>1 DEF LinksOf
  <2> QED
    BY <1>4, <2>3, <2>4, <2>5
<1> QED
  BY <1>1, <1>2, <1>3, <1>4, WorkSteps

(* A task that is gone gets no link.                                       *)
LEMMA GoneGetsNoLink ==
  ASSUME CarefulExporter, BoxTypeOK, ExportTypeOK, ClaimsAgree, OneInv, GoneNotExported,
         [ExportNext]_exportVars, NEW t \in TaskId, tasks[t].db = "gone",
         NEW w \in Worker
  PROVE  LinksOf(t)' \subseteq LinksOf(t)
<1>0. OneExporter
  BY DEF CarefulExporter
<1>1. links' = links => LinksOf(t)' \subseteq LinksOf(t)
  BY DEF LinksOf
<1>2. ASSUME NEW c \in batch[w], UpsertWriteLink(w, c) PROVE LinksOf(t)' \subseteq LinksOf(t)
  <2> DEFINE u == job[c.id].task
             l == work[w].link
             row == [live |-> TRUE, task |-> u, binding |-> job[c.id].binding,
                     event |-> work[w].event]
  <2>1. Upserting(w, c) /\ work[w].at = "write" /\ links \in Seq(Link)
    BY <1>2 DEF UpsertWriteLink, ExportTypeOK
  <2>2. u # t
    BY <2>1 DEF GoneNotExported
  <2>3. links' = links \/ links' = Append(links, row) \/ links' = [links EXCEPT ![l] = row]
    BY <1>2 DEF UpsertWriteLink
  <2>4. row.live /\ row.task = u
    OBVIOUS
  <2>5. row \in Link
    <3>1. c.id \in Item /\ work[w] \in Work
      BY DEF BoxTypeOK, Claim, ExportTypeOK
    <3> QED
      BY <2>1, <3>1 DEF Upserting, ExportTypeOK, Job, NoJob, Link, Work
  <2> HIDE DEF row
  <2>6. CASE links' = Append(links, row)
    <3>1. /\ DOMAIN links' = 1..(Len(links) + 1) /\ Len(links) \in Nat
          /\ DOMAIN links = 1..Len(links)
          /\ \A k \in 1..Len(links) : links'[k] = links[k]
          /\ links'[Len(links) + 1] = row
      BY <2>1, <2>5, <2>6, AppendProperties, LenProperties
    <3> QED
      BY <2>2, <2>4, <3>1 DEF LinksOf
  <2>7. CASE links' = [links EXCEPT ![l] = row]
    <3>1. DOMAIN links' = DOMAIN links /\ \A k \in DOMAIN links : links'[k] = links[k] \/ links'[k] = row
      BY <2>7
    <3> QED
      BY <2>2, <2>4, <3>1 DEF LinksOf
  <2> QED
    BY <1>1, <2>3, <2>6, <2>7
<1>3. ASSUME NEW c \in batch[w], DeleteWriteLink(w, c) PROVE LinksOf(t)' \subseteq LinksOf(t)
  BY <1>0, <1>3, DeleteWrites
<1>4. ASSUME NEW c \in batch[w],
             \/ UpsertReadTask(w, c) \/ UpsertReadLink(w, c) \/ UpsertCallGoogle(w, c)
             \/ DeleteReadLink(w, c) \/ DeleteCallGoogle(w, c)
      PROVE  links' = links
  BY <1>4
  DEF UpsertReadTask, UpsertReadLink, UpsertCallGoogle, DeleteReadLink, DeleteCallGoogle
<1> QED
  BY <1>0, <1>1, <1>2, <1>3, <1>4, WorkSteps

(* A hook that is to delete goes on, or has queued the deletion.           *)
LEMMA HookGoesOn ==
  ASSUME CarefulExporter, BoxTypeOK, ExportTypeOK, [ExportNext]_exportVars,
         NEW t \in TaskId, tasks[t].db = "gone", LinksOf(t) # {}, HookWillDelete(t)
  PROVE  (HookWillDelete(t) \/ ItemWillDelete(t))'
<1> DEFINE Will(c) == /\ hook[c].task = t
                      /\ \/ hook[c].at \in {"task", "link"} /\ hook[c].gone
                         \/ /\ hook[c].at = "send"
                            /\ \E j \in hook[c].jobs : j.kind = "export_delete" /\ j.task = t
<1>1. PICK c \in Client : Will(c)
  BY DEF HookWillDelete
<1>2. hook'[c] = hook[c] => HookWillDelete(t)'
  BY <1>1 DEF HookWillDelete
<1>3. hook[c].at # "idle" /\ hook \in [Client -> Hook] /\ hook[c] \in Hook
  BY <1>1 DEF ExportTypeOK
<1>4. CASE HookReadTask(c)
  <2>1. /\ hook[c].at = "task" /\ hook[c].gone
        /\ hook'[c] = [hook[c] EXCEPT !.at = "link", !.scope = tasks[hook[c].task].scope]
    BY <1>1, <1>3, <1>4 DEF HookReadTask
  <2>2. hook'[c].at = "link" /\ hook'[c].gone /\ hook'[c].task = t
    BY <1>1, <1>3, <2>1 DEF Hook
  <2> QED
    BY <2>2 DEF HookWillDelete
<1>5. CASE HookReadLink(c)
  <2> DEFINE jobs == ExportsOf(t, TRUE, hook[c].scope)
             l == GetByTaskID(t)
  <2>1. hook[c].at = "link" /\ hook[c].gone /\ hook[c].task = t
    BY <1>1, <1>5 DEF HookReadLink
  <2>2. hook[c].gone = TRUE
    BY <1>3, <2>1 DEF Hook
  <2>3. l \in LinksOf(t)
    BY NewestLink DEF ExportTypeOK
  <2>4. [kind |-> "export_delete", task |-> t, binding |-> links[l].binding] \in jobs
    BY <2>3 DEF ExportsOf, Jobs
  <2> HIDE DEF jobs, l
  <2>5. hook'[c] = [hook[c] EXCEPT !.at = "send", !.jobs = jobs]
    BY <1>3, <1>5, <2>1, <2>2, <2>4 DEF HookReadLink, jobs
  <2>6. hook'[c].at = "send" /\ hook'[c].jobs = jobs /\ hook'[c].task = t
    BY <1>3, <2>1, <2>5 DEF Hook
  <2>7. PICK j : j = [kind |-> "export_delete", task |-> t, binding |-> links[l].binding]
    OBVIOUS
  <2> QED
    BY <2>4, <2>6, <2>7 DEF HookWillDelete
<1>6. CASE HookEnqueue(c)
  <2>1. hook[c].at = "send" /\ \E k \in hook[c].jobs : k.kind = "export_delete" /\ k.task = t
    BY <1>1, <1>6 DEF HookEnqueue
  <2>2. PICK k \in hook[c].jobs : k.kind = "export_delete" /\ k.task = t
    BY <2>1
  <2>3. MayFail("enqueue") = {TRUE}
    BY DEF MayFail, CarefulExporter
  <2>4. PICK j \in hook[c].jobs, i \in Item :
          /\ Enqueue(i)
          /\ job' = [job EXCEPT ![i] = j]
          /\ hook' = [hook EXCEPT ![c] = IF hook[c].jobs = {j} THEN NoHook
                                         ELSE [hook[c] EXCEPT !.jobs = hook[c].jobs \ {j}]]
    BY <1>6, <2>3 DEF HookEnqueue
  <2>5. CASE k = j
    <3>1. box'[i].status = "pending" /\ job'[i] = j
      BY <2>4 DEF Enqueue, BoxTypeOK, ExportTypeOK
    <3> QED
      BY <2>2, <2>5, <3>1 DEF ItemWillDelete, ItemsOf
  <2>6. CASE k # j
    <3>1. hook'[c] = [hook[c] EXCEPT !.jobs = hook[c].jobs \ {j}]
      BY <1>3, <2>2, <2>4, <2>6
    <3>2. hook'[c].at = "send" /\ hook'[c].task = t /\ k \in hook'[c].jobs
      BY <1>1, <1>3, <2>1, <2>2, <2>6, <3>1 DEF Hook
    <3> QED
      BY <2>2, <3>2 DEF HookWillDelete
  <2> QED
    BY <2>5, <2>6
<1>7. ASSUME NEW d \in Client, Request(d), d # c PROVE hook'[c] = hook[c]
  BY <1>3, <1>7
  DEF Request, UpdateTask, DeleteTask, CreateTask, MoveTask, Change, HookReadTask,
      HookReadLink, HookEnqueue
<1>8. ASSUME Request(c) PROVE HookReadTask(c) \/ HookReadLink(c) \/ HookEnqueue(c)
  BY <1>3, <1>8 DEF Request, UpdateTask, DeleteTask, CreateTask, MoveTask, Change
<1>9. ASSUME NEW w \in Worker, ClaimBatch(w) \/ ProcessItem(w) \/ Crash(w) PROVE hook' = hook
  BY <1>9
  DEF ClaimBatch, Crash, ProcessItem, UpsertReadTask, UpsertReadLink, UpsertCallGoogle,
      UpsertWriteLink, DeleteReadLink, DeleteCallGoogle, DeleteWriteLink, FinishItem, clientVars
<1>10. TimePasses \/ UNCHANGED exportVars => hook' = hook
  BY DEF TimePasses, clientVars, exportVars
<1> QED
  BY <1>2, <1>4, <1>5, <1>6, <1>7, <1>8, <1>9, <1>10 DEF ExportNext

(* An item is done by a mark only, and a delete item when its task has no  *)
(* link.                                                                   *)
LEMMA ItemGoesOn ==
  ASSUME OneExporter, BoxTypeOK, ExportTypeOK, ClaimsAgree, OneInv, DeletedHasNoLink,
         [ExportNext]_exportVars, NEW t \in TaskId, LinksOf(t) # {}, ItemWillDelete(t)
  PROVE  ItemWillDelete(t)'
<1>1. PICK i \in ItemsOf(t) : job[i].kind = "export_delete" /\ box[i].status # "done"
  BY DEF ItemWillDelete
<1>2. i \in Item /\ box[i].status # "absent" /\ job[i].task = t
  BY DEF ItemsOf
<1>3. job'[i] = job[i] /\ box'[i].status # "absent"
  BY <1>2, JobsStay
<1>4. box'[i].status # "done"
  <2>1. ASSUME NEW w \in Worker, NEW c \in batch[w], FinishItem(w, c)
        PROVE  box'[i].status # "done"
    <3>1. CASE work[w].at = "ok" /\ MarkDone(w, c)
      <4>1. c.id # i
        BY <1>1, <1>2, <3>1 DEF DeletedHasNoLink, Deleting, MarkDone
      <4> QED
        BY <1>1, <1>2, <3>1, <4>1 DEF MarkDone, Mark, BoxTypeOK
    <3>2. CASE MarkRetryOrFailed(w, c)
      <4>1. c.id \in Item
        BY DEF BoxTypeOK, Claim
      <4>2. [box[c.id] EXCEPT !.status = "failed"].status # "done"
        BY <4>1 DEF BoxTypeOK, BoxRow
      <4>3. box' = box \/ \E row : row.status # "done" /\ box' = [box EXCEPT ![c.id] = row]
        BY <3>2, <4>2 DEF MarkRetryOrFailed, Mark
      <4> QED
        BY <1>1, <1>2, <4>3 DEF BoxTypeOK
    <3> QED
      BY <2>1, <3>1, <3>2 DEF FinishItem
  <2>2. ASSUME NEW w \in Worker, NEW c \in batch[w],
               \/ UpsertReadTask(w, c) \/ UpsertReadLink(w, c)
               \/ UpsertCallGoogle(w, c) \/ UpsertWriteLink(w, c)
               \/ DeleteReadLink(w, c) \/ DeleteCallGoogle(w, c) \/ DeleteWriteLink(w, c)
        PROVE  box' = box
    BY <2>2
    DEF UpsertReadTask, UpsertReadLink, UpsertCallGoogle, UpsertWriteLink, DeleteReadLink,
        DeleteCallGoogle, DeleteWriteLink, boxVars
  <2>3. ASSUME NEW c \in Client, Request(c) PROVE box' = box \/ \E k \in Item : Enqueue(k)
    BY <2>3
    DEF Request, UpdateTask, DeleteTask, CreateTask, MoveTask, Change, HookReadTask,
        HookReadLink, HookEnqueue, boxVars
  <2>4. ASSUME NEW k \in Item, Enqueue(k) PROVE box'[i].status # "done"
    BY <1>1, <1>2, <2>4 DEF Enqueue, BoxTypeOK
  <2>5. ASSUME NEW w \in Worker, ClaimBatch(w) \/ Crash(w) PROVE box'[i].status # "done"
    BY <1>1, <1>2, <2>5
    DEF ClaimBatch, Crash, Claiming, SelectDue, CommitClaim, ClaimFails, CrashWorker,
        BoxTypeOK, BoxRow
  <2>6. TimePasses => box'[i].status # "done"
    BY <1>1, <1>2 DEF TimePasses, BoxTick, BoxTypeOK, BoxRow
  <2>7. UNCHANGED exportVars => box' = box
    BY DEF exportVars
  <2>8. box' = box => box'[i].status # "done"
    BY <1>1
  <2> QED
    BY <2>1, <2>2, <2>3, <2>4, <2>5, <2>6, <2>7, <2>8 DEF ExportNext, ProcessItem
<1> QED
  BY <1>1, <1>2, <1>3, <1>4 DEF ItemWillDelete, ItemsOf

LEMMA GoneIsToldStep ==
  ASSUME CarefulExporter, BoxTypeOK, ExportTypeOK, ClaimsAgree, OneInv, GoneInv,
         [ExportNext]_exportVars
  PROVE  GoneIsTold'
<1> SUFFICES ASSUME NEW t \in TaskId, tasks'[t].db = "gone", LinksOf(t)' # {}
             PROVE  (HookWillDelete(t) \/ ItemWillDelete(t))'
  BY DEF GoneIsTold
<1>0. OneExporter /\ GoneNotExported /\ DeletedHasNoLink
  BY DEF CarefulExporter, GoneInv
<1>1. ASSUME NEW c \in Client, DeleteTask(c, t) PROVE HookWillDelete(t)'
  <2>1. [tasks[t] EXCEPT !.db = "gone"].db = "gone"
    BY DEF ExportTypeOK, TaskRow
  <2>2. hook' = [hook EXCEPT ![c] = [NoHook EXCEPT !.at = "task", !.task = t, !.gone = TRUE]]
    BY <1>1, <2>1 DEF DeleteTask, Change
  <2>3. hook'[c].at = "task" /\ hook'[c].task = t /\ hook'[c].gone
    BY <2>2 DEF NoHook, ExportTypeOK
  <2> QED
    BY <2>3 DEF HookWillDelete
<1>2. CASE tasks[t].db = "gone"
  <2>1. LinksOf(t) # {}
    <3>1. CASE Worker = {}
      <4>1. links' = links
        BY <3>1
        DEF ExportNext, Request, UpdateTask, DeleteTask, CreateTask, MoveTask, Change,
            HookReadTask, HookReadLink, HookEnqueue, TimePasses, workVars, exportVars
      <4> QED
        BY <4>1 DEF LinksOf
    <3>2. CASE Worker # {}
      <4>1. LinksOf(t)' \subseteq LinksOf(t)
        BY <1>0, <1>2, <3>2, GoneGetsNoLink
      <4> QED
        BY <4>1
    <3> QED
      BY <3>1, <3>2
  <2>2. HookWillDelete(t) \/ ItemWillDelete(t)
    BY <1>2, <2>1 DEF GoneInv, GoneIsTold
  <2>3. CASE HookWillDelete(t)
    BY <1>2, <2>1, <2>3, HookGoesOn
  <2>4. CASE ItemWillDelete(t)
    BY <1>0, <2>1, <2>4, ItemGoesOn
  <2> QED
    BY <2>2, <2>3, <2>4
<1> QED
  BY <1>1, <1>2, GoneTask

(* When the last item of a task that is gone is through, its link is gone, *)
(* and with the link the event it named.                                   *)
THEOREM GoneEventCorrect ==
  ASSUME CarefulExporter
  PROVE  ExportSpec => []GoneHasNoEvent
<1> DEFINE Types == BoxTypeOK /\ ClaimsAgree /\ ExportTypeOK /\ OneInv
<1>0. OneExporter
  BY DEF CarefulExporter
<1>1. ExportInit => GoneInv
  BY DEF ExportInit, BoxInit, GoneInv, GoneNotExported, DeletedHasNoLink, GoneIsTold, LinksOf
<1>2. Types /\ GoneInv /\ [ExportNext]_exportVars => GoneInv'
  BY <1>0, GoneNotExportedStep, DeletedHasNoLinkStep, GoneIsToldStep DEF GoneInv
<1>3. Types /\ GoneInv => GoneHasNoEvent
  <2> SUFFICES ASSUME Types, GoneInv, NEW t \in TaskId, NEW b \in Binding,
                      tasks[t].db = "gone", AtRest(t),
                      \A i \in ItemsOf(t) : job[i].kind = "export_delete" => box[i].status = "done",
                      NEW e \in EventsOf(t, b), e \notin orphans
               PROVE  FALSE
    BY DEF GoneHasNoEvent
  <2>1. \A i \in ItemsOf(t) : box[i].status # "processing"
    BY DEF AtRest
  <2>3. e \in DOMAIN events /\ events[e].live /\ events[e].task = t
    BY DEF EventsOf
  <2>4. ~ NotLinkedYet(e)
    <3> SUFFICES ASSUME NEW w \in Worker, NEW c \in batch[w], Upserting(w, c),
                        work[w].at = "write", work[w].link = 0, work[w].event = e
                 PROVE  FALSE
      BY DEF NotLinkedYet
    <3>1. job[c.id].task = t
      <4>1. 0 \notin LinksOf(job[c.id].task)
        BY LenProperties DEF LinksOf, ExportTypeOK
      <4> QED
        BY <2>3, <4>1 DEF OneInv, UpsertKnows
    <3>2. c.id \in Item /\ box[c.id].status = "processing"
      BY OneCurrent DEF Upserting
    <3> QED
      BY <2>1, <3>1, <3>2 DEF ItemsOf
  <2>5. LinksOf(t) # {}
    BY <2>3, <2>4 DEF OneInv, EventsNamed, NamedByLink
  <2>6. ~ HookWillDelete(t) /\ ~ ItemWillDelete(t)
    BY DEF HookWillDelete, ItemWillDelete, AtRest
  <2> QED
    BY <2>5, <2>6 DEF GoneInv, GoneIsTold
<1> HIDE DEF Types
<1>4. ExportSpec => []Types
  BY <1>0, OneInvHolds DEF Types
<1> QED
  BY <1>1, <1>2, <1>3, <1>4, PTL DEF ExportSpec

-----------------------------------------------------------------------------
(* The last change is shown.                                               *)

(* One scheduler takes the items that were never tried in the order in     *)
(* which they were queued: what is behind one of them was not tried either.*)
Untried(i) == box[i].status \in {"absent", "pending"} /\ box[i].attempts = 0

UntriedIsDue ==
  \A i \in Item : /\ box[i].status = "absent" => box[i].attempts = 0
                  /\ box[i].status = "pending" /\ box[i].attempts = 0 => box[i].wait = 0

RowsInOrder ==
  \A i, k \in Item : i < k =>
    /\ box[i].status = "absent" => box[k].status = "absent"
    /\ box[i].status = "pending" /\ box[i].attempts = 0 => Untried(k)

LocksInOrder ==
  \A w \in Worker : \A k \in locked[w] : \A i \in Item :
    i < k /\ box[i].status = "pending" /\ box[i].attempts = 0 => i \in locked[w]

BatchInOrder ==
  \A w \in Worker : \A c \in batch[w] : c.attempts = 0 =>
    \A k \in Item : c.id < k =>
      Untried(k) \/ \E d \in batch[w] : d.id = k /\ d.attempts = 0

QueueInOrder == UntriedIsDue /\ RowsInOrder /\ LocksInOrder /\ BatchInOrder

(* What a hook has read of a live task is still so, as no task is moved    *)
(* while a hook looks at it.                                               *)
HookFits ==
  \A c \in Client : hook[c].at # "idle" =>
    LET h == hook[c] IN
    /\ tasks[h.task].db # "absent"
    /\ h.gone => tasks[h.task].db = "gone"
    /\ h.at \in {"link", "send"} /\ tasks[h.task].db = "live" => h.scope = tasks[h.task].scope
    /\ h.at = "send" => \A j \in h.jobs :
         j.task = h.task /\ (j.kind = "export_delete" => h.gone \/ h.scope = {})

(* An item was given up or left behind, or takes an event away late.       *)
Exceptional(t) ==
  \E i \in ItemsOf(t) : \/ box[i].status = "failed"
                        \/ Stranded(i)
                        \/ job[i].kind = "export_delete" /\ box[i].attempts > 0

(* A deletion has taken the event of link l and has still to write the row,*)
(* or has failed and is not yet marked.                                    *)
DeletionUnderWay(l) ==
  \E w \in Worker : \E c \in batch[w] :
    /\ Deleting(w, c)
    /\ \/ work[w].at = "write" /\ work[w].link = l
       \/ work[w].at = "error" /\ job[c.id].task = links[l].task

(* The event of a link is there, but for a deletion on its way.            *)
LinkedEventLives ==
  \A l \in DOMAIN links : links[l].live =>
    events[links[l].event].live \/ Exceptional(links[l].task) \/ DeletionUnderWay(l)

InScope(t) == tasks[t].db = "live" /\ tasks[t].scope # {}

HookWillUpsert(t) ==
  \E c \in Client :
    /\ hook[c].task = t
    /\ \/ hook[c].at \in {"task", "link"}
       \/ /\ hook[c].at = "send"
          /\ \E j \in hook[c].jobs : j.kind = "export_upsert" /\ j.task = t

(* A task that came back into scope is exported again after each deletion. *)
DeleteIsFollowed ==
  \A t \in TaskId : InScope(t) =>
    \A i \in ItemsOf(t) : job[i].kind = "export_delete" /\ box[i].status # "done" =>
      HookWillUpsert(t) \/ \E k \in ItemsOf(t) : i < k /\ job[k].kind = "export_upsert"

UpsertDue(t) ==
  \E i \in ItemsOf(t) :
    /\ job[i].kind = "export_upsert"
    /\ \/ box[i].status = "pending"
       \/ \E w \in Worker : \E c \in batch[w] :
            c.id = i /\ (Current(w, c) => work[w].at \in {"idle", "error"})

UpsertUnderWay(t) ==
  \E w \in Worker : \E c \in batch[w] :
    /\ Upserting(w, c) /\ job[c.id].task = t
    /\ \/ work[w].at \in {"link", "google"} /\ work[w].ver = tasks[t].ver
       \/ /\ work[w].at = "write" /\ events[work[w].event].live
          /\ events[work[w].event].ver = tasks[t].ver

UpsertIsStale(t) ==
  \E w \in Worker : \E c \in batch[w] :
    /\ Upserting(w, c) /\ job[c.id].task = t
    /\ work[w].at \in {"link", "google"} /\ work[w].ver # tasks[t].ver

Shown(t) ==
  \E l \in LinksOf(t) : /\ events[links[l].event].live
                        /\ events[links[l].event].ver = tasks[t].ver

CurrentOrComing ==
  \A t \in TaskId : InScope(t) =>
    \/ Exceptional(t) \/ HookWillUpsert(t) \/ UpsertDue(t) \/ UpsertUnderWay(t)
    \/ Shown(t) /\ ~ UpsertIsStale(t)

CurrentInv ==
  /\ QueueInOrder /\ HookFits /\ LinkedEventLives /\ DeleteIsFollowed /\ CurrentOrComing

(* Of the items that may be claimed the first are.                         *)
LEMMA FirstFirst ==
  ASSUME NEW S \in SUBSET Item, NEW k \in FirstOf(S), NEW i \in S, i < k
  PROVE  i \in FirstOf(S)
<1> DEFINE A == {j \in S : j < i}
           B == {j \in S : j < k}
<1>1. IsFiniteSet(B)
  <2>1. IsFiniteSet(Item)
    BY FS_Interval, OutboxAssumption DEF Item
  <2> QED
    BY <2>1, FS_Subset
<1>2. k \in Item /\ i \in Item
  BY DEF FirstOf
<1>3. A \subseteq B
  <2>1. Item \subseteq Nat
    BY OutboxAssumption DEF Item
  <2>2. \A j \in S : j \in Nat
    BY <2>1
  <2>3. i \in Nat /\ k \in Nat /\ i < k
    BY <1>2, <2>1
  <2>4. ASSUME NEW j \in A PROVE j \in B
    <3>1. j \in S /\ j < i /\ j \in Nat
      BY <2>2
    <3>2. j < k
      BY <2>3, <3>1
    <3> QED
      BY <3>1, <3>2
  <2> QED
    BY <2>4
<1>4. Cardinality(A) <= Cardinality(B) /\ IsFiniteSet(A)
  BY <1>1, <1>3, FS_Subset
<1>5. Cardinality(B) < BatchLimit
  BY DEF FirstOf
<1>6. Cardinality(A) \in Nat /\ Cardinality(B) \in Nat /\ BatchLimit \in Nat
  BY <1>1, <1>4, FS_CardinalityType, OutboxAssumption
<1> QED
  BY <1>4, <1>5, <1>6 DEF FirstOf

(* A mark of the current item.                                             *)
LEMMA MarkEffect ==
  ASSUME BoxTypeOK, ClaimsAgree, NEW w \in Worker, NEW c \in batch[w],
         MarkDone(w, c) \/ MarkRetryOrFailed(w, c)
  PROVE  /\ Current(w, c) /\ c.id \in Item /\ c \in Claim /\ c.attempts = box[c.id].attempts
         /\ box[c.id].status = "processing"
         /\ locked' = locked /\ batch' = [batch EXCEPT ![w] = batch[w] \ {c}]
         /\ \A i \in Item : i # c.id => box'[i] = box[i]
         /\ \/ box' = box
            \/ /\ box'[c.id].status \in {"done", "failed"}
               /\ box'[c.id].attempts = box[c.id].attempts
            \/ /\ box'[c.id].status = "pending"
               /\ box'[c.id].attempts = box[c.id].attempts + 1
         /\ MarkDone(w, c) /\ box' # box => box'[c.id].status = "done"
         /\ MarkRetryOrFailed(w, c) /\ box' # box => box'[c.id].status # "done"
<1>1. /\ Current(w, c) /\ c.id \in Item /\ c \in Claim /\ c.attempts = box[c.id].attempts
      /\ box[c.id].status = "processing" /\ box[c.id] \in BoxRow
  BY DEF MarkDone, MarkRetryOrFailed, BoxTypeOK, Claim, ClaimsAgree
<1> DEFINE Outcome(row) ==
      \/ row.status \in {"done", "failed"} /\ row.attempts = box[c.id].attempts
      \/ row.status = "pending" /\ row.attempts = box[c.id].attempts + 1
<1>2. ASSUME MarkDone(w, c)
      PROVE  \E row : Outcome(row) /\ row.status = "done" /\ Mark(w, c, row)
  <2> DEFINE row == [box[c.id] EXCEPT !.status = "done"]
  <2>1. row.status = "done" /\ row.attempts = box[c.id].attempts
    BY <1>1 DEF BoxRow
  <2>2. Mark(w, c, row)
    BY <1>2 DEF MarkDone
  <2> QED
    BY <2>1, <2>2
<1>3. ASSUME MarkRetryOrFailed(w, c)
      PROVE  \E row : Outcome(row) /\ row.status # "done" /\ Mark(w, c, row)
  <2>1. CASE c.attempts + 1 >= MaxAttempts
    <3> DEFINE row == [box[c.id] EXCEPT !.status = "failed"]
    <3>1. row.status = "failed" /\ row.attempts = box[c.id].attempts
      BY <1>1 DEF BoxRow
    <3>2. Mark(w, c, row)
      BY <1>3, <2>1 DEF MarkRetryOrFailed
    <3> QED
      BY <3>1, <3>2
  <2>2. CASE ~(c.attempts + 1 >= MaxAttempts)
    <3> DEFINE row == [status |-> "pending", attempts |-> c.attempts + 1,
                       wait |-> OutboxBackoff(c.attempts + 1)]
    <3>1. row.status = "pending" /\ row.attempts = box[c.id].attempts + 1
      BY <1>1
    <3>2. Mark(w, c, row)
      BY <1>3, <2>2 DEF MarkRetryOrFailed
    <3> QED
      BY <3>1, <3>2
  <2> QED
    BY <2>1, <2>2
<1>4. ASSUME NEW row, Mark(w, c, row)
      PROVE  /\ locked' = locked /\ batch' = [batch EXCEPT ![w] = batch[w] \ {c}]
             /\ \A i \in Item : i # c.id => box'[i] = box[i]
             /\ box' = box \/ box'[c.id] = row
  BY <1>1, <1>4 DEF Mark, BoxTypeOK
<1>5. PICK row : Outcome(row) /\ Mark(w, c, row)
  BY <1>2, <1>3
<1>6. /\ locked' = locked /\ batch' = [batch EXCEPT ![w] = batch[w] \ {c}]
      /\ \A i \in Item : i # c.id => box'[i] = box[i]
      /\ box' = box \/ Outcome(box'[c.id])
  BY <1>4, <1>5
<1>7. MarkDone(w, c) /\ box' # box => box'[c.id].status = "done"
  BY <1>2, <1>4
<1>8. MarkRetryOrFailed(w, c) /\ box' # box => box'[c.id].status # "done"
  BY <1>3, <1>4
<1> QED
  BY <1>1, <1>6, <1>7, <1>8

LEMMA QueueStep ==
  ASSUME OneExporter, BoxTypeOK, ClaimsAgree, QueueInOrder, [BoxNext]_boxVars
  PROVE  QueueInOrder'
<1> USE DEF Untried
<1>0. /\ Item \subseteq Nat /\ \A v, w \in Worker : v = w
      /\ \A w \in Worker : \A c \in batch[w] : c \in Claim /\ c.id \in Item
      /\ \A i \in Item : box[i] \in BoxRow
  BY OutboxAssumption DEF Item, OneExporter, BoxTypeOK, Claim
<1>1. CASE UNCHANGED boxVars
  BY <1>1 DEF boxVars, QueueInOrder, UntriedIsDue, RowsInOrder, LocksInOrder, BatchInOrder
<1>2. ASSUME NEW n \in Item, Enqueue(n) PROVE QueueInOrder'
  <2>1. /\ box[n].status = "absent" /\ \A j \in Item : j < n => box[j].status # "absent"
        /\ box'[n] = [status |-> "pending", attempts |-> 0, wait |-> 0]
        /\ \A i \in Item : i # n => box'[i] = box[i]
        /\ locked' = locked /\ batch' = batch
    BY <1>2 DEF Enqueue, BoxTypeOK
  <2>2. UntriedIsDue'
    BY <2>1 DEF QueueInOrder, UntriedIsDue
  <2>3. RowsInOrder'
    <3> SUFFICES ASSUME NEW i \in Item, NEW k \in Item, i < k
                 PROVE  /\ box'[i].status = "absent" => box'[k].status = "absent"
                        /\ box'[i].status = "pending" /\ box'[i].attempts = 0 => Untried(k)'
      BY DEF RowsInOrder
    <3>1. i # k /\ (i = n => box[k].status = "absent" /\ box[k].attempts = 0)
      BY <1>0, <2>1 DEF QueueInOrder, RowsInOrder, UntriedIsDue
    <3>2. k = n => box[i].status # "absent"
      BY <2>1
    <3>3. /\ box[i].status = "absent" => box[k].status = "absent"
          /\ box[i].status = "pending" /\ box[i].attempts = 0 => Untried(k)
      BY DEF QueueInOrder, RowsInOrder
    <3> QED
      BY <2>1, <3>1, <3>2, <3>3
  <2>4. LocksInOrder'
    <3> SUFFICES ASSUME NEW w \in Worker, NEW k \in locked[w], NEW i \in Item, i < k,
                        box'[i].status = "pending", box'[i].attempts = 0
                 PROVE  i \in locked[w]
      BY <2>1 DEF LocksInOrder
    <3>1. k \in Item /\ box[k].status = "pending"
      BY DEF BoxTypeOK, ClaimsAgree
    <3>2. i # n
      BY <2>1, <3>1 DEF QueueInOrder, RowsInOrder
    <3> QED
      BY <2>1, <3>2 DEF QueueInOrder, LocksInOrder
  <2>5. BatchInOrder'
    BY <1>0, <2>1 DEF QueueInOrder, BatchInOrder
  <2> QED
    BY <2>2, <2>3, <2>4, <2>5 DEF QueueInOrder
<1>3. ASSUME NEW w \in Worker, SelectDue(w) PROVE QueueInOrder'
  <2> DEFINE S == {i \in Item : Due(i) /\ \A v \in Worker : i \notin locked[v]}
  <2>1. box' = box /\ batch' = batch /\ locked[w] = {} /\ locked'[w] = FirstOf(S)
    BY <1>3 DEF SelectDue, BoxTypeOK
  <2>2. \A i \in Item : box[i].status = "pending" /\ box[i].attempts = 0 => i \in S
    BY <1>0, <2>1 DEF QueueInOrder, UntriedIsDue, Due
  <2>3. S \in SUBSET Item
    OBVIOUS
  <2> HIDE DEF S
  <2>4. LocksInOrder'
    <3> SUFFICES ASSUME NEW k \in FirstOf(S), NEW i \in Item, i < k,
                        box[i].status = "pending", box[i].attempts = 0
                 PROVE  i \in FirstOf(S)
      BY <1>0, <2>1 DEF LocksInOrder
    <3> QED
      BY <2>2, <2>3, FirstFirst
  <2> QED
    BY <2>1, <2>4 DEF QueueInOrder, UntriedIsDue, RowsInOrder, BatchInOrder
<1>4. ASSUME NEW w \in Worker, CommitClaim(w) PROVE QueueInOrder'
  <2>1. /\ \A i \in Item \ locked[w] : box'[i] = box[i]
        /\ \A i \in locked[w] : box'[i].status = "processing" /\ box'[i].attempts = box[i].attempts
        /\ locked'[w] = {}
        /\ batch'[w] = {[id |-> i, attempts |-> box[i].attempts] : i \in locked[w]}
        /\ locked[w] \subseteq Item
    BY <1>0, <1>4 DEF CommitClaim, BoxTypeOK, BoxRow
  <2>2. \A i \in locked[w] : box[i].status = "pending"
    BY DEF ClaimsAgree
  <2>3. UntriedIsDue'
    BY <2>1 DEF QueueInOrder, UntriedIsDue
  <2>4. RowsInOrder'
    <3> SUFFICES ASSUME NEW i \in Item, NEW k \in Item, i < k
                 PROVE  /\ box'[i].status = "absent" => box'[k].status = "absent"
                        /\ box'[i].status = "pending" /\ box'[i].attempts = 0 => Untried(k)'
      BY DEF RowsInOrder
    <3>1. /\ box[i].status = "absent" => box[k].status = "absent"
          /\ box[i].status = "pending" /\ box[i].attempts = 0 => Untried(k)
      BY DEF QueueInOrder, RowsInOrder
    <3>2. k \in locked[w] /\ box[i].status = "pending" /\ box[i].attempts = 0 => i \in locked[w]
      BY DEF QueueInOrder, LocksInOrder
    <3> QED
      BY <2>1, <2>2, <3>1, <3>2
  <2>5. LocksInOrder'
    BY <1>0, <2>1 DEF LocksInOrder
  <2>6. BatchInOrder'
    <3> SUFFICES ASSUME NEW i \in locked[w], box[i].attempts = 0, NEW k \in Item, i < k
                 PROVE  Untried(k)' \/ \E d \in batch'[w] : d.id = k /\ d.attempts = 0
      BY <1>0, <2>1 DEF BatchInOrder
    <3>1. Untried(k)
      BY <2>1, <2>2 DEF QueueInOrder, RowsInOrder
    <3>2. CASE k \in locked[w]
      <4>1. [id |-> k, attempts |-> box[k].attempts] \in batch'[w]
        BY <2>1, <3>2
      <4> QED
        BY <3>1, <4>1
    <3> QED
      BY <2>1, <3>1, <3>2
  <2> QED
    BY <2>3, <2>4, <2>5, <2>6 DEF QueueInOrder
<1>5. ASSUME NEW w \in Worker, ClaimFails(w) \/ CrashWorker(w) PROVE QueueInOrder'
  <2>1. box' = box /\ locked'[w] = {} /\ (batch'[w] = {} \/ batch' = batch)
    BY <1>5 DEF ClaimFails, CrashWorker, BoxTypeOK
  <2>2. UntriedIsDue' /\ RowsInOrder' /\ LocksInOrder'
    BY <1>0, <2>1 DEF QueueInOrder, UntriedIsDue, RowsInOrder, LocksInOrder
  <2>3. CASE batch' = batch
    BY <2>1, <2>2, <2>3 DEF QueueInOrder, BatchInOrder
  <2>4. CASE batch'[w] = {}
    BY <1>0, <2>2, <2>4 DEF QueueInOrder, BatchInOrder
  <2> QED
    BY <2>1, <2>2, <2>3, <2>4 DEF QueueInOrder
<1>6. ASSUME NEW w \in Worker, NEW c \in batch[w], MarkDone(w, c) \/ MarkRetryOrFailed(w, c)
      PROVE  QueueInOrder'
  <2>1. /\ Current(w, c) /\ c.id \in Item /\ c \in Claim /\ c.attempts = box[c.id].attempts
        /\ box[c.id].status = "processing"
        /\ locked' = locked /\ batch' = [batch EXCEPT ![w] = batch[w] \ {c}]
        /\ \A i \in Item : i # c.id => box'[i] = box[i]
        /\ \/ box' = box
           \/ /\ box'[c.id].status \in {"done", "failed"}
              /\ box'[c.id].attempts = box[c.id].attempts
           \/ /\ box'[c.id].status = "pending"
              /\ box'[c.id].attempts = box[c.id].attempts + 1
    BY <1>6, MarkEffect
  <2>2. box[c.id].attempts \in Nat /\ box[c.id].attempts + 1 # 0
    BY <1>0, <2>1 DEF BoxRow
  <2>3. locked[w] = {} /\ batch'[w] = batch[w] \ {c}
    BY <2>1 DEF ClaimsAgree, BoxTypeOK
  <2>4. \/ box'[c.id] = box[c.id]
        \/ /\ box'[c.id].status # "absent"
           /\ ~(box'[c.id].status = "pending" /\ box'[c.id].attempts = 0)
    BY <2>1, <2>2
  <2>5. UntriedIsDue'
    BY <2>1, <2>4 DEF QueueInOrder, UntriedIsDue
  <2>6. RowsInOrder'
    <3> SUFFICES ASSUME NEW i \in Item, NEW k \in Item, i < k
                 PROVE  /\ box'[i].status = "absent" => box'[k].status = "absent"
                        /\ box'[i].status = "pending" /\ box'[i].attempts = 0 => Untried(k)'
      BY DEF RowsInOrder
    <3>1. /\ box[i].status = "absent" => box[k].status = "absent"
          /\ box[i].status = "pending" /\ box[i].attempts = 0 => Untried(k)
      BY DEF QueueInOrder, RowsInOrder
    <3> QED
      BY <2>1, <2>4, <3>1
  <2>7. LocksInOrder'
    BY <1>0, <2>1, <2>3 DEF LocksInOrder
  <2>8. BatchInOrder'
    <3> SUFFICES ASSUME NEW b \in batch[w], b # c, b.attempts = 0, NEW k \in Item, b.id < k
                 PROVE  Untried(k)' \/ \E d \in batch[w] \ {c} : d.id = k /\ d.attempts = 0
      BY <1>0, <2>3 DEF BatchInOrder
    <3>1. c.id <= b.id /\ b.id \in Nat /\ c.id \in Nat /\ k \in Nat
      BY <1>0, <2>1 DEF Current
    <3>2. k # c.id
      BY <3>1
    <3>3. Untried(k) \/ \E d \in batch[w] : d.id = k /\ d.attempts = 0
      BY DEF QueueInOrder, BatchInOrder
    <3> QED
      BY <2>1, <3>2, <3>3
  <2> QED
    BY <2>5, <2>6, <2>7, <2>8 DEF QueueInOrder
<1>7. CASE BoxTick
  <2>1. /\ locked' = locked /\ batch' = batch
        /\ \A i \in Item : /\ box'[i].status = box[i].status /\ box'[i].attempts = box[i].attempts
                           /\ box[i].wait = 0 => box'[i].wait = 0
    BY <1>0, <1>7 DEF BoxTick, Waiting, BoxRow
  <2> QED
    BY <2>1 DEF QueueInOrder, UntriedIsDue, RowsInOrder, LocksInOrder, BatchInOrder
<1> QED
  BY <1>1, <1>2, <1>3, <1>4, <1>5, <1>6, <1>7 DEF BoxNext, Claiming, Marking

(* The steps that do not touch tasks, hooks or jobs.                       *)
LEMMA NoRequest ==
  ASSUME [ExportNext]_exportVars, ~ \E c \in Client : Request(c)
  PROVE  tasks' = tasks /\ hook' = hook /\ job' = job
<1>1. ASSUME NEW w \in Worker, ClaimBatch(w) \/ ProcessItem(w) \/ Crash(w)
      PROVE  tasks' = tasks /\ hook' = hook /\ job' = job
  BY <1>1
  DEF ClaimBatch, Crash, ProcessItem, UpsertReadTask, UpsertReadLink, UpsertCallGoogle,
      UpsertWriteLink, DeleteReadLink, DeleteCallGoogle, DeleteWriteLink, FinishItem, clientVars
<1> QED
  BY <1>1 DEF ExportNext, TimePasses, clientVars, exportVars

(* What a request does to its task; the hook of another request was not    *)
(* to see the task move.                                                   *)
LEMMA ChangeEffect ==
  ASSUME ExportTypeOK, ~ Overlap, NEW c \in Client, NEW t \in TaskId,
         \/ UpdateTask(c, t) \/ DeleteTask(c, t)
         \/ \E S \in SUBSET Binding : CreateTask(c, t, S) \/ MoveTask(c, t, S)
  PROVE  /\ hook[c].at = "idle" /\ hook'[c].at = "task" /\ hook'[c].task = t
         /\ hook'[c].gone = (tasks'[t].db = "gone")
         /\ \A d \in Client : d # c => hook'[d] = hook[d]
         /\ \A u \in TaskId : u # t => tasks'[u] = tasks[u]
         /\ tasks'[t].db # "absent"
         /\ tasks[t].db # "gone"
         /\ \/ tasks[t].db = "absent"
            \/ tasks'[t].db = "gone"
            \/ tasks'[t].scope = tasks[t].scope
            \/ \A d \in Client : hook[d].task # t
<1>0. tasks[t] \in TaskRow /\ tasks \in [TaskId -> TaskRow] /\ hook \in [Client -> Hook]
  BY DEF ExportTypeOK
<1> DEFINE Effect(row) ==
      /\ tasks' = [tasks EXCEPT ![t] = row]
      /\ hook[c].at = "idle"
      /\ hook' = [hook EXCEPT ![c] = [NoHook EXCEPT !.at = "task", !.task = t,
                                                    !.gone = (row.db = "gone")]]
      /\ row.db # "absent" /\ tasks[t].db # "gone"
      /\ \/ tasks[t].db = "absent"
         \/ row.db = "gone"
         \/ row.scope = tasks[t].scope
         \/ \A d \in Client : hook[d].task # t
<1>1. ASSUME UpdateTask(c, t) PROVE \E row : Effect(row)
  <2> DEFINE row == [tasks[t] EXCEPT !.ver = @ + 1]
  <2>1. row.db = tasks[t].db /\ row.scope = tasks[t].scope
    BY <1>0 DEF TaskRow
  <2>2. tasks[t].db = "live" /\ Change(c, t, row)
    BY <1>1 DEF UpdateTask
  <2> HIDE DEF row
  <2>3. Effect(row)
    BY <2>1, <2>2 DEF Change
  <2> QED
    BY <2>3
<1>2. ASSUME DeleteTask(c, t) PROVE \E row : Effect(row)
  <2> DEFINE row == [tasks[t] EXCEPT !.db = "gone"]
  <2>1. row.db = "gone"
    BY <1>0 DEF TaskRow
  <2>2. tasks[t].db = "live" /\ Change(c, t, row)
    BY <1>2 DEF DeleteTask
  <2> HIDE DEF row
  <2>3. Effect(row)
    BY <2>1, <2>2 DEF Change
  <2> QED
    BY <2>3
<1>3. ASSUME NEW S \in SUBSET Binding, CreateTask(c, t, S) PROVE \E row : Effect(row)
  <2> DEFINE row == [db |-> "live", scope |-> S, ver |-> 1]
  <2>1. row.db = "live"
    OBVIOUS
  <2>2. tasks[t].db = "absent" /\ Change(c, t, row)
    BY <1>3 DEF CreateTask
  <2> HIDE DEF row
  <2>3. Effect(row)
    BY <2>1, <2>2 DEF Change
  <2> QED
    BY <2>3
<1>4. ASSUME NEW S \in SUBSET Binding, MoveTask(c, t, S) PROVE \E row : Effect(row)
  <2> DEFINE row == [tasks[t] EXCEPT !.scope = S]
  <2>1. row.db = tasks[t].db
    BY <1>0 DEF TaskRow
  <2>2. /\ tasks[t].db = "live" /\ \A d \in Client : hook[d].task # t
        /\ Change(c, t, row)
    BY <1>4 DEF MoveTask
  <2> HIDE DEF row
  <2>3. Effect(row)
    BY <2>1, <2>2 DEF Change
  <2> QED
    BY <2>3
<1>5. PICK row : Effect(row)
  BY <1>1, <1>2, <1>3, <1>4
<1>6. hook'[c] = [NoHook EXCEPT !.at = "task", !.task = t, !.gone = (row.db = "gone")]
  BY <1>0, <1>5
<1>7. hook'[c].at = "task" /\ hook'[c].task = t /\ hook'[c].gone = (row.db = "gone")
  BY <1>6 DEF NoHook
<1>8. tasks'[t] = row
  BY <1>0, <1>5
<1> QED
  BY <1>0, <1>5, <1>7, <1>8

LEMMA HookFitsStep ==
  ASSUME CarefulExporter, BoxTypeOK, ExportTypeOK, HookFits, [ExportNext]_exportVars
  PROVE  HookFits'
<1> DEFINE Fits(h, row) ==
      h.at # "idle" =>
        /\ row.db # "absent"
        /\ h.gone => row.db = "gone"
        /\ h.at \in {"link", "send"} /\ row.db = "live" => h.scope = row.scope
        /\ h.at = "send" => \A j \in h.jobs :
             j.task = h.task /\ (j.kind = "export_delete" => h.gone \/ h.scope = {})
<1>1. \A c \in Client : Fits(hook[c], tasks[hook[c].task])
  BY DEF HookFits
<1>2. ASSUME \A c \in Client : Fits(hook'[c], tasks'[hook'[c].task]) PROVE HookFits'
  BY <1>2 DEF HookFits
<1>3. CASE ~ \E c \in Client : Request(c)
  <2>1. tasks' = tasks /\ hook' = hook
    BY <1>3, NoRequest
  <2> QED
    BY <1>1, <1>2, <2>1
<1>0. /\ ~ Overlap /\ hook \in [Client -> Hook]
      /\ \A c \in Client : hook[c] \in Hook /\ (hook[c].at # "idle" => hook[c].task \in TaskId)
  BY DEF CarefulExporter, ExportTypeOK, Hook
<1>4. ASSUME NEW c \in Client, NEW t \in TaskId,
             \/ UpdateTask(c, t) \/ DeleteTask(c, t)
             \/ \E S \in SUBSET Binding : CreateTask(c, t, S) \/ MoveTask(c, t, S)
      PROVE  HookFits'
  <2>1. /\ hook'[c].at = "task" /\ hook'[c].task = t
        /\ hook'[c].gone = (tasks'[t].db = "gone")
        /\ \A d \in Client : d # c => hook'[d] = hook[d]
        /\ \A u \in TaskId : u # t => tasks'[u] = tasks[u]
        /\ tasks'[t].db # "absent"
        /\ tasks[t].db # "gone"
        /\ \/ tasks[t].db = "absent"
           \/ tasks'[t].db = "gone"
           \/ tasks'[t].scope = tasks[t].scope
           \/ \A d \in Client : hook[d].task # t
    BY <1>0, <1>4, ChangeEffect
  <2>2. Fits(hook'[c], tasks'[hook'[c].task])
    BY <2>1
  <2>3. ASSUME NEW d \in Client, d # c PROVE Fits(hook'[d], tasks'[hook'[d].task])
    <3>1. hook'[d] = hook[d] /\ Fits(hook[d], tasks[hook[d].task])
      BY <1>1, <2>1, <2>3
    <3>2. CASE hook[d].at = "idle" \/ hook[d].task # t
      BY <1>0, <2>1, <3>1, <3>2
    <3>3. CASE hook[d].at # "idle" /\ hook[d].task = t
      <4>1. tasks[t].db = "live"
        BY <2>1, <3>1, <3>3 DEF ExportTypeOK, TaskRow
      <4> QED
        BY <2>1, <3>1, <3>3, <4>1
    <3> QED
      BY <3>2, <3>3
  <2> QED
    BY <1>2, <2>2, <2>3
<1>5. NoHook.at = "idle"
  BY DEF NoHook
<1>6. ASSUME NEW c \in Client, NEW h, Fits(h, tasks[h.task]), tasks' = tasks,
             hook' = [hook EXCEPT ![c] = h]
      PROVE  HookFits'
  BY <1>0, <1>1, <1>2, <1>6
<1>7. ASSUME NEW c \in Client, HookReadTask(c) PROVE HookFits'
  <2> DEFINE h == [hook[c] EXCEPT !.at = "link", !.scope = tasks[hook[c].task].scope]
  <2>1. /\ tasks' = tasks /\ hook[c].at = "task"
        /\ hook' = [hook EXCEPT ![c] = NoHook] \/ hook' = [hook EXCEPT ![c] = h]
    BY <1>7 DEF HookReadTask
  <2>2. /\ h.at = "link" /\ h.task = hook[c].task /\ h.gone = hook[c].gone
        /\ h.scope = tasks[hook[c].task].scope
    BY <1>0 DEF Hook
  <2> HIDE DEF h
  <2>3. Fits(h, tasks[h.task])
    BY <1>1, <2>1, <2>2
  <2> QED
    BY <1>5, <1>6, <2>1, <2>3
<1>8. ASSUME NEW c \in Client, HookReadLink(c) PROVE HookFits'
  <2> DEFINE t == hook[c].task
             S == hook[c].scope
             jobs == ExportsOf(t, hook[c].gone, S)
             h == [hook[c] EXCEPT !.at = "send", !.jobs = jobs]
  <2>1. /\ tasks' = tasks /\ hook[c].at = "link"
        /\ hook' = [hook EXCEPT ![c] = NoHook] \/ hook' = [hook EXCEPT ![c] = h]
    BY <1>8 DEF HookReadLink
  <2>2. \A j \in jobs : j.task = t /\ (j.kind = "export_delete" => hook[c].gone \/ S = {})
    <3> DEFINE linked == {links[l].binding : l \in LinksOf(t) \cap {GetByTaskID(t)}}
               left == IF hook[c].gone THEN linked ELSE linked \ S
               kept == IF hook[c].gone THEN {} ELSE S \cup linked
    <3>1. linked \subseteq Binding /\ S \subseteq Binding
      <4>1. \A l \in LinksOf(t) \cap {GetByTaskID(t)} : links[l].binding \in Binding
        BY NewestLink DEF ExportTypeOK, Link
      <4> QED
        BY <1>0, <4>1 DEF Hook
    <3>2. jobs = Jobs("export_upsert", t, kept \ left) \cup Jobs("export_delete", t, left)
      BY DEF ExportsOf
    <3>3. \A a, b \in Binding : a = b
      BY DEF CarefulExporter, OneExporter
    <3> HIDE DEF linked, jobs
    <3>4. left # {} => hook[c].gone \/ S = {}
      BY <3>1, <3>3
    <3> HIDE DEF left, kept
    <3>5. \A j \in Jobs("export_upsert", t, kept \ left) : j.task = t /\ j.kind = "export_upsert"
      BY DEF Jobs
    <3>6. \A j \in Jobs("export_delete", t, left) : j.task = t /\ left # {}
      BY DEF Jobs
    <3> QED
      BY <3>2, <3>4, <3>5, <3>6
  <2> HIDE DEF jobs
  <2>3. /\ h.at = "send" /\ h.task = t /\ h.gone = hook[c].gone /\ h.scope = S /\ h.jobs = jobs
    BY <1>0 DEF Hook
  <2> HIDE DEF h
  <2>4. Fits(h, tasks[h.task])
    BY <1>1, <2>1, <2>2, <2>3
  <2> QED
    BY <1>5, <1>6, <2>1, <2>4
<1>9. ASSUME NEW c \in Client, HookEnqueue(c) PROVE HookFits'
  <2>1. /\ tasks' = tasks /\ hook[c].at = "send"
        /\ \/ hook' = [hook EXCEPT ![c] = NoHook]
           \/ \E j : hook' = [hook EXCEPT ![c] = [hook[c] EXCEPT !.jobs = hook[c].jobs \ {j}]]
    BY <1>9 DEF HookEnqueue
  <2>2. CASE hook' = [hook EXCEPT ![c] = NoHook]
    BY <1>5, <1>6, <2>1, <2>2
  <2>3. ASSUME NEW j, hook' = [hook EXCEPT ![c] = [hook[c] EXCEPT !.jobs = hook[c].jobs \ {j}]]
        PROVE  HookFits'
    <3> DEFINE h == [hook[c] EXCEPT !.jobs = hook[c].jobs \ {j}]
    <3>1. /\ h.at = "send" /\ h.task = hook[c].task /\ h.gone = hook[c].gone
          /\ h.scope = hook[c].scope /\ h.jobs \subseteq hook[c].jobs
      BY <1>0, <2>1 DEF Hook
    <3>2. hook' = [hook EXCEPT ![c] = h]
      BY <2>3
    <3> HIDE DEF h
    <3>3. Fits(h, tasks[h.task])
      BY <1>1, <2>1, <3>1
    <3> QED
      BY <1>6, <2>1, <3>2, <3>3
  <2> QED
    BY <2>1, <2>2, <2>3
<1> QED
  BY <1>3, <1>4, <1>7, <1>8, <1>9 DEF Request

(* Attempts are not taken back, and what was given up stays so.            *)
LEMMA AttemptsStay ==
  ASSUME BoxTypeOK, ClaimsAgree, [BoxNext]_boxVars, NEW i \in Item, box[i].status # "absent"
  PROVE  /\ box[i].attempts > 0 => box'[i].attempts > 0
         /\ box[i].status \in {"done", "failed"} => box'[i].status = box[i].status
<1> DEFINE G == /\ box[i].attempts > 0 => box'[i].attempts > 0
                /\ box[i].status \in {"done", "failed"} => box'[i].status = box[i].status
<1>0. box[i] \in BoxRow /\ box \in [Item -> BoxRow]
  BY DEF BoxTypeOK
<1>1. box' = box => G
  OBVIOUS
<1>2. ASSUME NEW k \in Item, Enqueue(k) PROVE G
  BY <1>0, <1>2 DEF Enqueue
<1>3. ASSUME NEW w \in Worker, SelectDue(w) \/ ClaimFails(w) \/ CrashWorker(w) PROVE G
  BY <1>1, <1>3 DEF SelectDue, ClaimFails, CrashWorker
<1>4. ASSUME NEW w \in Worker, CommitClaim(w) PROVE G
  <2>1. i \in locked[w] => box[i].status = "pending"
    BY DEF ClaimsAgree
  <2>2. \/ box'[i] = box[i]
        \/ i \in locked[w] /\ box'[i].attempts = box[i].attempts
    BY <1>0, <1>4 DEF CommitClaim, BoxRow
  <2> QED
    BY <2>1, <2>2
<1>5. ASSUME NEW w \in Worker, NEW c \in batch[w], MarkDone(w, c) \/ MarkRetryOrFailed(w, c)
      PROVE  G
  <2>1. /\ c.id \in Item /\ box[c.id].status = "processing"
        /\ \A k \in Item : k # c.id => box'[k] = box[k]
        /\ \/ box' = box
           \/ box'[c.id].attempts = box[c.id].attempts
           \/ box'[c.id].attempts = box[c.id].attempts + 1
    BY <1>5, MarkEffect
  <2>2. box[c.id].attempts \in Nat
    BY <2>1 DEF BoxTypeOK, BoxRow
  <2>3. CASE i = c.id
    BY <2>1, <2>2, <2>3
  <2>4. CASE i # c.id
    BY <2>1, <2>4
  <2> QED
    BY <2>3, <2>4
<1>6. CASE BoxTick
  BY <1>0, <1>6 DEF BoxTick, BoxRow
<1>7. UNCHANGED boxVars => box' = box
  BY DEF boxVars
<1> QED
  BY <1>1, <1>2, <1>3, <1>4, <1>5, <1>6, <1>7 DEF BoxNext, Claiming, Marking

LEMMA ExceptionalStays ==
  ASSUME BoxTypeOK, ExportTypeOK, ClaimsAgree, [ExportNext]_exportVars,
         NEW t, Exceptional(t)
  PROVE  Exceptional(t)'
<1>1. PICK i \in ItemsOf(t) : \/ box[i].status = "failed"
                              \/ Stranded(i)
                              \/ job[i].kind = "export_delete" /\ box[i].attempts > 0
  BY DEF Exceptional
<1>2. i \in Item /\ box[i].status # "absent" /\ job[i].task = t
  BY DEF ItemsOf
<1>3. job'[i] = job[i] /\ box'[i].status # "absent"
  BY <1>2, JobsStay
<1>4. [BoxNext]_boxVars
  BY ExportStepIsBoxStep DEF exportVars, boxVars
<1>5. CASE Stranded(i)
  <2>1. Stranded(i)'
    BY <1>2, <1>4, <1>5, StrandedStays
  <2> QED
    BY <1>2, <1>3, <2>1 DEF Exceptional, ItemsOf
<1>6. CASE ~ Stranded(i)
  <2>1. /\ box[i].attempts > 0 => box'[i].attempts > 0
        /\ box[i].status \in {"done", "failed"} => box'[i].status = box[i].status
    BY <1>2, <1>4, AttemptsStay
  <2> QED
    BY <1>1, <1>2, <1>3, <1>6, <2>1 DEF Exceptional, ItemsOf
<1> QED
  BY <1>5, <1>6

(* What a scheduler leaves when it dies is exceptional.                    *)
LEMMA CrashIsExceptional ==
  ASSUME OneExporter, BoxTypeOK, ExportTypeOK, ClaimsAgree, NEW w \in Worker, Crash(w),
         NEW c \in batch[w]
  PROVE  Exceptional(job[c.id].task)'
<1>1. PICK t : t = job[c.id].task
  OBVIOUS
<1>2. /\ job' = job /\ box' = box /\ batch' = [batch EXCEPT ![w] = {}]
  BY DEF Crash, CrashWorker
<1>3. c.id \in Item /\ box[c.id].status = "processing"
  BY DEF BoxTypeOK, Claim, ClaimsAgree
<1>4. \A v \in Worker : batch'[v] = {}
  BY <1>2 DEF OneExporter, BoxTypeOK
<1>5. Exceptional(t)'
  BY <1>1, <1>2, <1>3, <1>4 DEF Exceptional, ItemsOf, Stranded
<1> QED
  BY <1>1, <1>2, <1>5 DEF Exceptional, ItemsOf, Stranded

(* A deletion that failed is tried again late, or not at all.              *)
LEMMA FailedDeletionIsExceptional ==
  ASSUME OneExporter, BoxTypeOK, ExportTypeOK, ClaimsAgree, NEW w \in Worker, NEW c \in batch[w],
         Deleting(w, c), work[w].at = "error", FinishItem(w, c)
  PROVE  Exceptional(job[c.id].task)'
<1>1. PICK t : t = job[c.id].task
  OBVIOUS
<1>2. job' = job /\ batch' = [batch EXCEPT ![w] = @ \ {c}] /\ MarkRetryOrFailed(w, c)
  BY DEF FinishItem, MarkRetryOrFailed, Mark
<1>3. /\ c \in Claim /\ c.id \in Item /\ c.attempts \in Nat /\ box[c.id].status = "processing"
      /\ box \in [Item -> BoxRow]
  BY DEF BoxTypeOK, Claim, ClaimsAgree
<1>4. /\ job'[c.id].task = t /\ job'[c.id].kind = "export_delete"
  BY <1>1, <1>2 DEF Deleting
<1>5. CASE box' = box
  <2>1. \A v \in Worker : \A d \in batch'[v] : d.id # c.id
    <3>1. \A d \in batch[w] : d.id = c.id => d = c
      BY DEF BoxTypeOK, Claim, ClaimsAgree
    <3>2. \A v \in Worker : v = w
      BY DEF OneExporter
    <3> QED
      BY <1>2, <3>1, <3>2 DEF BoxTypeOK
  <2> QED
    BY <1>3, <1>4, <1>5, <2>1 DEF Exceptional, ItemsOf, Stranded
<1>6. CASE box' = [box EXCEPT ![c.id] = [box[c.id] EXCEPT !.status = "failed"]]
  <2>1. box'[c.id].status = "failed"
    BY <1>3, <1>6 DEF BoxRow
  <2> QED
    BY <1>3, <1>4, <2>1 DEF Exceptional, ItemsOf
<1>7. CASE box' = [box EXCEPT ![c.id] = [status |-> "pending", attempts |-> c.attempts + 1,
                                         wait |-> OutboxBackoff(c.attempts + 1)]]
  <2>1. box'[c.id].status = "pending" /\ box'[c.id].attempts > 0
    BY <1>3, <1>7
  <2> QED
    BY <1>3, <1>4, <2>1 DEF Exceptional, ItemsOf
<1> QED
  BY <1>2, <1>5, <1>6, <1>7 DEF MarkRetryOrFailed, Mark

(* The steps of a scheduler that touch links or events.                    *)
LEMMA LinkedEventLivesStep ==
  ASSUME OneExporter, BoxTypeOK, ExportTypeOK, ClaimsAgree, OneInv, LinkedEventLives,
         [ExportNext]_exportVars
  PROVE  LinkedEventLives'
<1>1. ASSUME NEW l \in DOMAIN links, links[l].live
      PROVE  events[links[l].event].live \/ Exceptional(links[l].task) \/ DeletionUnderWay(l)
  BY <1>1 DEF LinkedEventLives
<1>2. ASSUME NEW l \in DOMAIN links, links' = links, Exceptional(links[l].task)
      PROVE  Exceptional(links[l].task)'
  <2>1. PICK t : t = links[l].task
    OBVIOUS
  <2>2. Exceptional(t)'
    BY <1>2, <2>1, ExceptionalStays
  <2> QED
    BY <1>2, <2>1, <2>2 DEF Exceptional, ItemsOf, Stranded
<1>3. ASSUME links' = links, events' = events,
             \A l \in DOMAIN links : links[l].live /\ DeletionUnderWay(l)
                => DeletionUnderWay(l)' \/ Exceptional(links[l].task)'
      PROVE  LinkedEventLives'
  BY <1>1, <1>2, <1>3 DEF LinkedEventLives
<1>4. CASE \A w \in Worker : ~ \E c \in batch[w] :
             \/ UpsertReadTask(w, c) \/ UpsertReadLink(w, c)
             \/ UpsertCallGoogle(w, c) \/ UpsertWriteLink(w, c)
             \/ DeleteReadLink(w, c) \/ DeleteCallGoogle(w, c) \/ DeleteWriteLink(w, c)
  <2>1. links' = links /\ events' = events
    BY <1>4
    DEF ExportNext, Request, UpdateTask, DeleteTask, CreateTask, MoveTask, Change, HookReadTask,
        HookReadLink, HookEnqueue, ClaimBatch, ProcessItem, FinishItem, Crash, TimePasses,
        workVars, exportVars
  <2>2. ASSUME NEW l \in DOMAIN links, links[l].live, DeletionUnderWay(l)
        PROVE  DeletionUnderWay(l)' \/ Exceptional(links[l].task)'
    <3>1. PICK w \in Worker : \E c \in batch[w] :
            /\ Deleting(w, c)
            /\ \/ work[w].at = "write" /\ work[w].link = l
               \/ work[w].at = "error" /\ job[c.id].task = links[l].task
      BY <2>2 DEF DeletionUnderWay
    <3>2. PICK c \in batch[w] :
            /\ Deleting(w, c)
            /\ \/ work[w].at = "write" /\ work[w].link = l
               \/ work[w].at = "error" /\ job[c.id].task = links[l].task
      BY <3>1
    <3>3. links[l].task = job[c.id].task
      BY <3>2 DEF OneInv, DeleteKnows, LinksOf
    <3>4. c.id \in Item /\ job'[c.id] = job[c.id]
      BY JobsInHand
    <3>5. CASE work' = work /\ batch' = batch
      BY <2>1, <3>2, <3>4, <3>5 DEF DeletionUnderWay, Deleting, Current
    <3>6. CASE Crash(w) \/ FinishItem(w, c)
      <4>1. PICK t : t = job[c.id].task
        OBVIOUS
      <4>2. Exceptional(job[c.id].task)'
        <5>1. FinishItem(w, c) => work[w].at = "error"
          BY <3>2 DEF FinishItem
        <5> QED
          BY <3>2, <3>6, <5>1, CrashIsExceptional, FailedDeletionIsExceptional
      <4>3. Exceptional(t)'
        BY <3>4, <4>1, <4>2 DEF Exceptional, ItemsOf, Stranded
      <4> QED
        BY <2>1, <3>3, <4>1, <4>3 DEF Exceptional, ItemsOf, Stranded
    <3>7. ASSUME NEW d \in Client, Request(d) PROVE work' = work /\ batch' = batch
      BY <3>7
      DEF Request, UpdateTask, DeleteTask, CreateTask, MoveTask, Change, HookReadTask,
          HookReadLink, HookEnqueue, Enqueue, workVars, boxVars
    <3>8. \A v \in Worker : v = w
      BY DEF OneExporter
    <3>9. ASSUME ClaimBatch(w) PROVE work' = work /\ batch' = batch
      BY <3>9
      DEF ClaimBatch, Claiming, SelectDue, ClaimFails, CommitClaim, ClaimsAgree, workVars
    <3>10. ProcessItem(w) => FinishItem(w, c)
      <4>1. ProcessItem(w) => \E d \in batch[w] : FinishItem(w, d)
        BY <1>4 DEF ProcessItem
      <4>2. ASSUME NEW d \in batch[w], FinishItem(w, d) PROVE d = c
        <5>1. Current(w, d)
          BY <4>2 DEF FinishItem, MarkDone, MarkRetryOrFailed
        <5>2. Current(w, c)
          BY <3>2 DEF Deleting
        <5> QED
          BY <5>1, <5>2, OneCurrent
      <4> QED
        BY <4>1, <4>2
    <3>11. TimePasses \/ UNCHANGED exportVars => work' = work /\ batch' = batch
      BY DEF TimePasses, BoxTick, workVars, exportVars
    <3> QED
      BY <3>5, <3>6, <3>7, <3>8, <3>9, <3>10, <3>11 DEF ExportNext
  <2> QED
    BY <1>3, <2>1, <2>2
<1>5. ASSUME NEW w \in Worker, NEW c \in batch[w],
             UpsertReadTask(w, c) \/ UpsertReadLink(w, c) \/ DeleteReadLink(w, c)
      PROVE  LinkedEventLives'
  <2>1. /\ Current(w, c) /\ UNCHANGED boxVars /\ UNCHANGED job /\ links' = links
        /\ events' = events /\ work[w].at \notin {"write", "error"}
    BY <1>5 DEF UpsertReadTask, UpsertReadLink, DeleteReadLink, Upserting, Deleting
  <2>2. \A l : ~ DeletionUnderWay(l)
    BY <2>1 DEF OneExporter, DeletionUnderWay
  <2> QED
    BY <1>3, <2>1, <2>2
<1>6. ASSUME NEW w \in Worker, NEW c \in batch[w], UpsertCallGoogle(w, c)
      PROVE  LinkedEventLives'
  <2>1. /\ Current(w, c) /\ links' = links /\ work[w].at = "google"
        /\ events \in Seq(Event) /\ links \in Seq(Link)
    BY <1>6 DEF UpsertCallGoogle, Upserting, ExportTypeOK
  <2>2. \A l : ~ DeletionUnderWay(l)
    BY <2>1 DEF OneExporter, DeletionUnderWay
  <2>3. /\ DOMAIN events = 1..Len(events) /\ Len(events) \in Nat
    BY <2>1, LenProperties
  <2>4. \A x \in DOMAIN events : events[x].live => events'[x].live
    <3> DEFINE e == work[w].event
               created == [live |-> TRUE, task |-> job[c.id].task,
                           binding |-> job[c.id].binding, ver |-> work[w].ver]
    <3>1. \/ events' = events
          \/ events' = [events EXCEPT ![e].ver = work[w].ver]
          \/ events' = Append(events, created)
      BY <1>6 DEF UpsertCallGoogle
    <3>2. \A x \in DOMAIN events : events[x] \in Event
      BY <2>1, LenProperties, ElementOfSeq
    <3>3. CASE events' = [events EXCEPT ![e].ver = work[w].ver]
      BY <3>2, <3>3 DEF Event
    <3>4. CASE events' = Append(events, created)
      <4> HIDE DEF created
      <4>1. \A x \in 1..Len(events) : events'[x] = events[x]
        <5>1. created \in Event
          <6>1. c.id \in Item /\ work[w] \in Work
            BY DEF BoxTypeOK, Claim, ExportTypeOK
          <6>2. job[c.id] \in Job /\ job[c.id].kind = "export_upsert"
            BY <1>6, <6>1 DEF UpsertCallGoogle, Upserting, ExportTypeOK, NoJob
          <6>3. /\ job[c.id].task \in TaskId /\ job[c.id].binding \in Binding
                /\ work[w].ver \in Nat
            BY <6>1, <6>2 DEF Job, Work
          <6> QED
            BY <6>3 DEF created, Event
        <5> QED
          BY <2>1, <3>4, <5>1, AppendProperties
      <4> QED
        BY <2>3, <4>1
    <3> QED
      BY <3>1, <3>3, <3>4
  <2>5. ASSUME NEW l \in DOMAIN links, links[l].live
        PROVE  events'[links[l].event].live \/ Exceptional(links[l].task)'
    <3>1. links[l].event \in DOMAIN events
      BY <2>5 DEF OneInv, LinkNamesEvent
    <3>2. events[links[l].event].live \/ Exceptional(links[l].task)
      BY <1>1, <2>2, <2>5
    <3> QED
      BY <1>2, <2>1, <2>4, <3>1, <3>2
  <2> QED
    BY <2>1, <2>5 DEF LinkedEventLives
<1>7. ASSUME NEW w \in Worker, NEW c \in batch[w], DeleteCallGoogle(w, c)
      PROVE  LinkedEventLives'
  <2> DEFINE e == work[w].event
  <2>1. /\ Deleting(w, c) /\ UNCHANGED boxVars /\ UNCHANGED job /\ links' = links
        /\ work[w].at = "google" /\ work[w] \in Work /\ work \in [Worker -> Work]
        /\ events \in Seq(Event)
    BY <1>7 DEF DeleteCallGoogle, ExportTypeOK
  <2>2. \A l : ~ DeletionUnderWay(l)
    BY <2>1 DEF OneExporter, DeletionUnderWay
  <2>3. work[w].link \in LinksOf(job[c.id].task) /\ e = links[work[w].link].event
    BY <2>1 DEF OneInv, DeleteKnows
  <2>4. PICK answer :
          /\ events' = IF answer = "call" THEN events ELSE [events EXCEPT ![e].live = FALSE]
          /\ Called(w, answer, e)
          /\ answer \in {"ok", "call", "lost"}
    BY <1>7 DEF DeleteCallGoogle, Answers
  <2>5. CASE answer = "call"
    BY <1>3, <2>1, <2>2, <2>4, <2>5
  <2>6. CASE answer # "call"
    <3>1. /\ \/ work'[w] = [work[w] EXCEPT !.at = "write", !.event = e]
             \/ work'[w] = [work[w] EXCEPT !.at = "error"]
          /\ events' = [events EXCEPT ![e].live = FALSE]
      BY <2>1, <2>4, <2>6 DEF Called, Goes
    <3>2. \/ work'[w].at = "write" /\ work'[w].link = work[w].link
          \/ work'[w].at = "error"
      BY <2>1, <3>1 DEF Work
    <3>5. links[work[w].link].task = job[c.id].task
      BY <2>3 DEF LinksOf
    <3>3. Deleting(w, c)' /\ c \in batch'[w]
      BY <2>1 DEF Deleting, Current, boxVars
    <3>4. ASSUME NEW l \in DOMAIN links, links[l].live
          PROVE  events'[links[l].event].live \/ Exceptional(links[l].task)' \/ DeletionUnderWay(l)'
      <4>1. CASE l = work[w].link
        BY <2>1, <3>2, <3>3, <3>5, <4>1 DEF DeletionUnderWay
      <4>2. CASE l # work[w].link
        <5>1. links[l].event # e
          BY <2>3, <3>4, <4>2 DEF LinksOf, OneInv, OneLink, LinkNamesEvent
        <5>2. links[l].event \in DOMAIN events
          BY <3>4 DEF OneInv, LinkNamesEvent
        <5>3. events'[links[l].event] = events[links[l].event]
          BY <3>1, <5>1, <5>2
        <5>4. events[links[l].event].live \/ Exceptional(links[l].task)
          BY <1>1, <2>2, <3>4
        <5> QED
          BY <1>2, <2>1, <5>3, <5>4
      <4> QED
        BY <4>1, <4>2
    <3> QED
      BY <2>1, <3>4 DEF LinkedEventLives
  <2> QED
    BY <2>4, <2>5, <2>6
<1>8. ASSUME NEW w \in Worker, NEW c \in batch[w], DeleteWriteLink(w, c)
      PROVE  LinkedEventLives'
  <2> DEFINE l == work[w].link
  <2>1. /\ Deleting(w, c) /\ work[w].at = "write" /\ events' = events
        /\ links' = [links EXCEPT ![l].live = FALSE] \/ links' = links
        /\ UNCHANGED boxVars /\ UNCHANGED job /\ links \in Seq(Link)
    BY <1>8 DEF DeleteWriteLink, ExportTypeOK
  <2>2. l \in DOMAIN links /\ links[l] \in Link
    <3>1. l \in DOMAIN links
      BY <2>1 DEF OneInv, DeleteKnows, LinksOf
    <3> QED
      BY <2>1, <3>1, LenProperties, ElementOfSeq
  <2>10. CASE links' = links /\ work'[w].at = "error"
    <3>1. Deleting(w, c)' /\ c \in batch'[w]
      BY <2>1 DEF Deleting, Current, boxVars
    <3>2. job[c.id].task = links[l].task
      BY <2>1 DEF OneInv, DeleteKnows, LinksOf
    <3>3. ASSUME NEW k \in DOMAIN links, DeletionUnderWay(k) PROVE links[k].task = links[l].task
      <4>1. PICK v \in Worker : \E d \in batch[v] :
              /\ Deleting(v, d)
              /\ \/ work[v].at = "write" /\ work[v].link = k
                 \/ work[v].at = "error" /\ job[d.id].task = links[k].task
        BY <3>3 DEF DeletionUnderWay
      <4>2. v = w
        BY DEF OneExporter
      <4> QED
        BY <2>1, <4>1, <4>2
    <3>4. ASSUME NEW k \in DOMAIN links, DeletionUnderWay(k) PROVE DeletionUnderWay(k)'
      BY <2>1, <2>10, <3>1, <3>2, <3>3, <3>4 DEF DeletionUnderWay
    <3> QED
      BY <1>3, <2>1, <2>10, <3>4
  <2>11. SUFFICES ASSUME LinksOf(job[c.id].task)' = {}
                  PROVE  LinkedEventLives'
    BY <1>8, <2>10, DeleteWrites
  <2>3. LinksOf(job[c.id].task)' = {}
    BY <2>11
  <2>4. /\ DOMAIN links' = DOMAIN links
        /\ \A k \in DOMAIN links : k # l => links'[k] = links[k]
        /\ links'[l].task = links[l].task
    BY <2>1, <2>2 DEF Link
  <2>5. l \in LinksOf(job[c.id].task)
    BY <2>1 DEF OneInv, DeleteKnows
  <2>6. ~ links'[l].live
    BY <2>1, <2>2, <2>3, <2>4, <2>5 DEF LinksOf
  <2>7. ASSUME NEW k \in DOMAIN links', links'[k].live
        PROVE  (events[links[k].event].live \/ Exceptional(links[k].task))'
    <3>1. k # l /\ k \in DOMAIN links /\ links'[k] = links[k] /\ links[k].live
      BY <2>4, <2>6, <2>7
    <3>2. ~ DeletionUnderWay(k)
      BY <2>1, <3>1 DEF OneExporter, DeletionUnderWay
    <3>3. events[links[k].event].live \/ Exceptional(links[k].task)
      BY <1>1, <3>1, <3>2
    <3>4. CASE events[links[k].event].live
      BY <2>1, <3>1, <3>4
    <3>5. CASE Exceptional(links[k].task)
      BY <2>1, <3>1, <3>5 DEF Exceptional, ItemsOf, Stranded, boxVars
    <3> QED
      BY <3>3, <3>4, <3>5
  <2> QED
    BY <2>7 DEF LinkedEventLives
<1>9. ASSUME NEW w \in Worker, NEW c \in batch[w], UpsertWriteLink(w, c)
      PROVE  LinkedEventLives'
  <2> DEFINE l == work[w].link
             e == work[w].event
             row == [live |-> TRUE, task |-> job[c.id].task,
                     binding |-> job[c.id].binding, event |-> e]
  <2>1. /\ Upserting(w, c) /\ work[w].at = "write" /\ events' = events
        /\ UNCHANGED boxVars /\ UNCHANGED job /\ links \in Seq(Link)
    BY <1>9 DEF UpsertWriteLink, ExportTypeOK
  <2>2. \A k : ~ DeletionUnderWay(k)
    <3> SUFFICES ASSUME NEW v \in Worker, NEW d \in batch[v], Deleting(v, d)
                 PROVE  FALSE
      BY DEF DeletionUnderWay
    <3>1. Current(w, c) /\ v = w /\ Current(w, d)
      BY <2>1 DEF Upserting, Deleting, OneExporter
    <3>2. d = c
      BY <3>1, OneCurrent
    <3> QED
      BY <2>1, <3>1, <3>2 DEF Upserting, Deleting
  <2>3. \/ l \in LinksOf(job[c.id].task) /\ e = links[l].event
        \/ l = 0 /\ LinksOf(job[c.id].task) = {} /\ events[e].live
    BY <2>1 DEF OneInv, UpsertKnows
  <2>4. \/ links' = links
        \/ links' = Append(links, row) /\ l = 0
        \/ links' = [links EXCEPT ![l] = row] /\ l # 0
    BY <1>9 DEF UpsertWriteLink
  <2>5. row \in Link
    <3>1. c.id \in Item /\ work[w] \in Work
      BY DEF BoxTypeOK, Claim, ExportTypeOK
    <3> QED
      BY <2>1, <3>1 DEF Upserting, ExportTypeOK, Job, NoJob, Link, Work
  <2>6. row.live /\ row.event = e /\ row.task = job[c.id].task
    OBVIOUS
  <2> HIDE DEF row
  <2>7. /\ DOMAIN links = 1..Len(links) /\ Len(links) \in Nat
    BY <2>1, LenProperties
  <2>8. \A k \in DOMAIN links' :
          \/ k \in DOMAIN links /\ links'[k] = links[k]
          \/ links'[k] = row /\ l = 0
          \/ links'[k] = row /\ l \in DOMAIN links /\ k = l
    <3>1. CASE links' = links
      BY <3>1
    <3>2. CASE links' = Append(links, row) /\ l = 0
      <4>1. /\ DOMAIN links' = 1..(Len(links) + 1)
            /\ \A k \in 1..Len(links) : links'[k] = links[k]
            /\ links'[Len(links) + 1] = row
        BY <2>1, <2>5, <3>2, AppendProperties, LenProperties
      <4>2. ASSUME NEW k \in DOMAIN links'
            PROVE  (k \in DOMAIN links /\ links'[k] = links[k]) \/ links'[k] = row
        <5>1. k \in 1..Len(links) \/ k = Len(links) + 1
          BY <2>7, <4>1
        <5> QED
          BY <2>7, <4>1, <5>1
      <4> QED
        BY <3>2, <4>2
    <3>3. CASE links' = [links EXCEPT ![l] = row] /\ l # 0
      BY <2>3, <3>3 DEF LinksOf
    <3> QED
      BY <2>4, <3>1, <3>2, <3>3
  <2>9. ASSUME NEW k \in DOMAIN links', links'[k].live
         PROVE  (events[links[k].event].live \/ Exceptional(links[k].task))'
    <3>1. CASE k \in DOMAIN links /\ links'[k] = links[k]
      BY <1>1, <2>1, <2>2, <2>9, <3>1, SMTT(30) DEF Exceptional, ItemsOf, Stranded, boxVars
    <3>2. CASE links'[k] = row /\ l = 0
      <4>1. events[e].live
        BY <2>3, <2>7, <3>2 DEF LinksOf
      <4> QED
        BY <2>1, <2>6, <3>2, <4>1
    <3>3. CASE links'[k] = row /\ l \in DOMAIN links /\ k = l
      <4>1. l \in LinksOf(job[c.id].task) /\ e = links[l].event
        BY <2>3, <2>7, <3>3
      <4>2. events[e].live \/ Exceptional(job[c.id].task)
        BY <1>1, <2>2, <4>1 DEF LinksOf
      <4> QED
        BY <2>1, <2>6, <3>3, <4>2 DEF Exceptional, ItemsOf, Stranded, boxVars
    <3> QED
      BY <2>8, <2>9, <3>1, <3>2, <3>3
  <2> QED
    BY <2>9 DEF LinkedEventLives
<1> QED
  BY <1>4, <1>5, <1>6, <1>7, <1>8, <1>9

(* A change of a task starts a hook.                                       *)
LEMMA ChangedIsTold ==
  ASSUME CarefulExporter, ExportTypeOK, [ExportNext]_exportVars,
         NEW t \in TaskId, tasks'[t] # tasks[t]
  PROVE  HookWillUpsert(t)'
<1>1. PICK c \in Client : Request(c)
  BY NoRequest
<1>2. PICK u \in TaskId :
        \/ UpdateTask(c, u) \/ DeleteTask(c, u)
        \/ \E S \in SUBSET Binding : CreateTask(c, u, S) \/ MoveTask(c, u, S)
  BY <1>1 DEF Request, HookReadTask, HookReadLink, HookEnqueue
<1>3. /\ hook'[c].at = "task" /\ hook'[c].task = u
      /\ \A v \in TaskId : v # u => tasks'[v] = tasks[v]
  BY <1>2, ChangeEffect DEF CarefulExporter
<1> QED
  BY <1>3 DEF HookWillUpsert

(* A hook about a task in scope goes on, or has queued the upsert.         *)
LEMMA UpsertHookGoesOn ==
  ASSUME CarefulExporter, BoxTypeOK, ExportTypeOK, HookFits, [ExportNext]_exportVars,
         NEW t \in TaskId, InScope(t), HookWillUpsert(t)
  PROVE  \/ HookWillUpsert(t)'
         \/ \E i \in Item : /\ box[i].status = "absent" /\ box'[i].status = "pending"
                            /\ job'[i].kind = "export_upsert" /\ job'[i].task = t
<1> DEFINE Queued == \E i \in Item :
             /\ box[i].status = "absent" /\ box'[i].status = "pending"
             /\ job'[i].kind = "export_upsert" /\ job'[i].task = t
           Will(c) == /\ hook[c].task = t
                      /\ \/ hook[c].at \in {"task", "link"}
                         \/ /\ hook[c].at = "send"
                            /\ \E j \in hook[c].jobs : j.kind = "export_upsert" /\ j.task = t
<1>1. PICK c \in Client : Will(c)
  BY DEF HookWillUpsert
<1>2. hook'[c] = hook[c] => HookWillUpsert(t)'
  BY <1>1 DEF HookWillUpsert
<1>3. hook[c].at # "idle" /\ hook \in [Client -> Hook] /\ hook[c] \in Hook
  BY <1>1 DEF ExportTypeOK
<1>4. CASE HookReadTask(c)
  <2>1. tasks[t].db # "gone"
    BY DEF InScope
  <2>2. /\ hook[c].at = "task"
        /\ hook'[c] = [hook[c] EXCEPT !.at = "link", !.scope = tasks[hook[c].task].scope]
    BY <1>1, <1>3, <1>4, <2>1 DEF HookReadTask
  <2>3. hook'[c].at = "link" /\ hook'[c].task = t
    BY <1>1, <1>3, <2>2 DEF Hook
  <2> QED
    BY <2>3 DEF HookWillUpsert
<1>5. CASE HookReadLink(c)
  <2> DEFINE S == hook[c].scope
             jobs == ExportsOf(t, hook[c].gone, S)
  <2>1. hook[c].at = "link" /\ hook[c].task = t
    BY <1>1, <1>5 DEF HookReadLink
  <2>2. hook[c].gone = FALSE /\ S # {} /\ S \subseteq Binding
    BY <1>3, <2>1 DEF Hook, HookFits, InScope
  <2>3. PICK b \in S : b \in Binding
    BY <2>2
  <2>4. [kind |-> "export_upsert", task |-> t, binding |-> b] \in jobs
    <3> DEFINE linked == {links[l].binding : l \in LinksOf(t) \cap {GetByTaskID(t)}}
    <3>1. jobs = Jobs("export_upsert", t, (S \cup linked) \ (linked \ S))
                   \cup Jobs("export_delete", t, linked \ S)
      BY <2>2 DEF ExportsOf
    <3> HIDE DEF linked
    <3>2. b \in (S \cup linked) \ (linked \ S)
      BY <2>3
    <3> QED
      BY <3>1, <3>2 DEF Jobs
  <2> HIDE DEF jobs
  <2>5. hook'[c] = [hook[c] EXCEPT !.at = "send", !.jobs = jobs]
    BY <1>3, <1>5, <2>1, <2>4 DEF HookReadLink, jobs
  <2>6. hook'[c].at = "send" /\ hook'[c].jobs = jobs /\ hook'[c].task = t
    BY <1>3, <2>1, <2>5 DEF Hook
  <2>7. PICK j : j = [kind |-> "export_upsert", task |-> t, binding |-> b]
    OBVIOUS
  <2> QED
    BY <2>4, <2>6, <2>7 DEF HookWillUpsert
<1>6. CASE HookEnqueue(c)
  <2>1. hook[c].at = "send" /\ \E k \in hook[c].jobs : k.kind = "export_upsert" /\ k.task = t
    BY <1>1, <1>6 DEF HookEnqueue
  <2>2. PICK k \in hook[c].jobs : k.kind = "export_upsert" /\ k.task = t
    BY <2>1
  <2>3. MayFail("enqueue") = {TRUE}
    BY DEF MayFail, CarefulExporter
  <2>4. PICK j \in hook[c].jobs, i \in Item :
          /\ Enqueue(i)
          /\ job' = [job EXCEPT ![i] = j]
          /\ hook' = [hook EXCEPT ![c] = IF hook[c].jobs = {j} THEN NoHook
                                         ELSE [hook[c] EXCEPT !.jobs = hook[c].jobs \ {j}]]
    BY <1>6, <2>3 DEF HookEnqueue
  <2>5. CASE k = j
    <3>1. box[i].status = "absent" /\ box'[i].status = "pending" /\ job'[i] = j
      BY <2>4 DEF Enqueue, BoxTypeOK, ExportTypeOK
    <3> QED
      BY <2>2, <2>5, <3>1
  <2>6. CASE k # j
    <3>1. hook'[c] = [hook[c] EXCEPT !.jobs = hook[c].jobs \ {j}]
      BY <1>3, <2>2, <2>4, <2>6
    <3>2. hook'[c].at = "send" /\ hook'[c].task = t /\ k \in hook'[c].jobs
      BY <1>1, <1>3, <2>1, <2>2, <2>6, <3>1 DEF Hook
    <3> QED
      BY <2>2, <3>2 DEF HookWillUpsert
  <2> QED
    BY <2>5, <2>6
<1>7. ASSUME NEW d \in Client, Request(d), d # c PROVE hook'[c] = hook[c]
  BY <1>3, <1>7
  DEF Request, UpdateTask, DeleteTask, CreateTask, MoveTask, Change, HookReadTask,
      HookReadLink, HookEnqueue
<1>8. ASSUME Request(c) PROVE HookReadTask(c) \/ HookReadLink(c) \/ HookEnqueue(c)
  BY <1>3, <1>8 DEF Request, UpdateTask, DeleteTask, CreateTask, MoveTask, Change
<1> QED
  BY <1>2, <1>4, <1>5, <1>6, <1>7, <1>8, NoRequest

(* Only a hook queues an item.                                             *)
LEMMA NewItem ==
  ASSUME BoxTypeOK, ExportTypeOK, ClaimsAgree, [ExportNext]_exportVars,
         NEW i \in Item, box[i].status = "absent", box'[i].status # "absent"
  PROVE  \E c \in Client : hook[c].at = "send" /\ job'[i] \in hook[c].jobs
<1>1. ASSUME NEW w \in Worker, ClaimBatch(w) \/ Crash(w) PROVE FALSE
  BY <1>1
  DEF ClaimBatch, Claiming, SelectDue, CommitClaim, ClaimFails, Crash, CrashWorker, ClaimsAgree
<1>2. ASSUME NEW w \in Worker, NEW c \in batch[w], FinishItem(w, c) PROVE FALSE
  <2>1. MarkDone(w, c) \/ MarkRetryOrFailed(w, c)
    BY <1>2 DEF FinishItem
  <2> QED
    BY <2>1, MarkEffect
<1>3. ASSUME NEW w \in Worker, ProcessItem(w) PROVE FALSE
  BY <1>2, <1>3
  DEF ProcessItem, UpsertReadTask, UpsertReadLink, UpsertCallGoogle, UpsertWriteLink,
      DeleteReadLink, DeleteCallGoogle, DeleteWriteLink, boxVars
<1>4. ~ TimePasses /\ ~ UNCHANGED exportVars
  BY DEF TimePasses, BoxTick, Waiting, exportVars
<1>5. PICK c \in Client : Request(c)
  BY <1>1, <1>3, <1>4 DEF ExportNext
<1>6. HookEnqueue(c)
  BY <1>5
  DEF Request, UpdateTask, DeleteTask, CreateTask, MoveTask, Change, HookReadTask,
      HookReadLink, boxVars
<1>7. PICK j \in hook[c].jobs, k \in Item : Enqueue(k) /\ job' = [job EXCEPT ![k] = j]
  BY <1>6 DEF HookEnqueue, boxVars
<1>8. k = i /\ job'[i] = j
  BY <1>7 DEF Enqueue, BoxTypeOK, ExportTypeOK
<1> QED
  BY <1>6, <1>7, <1>8 DEF HookEnqueue

LEMMA DeleteIsFollowedStep ==
  ASSUME CarefulExporter, BoxTypeOK, ExportTypeOK, ClaimsAgree, QueueInOrder, HookFits,
         DeleteIsFollowed, [ExportNext]_exportVars
  PROVE  DeleteIsFollowed'
<1> SUFFICES ASSUME NEW t \in TaskId, InScope(t)', NEW i \in Item, box'[i].status # "absent",
                    job'[i].task = t, job'[i].kind = "export_delete", box'[i].status # "done"
             PROVE  \/ HookWillUpsert(t)'
                    \/ \E k \in Item : /\ i < k /\ box'[k].status # "absent"
                                       /\ job'[k].task = t /\ job'[k].kind = "export_upsert"
  BY DEF DeleteIsFollowed, ItemsOf
<1>1. CASE tasks'[t] # tasks[t]
  BY <1>1, ChangedIsTold
<1>2. CASE tasks'[t] = tasks[t] /\ box[i].status = "absent"
  <2>1. PICK c \in Client : hook[c].at = "send" /\ job'[i] \in hook[c].jobs
    BY <1>2, NewItem
  <2>2. hook[c].task = t /\ (hook[c].gone \/ hook[c].scope = {})
    BY <2>1 DEF HookFits
  <2> QED
    BY <1>2, <2>1, <2>2 DEF HookFits, InScope
<1>3. CASE tasks'[t] = tasks[t] /\ box[i].status # "absent"
  <2>1. [BoxNext]_boxVars
    BY ExportStepIsBoxStep DEF exportVars, boxVars
  <2>2. job'[i] = job[i] /\ box[i].status # "done"
    BY <1>3, <2>1, JobsStay, AttemptsStay
  <2>3. InScope(t) /\ i \in ItemsOf(t)
    BY <1>3, <2>2 DEF InScope, ItemsOf
  <2>4. HookWillUpsert(t) \/ \E k \in ItemsOf(t) : i < k /\ job[k].kind = "export_upsert"
    BY <2>2, <2>3 DEF DeleteIsFollowed
  <2>5. ASSUME NEW k \in ItemsOf(t), i < k, job[k].kind = "export_upsert"
        PROVE  /\ k \in Item /\ box'[k].status # "absent"
               /\ job'[k].task = t /\ job'[k].kind = "export_upsert"
    <3>1. k \in Item /\ box[k].status # "absent" /\ job[k].task = t
      BY DEF ItemsOf
    <3> QED
      BY <2>5, <3>1, JobsStay
  <2>6. CASE HookWillUpsert(t)
    <3>1. \/ HookWillUpsert(t)'
          \/ \E k \in Item : /\ box[k].status = "absent" /\ box'[k].status = "pending"
                             /\ job'[k].kind = "export_upsert" /\ job'[k].task = t
      BY <2>3, <2>6, UpsertHookGoesOn
    <3>2. ASSUME NEW k \in Item, box[k].status = "absent" PROVE i < k
      <4>1. ~(k < i) /\ k # i
        BY <1>3, <3>2 DEF QueueInOrder, RowsInOrder
      <4>2. k \in Int /\ i \in Int
        BY OutboxAssumption DEF Item
      <4> QED
        BY <4>1, <4>2
    <3> QED
      BY <3>1, <3>2
  <2> QED
    BY <2>4, <2>5, <2>6
<1> QED
  BY <1>1, <1>2, <1>3

(* What a step is to the scheduler.                                        *)
Resting ==
  /\ work' = work /\ batch' = batch /\ links' = links /\ events' = events
  /\ \A i \in Item : box[i].status = "pending" => box'[i].status = "pending"

Claims(w) ==
  /\ CommitClaim(w) /\ batch[w] = {} /\ work[w].at = "idle"
  /\ work' = work /\ links' = links /\ events' = events

LEMMA StepKinds ==
  ASSUME BoxTypeOK, ExportTypeOK, ClaimsAgree, OneInv, [ExportNext]_exportVars
  PROVE  \/ Resting
         \/ \E w \in Worker : Claims(w) \/ Crash(w) \/ ProcessItem(w)
<1>1. ASSUME NEW c \in Client, Request(c) PROVE Resting
  <2>1. work' = work /\ batch' = batch /\ links' = links /\ events' = events
    BY <1>1
    DEF Request, UpdateTask, DeleteTask, CreateTask, MoveTask, Change, HookReadTask,
        HookReadLink, HookEnqueue, Enqueue, workVars, boxVars
  <2>2. box' = box \/ \E k \in Item : Enqueue(k)
    BY <1>1
    DEF Request, UpdateTask, DeleteTask, CreateTask, MoveTask, Change, HookReadTask,
        HookReadLink, HookEnqueue, boxVars
  <2>3. \A i \in Item : box[i].status = "pending" => box'[i].status = "pending"
    BY <2>2 DEF Enqueue, BoxTypeOK
  <2> QED
    BY <2>1, <2>3 DEF Resting
<1>2. ASSUME NEW w \in Worker, ClaimBatch(w) PROVE Resting \/ Claims(w)
  <2>1. work' = work /\ links' = links /\ events' = events
    BY <1>2 DEF ClaimBatch, workVars
  <2>2. CASE SelectDue(w) \/ ClaimFails(w)
    BY <2>1, <2>2 DEF SelectDue, ClaimFails, Resting
  <2>3. CASE CommitClaim(w)
    <3>1. batch[w] = {}
      BY <2>3 DEF CommitClaim, ClaimsAgree
    <3>2. work[w].at = "idle"
      BY <3>1 DEF OneInv, ItemInHand
    <3> QED
      BY <2>1, <2>3, <3>1, <3>2 DEF Claims
  <2> QED
    BY <1>2, <2>2, <2>3 DEF ClaimBatch, Claiming
<1>3. CASE TimePasses
  <2>1. \A i \in Item : box'[i].status = box[i].status
    BY <1>3 DEF TimePasses, BoxTick, BoxTypeOK, BoxRow
  <2> QED
    BY <1>3, <2>1 DEF TimePasses, BoxTick, Resting, workVars
<1>4. CASE UNCHANGED exportVars
  BY <1>4 DEF Resting, exportVars
<1> QED
  BY <1>1, <1>2, <1>3, <1>4 DEF ExportNext

(* An item that failed goes back to the queue or becomes exceptional.      *)
LEMMA ErrorGoesBack ==
  ASSUME OneExporter, BoxTypeOK, ExportTypeOK, ClaimsAgree, NEW w \in Worker, NEW c \in batch[w],
         MarkRetryOrFailed(w, c), job' = job
  PROVE  \/ box'[c.id].status = "pending"
         \/ Exceptional(job[c.id].task)'
<1>1. /\ c.id \in Item /\ box[c.id].status = "processing"
      /\ batch' = [batch EXCEPT ![w] = batch[w] \ {c}]
      /\ \/ box' = box
         \/ box'[c.id].status \in {"done", "failed"}
         \/ box'[c.id].status = "pending"
      /\ Current(w, c)
      /\ box' # box => box'[c.id].status # "done"
  BY MarkEffect
<1>2. \A v \in Worker : \A d \in batch'[v] : d.id # c.id
  <2> SUFFICES ASSUME NEW d \in batch[w], d.id = c.id PROVE d = c
    BY <1>1 DEF OneExporter, BoxTypeOK
  <2>1. Current(w, d)
    BY <1>1 DEF Current
  <2> QED
    BY <1>1, <2>1, OneCurrent
<1>3. PICK t : t = job[c.id].task
  OBVIOUS
<1>4. CASE box'[c.id].status = "failed"
  <2>1. Exceptional(t)'
    BY <1>1, <1>3, <1>4 DEF Exceptional, ItemsOf
  <2> QED
    BY <1>3, <2>1 DEF Exceptional, ItemsOf, Stranded
<1>5. CASE box' = box
  <2>1. Exceptional(t)'
    BY <1>1, <1>2, <1>3, <1>5 DEF Exceptional, ItemsOf, Stranded
  <2> QED
    BY <1>3, <2>1 DEF Exceptional, ItemsOf, Stranded
<1> QED
  BY <1>1, <1>4, <1>5

(* The steps of the item in hand leave the box, the jobs and the tasks.    *)
LEMMA InHandStep ==
  ASSUME OneExporter, BoxTypeOK, ClaimsAgree, NEW w \in Worker, NEW c \in batch[w],
         \/ UpsertReadTask(w, c) \/ UpsertReadLink(w, c)
         \/ UpsertCallGoogle(w, c) \/ UpsertWriteLink(w, c)
         \/ DeleteReadLink(w, c) \/ DeleteCallGoogle(w, c) \/ DeleteWriteLink(w, c)
  PROVE  /\ UNCHANGED boxVars /\ UNCHANGED job /\ tasks' = tasks /\ hook' = hook
         /\ \A v \in Worker : \A d \in batch[v] : Current(v, d) => v = w /\ d = c
         /\ \A v \in Worker : \A d \in batch'[v] : Current(v, d)' => v = w /\ d = c
         /\ Current(w, c)' /\ c \in batch'[w] /\ c.id \in Item /\ Current(w, c)
<1>1. UNCHANGED boxVars /\ UNCHANGED job /\ tasks' = tasks /\ hook' = hook /\ Current(w, c)
  BY DEF UpsertReadTask, UpsertReadLink, UpsertCallGoogle, UpsertWriteLink, DeleteReadLink,
         DeleteCallGoogle, DeleteWriteLink, Upserting, Deleting, clientVars
<1> QED
  BY <1>1, AtWork

(* An upsert that is due stays due, is begun, or becomes exceptional.      *)
LEMMA DueGoesOn ==
  ASSUME OneExporter, BoxTypeOK, ExportTypeOK, ClaimsAgree, OneInv, [ExportNext]_exportVars,
         NEW t \in TaskId, tasks[t].db = "live", tasks'[t] = tasks[t], UpsertDue(t)
  PROVE  (Exceptional(t) \/ UpsertDue(t) \/ UpsertUnderWay(t))'
<1>1. PICK i \in ItemsOf(t) :
        /\ job[i].kind = "export_upsert"
        /\ \/ box[i].status = "pending"
           \/ \E w \in Worker : \E c \in batch[w] :
                c.id = i /\ (Current(w, c) => work[w].at \in {"idle", "error"})
  BY DEF UpsertDue
<1>2. i \in Item /\ box[i].status # "absent" /\ job[i].task = t
  BY DEF ItemsOf
<1>3. job'[i] = job[i] /\ box'[i].status # "absent"
  BY <1>2, JobsStay
<1>4. ASSUME \/ box'[i].status = "pending"
             \/ \E w \in Worker : \E c \in batch'[w] :
                  c.id = i /\ (Current(w, c)' => work'[w].at \in {"idle", "error"})
      PROVE  UpsertDue(t)'
  BY <1>1, <1>2, <1>3, <1>4 DEF UpsertDue, ItemsOf
<1>5. CASE box[i].status = "pending"
  <2>1. CASE Resting
    BY <1>2, <1>4, <1>5, <2>1 DEF Resting
  <2>2. ASSUME NEW w \in Worker, Claims(w) PROVE UpsertDue(t)'
    <3>1. CASE i \in locked[w]
      <4>1. [id |-> i, attempts |-> box[i].attempts] \in batch'[w]
        BY <2>2, <3>1 DEF Claims, CommitClaim, BoxTypeOK
      <4> QED
        BY <1>4, <2>2, <4>1 DEF Claims
    <3>2. CASE i \notin locked[w]
      BY <1>2, <1>4, <1>5, <2>2, <3>2 DEF Claims, CommitClaim
    <3> QED
      BY <3>1, <3>2
  <2>3. ASSUME NEW w \in Worker, Crash(w) PROVE UpsertDue(t)'
    BY <1>4, <1>5, <2>3 DEF Crash, CrashWorker
  <2>4. ASSUME NEW w \in Worker, NEW c \in batch[w], FinishItem(w, c) PROVE UpsertDue(t)'
    <3>1. MarkDone(w, c) \/ MarkRetryOrFailed(w, c)
      BY <2>4 DEF FinishItem
    <3>2. box'[i] = box[i]
      BY <1>2, <1>5, <3>1, MarkEffect
    <3> QED
      BY <1>4, <1>5, <3>2
  <2>5. ASSUME NEW w \in Worker, ProcessItem(w) PROVE UpsertDue(t)'
    <3>1. PICK c \in batch[w] :
            \/ FinishItem(w, c)
            \/ UpsertReadTask(w, c) \/ UpsertReadLink(w, c)
            \/ UpsertCallGoogle(w, c) \/ UpsertWriteLink(w, c)
            \/ DeleteReadLink(w, c) \/ DeleteCallGoogle(w, c) \/ DeleteWriteLink(w, c)
      BY <2>5 DEF ProcessItem
    <3>2. CASE ~ FinishItem(w, c)
      BY <1>4, <1>5, <3>1, <3>2, InHandStep DEF boxVars
    <3> QED
      BY <2>4, <3>2
  <2> QED
    BY <2>1, <2>2, <2>3, <2>5, StepKinds
<1>6. ASSUME NEW w \in Worker, NEW c \in batch[w], c.id = i,
             Current(w, c) => work[w].at \in {"idle", "error"}
      PROVE  (Exceptional(t) \/ UpsertDue(t) \/ UpsertUnderWay(t))'
  <2>0. \A v \in Worker : v = w
    BY DEF OneExporter
  <2>1. CASE Resting
    BY <1>4, <1>6, <2>1 DEF Resting, Current
  <2>2. ~ Claims(w)
    BY DEF Claims
  <2>3. CASE Crash(w)
    <3>1. Exceptional(job[c.id].task)' /\ job' = job /\ box' = box
      BY <2>3, CrashIsExceptional DEF Crash, CrashWorker
    <3> QED
      BY <1>2, <1>6, <3>1 DEF Exceptional, ItemsOf, Stranded
  <2>4. ASSUME NEW d \in batch[w], FinishItem(w, d)
        PROVE  (Exceptional(t) \/ UpsertDue(t))'
    <3>1. /\ MarkDone(w, d) \/ MarkRetryOrFailed(w, d)
          /\ work'[w].at = "idle" /\ job' = job
      BY <2>4 DEF FinishItem, Goes, NoWork, ExportTypeOK
    <3>2. /\ Current(w, d)
          /\ batch' = [batch EXCEPT ![w] = batch[w] \ {d}]
      BY <3>1, MarkEffect
    <3>3. CASE d = c
      <4>1. MarkRetryOrFailed(w, c)
        BY <1>6, <2>4, <3>2, <3>3 DEF FinishItem
      <4>2. box'[i].status = "pending" \/ Exceptional(job[c.id].task)'
        BY <1>6, <3>1, <4>1, ErrorGoesBack
      <4> QED
        BY <1>2, <1>4, <1>6, <3>1, <4>2 DEF Exceptional, ItemsOf, Stranded
    <3>4. CASE d # c
      <4>1. c \in batch'[w]
        BY <3>2, <3>4 DEF BoxTypeOK
      <4> QED
        BY <1>4, <1>6, <3>1, <4>1
    <3> QED
      BY <3>3, <3>4
  <2>5. ASSUME NEW d \in batch[w],
               \/ UpsertReadTask(w, d) \/ UpsertReadLink(w, d)
               \/ UpsertCallGoogle(w, d) \/ UpsertWriteLink(w, d)
               \/ DeleteReadLink(w, d) \/ DeleteCallGoogle(w, d) \/ DeleteWriteLink(w, d)
        PROVE  (UpsertDue(t) \/ UpsertUnderWay(t))'
    <3>1. /\ UNCHANGED boxVars /\ UNCHANGED job /\ tasks' = tasks
          /\ \A v \in Worker : \A e \in batch'[v] : Current(v, e)' => v = w /\ e = d
          /\ Current(w, d)' /\ Current(w, d)
      BY <2>5, InHandStep
    <3>2. CASE d # c
      <4>1. c \in batch'[w] /\ ~ Current(w, c)'
        BY <3>1, <3>2 DEF boxVars
      <4> QED
        BY <1>4, <1>6, <4>1
    <3>3. CASE d = c
      <4>1. Upserting(w, c) /\ work[w].at \in {"idle", "error"}
        BY <1>1, <1>6, <3>1, <3>3 DEF Upserting
      <4>2. UpsertReadTask(w, c)
        BY <2>5, <3>3, <4>1
        DEF UpsertReadLink, UpsertCallGoogle, UpsertWriteLink, DeleteReadLink,
            DeleteCallGoogle, DeleteWriteLink, Upserting, Deleting
      <4>3. work'[w] = [NoWork EXCEPT !.at = "link", !.ver = tasks[t].ver]
        BY <1>2, <1>6, <4>2 DEF UpsertReadTask, Goes, ExportTypeOK
      <4>4. work'[w].at = "link" /\ work'[w].ver = tasks'[t].ver
        BY <3>1, <4>3 DEF NoWork
      <4>5. Upserting(w, c)' /\ c \in batch'[w] /\ job'[c.id].task = t
        BY <1>2, <1>6, <3>1, <3>3, <4>1 DEF Upserting, boxVars
      <4> QED
        BY <4>4, <4>5 DEF UpsertUnderWay
    <3> QED
      BY <3>2, <3>3
  <2> QED
    BY <2>0, <2>1, <2>2, <2>3, <2>4, <2>5, StepKinds DEF ProcessItem
<1> QED
  BY <1>1, <1>5, <1>6

(* An upsert with the last version goes on, or is shown.                   *)
LEMMA WayGoesOn ==
  ASSUME OneExporter, BoxTypeOK, ExportTypeOK, ClaimsAgree, OneInv, LinkedEventLives,
         [ExportNext]_exportVars, NEW t \in TaskId, tasks'[t] = tasks[t],
         ~ Exceptional(t), UpsertUnderWay(t)
  PROVE  \/ (Exceptional(t) \/ UpsertDue(t) \/ UpsertUnderWay(t))'
         \/ (Shown(t) /\ ~ UpsertIsStale(t))'
<1>1. PICK w \in Worker : \E c \in batch[w] :
        /\ Upserting(w, c) /\ job[c.id].task = t
        /\ \/ work[w].at \in {"link", "google"} /\ work[w].ver = tasks[t].ver
           \/ /\ work[w].at = "write" /\ events[work[w].event].live
              /\ events[work[w].event].ver = tasks[t].ver
  BY DEF UpsertUnderWay
<1>2. PICK c \in batch[w] :
        /\ Upserting(w, c) /\ job[c.id].task = t
        /\ \/ work[w].at \in {"link", "google"} /\ work[w].ver = tasks[t].ver
           \/ /\ work[w].at = "write" /\ events[work[w].event].live
              /\ events[work[w].event].ver = tasks[t].ver
  BY <1>1
<1>3. \A v \in Worker : v = w
  BY DEF OneExporter
<1>4. c.id \in Item /\ job'[c.id] = job[c.id]
  BY JobsInHand
<1>5. /\ work \in [Worker -> Work] /\ work[w] \in Work
      /\ links \in Seq(Link) /\ events \in Seq(Event)
      /\ DOMAIN links = 1..Len(links) /\ Len(links) \in Nat
      /\ DOMAIN events = 1..Len(events) /\ Len(events) \in Nat
  BY LenProperties DEF ExportTypeOK
<1> DEFINE l == work[w].link
           e == work[w].event
<1>12. /\ job[c.id].task \in TaskId /\ job[c.id].binding \in Binding
       /\ work[w].ver \in Nat /\ e \in Nat
  <2>1. job[c.id] \in Job \cup {NoJob} /\ job[c.id].kind = "export_upsert"
    BY <1>2, <1>4 DEF ExportTypeOK, Upserting
  <2>2. job[c.id] \in Job
    BY <2>1 DEF NoJob
  <2> QED
    BY <1>5, <2>2 DEF Job, Work
<1>6. CASE Resting
  BY <1>2, <1>4, <1>6 DEF Resting, UpsertUnderWay, Upserting, Current
<1>7. ~ Claims(w)
  BY DEF Claims
<1>8. CASE Crash(w)
  <2>1. Exceptional(job[c.id].task)' /\ job' = job /\ box' = box
    BY <1>8, CrashIsExceptional DEF Crash, CrashWorker
  <2> QED
    BY <1>2, <2>1 DEF Exceptional, ItemsOf, Stranded
<1>9. ASSUME NEW d \in batch[w], FinishItem(w, d) PROVE FALSE
  BY <1>2, <1>9 DEF FinishItem
<1>10. CASE \E d \in batch[w] : DeleteReadLink(w, d) \/ DeleteCallGoogle(w, d) \/ DeleteWriteLink(w, d)
  <2>1. PICK d \in batch[w] : DeleteReadLink(w, d) \/ DeleteCallGoogle(w, d) \/ DeleteWriteLink(w, d)
    BY <1>10
  <2>2. d = c
    BY <1>2, <2>1, InHandStep DEF Upserting
  <2> QED
    BY <1>2, <2>1, <2>2
    DEF DeleteReadLink, DeleteCallGoogle, DeleteWriteLink, Deleting, Upserting
<1>11. ASSUME NEW d \in batch[w],
              \/ UpsertReadTask(w, d) \/ UpsertReadLink(w, d)
              \/ UpsertCallGoogle(w, d) \/ UpsertWriteLink(w, d)
       PROVE  \/ (Exceptional(t) \/ UpsertDue(t) \/ UpsertUnderWay(t))'
              \/ (Shown(t) /\ ~ UpsertIsStale(t))'
  <2>1. /\ d = c /\ UNCHANGED boxVars /\ UNCHANGED job /\ tasks' = tasks
        /\ Current(w, c)' /\ c \in batch'[w] /\ Current(w, c)
    BY <1>2, <1>11, InHandStep DEF Upserting
  <2>2. Upserting(w, c)' /\ job'[c.id].task = t
    BY <1>2, <2>1 DEF Upserting
  <2>3. CASE UpsertReadLink(w, c)
    <3> DEFINE m == GetByTaskID(t)
               x == IF m # 0 /\ links[m].binding = job[c.id].binding THEN links[m].event ELSE 0
    <3>1. work[w].at = "link" /\ work' = [work EXCEPT ![w] =
            [work[w] EXCEPT !.at = "google", !.link = m, !.event = x]]
      BY <1>2, <2>3 DEF UpsertReadLink, Goes
    <3> HIDE DEF m, x
    <3>2. work'[w].at = "google" /\ work'[w].ver = work[w].ver
      BY <1>5, <3>1 DEF Work
    <3>3. UpsertUnderWay(t)'
      BY <1>2, <2>1, <2>2, <3>1, <3>2 DEF UpsertUnderWay
    <3> QED
      BY <3>3
  <2>4. CASE UpsertCallGoogle(w, c)
    <3> DEFINE created == [live |-> TRUE, task |-> job[c.id].task,
                           binding |-> job[c.id].binding, ver |-> work[w].ver]
    <3>0. work[w].at = "google" /\ work[w].ver = tasks[t].ver
      BY <1>2, <2>4 DEF UpsertCallGoogle
    <3>1. PICK answer \in Answers(e) :
            /\ events' = IF answer = "call" THEN events
                         ELSE IF e # 0 THEN [events EXCEPT ![e].ver = work[w].ver]
                         ELSE Append(events, created)
            /\ Called(w, answer, IF e # 0 THEN e ELSE Len(events'))
      BY <2>4 DEF UpsertCallGoogle
    <3>2. answer \in {"ok", "call", "lost"}
      BY DEF Answers
    <3>3. CASE answer # "ok"
      <4>1. work'[w].at = "error"
        BY <1>5, <3>1, <3>3 DEF Called, Goes
      <4>2. box'[c.id].status # "absent"
        BY <1>4, <2>1 DEF ClaimsAgree, boxVars
      <4>3. UpsertDue(t)'
        BY <1>4, <2>1, <2>2, <4>1, <4>2 DEF UpsertDue, ItemsOf, Upserting
      <4> QED
        BY <4>3
    <3>4. \/ l \in LinksOf(t) /\ e = links[l].event
          \/ l = 0 /\ LinksOf(t) = {} /\ e = 0
      BY <1>2, <3>0 DEF OneInv, UpsertKnows
    <3>5. CASE answer = "ok" /\ e # 0
      <4>1. l \in LinksOf(t) /\ e = links[l].event /\ e \in DOMAIN events
        BY <3>4, <3>5 DEF OneInv, LinkNamesEvent, LinksOf
      <4>2. events[e].live
        <5>1. links[l].live /\ links[l].task = t /\ l \in DOMAIN links
          BY <4>1 DEF LinksOf
        <5>2. ~ DeletionUnderWay(l)
          BY <1>3, <3>0 DEF DeletionUnderWay
        <5> QED
          BY <4>1, <5>1, <5>2 DEF LinkedEventLives
      <4>3. /\ events' = [events EXCEPT ![e].ver = work[w].ver]
            /\ work'[w] = [work[w] EXCEPT !.at = "write", !.event = e]
        BY <1>5, <3>1, <3>5 DEF Called, Goes
      <4>4. events[e] \in Event
        BY <1>5, <4>1, ElementOfSeq
      <4>5. events'[e].live /\ events'[e].ver = tasks'[t].ver
        BY <2>1, <3>0, <4>1, <4>2, <4>3, <4>4 DEF Event
      <4>6. work'[w].at = "write" /\ work'[w].event = e
        BY <1>5, <4>3 DEF Work
      <4>7. UpsertUnderWay(t)'
        BY <2>1, <2>2, <4>5, <4>6 DEF UpsertUnderWay
      <4> QED
        BY <4>7
    <3>6. CASE answer = "ok" /\ e = 0
      <4>1. /\ events' = Append(events, created)
            /\ work'[w] = [work[w] EXCEPT !.at = "write", !.event = Len(events')]
        BY <1>5, <3>1, <3>6 DEF Called, Goes
      <4>2. created \in Event /\ created.live /\ created.ver = work[w].ver
        BY <1>12 DEF Event
      <4> HIDE DEF created
      <4>3. Len(events') = Len(events) + 1 /\ events'[Len(events) + 1] = created
        BY <1>5, <4>1, <4>2, AppendProperties
      <4>4. work'[w].at = "write" /\ work'[w].event = Len(events) + 1
        BY <1>5, <4>1, <4>3 DEF Work
      <4>5. UpsertUnderWay(t)'
        BY <2>1, <2>2, <3>0, <4>2, <4>3, <4>4 DEF UpsertUnderWay
      <4> QED
        BY <4>5
    <3> QED
      BY <3>2, <3>3, <3>5, <3>6
  <2>5. CASE UpsertWriteLink(w, c)
    <3> DEFINE row == [live |-> TRUE, task |-> job[c.id].task,
                       binding |-> job[c.id].binding, event |-> e]
    <3>1. /\ work[w].at = "write" /\ events' = events
          /\ events[e].live /\ events[e].ver = tasks'[t].ver
      BY <1>2, <2>1, <2>5 DEF UpsertWriteLink
    <3>11. CASE work'[w].at = "error"
      <4>1. box'[c.id].status # "absent"
        BY <1>4, <2>1 DEF ClaimsAgree, boxVars
      <4>2. UpsertDue(t)'
        BY <1>4, <2>1, <2>2, <3>11, <4>1 DEF UpsertDue, ItemsOf, Upserting
      <4> QED
        BY <4>2
    <3>12. SUFFICES ASSUME work'[w].at # "error"
                    PROVE  (Shown(t) /\ ~ UpsertIsStale(t))'
      BY <3>11
    <3>2. work'[w].at = "ok"
      BY <2>5, <3>12, UpsertWrites
    <3>3. ~ UpsertIsStale(t)'
      BY <1>3, <3>2 DEF UpsertIsStale
    <3>4. \/ l \in LinksOf(t) /\ e = links[l].event
          \/ l = 0 /\ LinksOf(t) = {}
      BY <1>2, <3>1 DEF OneInv, UpsertKnows
    <3>5. l \in LinksOf(t) => l \in DOMAIN links /\ l # 0 /\ links[l].live
      BY <1>5 DEF LinksOf
    <3>6. links' = IF l = 0 THEN Append(links, row) ELSE [links EXCEPT ![l] = row]
      <4>1. PICK ok \in BOOLEAN :
              /\ links' = IF ~ ok THEN links
                          ELSE IF l = 0 THEN Append(links, row) ELSE [links EXCEPT ![l] = row]
              /\ work' = [work EXCEPT ![w] = [NoWork EXCEPT !.at = IF ok THEN "ok" ELSE "error"]]
        BY <2>5 DEF UpsertWriteLink, Goes
      <4>2. work'[w].at = IF ok THEN "ok" ELSE "error"
        BY <1>5, <4>1 DEF NoWork
      <4> QED
        BY <3>12, <4>1, <4>2
    <3>7. row.live /\ row.task = t /\ row.event = e
      BY <1>2
    <3>8. row \in Link
      BY <1>12 DEF Link
    <3> HIDE DEF row
    <3>9. \E k \in DOMAIN links' : links'[k] = row
      <4>1. CASE l = 0
        <5>1. DOMAIN links' = 1..(Len(links) + 1) /\ links'[Len(links) + 1] = row
          BY <1>5, <3>6, <3>8, <4>1, AppendProperties, LenProperties
        <5> QED
          BY <1>5, <5>1
      <4>2. CASE l # 0
        BY <3>4, <3>5, <3>6, <4>2
      <4> QED
        BY <4>1, <4>2
    <3>10. Shown(t)'
      BY <3>1, <3>7, <3>9 DEF Shown, LinksOf
    <3> QED
      BY <3>3, <3>10
  <2>6. ~ UpsertReadTask(w, c)
    BY <1>2 DEF UpsertReadTask
  <2> QED
    BY <1>11, <2>1, <2>3, <2>4, <2>5, <2>6
<1> QED
  BY <1>3, <1>6, <1>7, <1>8, <1>9, <1>10, <1>11, StepKinds DEF ProcessItem

(* A deletion in hand of a task that is in scope is followed by an upsert. *)
LEMMA DeleteInHand ==
  ASSUME BoxTypeOK, ClaimsAgree, BatchInOrder, DeleteIsFollowed,
         NEW t \in TaskId, InScope(t),
         NEW w \in Worker, NEW c \in batch[w], Deleting(w, c), job[c.id].task = t
  PROVE  Exceptional(t) \/ HookWillUpsert(t) \/ UpsertDue(t)
<1>1. /\ c.id \in Item /\ c.id \in ItemsOf(t) /\ box[c.id].status = "processing"
      /\ c.attempts = box[c.id].attempts /\ job[c.id].kind = "export_delete"
      /\ Current(w, c) /\ c.attempts \in Nat
  BY DEF BoxTypeOK, Claim, ClaimsAgree, ItemsOf, Deleting
<1>2. CASE c.attempts > 0
  BY <1>1, <1>2 DEF Exceptional
<1>3. CASE c.attempts = 0
  <2>1. HookWillUpsert(t) \/ \E k \in ItemsOf(t) : c.id < k /\ job[k].kind = "export_upsert"
    BY <1>1 DEF DeleteIsFollowed
  <2>2. ASSUME NEW k \in ItemsOf(t), c.id < k, job[k].kind = "export_upsert"
        PROVE  UpsertDue(t)
    <3>1. k \in Item /\ box[k].status # "absent" /\ Item \subseteq Nat
      BY OutboxAssumption DEF ItemsOf, Item
    <3>2. Untried(k) \/ \E d \in batch[w] : d.id = k /\ d.attempts = 0
      BY <1>3, <2>2, <3>1 DEF BatchInOrder
    <3>3. CASE Untried(k)
      BY <2>2, <3>1, <3>3 DEF Untried, UpsertDue
    <3>4. ASSUME NEW d \in batch[w], d.id = k PROVE UpsertDue(t)
      <4>1. c.id \in Nat /\ k \in Nat
        BY <1>1, <3>1
      <4>2. ~ (k <= c.id)
        BY <2>2, <4>1
      <4>3. ~ Current(w, d)
        BY <3>4, <4>2 DEF Current
      <4> QED
        BY <2>2, <3>4, <4>3 DEF UpsertDue
    <3> QED
      BY <3>2, <3>3, <3>4
  <2> QED
    BY <2>1, <2>2
<1> QED
  BY <1>1, <1>2, <1>3

(* What is shown stays shown, unless a deletion of it is in hand.          *)
LEMMA ShownStays ==
  ASSUME OneExporter, BoxTypeOK, ExportTypeOK, ClaimsAgree, OneInv, [ExportNext]_exportVars,
         NEW t \in TaskId, tasks[t].db = "live", tasks'[t] = tasks[t],
         Shown(t), ~ UpsertIsStale(t), ~ UpsertUnderWay(t),
         \A w \in Worker : \A c \in batch[w] : Deleting(w, c) => job[c.id].task # t
  PROVE  (Shown(t) /\ ~ UpsertIsStale(t))'
<1>1. PICK l \in LinksOf(t) : /\ events[links[l].event].live
                              /\ events[links[l].event].ver = tasks[t].ver
  BY DEF Shown
<1> DEFINE e == links[l].event
<1>2. /\ l \in DOMAIN links /\ links[l].live /\ links[l].task = t
      /\ e \in DOMAIN events /\ events[e].task = t
      /\ \A k \in LinksOf(t) : k = l
  BY DEF LinksOf, OneInv, LinkNamesEvent, OneLink
<1>3. /\ links \in Seq(Link) /\ events \in Seq(Event) /\ work \in [Worker -> Work]
      /\ DOMAIN links = 1..Len(links) /\ Len(links) \in Nat
      /\ DOMAIN events = 1..Len(events) /\ Len(events) \in Nat
      /\ \A v, w \in Worker : v = w
  BY LenProperties DEF ExportTypeOK, OneExporter
<1>4. ASSUME l \in DOMAIN links', links'[l].live, links'[l].task = t, links'[l].event = e,
             events'[e] = events[e]
      PROVE  Shown(t)'
  BY <1>1, <1>4 DEF Shown, LinksOf
<1>5. ASSUME \A w \in Worker : work'[w].at \notin {"link", "google"}
      PROVE  ~ UpsertIsStale(t)'
  BY <1>5 DEF UpsertIsStale
<1>6. CASE Resting
  <2>1. Shown(t)'
    BY <1>2, <1>4, <1>6 DEF Resting
  <2>2. ASSUME NEW w \in Worker, NEW c \in batch'[w], Upserting(w, c)', job'[c.id].task = t,
               work'[w].at \in {"link", "google"}, work'[w].ver # tasks'[t].ver
        PROVE  FALSE
    <3>1. c \in batch[w] /\ work' = work /\ batch' = batch
      BY <1>6 DEF Resting
    <3>2. job'[c.id] = job[c.id]
      BY <3>1, JobsInHand
    <3>3. Upserting(w, c) /\ job[c.id].task = t
      BY <2>2, <3>1, <3>2 DEF Upserting, Current
    <3> QED
      BY <2>2, <3>1, <3>3 DEF UpsertIsStale
  <2> QED
    BY <2>1, <2>2 DEF UpsertIsStale
<1>7. ASSUME NEW w \in Worker,
             Claims(w) \/ Crash(w) \/ \E c \in batch[w] : FinishItem(w, c)
      PROVE  (Shown(t) /\ ~ UpsertIsStale(t))'
  <2>1. links' = links /\ events' = events /\ work'[w].at = "idle"
    BY <1>3, <1>7 DEF Claims, Crash, FinishItem, Goes, NoWork
  <2> QED
    BY <1>2, <1>3, <1>4, <1>5, <2>1
<1>8. ASSUME NEW w \in Worker, NEW c \in batch[w],
             \/ UpsertReadTask(w, c) \/ UpsertReadLink(w, c)
             \/ UpsertCallGoogle(w, c) \/ UpsertWriteLink(w, c)
             \/ DeleteReadLink(w, c) \/ DeleteCallGoogle(w, c) \/ DeleteWriteLink(w, c)
      PROVE  (Shown(t) /\ ~ UpsertIsStale(t))'
  <2> DEFINE u == job[c.id].task
             k == work[w].link
             f == work[w].event
             row == [live |-> TRUE, task |-> u, binding |-> job[c.id].binding, event |-> f]
  <2>1. /\ UNCHANGED job /\ tasks' = tasks
        /\ \A v \in Worker : \A d \in batch'[v] : Current(v, d)' => v = w /\ d = c
        /\ Current(w, c) /\ c.id \in Item
    BY <1>8, InHandStep
  <2>2. ASSUME u # t \/ work'[w].ver = tasks[t].ver
        PROVE  ~ UpsertIsStale(t)'
    <3> SUFFICES ASSUME NEW v \in Worker, NEW d \in batch'[v], Upserting(v, d)',
                        job'[d.id].task = t, work'[v].ver # tasks'[t].ver
                 PROVE  FALSE
      BY DEF UpsertIsStale
    <3>1. v = w /\ d = c
      BY <2>1 DEF Upserting
    <3> QED
      BY <2>1, <2>2, <3>1
  <2>3. Upserting(w, c) /\ u = t => work[w].at \notin {"link", "google"}
    BY DEF UpsertUnderWay, UpsertIsStale
  <2>4. \A m \in LinksOf(u) : u # t => m # l /\ links[m].event # e
    BY <1>2 DEF LinksOf, OneInv, LinkNamesEvent
  <2>5. 0 \notin DOMAIN links
    BY <1>3
  <2>6. CASE UpsertReadTask(w, c)
    <3>1. links' = links /\ events' = events
      BY <2>6 DEF UpsertReadTask
    <3>2. u = t => work'[w].ver = tasks[t].ver
      BY <1>3, <2>6 DEF UpsertReadTask, Goes, NoWork
    <3> QED
      BY <1>2, <1>4, <2>2, <3>1, <3>2
  <2>7. CASE UpsertReadLink(w, c)
    <3>1. links' = links /\ events' = events /\ u # t
      BY <2>3, <2>7 DEF UpsertReadLink
    <3> QED
      BY <1>2, <1>4, <2>2, <3>1
  <2>8. CASE UpsertCallGoogle(w, c)
    <3>1. links' = links /\ u # t /\ Upserting(w, c) /\ work[w].at = "google"
      BY <2>3, <2>8 DEF UpsertCallGoogle
    <3>2. \/ events' = events
          \/ f # 0 /\ events' = [events EXCEPT ![f].ver = work[w].ver]
          \/ \E new : events' = Append(events, new)
      BY <2>8 DEF UpsertCallGoogle
    <3>3. f # 0 => f # e
      BY <2>4, <3>1 DEF OneInv, UpsertKnows
    <3>4. events'[e] = events[e]
      <4>1. ASSUME NEW new, events' = Append(events, new) PROVE events'[e] = events[e]
        BY <1>2, <1>3, <4>1
      <4> QED
        BY <1>2, <3>2, <3>3, <4>1
    <3> QED
      BY <1>2, <1>4, <2>2, <3>1, <3>4
  <2>9. CASE UpsertWriteLink(w, c)
    <3>1. events' = events /\ Upserting(w, c) /\ work[w].at = "write"
      BY <2>9 DEF UpsertWriteLink
    <3>2. \/ links' = links
          \/ k = 0 /\ links' = Append(links, row)
          \/ k # 0 /\ links' = [links EXCEPT ![k] = row]
      BY <2>9 DEF UpsertWriteLink
    <3>3. \/ k \in LinksOf(u) /\ f = links[k].event
          \/ k = 0 /\ LinksOf(u) = {}
      BY <3>1 DEF OneInv, UpsertKnows
    <3>4. work'[w].at \in {"ok", "error"}
      BY <2>9, UpsertWrites
    <3>5. CASE links' = links
      BY <1>2, <1>3, <1>4, <1>5, <3>1, <3>4, <3>5
    <3>6. row.live /\ row.task = u /\ row.event = f
      OBVIOUS
    <3> HIDE DEF row
    <3>7. CASE k = 0 /\ links' = Append(links, row)
      <4>1. l \in DOMAIN links' /\ links'[l] = links[l]
        BY <1>2, <1>3, <3>7
      <4> QED
        BY <1>2, <1>3, <1>4, <1>5, <3>1, <3>4, <4>1
    <3>8. CASE k # 0 /\ links' = [links EXCEPT ![k] = row]
      <4>1. k \in LinksOf(u) /\ f = links[k].event /\ DOMAIN links' = DOMAIN links
        BY <3>3, <3>8
      <4>2. CASE u = t
        <5>1. k = l
          BY <1>2, <4>1, <4>2
        <5>2. links'[l] = row /\ row.event = e
          BY <1>2, <3>6, <3>8, <4>1, <5>1
        <5> QED
          BY <1>2, <1>3, <1>4, <1>5, <3>1, <3>4, <3>6, <4>1, <4>2, <5>2
      <4>3. CASE u # t
        <5>1. links'[l] = links[l]
          BY <2>4, <3>8, <4>1, <4>3
        <5> QED
          BY <1>2, <1>3, <1>4, <1>5, <3>1, <3>4, <4>1, <5>1
      <4> QED
        BY <4>2, <4>3
    <3> QED
      BY <3>2, <3>5, <3>7, <3>8
  <2>10. CASE DeleteReadLink(w, c)
    <3>1. links' = links /\ events' = events /\ u # t
      BY <2>10 DEF DeleteReadLink
    <3> QED
      BY <1>2, <1>4, <2>2, <3>1
  <2>11. CASE DeleteCallGoogle(w, c)
    <3>1. /\ links' = links /\ u # t /\ Deleting(w, c) /\ work[w].at = "google"
          /\ events' = events \/ events' = [events EXCEPT ![f].live = FALSE]
      BY <2>11 DEF DeleteCallGoogle
    <3>2. f # e
      BY <2>4, <3>1 DEF OneInv, DeleteKnows
    <3>3. events'[e] = events[e]
      BY <1>2, <3>1, <3>2
    <3> QED
      BY <1>2, <1>4, <2>2, <3>1, <3>3
  <2>12. CASE DeleteWriteLink(w, c)
    <3>1. /\ events' = events /\ u # t /\ Deleting(w, c) /\ work[w].at = "write"
          /\ links' = links \/ links' = [links EXCEPT ![k].live = FALSE]
      BY <2>12 DEF DeleteWriteLink
    <3>2. k # l
      BY <2>4, <3>1 DEF OneInv, DeleteKnows
    <3>3. links'[l] = links[l] /\ DOMAIN links' = DOMAIN links
      BY <1>2, <3>1, <3>2
    <3> QED
      BY <1>2, <1>4, <2>2, <3>1, <3>3
  <2> QED
    BY <1>8, <2>6, <2>7, <2>8, <2>9, <2>10, <2>11, <2>12
<1> QED
  BY <1>6, <1>7, <1>8, StepKinds DEF ProcessItem

LEMMA CurrentOrComingStep ==
  ASSUME CarefulExporter, BoxTypeOK, ExportTypeOK, ClaimsAgree, OneInv, CurrentInv,
         [ExportNext]_exportVars
  PROVE  CurrentOrComing'
<1> SUFFICES ASSUME NEW t \in TaskId, InScope(t)'
             PROVE  \/ Exceptional(t)' \/ HookWillUpsert(t)' \/ UpsertDue(t)'
                    \/ UpsertUnderWay(t)' \/ (Shown(t) /\ ~ UpsertIsStale(t))'
  BY DEF CurrentOrComing
<1>0. OneExporter /\ HookFits /\ LinkedEventLives /\ BatchInOrder /\ DeleteIsFollowed
  BY DEF CarefulExporter, CurrentInv, QueueInOrder
<1>1. CASE tasks'[t] # tasks[t]
  BY <1>1, ChangedIsTold
<1>2. CASE tasks'[t] = tasks[t]
  <2>1. InScope(t) /\ tasks[t].db = "live"
    BY <1>2 DEF InScope
  <2>2. \/ Exceptional(t) \/ HookWillUpsert(t) \/ UpsertDue(t) \/ UpsertUnderWay(t)
        \/ Shown(t) /\ ~ UpsertIsStale(t)
    BY <2>1 DEF CurrentInv, CurrentOrComing
  <2>3. CASE Exceptional(t)
    BY <2>3, ExceptionalStays
  <2>4. CASE HookWillUpsert(t)
    <3>1. ASSUME NEW i \in Item, box'[i].status = "pending",
                 job'[i].kind = "export_upsert", job'[i].task = t
          PROVE  UpsertDue(t)'
      BY <3>1 DEF UpsertDue, ItemsOf
    <3> QED
      BY <1>0, <2>1, <2>4, <3>1, UpsertHookGoesOn
  <2>5. CASE UpsertDue(t)
    <3>1. (Exceptional(t) \/ UpsertDue(t) \/ UpsertUnderWay(t))'
      BY <1>0, <1>2, <2>1, <2>5, DueGoesOn
    <3> QED
      BY <3>1
  <2>6. CASE UpsertUnderWay(t) /\ ~ Exceptional(t)
    <3>1. \/ (Exceptional(t) \/ UpsertDue(t) \/ UpsertUnderWay(t))'
          \/ (Shown(t) /\ ~ UpsertIsStale(t))'
      BY <1>0, <1>2, <2>6, WayGoesOn
    <3> QED
      BY <3>1
  <2>7. CASE /\ Shown(t) /\ ~ UpsertIsStale(t) /\ ~ UpsertUnderWay(t)
             /\ ~ Exceptional(t) /\ ~ HookWillUpsert(t) /\ ~ UpsertDue(t)
    <3>1. \A w \in Worker : \A c \in batch[w] : Deleting(w, c) => job[c.id].task # t
      BY <1>0, <2>1, <2>7, DeleteInHand
    <3>2. (Shown(t) /\ ~ UpsertIsStale(t))'
      BY <1>0, <1>2, <2>1, <2>7, <3>1, ShownStays
    <3> QED
      BY <3>2
  <2> QED
    BY <2>2, <2>3, <2>4, <2>5, <2>6, <2>7
<1> QED
  BY <1>1, <1>2

(* When all items of a task in scope are done there is nothing left on its *)
(* way, so that its last change is what the calendar shows.                *)
THEOREM InScopeCurrentCorrect ==
  ASSUME CarefulExporter
  PROVE  ExportSpec => []InScopeIsCurrent
<1> DEFINE Types == BoxTypeOK /\ ClaimsAgree /\ ExportTypeOK /\ OneInv
<1>0. OneExporter
  BY DEF CarefulExporter
<1>1. ExportInit => CurrentInv
  BY DEF ExportInit, BoxInit, CurrentInv, QueueInOrder, UntriedIsDue, RowsInOrder, LocksInOrder,
         BatchInOrder, Untried, HookFits, NoHook, LinkedEventLives, DeleteIsFollowed,
         CurrentOrComing, InScope
<1>2. Types /\ CurrentInv /\ [ExportNext]_exportVars => CurrentInv'
  <2> SUFFICES ASSUME Types, CurrentInv, [ExportNext]_exportVars
               PROVE  CurrentInv'
    OBVIOUS
  <2>1. [BoxNext]_boxVars
    BY ExportStepIsBoxStep DEF exportVars, boxVars
  <2>2. QueueInOrder'
    BY <1>0, <2>1, QueueStep DEF CurrentInv
  <2>3. HookFits'
    BY HookFitsStep DEF CurrentInv
  <2>4. LinkedEventLives'
    BY <1>0, LinkedEventLivesStep DEF CurrentInv
  <2>5. DeleteIsFollowed'
    BY DeleteIsFollowedStep DEF CurrentInv
  <2>6. CurrentOrComing'
    BY CurrentOrComingStep
  <2> QED
    BY <2>2, <2>3, <2>4, <2>5, <2>6 DEF CurrentInv
<1>3. Types /\ CurrentInv => InScopeIsCurrent
  <2> SUFFICES ASSUME Types, CurrentInv, NEW t \in TaskId, NEW b \in Binding,
                      tasks[t].db = "live", b \in tasks[t].scope, AtRest(t),
                      \A i \in ItemsOf(t) : box[i].status = "done",
                      \A i \in ItemsOf(t) : job[i].kind = "export_delete" => box[i].attempts = 0
               PROVE  \E e \in EventsOf(t, b) : events[e].ver = tasks[t].ver
    BY DEF InScopeIsCurrent
  <2>1. ~ HookWillUpsert(t)
    BY DEF HookWillUpsert, AtRest
  <2>2. \A w \in Worker : \A c \in batch[w] : c.id \notin ItemsOf(t)
    BY DEF ClaimsAgree
  <2>3. ~ UpsertDue(t)
    BY <2>2 DEF UpsertDue
  <2>4. ~ UpsertUnderWay(t)
    <3>1. \A w \in Worker : \A c \in batch[w] : job[c.id].task # t
      BY <2>2 DEF ItemsOf, ClaimsAgree, BoxTypeOK, Claim
    <3> QED
      BY <3>1 DEF UpsertUnderWay
  <2>5. ~ Exceptional(t)
    <3> SUFFICES ASSUME NEW i \in ItemsOf(t), \/ box[i].status = "failed" \/ Stranded(i)
                                              \/ /\ job[i].kind = "export_delete"
                                                 /\ box[i].attempts > 0
                 PROVE  FALSE
      BY DEF Exceptional
    <3> QED
      BY DEF Stranded
  <2>6. Shown(t)
    BY <2>1, <2>3, <2>4, <2>5 DEF CurrentInv, CurrentOrComing, InScope
  <2>7. PICK l \in LinksOf(t) : /\ events[links[l].event].live
                                /\ events[links[l].event].ver = tasks[t].ver
    BY <2>6 DEF Shown
  <2> DEFINE e == links[l].event
  <2>8. e \in DOMAIN events /\ events[e].task = t
    BY DEF OneInv, LinkNamesEvent, LinksOf
  <2>9. events[e].binding = b
    <3>1. events[e] \in Event
      BY <2>8, LenProperties, ElementOfSeq DEF ExportTypeOK
    <3> QED
      BY <1>0, <3>1 DEF Event, OneExporter
  <2> QED
    BY <2>7, <2>8, <2>9 DEF EventsOf
<1> HIDE DEF Types
<1>4. ExportSpec => []Types
  BY <1>0, OneInvHolds DEF Types
<1> QED
  BY <1>1, <1>2, <1>3, <1>4, PTL DEF ExportSpec
=============================================================================
