---------------------------- MODULE FamilyProofs ----------------------------
(***************************************************************************)
(* Theorems about TaskService when requests are served one after another,  *)
(* with every fault: a series never has two occurrences waiting for the    *)
(* user, and none once it is deleted.                                      *)
(***************************************************************************)
EXTENDS TaskProofs

(* No update gives a rule to a task that has none.                         *)
NoNewRule == \A u \in PutRequests : u.rule # "set"

(* No update brings a task whose status is deleted back.                   *)
NoRevival == \A u \in PutRequests : u.status \in {"keep", "done", "deleted"}

(* Two kinds of children are counted.  Those not done are at most one per  *)
(* parent, and none when the parent asks for no confirmation.  Those       *)
(* neither done nor deleted are none when the parent has no rule or is     *)
(* deleted.                                                                *)
Kinds == {"conf", "rule"}

Kid(k, x) == /\ x.db = "live" /\ x.status # "done"
             /\ k = "rule" => NoRevival /\ x.status # "deleted"

(* A row that may have no such children.                                   *)
Barren(k, x) == \/ x.db = "absent"
                \/ k = "conf" /\ x.rule /\ ~ x.conf
                \/ k = "rule" /\ (x.db # "live" \/ ~ x.rule)

Stray(k, v, c, q, x) == v[c].parent = q /\ Kid(k, v[c]) /\ Barren(k, x)

(* The parent of a series.                                                 *)
Parental(x) == x.db = "live" /\ x.rule /\ x.conf

(* What a write may make of a row y.                                       *)
Follows(x, y) == /\ x.db # "absent" /\ x.parent = y.parent /\ (x.rule => y.rule)
                 /\ \A k \in Kinds : Kid(k, x) => Kid(k, y)

(* The table as the transaction sees it.                                   *)
Shown(r, h, d) == [t \in Task |-> IF t \in h THEN d[t] ELSE r[t]]

(* Statements that carry a row to the table, through the pool or not, that *)
(* insert one, and those that come after a transaction or in none.         *)
Pooled(s)  == s.do \in {"write", "resched", "reschedule", "publishMoved"}
Writer(s)  == Pooled(s) \/ s.do \in {"txwrite", "sync"}
Inserts(s) == s.do \in {"insert", "spawn"}
Lone(s)    == Pool(s) \/ Inserts(s) \/ s.do = "nextChild"
Writing(b, t) == b.do = "txwrite" /\ b.t = t

(* No transaction is open when the statements B have run.                  *)
Alone(B, h) == h = {} /\ \A b \in B : ~ Opens(b)

(* The transaction has then written t, unless t is deleted.                *)
Kept(t, B, v, h) == t \in h \/ v[t].db # "live" \/ \E b \in B : Writing(b, t)

(* The statement takes the child c from q, and one before the commit does. *)
Undoes(k) == IF k = "conf" THEN {"confRemoved"} ELSE {"confRemoved", "ruleRemoved"}

Removes(k, s, c, q) ==
  \/ s.do \in {"txdeletechildren", "deleteChildren"} /\ s.t = q
  \/ s.do = "txdelete" /\ s.t = c
  \/ s.do = "sync" /\ s.t = q /\ Undoes(k) \cap s.why # {}

WillRemove(k, f, c, q) ==
  \E j \in DOMAIN f : Removes(k, f[j], c, q) /\ \A m \in DOMAIN f : m < j => ~ Barrier(f[m])

(* The statements before the i-th.                                         *)
Before(f, i) == {f[m] : m \in {n \in DOMAIN f : n < i}}

(* A statement s with the statements B before it, of the list f, suits the *)
(* table v and the rows h held.                                            *)
Suits(s, B, f, v, h) ==
  /\ Opens(s) \/ Closes(s) => "row" \in s.must
  /\ s.msg = "resched" => s.do \in {"write", "resched"}
  /\ Writer(s) => /\ v[s.t].db # "absent"
                  /\ v[s.t].db = "live" => Follows(s.row, v[s.t])
                  /\ s.do = "reschedule" => Unfinished(s.row)
  /\ Pooled(s) =>
       \/ Kept(s.t, B, v, h)
       \/ Alone(B, h) /\ \A k \in Kinds, c \in Task : ~ Stray(k, v, c, s.t, s.row)
  /\ s.do = "txwrite" =>
       \A k \in Kinds, c \in Task : Stray(k, v, c, s.t, s.row) => WillRemove(k, f, c, s.t)
  /\ s.do = "txdelete" =>
       \A c \in Task : v[c].parent = s.t /\ Kid("rule", v[c]) => WillRemove("rule", f, c, s.t)
  /\ Lone(s) => (\E b \in B : Closes(b)) \/ Alone(B, h)
  /\ s.do = "sync" => /\ Kept(s.t, B, v, h) /\ h \subseteq {s.t}
                      /\ \A b \in B : Opens(b) => Writing(b, s.t)
  /\ s.do = "nextChild" =>
       \A c \in Task : v[c].parent = s.t /\ Kid("conf", v[c]) =>
         \E b \in B : Writing(b, c) /\ b.row.status = "done"
  /\ Inserts(s) =>
       /\ v[s.t].db = "live"
       /\ Parental(v[s.t]) \/ \E b \in B : Writing(b, s.t)
       /\ \A c \in Task : v[c].parent = s.t => ~ Kid("conf", v[c])
  /\ s.do = "insert" => s.row.db = "live" /\ s.row.parent = s.t /\ ~ s.row.rule

(* A statement b may come before s.                                        *)
Precedes(b, s) ==
  /\ b.do # "doneChildren"
  /\ Closes(b) => s.do \in {"publish", "spawn", "insert", "nextChild", "doneChildren"}
  /\ Pool(b) => ~ Inserts(s)
  /\ Inserts(b) \/ b.do = "nextChild" => s.do \in {"publish", "doneChildren"}
  /\ Writer(b) /\ Writer(s) /\ b.t = s.t => Follows(s.row, b.row)
  /\ Inserts(s) => /\ b.do \notin {"txdelete", "txdeletechildren", "deleteChildren"}
                   /\ b.do = "sync" => Undoes("rule") \cap b.why = {}
                   /\ Writer(b) /\ b.t = s.t => Parental(b.row)

(* The statements left to a handler suit the table; a transaction is       *)
(* committed, what it holds follows the rows, and it leaves no child to a  *)
(* row that may have none.                                                 *)
FamilyFits(f, r, h, d) ==
  /\ \A i \in DOMAIN f : Suits(f[i], Before(f, i), f, Shown(r, h, d), h)
  /\ \A i \in DOMAIN f : \A b \in Before(f, i) : Precedes(b, f[i])
  /\ \A i \in DOMAIN f : Opens(f[i]) => \E j \in DOMAIN f : i < j /\ Closes(f[j])
  /\ h # {} => \E j \in DOMAIN f : Closes(f[j])
  /\ \A t \in h : Follows(d[t], r[t])
  /\ \A k \in Kinds, c, q \in Task :
       Stray(k, Shown(r, h, d), c, q, Shown(r, h, d)[q]) => WillRemove(k, f, c, q)

(* The table: one child waiting, none where none may be, children have no  *)
(* rule, no task is its own child.                                         *)
OneKid(r) ==
  \A c, e \in Task :
    r[c].parent = r[e].parent /\ r[c].parent # NoTask /\ Kid("conf", r[c]) /\ Kid("conf", r[e])
      => c = e
NoStray(r)    == \A k \in Kinds, c, q \in Task : ~ Stray(k, r, c, q, r[q])
PlainKids(r)  == \A t \in Task : r[t].parent # NoTask => ~ r[t].rule
OwnParents(r) == \A t \in Task : r[t].parent # t

Family(r) == OneKid(r) /\ NoStray(r) /\ PlainKids(r) /\ OwnParents(r)

(* The inductive invariant.                                                *)
FamilyInv ==
  /\ OneInFlight
  /\ \A p \in Proc : FamilyFits(plan[p], rows, held[p], dirty[p])
  /\ Family(rows)

-----------------------------------------------------------------------------
(* Lists of statements.                                                    *)

(* The statements B before what was the j-th of f once a has taken the     *)
(* place of the first.                                                     *)
Later(B, f, j, a) ==
  /\ j # 1 /\ f[1] \in Before(f, j)
  /\ \A b \in B : (\E m \in DOMAIN a : b = a[m]) \/ b \in Before(f, j)
  /\ \A b \in Before(f, j) : b = f[1] \/ b \in B
  /\ \A m \in DOMAIN a : a[m] \in B

(* A list g made of f by replacing its first statement by a: what comes    *)
(* before what.                                                            *)
Spliced(g, a, f) ==
  /\ \A i \in DOMAIN a : i \in DOMAIN g /\ g[i] = a[i] /\ Before(g, i) = Before(a, i)
  /\ \A i \in DOMAIN g :
       \/ i \in DOMAIN a /\ g[i] = a[i]
       \/ \E j \in DOMAIN f : g[i] = f[j] /\ Later(Before(g, i), f, j, a)

(* Replacing the first statement of a list changes what comes before the   *)
(* others only by the statements that take its place.                      *)
LEMMA BeforeParts ==
  ASSUME NEW f \in Seq(Step), f # <<>>, NEW a \in Seq(Step), NEW g, g = a \o Tail(f)
  PROVE  Spliced(g, a, f)
<1> DEFINE n == Len(a)
<1>1. /\ n \in Nat /\ DOMAIN a = 1..n /\ DOMAIN f = 1..Len(f) /\ Len(f) \in Nat
      /\ \A i \in DOMAIN g : \/ i \in DOMAIN a /\ g[i] = a[i]
                             \/ /\ i - n + 1 \in DOMAIN f /\ i > n
                                /\ g[i] = f[i - n + 1]
      /\ \A j \in DOMAIN f : j # 1 => /\ j - 1 + n \in DOMAIN g /\ j - 1 + n > n
                                      /\ g[j - 1 + n] = f[j]
      /\ \A i \in DOMAIN a : i \in DOMAIN g /\ g[i] = a[i]
  BY ListParts, SMTT(30)
<1>2. g \in Seq(Step)
  BY ListParts
<1>3. DOMAIN g = 1..Len(g) /\ Len(g) \in Nat
  BY <1>2, LenProperties
<1> HIDE DEF n
<1>4. ASSUME NEW i \in DOMAIN a PROVE Before(g, i) = Before(a, i)
  <2>1. \A m : m \in DOMAIN g /\ m < i <=> m \in DOMAIN a /\ m < i
    BY <1>1, <1>3, <1>4
  <2>2. {m \in DOMAIN g : m < i} = {m \in DOMAIN a : m < i}
    BY <2>1
  <2>3. \A m \in {l \in DOMAIN a : l < i} : g[m] = a[m]
    BY <1>1
  <2> QED
    BY <2>2, <2>3 DEF Before
<1>5. ASSUME NEW i \in DOMAIN g, NEW j \in DOMAIN f, j = i - n + 1, i > n, g[i] = f[j]
      PROVE  Later(Before(g, i), f, j, a)
  <2>1. j > 1 /\ 1 \in DOMAIN f
    BY <1>1, <1>3, <1>5
  <2>2. ASSUME NEW m \in DOMAIN g, m < i
        PROVE  (\E l \in DOMAIN a : g[m] = a[l]) \/ \E l \in DOMAIN f : l < j /\ g[m] = f[l]
    <3>1. CASE m \in DOMAIN a /\ g[m] = a[m]
      BY <3>1
    <3>2. CASE m - n + 1 \in DOMAIN f /\ g[m] = f[m - n + 1]
      <4>1. m - n + 1 < j
        BY <1>1, <1>3, <1>5, <2>2
      <4> QED
        BY <3>2, <4>1
    <3> QED
      BY <1>1, <2>2, <3>1, <3>2
  <2>3. ASSUME NEW m \in DOMAIN f, m < j, m # 1
        PROVE  \E l \in DOMAIN g : l < i /\ g[l] = f[m]
    <3>1. m - 1 + n \in DOMAIN g /\ g[m - 1 + n] = f[m]
      BY <1>1, <2>3
    <3>2. m - 1 + n < i
      BY <1>1, <1>3, <1>5, <2>3
    <3> QED
      BY <3>1, <3>2
  <2>4. ASSUME NEW m \in DOMAIN a PROVE \E l \in DOMAIN g : l < i /\ g[l] = a[m]
    <3>1. m < i
      BY <1>1, <1>3, <1>5
    <3> QED
      BY <1>1, <3>1
  <2>5. f[1] \in Before(f, j)
    BY <2>1 DEF Before
  <2>6. \A b \in Before(g, i) : (\E m \in DOMAIN a : b = a[m]) \/ b \in Before(f, j)
    BY <2>2 DEF Before
  <2>7. ASSUME NEW b \in Before(f, j), b # f[1] PROVE b \in Before(g, i)
    <3>1. PICK m \in DOMAIN f : m < j /\ b = f[m]
      BY <2>7 DEF Before
    <3> QED
      BY <2>3, <2>7, <3>1 DEF Before
  <2>8. \A m \in DOMAIN a : a[m] \in Before(g, i)
    BY <2>4 DEF Before
  <2> QED
    BY <1>1, <2>1, <2>5, <2>6, <2>7, <2>8 DEF Later
<1>6. ASSUME NEW i \in DOMAIN g, i \notin DOMAIN a
      PROVE  \E j \in DOMAIN f : j = i - n + 1 /\ i > n /\ g[i] = f[j]
  BY <1>1, <1>6
<1> QED
  BY <1>1, <1>4, <1>5, <1>6 DEF Spliced

(* What will be removed still will be, by a statement not yet run or by    *)
(* those that replace it.                                                  *)
LEMMA RemovalStays ==
  ASSUME NEW f \in Seq(Step), f # <<>>, NEW a \in Seq(Step), NEW g, g = a \o Tail(f),
         NEW k, NEW c, NEW q, WillRemove(k, f, c, q)
  PROVE  \/ Removes(k, f[1], c, q)
         \/ ~ Barrier(f[1]) /\ ((\A i \in DOMAIN a : ~ Barrier(a[i])) => WillRemove(k, g, c, q))
<1> DEFINE n == Len(a)
<1>1. /\ n \in Nat /\ DOMAIN a = 1..n /\ DOMAIN f = 1..Len(f) /\ Len(f) \in Nat
      /\ \A i \in DOMAIN g : \/ i \in DOMAIN a /\ g[i] = a[i]
                             \/ /\ i - n + 1 \in DOMAIN f /\ i > n
                                /\ g[i] = f[i - n + 1]
      /\ \A j \in DOMAIN f : j # 1 => /\ j - 1 + n \in DOMAIN g /\ j - 1 + n > n
                                      /\ g[j - 1 + n] = f[j]
  BY ListParts
<1>2. g \in Seq(Step)
  BY ListParts
<1>3. DOMAIN g = 1..Len(g) /\ Len(g) \in Nat
  BY <1>2, LenProperties
<1>4. PICK j \in DOMAIN f : /\ Removes(k, f[j], c, q)
                            /\ \A m \in DOMAIN f : m < j => ~ Barrier(f[m])
  BY DEF WillRemove
<1> HIDE DEF n
<1>5. CASE j = 1
  BY <1>4, <1>5
<1>6. CASE j # 1
  <2>1. 1 \in DOMAIN f /\ 1 < j
    BY <1>1, <1>6
  <2>2. ~ Barrier(f[1])
    BY <1>4, <2>1
  <2>3. ASSUME \A i \in DOMAIN a : ~ Barrier(a[i]) PROVE WillRemove(k, g, c, q)
    <3>1. j - 1 + n \in DOMAIN g /\ g[j - 1 + n] = f[j]
      BY <1>1, <1>6
    <3>2. ASSUME NEW m \in DOMAIN g, m < j - 1 + n PROVE ~ Barrier(g[m])
      <4>1. CASE m \in DOMAIN a /\ g[m] = a[m]
        BY <2>3, <4>1
      <4>2. CASE m - n + 1 \in DOMAIN f /\ g[m] = f[m - n + 1]
        <5>1. m - n + 1 < j
          BY <1>1, <1>3, <3>2
        <5> QED
          BY <1>4, <4>2, <5>1
      <4> QED
        BY <1>1, <3>2, <4>1, <4>2
    <3> QED
      BY <1>4, <3>1, <3>2 DEF WillRemove
  <2> QED
    BY <2>2, <2>3
<1> QED
  BY <1>5, <1>6

(* What the statements that replace the first one remove.                  *)
LEMMA RemovalLaid ==
  ASSUME NEW f \in Seq(Step), f # <<>>, NEW a \in Seq(Step), NEW g, g = a \o Tail(f),
         NEW k, NEW c, NEW q, WillRemove(k, a, c, q)
  PROVE  WillRemove(k, g, c, q)
<1>1. PICK j \in DOMAIN a : /\ Removes(k, a[j], c, q)
                            /\ \A m \in DOMAIN a : m < j => ~ Barrier(a[m])
  BY DEF WillRemove
<1>2. DOMAIN a = 1..Len(a) /\ Len(a) \in Nat /\ \A i \in DOMAIN a : i \in DOMAIN g /\ g[i] = a[i]
  BY ListParts
<1>3. g \in Seq(Step)
  BY ListParts
<1>4. DOMAIN g = 1..Len(g)
  BY <1>3, LenProperties
<1>5. ASSUME NEW m \in DOMAIN g, m < j PROVE m \in DOMAIN a
  BY <1>2, <1>4, <1>5
<1> QED
  BY <1>1, <1>2, <1>5 DEF WillRemove

(* Every transaction that is opened is still closed.                       *)
LEMMA ClosingStays ==
  ASSUME NEW f \in Seq(Step), f # <<>>, NEW a \in Seq(Step), NEW g, g = a \o Tail(f),
         \A i \in DOMAIN f : Opens(f[i]) => \E j \in DOMAIN f : i < j /\ Closes(f[j]),
         \A i \in DOMAIN a : Opens(a[i]) =>
           \/ \E j \in DOMAIN a : i < j /\ Closes(a[j])
           \/ \E j \in DOMAIN f : j # 1 /\ Closes(f[j])
  PROVE  /\ \A i \in DOMAIN g : Opens(g[i]) => \E j \in DOMAIN g : i < j /\ Closes(g[j])
         /\ \A j \in DOMAIN f : j # 1 /\ Closes(f[j]) => \E i \in DOMAIN g : Closes(g[i])
         /\ \A j \in DOMAIN a : Closes(a[j]) => \E i \in DOMAIN g : Closes(g[i])
<1> DEFINE n == Len(a)
<1>1. /\ n \in Nat /\ DOMAIN a = 1..n /\ DOMAIN f = 1..Len(f) /\ Len(f) \in Nat
      /\ \A i \in DOMAIN g : \/ i \in DOMAIN a /\ g[i] = a[i]
                             \/ /\ i - n + 1 \in DOMAIN f /\ i > n
                                /\ g[i] = f[i - n + 1]
      /\ \A j \in DOMAIN f : j # 1 => /\ j - 1 + n \in DOMAIN g /\ j - 1 + n > n
                                      /\ g[j - 1 + n] = f[j]
      /\ \A i \in DOMAIN a : i \in DOMAIN g /\ g[i] = a[i]
  BY ListParts
<1>2. g \in Seq(Step)
  BY ListParts
<1>3. DOMAIN g = 1..Len(g) /\ Len(g) \in Nat
  BY <1>2, LenProperties
<1> HIDE DEF n
<1>4. ASSUME NEW j \in DOMAIN f, j # 1, Closes(f[j])
      PROVE  j - 1 + n \in DOMAIN g /\ j - 1 + n > n /\ Closes(g[j - 1 + n])
  BY <1>1, <1>4
<1>5. ASSUME NEW i \in DOMAIN g, Opens(g[i]) PROVE \E j \in DOMAIN g : i < j /\ Closes(g[j])
  <2>1. CASE i \in DOMAIN a /\ g[i] = a[i]
    <3>1. CASE \E j \in DOMAIN a : i < j /\ Closes(a[j])
      BY <1>1, <3>1
    <3>2. ASSUME NEW j \in DOMAIN f, j # 1, Closes(f[j])
          PROVE \E m \in DOMAIN g : i < m /\ Closes(g[m])
      <4>1. i < j - 1 + n
        BY <1>1, <1>3, <2>1, <3>2
      <4> QED
        BY <1>4, <3>2, <4>1
    <3> QED
      BY <1>5, <2>1, <3>1, <3>2
  <2>2. CASE i - n + 1 \in DOMAIN f /\ i > n /\ g[i] = f[i - n + 1]
    <3>1. PICK j \in DOMAIN f : i - n + 1 < j /\ Closes(f[j])
      BY <1>5, <2>2
    <3>2. j # 1 /\ i < j - 1 + n
      BY <1>1, <1>3, <2>2, <3>1
    <3> QED
      BY <1>4, <3>1, <3>2
  <2> QED
    BY <1>1, <2>1, <2>2
<1> QED
  BY <1>1, <1>4, <1>5

-----------------------------------------------------------------------------
(* What a step does to the table as the transaction sees it.               *)

(* A row is soft-deleted.                                                  *)
Fell(x, y) == /\ x.db = "gone" /\ x.parent = y.parent
              /\ x.rule = y.rule /\ x.conf = y.conf

(* The step of a statement s takes the table v to v2 and the rows held     *)
(* from h to h2.                                                           *)
Moved(s, v, v2, h, h2) ==
  /\ \A t \in Task :
       \/ v2[t] = v[t]
       \/ /\ Fell(v2[t], v[t])
          /\ \/ s.do = "txdelete" /\ t = s.t
             \/ s.do = "txdeletechildren" /\ v[t].parent = s.t
       \/ /\ s.do \in {"write", "txwrite"} /\ t = s.t /\ v[t].db = "live" /\ v2[t] = s.row
          /\ s.do = "write" => t \notin h
  /\ s.do = "txwrite" => /\ v[s.t].db = "live" => v2[s.t] = s.row /\ s.t \in h2
                         /\ h2 \subseteq h \cup {s.t}
  /\ s.do = "commit" => h2 = {}
  /\ s.do # "commit" => h \subseteq h2 /\ (~ Opens(s) => h2 = h)

(* The statements a that take the place of the first statement s of f.     *)
Laid(a, s, f, g, v2, h2) ==
  /\ \A i \in DOMAIN a : Suits(a[i], Before(a, i), g, v2, h2)
  /\ \A i \in DOMAIN a : \A b \in Before(a, i) : Precedes(b, a[i])
  /\ \A i \in DOMAIN a, j \in DOMAIN f : j # 1 => Precedes(a[i], f[j])
  /\ \A i \in DOMAIN a : Opens(a[i]) =>
       \/ \E j \in DOMAIN a : i < j /\ Closes(a[j])
       \/ \E j \in DOMAIN f : j # 1 /\ Closes(f[j])
  /\ s.do = "commit" => a = <<>>
  /\ s.do = "sync" => \E i \in DOMAIN a : Closes(a[i])
  /\ ~ Barrier(s) => \A i \in DOMAIN a : /\ ~ Barrier(a[i])
                                         /\ s.do # "deleteChildren" => ~ Opens(a[i])
  /\ \A k \in Kinds, c, q \in Task :
       Removes(k, s, c, q) /\ v2[c].parent = q /\ Kid(k, v2[c]) => WillRemove(k, g, c, q)

(* Nothing comes before the first statement.                               *)
LEMMA BeforeFirst ==
  ASSUME NEW f \in Seq(Step) PROVE Before(f, 1) = {}
<1>1. DOMAIN f = 1..Len(f) /\ Len(f) \in Nat
  BY LenProperties
<1>2. {m \in DOMAIN f : m < 1} = {}
  BY <1>1
<1> QED
  BY <1>2 DEF Before

(* A row keeps its parent, and what is a child was one.                    *)
LEMMA KidsStay ==
  ASSUME NEW s, NEW f, NEW v, NEW v2, NEW h, NEW h2,
         Moved(s, v, v2, h, h2), Suits(s, {}, f, v, h), NEW c \in Task
  PROVE  /\ v2[c].parent = v[c].parent
         /\ \A k \in Kinds : Kid(k, v2[c]) => Kid(k, v[c])
         /\ v[c].db # "absent" => v2[c].db # "absent"
         /\ v[c].db # "live" => v2[c].db # "live"
         /\ v2[c].rule => v[c].rule
<1>1. CASE v2[c] = v[c]
  BY <1>1
<1>2. CASE Fell(v2[c], v[c])
  BY <1>2 DEF Fell, Kid
<1>3. CASE s.do \in {"write", "txwrite"} /\ c = s.t /\ v[c].db = "live" /\ v2[c] = s.row
  <2>1. Follows(s.row, v[c])
    BY <1>3 DEF Suits, Writer, Pooled
  <2> QED
    BY <1>3, <2>1 DEF Follows
<1> QED
  BY <1>1, <1>2, <1>3 DEF Moved

(* What was to be removed still will be, or is no child any more.          *)
LEMMA RemovalGoesOn ==
  ASSUME NEW f \in Seq(Step), f # <<>>, NEW a \in Seq(Step), NEW g, g = a \o Tail(f),
         NEW v2, NEW h2, Laid(a, f[1], f, g, v2, h2),
         NEW k \in Kinds, NEW c \in Task, NEW q \in Task,
         WillRemove(k, f, c, q), v2[c].parent = q, Kid(k, v2[c])
  PROVE  WillRemove(k, g, c, q)
<1>1. \/ Removes(k, f[1], c, q)
      \/ ~ Barrier(f[1]) /\ ((\A i \in DOMAIN a : ~ Barrier(a[i])) => WillRemove(k, g, c, q))
  BY RemovalStays
<1>2. CASE Removes(k, f[1], c, q)
  BY <1>2 DEF Laid
<1>3. CASE ~ Barrier(f[1])
  BY <1>1, <1>2, <1>3 DEF Laid
<1> QED
  BY <1>1, <1>2, <1>3

(* A row that gets barren children has them removed.                       *)
LEMMA StraysGoOn ==
  ASSUME NEW f \in Seq(Step), f # <<>>, NEW a \in Seq(Step), NEW g, g = a \o Tail(f),
         NEW v, NEW v2, NEW h, NEW h2,
         Laid(a, f[1], f, g, v2, h2), Moved(f[1], v, v2, h, h2), Suits(f[1], {}, f, v, h),
         PlainKids(v), f[1] \in Step,
         \A k \in Kinds, c, q \in Task : Stray(k, v, c, q, v[q]) => WillRemove(k, f, c, q),
         NEW k \in Kinds, NEW c \in Task, NEW q \in Task, Stray(k, v2, c, q, v2[q])
  PROVE  WillRemove(k, g, c, q)
<1>1. v2[c].parent = q /\ Kid(k, v2[c]) /\ Barren(k, v2[q]) /\ v[c].parent = q /\ Kid(k, v[c])
  BY KidsStay DEF Stray
<1>2. SUFFICES WillRemove(k, f, c, q)
  BY <1>1, <1>2, RemovalGoesOn
<1>3. SUFFICES ASSUME ~ Barren(k, v[q]) PROVE WillRemove(k, f, c, q)
  BY <1>1, <1>3 DEF Stray
<1>4. v2[q] # v[q]
  BY <1>1, <1>3
<1>5. CASE /\ Fell(v2[q], v[q])
           /\ \/ f[1].do = "txdelete" /\ q = f[1].t
              \/ f[1].do = "txdeletechildren" /\ v[q].parent = f[1].t
  <2>1. k = "rule" /\ v[q].rule
    BY <1>1, <1>3, <1>5 DEF Fell, Barren, Kinds
  <2>2. CASE f[1].do = "txdelete" /\ q = f[1].t
    BY <1>1, <2>1, <2>2 DEF Suits
  <2>3. CASE f[1].do = "txdeletechildren" /\ v[q].parent = f[1].t
    <3>1. f[1].t \in Task
      BY <2>3 DEF Step, Fields
    <3>2. v[q].parent # NoTask
      BY <2>3, <3>1 DEF Task, NoTask
    <3> QED
      BY <2>1, <3>2 DEF PlainKids
  <2> QED
    BY <1>5, <2>2, <2>3
<1>6. CASE /\ f[1].do \in {"write", "txwrite"} /\ q = f[1].t /\ v[q].db = "live" /\ v2[q] = f[1].row
           /\ f[1].do = "write" => q \notin h
  <2>1. Stray(k, v, c, q, f[1].row)
    BY <1>1, <1>6 DEF Stray
  <2>2. CASE f[1].do = "txwrite"
    BY <1>6, <2>1, <2>2 DEF Suits
  <2>3. CASE f[1].do = "write"
    <3>1. Pooled(f[1]) /\ f[1].t \notin h /\ ~ Kept(f[1].t, {}, v, h)
      BY <1>6, <2>3 DEF Pooled, Kept
    <3> QED
      BY <1>6, <2>1, <3>1 DEF Suits
  <2> QED
    BY <1>6, <2>2, <2>3
<1> QED
  BY <1>4, <1>5, <1>6 DEF Moved

(* The first statement of the plan f was taken, and f[j] is now preceded by  *)
(* the statements B2 of the plan g.                                          *)
Taken(f, a, g, v, v2, h, h2, j, B2) ==
  /\ f \in Seq(Step) /\ f # <<>> /\ a \in Seq(Step) /\ g = a \o Tail(f)
  /\ Laid(a, f[1], f, g, v2, h2) /\ Moved(f[1], v, v2, h, h2) /\ Suits(f[1], {}, f, v, h)
  /\ j \in DOMAIN f /\ j # 1 /\ f[j] \in Step /\ Suits(f[j], Before(f, j), f, v, h)
  /\ \A b \in Before(f, j) : Precedes(b, f[j])
  /\ \A m \in DOMAIN f : m # 1 => Precedes(f[1], f[m])
  /\ Later(B2, f, j, a)

(* A later statement of f goes on to suit the table.                       *)
LEMMA SuitsOn ==
  ASSUME NEW f, NEW a, NEW g, NEW v, NEW v2, NEW h, NEW h2, NEW j, NEW B2,
         Taken(f, a, g, v, v2, h, h2, j, B2)
  PROVE  Suits(f[j], B2, g, v2, h2)
<1> SUFFICES ASSUME f \in Seq(Step), f # <<>>, a \in Seq(Step), g = a \o Tail(f),
                    Laid(a, f[1], f, g, v2, h2), Moved(f[1], v, v2, h, h2),
                    Suits(f[1], {}, f, v, h), j \in DOMAIN f, j # 1, f[j] \in Step,
                    Suits(f[j], Before(f, j), f, v, h),
                    \A b \in Before(f, j) : Precedes(b, f[j]),
                    \A m \in DOMAIN f : m # 1 => Precedes(f[1], f[m]),
                    Later(B2, f, j, a)
             PROVE  Suits(f[j], B2, g, v2, h2)
  BY DEF Taken
<1> DEFINE s == f[1]
           x == f[j]
           B == Before(f, j)
<1>1. /\ Precedes(s, x) /\ s \in B
      /\ \A b \in B2 : (\E m \in DOMAIN a : b = a[m]) \/ b \in B
      /\ \A b \in B : b = s \/ b \in B2
      /\ \A m \in DOMAIN a : a[m] \in B2
  BY DEF Later
<1>2. \A k \in Kinds, c, q \in Task :
        v2[c].parent = q /\ Kid(k, v2[c]) => v[c].parent = q /\ Kid(k, v[c])
  BY KidsStay
<1>3. \A y : \A k \in Kinds, c, q \in Task : Stray(k, v2, c, q, y) => Stray(k, v, c, q, y)
  BY <1>2 DEF Stray
<1>4. x.do \in Statements \cup {"commit", "reschedulecron"} /\ x.t \in Task \cup {NoTask}
  BY DEF Step, Fields
<1>5. x.do \notin {"commit", "reschedulecron"} => x.t \in Task
  BY DEF Step, Fields
<1>6. Writer(x) => x.t \in Task /\ v2[x.t].db # "absent" /\ v[x.t].db # "absent"
  <2> SUFFICES ASSUME Writer(x) PROVE x.t \in Task /\ v2[x.t].db # "absent" /\ v[x.t].db # "absent"
    OBVIOUS
  <2>1. x.t \in Task
    BY <1>5 DEF Writer, Pooled
  <2>2. v[x.t].db # "absent"
    BY DEF Suits
  <2> QED
    BY <2>1, <2>2, KidsStay
<1>7. ASSUME Writer(x), v2[x.t].db = "live" PROVE Follows(x.row, v2[x.t])
  <2>1. x.t \in Task
    BY <1>6, <1>7
  <2>2. v[x.t].db = "live"
    BY <1>7, <2>1, KidsStay
  <2>3. CASE v2[x.t] = v[x.t]
    BY <1>7, <2>2, <2>3 DEF Suits
  <2>4. CASE Fell(v2[x.t], v[x.t])
    BY <1>7, <2>4 DEF Fell
  <2>5. CASE s.do \in {"write", "txwrite"} /\ x.t = s.t /\ v2[x.t] = s.row
    BY <1>1, <1>7, <2>5 DEF Precedes, Writer, Pooled
  <2> QED
    BY <2>1, <2>3, <2>4, <2>5 DEF Moved
<1>8. ASSUME Kept(x.t, B, v, h), s.do # "commit", x.t \in Task PROVE Kept(x.t, B2, v2, h2)
  <2>1. CASE x.t \in h
    BY <1>8, <2>1 DEF Moved, Kept
  <2>2. CASE v[x.t].db # "live"
    BY <1>8, <2>2, KidsStay DEF Kept
  <2>3. ASSUME NEW b \in B, Writing(b, x.t), b = s, v[x.t].db = "live" PROVE x.t \in h2
    BY <2>3 DEF Moved, Writing
  <2>4. ASSUME NEW b \in B, Writing(b, x.t), b # s PROVE Kept(x.t, B2, v2, h2)
    BY <1>1, <2>4 DEF Kept
  <2> QED
    BY <1>8, <2>1, <2>2, <2>3, <2>4 DEF Kept
<1>9. ASSUME Alone(B, h), ~ Closes(s), s.do # "doneChildren" PROVE Alone(B2, h2)
  <2>1. ~ Opens(s) /\ s.do # "commit" /\ s.do # "deleteChildren" /\ ~ Barrier(s)
    BY <1>1, <1>9 DEF Alone, Opens, Closes, Barrier
  <2>2. h2 = {}
    BY <1>9, <2>1 DEF Alone, Moved
  <2>3. \A m \in DOMAIN a : ~ Opens(a[m])
    BY <2>1 DEF Laid
  <2> QED
    BY <1>1, <1>9, <2>2, <2>3 DEF Alone
<1>10. s.do # "doneChildren"
  BY <1>1 DEF Precedes
<1>11. Writer(x) => ~ Closes(s) /\ s.do # "commit"
  BY <1>1 DEF Precedes, Writer, Pooled, Closes
<1>12. ASSUME Pooled(x)
       PROVE  \/ Kept(x.t, B2, v2, h2)
              \/ /\ Alone(B2, h2)
                 /\ \A k \in Kinds, c \in Task : ~ Stray(k, v2, c, x.t, x.row)
  <2>1. Writer(x) /\ x.t \in Task
    BY <1>6, <1>12 DEF Writer
  <2>2. \/ Kept(x.t, B, v, h)
        \/ Alone(B, h) /\ \A k \in Kinds, c \in Task : ~ Stray(k, v, c, x.t, x.row)
    BY <1>12 DEF Suits
  <2> QED
    BY <1>3, <1>8, <1>9, <1>10, <1>11, <2>1, <2>2
<1>13. ASSUME x.do = "txwrite", NEW k \in Kinds, NEW c \in Task, Stray(k, v2, c, x.t, x.row)
       PROVE  WillRemove(k, g, c, x.t)
  <2>1. x.t \in Task
    BY <1>5, <1>13
  <2>2. Stray(k, v, c, x.t, x.row)
    BY <1>3, <1>13, <2>1
  <2>3. WillRemove(k, f, c, x.t)
    BY <1>13, <2>2 DEF Suits
  <2> QED
    BY <1>13, <2>1, <2>3, RemovalGoesOn DEF Stray
<1>14. ASSUME x.do = "txdelete", NEW c \in Task, v2[c].parent = x.t, Kid("rule", v2[c])
       PROVE  WillRemove("rule", g, c, x.t)
  <2>1. x.t \in Task /\ "rule" \in Kinds
    BY <1>5, <1>14 DEF Kinds
  <2>2. v[c].parent = x.t /\ Kid("rule", v[c])
    BY <1>2, <1>14, <2>1
  <2>3. WillRemove("rule", f, c, x.t)
    BY <1>14, <2>2 DEF Suits
  <2> QED
    BY <1>14, <2>1, <2>3, RemovalGoesOn
<1>15. ASSUME Lone(x) PROVE (\E b \in B2 : Closes(b)) \/ Alone(B2, h2)
  <2>1. ASSUME NEW b \in B, Closes(b), b # s PROVE \E e \in B2 : Closes(e)
    BY <1>1, <2>1
  <2>2. CASE s.do = "sync"
    BY <1>1, <2>2 DEF Laid
  <2>3. CASE s.do = "commit"
    <3>1. a = <<>> /\ h2 = {}
      BY <2>3 DEF Laid, Moved
    <3>2. DOMAIN a = {}
      BY <3>1
    <3>3. ASSUME NEW b \in B PROVE ~ Opens(b)
      <4>1. PICK m \in DOMAIN f : b = f[m]
        BY DEF Before
      <4>2. CASE m = 1
        BY <2>3, <4>1, <4>2 DEF Opens
      <4>3. CASE m # 1
        BY <2>3, <4>1, <4>3 DEF Precedes, Closes, Opens
      <4> QED
        BY <4>2, <4>3
    <3> QED
      BY <1>1, <3>1, <3>2, <3>3 DEF Alone
  <2>4. CASE ~ Closes(s)
    BY <1>9, <1>10, <1>15, <2>1, <2>4 DEF Suits
  <2> QED
    BY <2>2, <2>3, <2>4 DEF Closes
<1>16. ASSUME x.do = "sync"
       PROVE  /\ Kept(x.t, B2, v2, h2) /\ h2 \subseteq {x.t}
              /\ \A b \in B2 : Opens(b) => Writing(b, x.t)
  <2>1. /\ Kept(x.t, B, v, h) /\ h \subseteq {x.t}
        /\ \A b \in B : Opens(b) => Writing(b, x.t)
    BY <1>16 DEF Suits
  <2>2. Writer(x) /\ x.t \in Task /\ ~ Closes(s) /\ s.do # "commit"
    BY <1>6, <1>11, <1>16 DEF Writer
  <2>3. ~ Barrier(s) /\ s.do # "deleteChildren"
    BY <1>1, <1>10, <2>1, <2>2 DEF Barrier, Closes, Opens, Writing
  <2>4. h2 \subseteq {x.t}
    <3>1. CASE Opens(s)
      <4>1. s.do = "txwrite" /\ s.t = x.t
        BY <1>1, <2>1, <3>1 DEF Writing
      <4> QED
        BY <2>1, <4>1 DEF Moved
    <3>2. CASE ~ Opens(s)
      BY <2>1, <2>2, <3>2 DEF Moved
    <3> QED
      BY <3>1, <3>2
  <2>5. \A m \in DOMAIN a : ~ Opens(a[m])
    BY <2>3 DEF Laid
  <2>6. Kept(x.t, B2, v2, h2)
    BY <1>8, <2>1, <2>2
  <2> QED
    BY <1>1, <2>1, <2>4, <2>5, <2>6
<1>17. ASSUME x.do = "nextChild", NEW c \in Task, v2[c].parent = x.t, Kid("conf", v2[c])
       PROVE  \E b \in B2 : Writing(b, c) /\ b.row.status = "done"
  <2>1. x.t \in Task /\ "conf" \in Kinds
    BY <1>5, <1>17 DEF Kinds
  <2>2. v[c].parent = x.t /\ Kid("conf", v[c])
    BY <1>2, <1>17, <2>1
  <2>3. PICK b \in B : Writing(b, c) /\ b.row.status = "done"
    BY <1>17, <2>2 DEF Suits
  <2>4. CASE b = s
    <3>1. v2[c] = s.row
      BY <2>2, <2>3, <2>4 DEF Moved, Writing, Kid
    <3> QED
      BY <1>17, <2>3, <2>4, <3>1 DEF Kid
  <2> QED
    BY <1>1, <2>3, <2>4
<1>18. ASSUME Inserts(x)
       PROVE  /\ v2[x.t].db = "live"
              /\ Parental(v2[x.t]) \/ \E b \in B2 : Writing(b, x.t)
              /\ \A c \in Task : v2[c].parent = x.t => ~ Kid("conf", v2[c])
  <2>1. /\ v[x.t].db = "live"
        /\ Parental(v[x.t]) \/ \E b \in B : Writing(b, x.t)
        /\ \A c \in Task : v[c].parent = x.t => ~ Kid("conf", v[c])
    BY <1>18 DEF Suits
  <2>2. x.t \in Task /\ "conf" \in Kinds
    BY <1>5, <1>18 DEF Inserts, Kinds
  <2>3. \/ v2[x.t] = v[x.t]
        \/ s.do \in {"write", "txwrite"} /\ x.t = s.t /\ v2[x.t] = s.row /\ Parental(s.row)
    <3>1. s.do \notin {"txdelete", "txdeletechildren"}
      BY <1>1, <1>18 DEF Precedes
    <3>2. s.do \in {"write", "txwrite"} /\ x.t = s.t => Parental(s.row)
      BY <1>1, <1>18 DEF Precedes, Writer, Pooled
    <3> QED
      BY <2>2, <3>1, <3>2 DEF Moved
  <2>4. v2[x.t].db = "live"
    BY <2>1, <2>3 DEF Parental
  <2>5. ASSUME NEW b \in B, b = s, Writing(b, x.t) PROVE Parental(v2[x.t])
    <3>1. s.do = "txwrite" /\ s.t = x.t
      BY <2>5 DEF Writing
    <3>2. v2[x.t] = s.row
      BY <2>1, <3>1 DEF Moved
    <3> QED
      BY <1>1, <1>18, <3>1, <3>2 DEF Precedes, Writer
  <2>6. Parental(v2[x.t]) \/ \E b \in B2 : Writing(b, x.t)
    BY <1>1, <2>1, <2>3, <2>5
  <2>7. \A c \in Task : v2[c].parent = x.t => ~ Kid("conf", v2[c])
    BY <1>2, <2>1, <2>2
  <2> QED
    BY <2>4, <2>6, <2>7
<1>19. /\ Opens(x) \/ Closes(x) => "row" \in x.must
       /\ x.msg = "resched" => x.do \in {"write", "resched"}
       /\ Writer(x) /\ x.do = "reschedule" => Unfinished(x.row)
       /\ x.do = "insert" => x.row.db = "live" /\ x.row.parent = x.t /\ ~ x.row.rule
  BY DEF Suits
<1> HIDE DEF x
<1>20. Writer(x) => /\ v2[x.t].db # "absent"
                    /\ v2[x.t].db = "live" => Follows(x.row, v2[x.t])
                    /\ x.do = "reschedule" => Unfinished(x.row)
  BY <1>6, <1>7, <1>19
<1>21. x.do = "txwrite" =>
         \A k \in Kinds, c \in Task : Stray(k, v2, c, x.t, x.row) => WillRemove(k, g, c, x.t)
  BY <1>13
<1>22. x.do = "txdelete" =>
         \A c \in Task : v2[c].parent = x.t /\ Kid("rule", v2[c]) => WillRemove("rule", g, c, x.t)
  BY <1>14
<1>23. x.do = "nextChild" =>
         \A c \in Task : v2[c].parent = x.t /\ Kid("conf", v2[c]) =>
           \E b \in B2 : Writing(b, c) /\ b.row.status = "done"
  BY <1>17
<1>24. Suits(x, B2, g, v2, h2)
  BY <1>12, <1>15, <1>16, <1>18, <1>19, <1>20, <1>21, <1>22, <1>23 DEF Suits
<1> QED
  BY <1>24 DEF x

(* The statements that are left after a step go on to fit.                 *)
LEMMA FitsOn ==
  ASSUME NEW f \in Seq(Step), f # <<>>, NEW a \in Seq(Step), NEW g, g = a \o Tail(f),
         NEW r, NEW h, NEW d, NEW r2, NEW h2, NEW d2,
         FamilyFits(f, r, h, d), PlainKids(Shown(r, h, d)),
         Moved(f[1], Shown(r, h, d), Shown(r2, h2, d2), h, h2),
         Laid(a, f[1], f, g, Shown(r2, h2, d2), h2),
         \A t \in h2 : Follows(d2[t], r2[t])
  PROVE  FamilyFits(g, r2, h2, d2)
<1> DEFINE v == Shown(r, h, d)
           v2 == Shown(r2, h2, d2)
           s == f[1]
<1>1. /\ \A i \in DOMAIN f : Suits(f[i], Before(f, i), f, v, h)
      /\ \A i \in DOMAIN f : \A b \in Before(f, i) : Precedes(b, f[i])
      /\ \A i \in DOMAIN f : Opens(f[i]) => \E j \in DOMAIN f : i < j /\ Closes(f[j])
      /\ h # {} => \E j \in DOMAIN f : Closes(f[j])
      /\ \A k \in Kinds, c, q \in Task : Stray(k, v, c, q, v[q]) => WillRemove(k, f, c, q)
  BY DEF FamilyFits
<1>2. /\ \A i \in DOMAIN a : i \in DOMAIN g /\ g[i] = a[i] /\ Before(g, i) = Before(a, i)
      /\ \A i \in DOMAIN g :
           \/ i \in DOMAIN a /\ g[i] = a[i]
           \/ \E j \in DOMAIN f : g[i] = f[j] /\ Later(Before(g, i), f, j, a)
  <2>1. Spliced(g, a, f)
    BY BeforeParts
  <2> QED
    BY <2>1 DEF Spliced
<1>3. DOMAIN f = 1..Len(f) /\ Len(f) \in Nat /\ Len(f) # 0
  BY LenProperties, EmptySeq
<1>4. 1 \in DOMAIN f /\ \A j \in DOMAIN f : j # 1 => 1 < j
  BY <1>3
<1>5. \A j \in DOMAIN f : f[j] \in Step
  BY ElementOfSeq, <1>3
<1>6. Suits(s, {}, f, v, h)
  BY <1>1, <1>4, BeforeFirst
<1>7. \A m \in DOMAIN f : m # 1 => Precedes(f[1], f[m])
  BY <1>1, <1>4 DEF Before
<1>8. Laid(a, s, f, g, v2, h2) /\ Moved(s, v, v2, h, h2) /\ PlainKids(v)
  OBVIOUS
<1> HIDE DEF v, v2, s
<1>9. \A i \in DOMAIN g : Suits(g[i], Before(g, i), g, v2, h2)
  <2> TAKE i \in DOMAIN g
  <2>1. CASE i \in DOMAIN a /\ g[i] = a[i]
    BY <1>2, <1>8, <2>1 DEF Laid
  <2>2. ASSUME NEW j \in DOMAIN f, g[i] = f[j], Later(Before(g, i), f, j, a)
        PROVE  Suits(g[i], Before(g, i), g, v2, h2)
    <3>1. j # 1
      BY <2>2 DEF Later
    <3>2. Suits(f[j], Before(f, j), f, v, h) /\ \A b \in Before(f, j) : Precedes(b, f[j])
      BY <1>1
    <3>3. f[j] \in Step
      BY <1>5
    <3>4. Laid(a, f[1], f, g, v2, h2) /\ Moved(f[1], v, v2, h, h2) /\ Suits(f[1], {}, f, v, h)
      BY <1>6, <1>8 DEF s
    <3>5. Taken(f, a, g, v, v2, h, h2, j, Before(g, i))
      BY <1>7, <2>2, <3>1, <3>2, <3>3, <3>4 DEF Taken
    <3>6. Suits(f[j], Before(g, i), g, v2, h2)
      BY <3>5, SuitsOn
    <3> QED
      BY <2>2, <3>6
  <2> QED
    BY <1>2, <2>1, <2>2
<1>10. \A i \in DOMAIN g : \A b \in Before(g, i) : Precedes(b, g[i])
  <2> TAKE i \in DOMAIN g
  <2> TAKE b \in Before(g, i)
  <2>1. CASE i \in DOMAIN a /\ g[i] = a[i]
    BY <1>2, <1>8, <2>1 DEF Laid
  <2>2. ASSUME NEW j \in DOMAIN f, g[i] = f[j], Later(Before(g, i), f, j, a)
        PROVE  Precedes(b, g[i])
    <3>1. j # 1 /\ ((\E m \in DOMAIN a : b = a[m]) \/ b \in Before(f, j))
      BY <2>2 DEF Later
    <3> QED
      BY <1>1, <1>8, <2>2, <3>1 DEF Laid
  <2> QED
    BY <1>2, <2>1, <2>2
<1>11. /\ \A i \in DOMAIN g : Opens(g[i]) => \E j \in DOMAIN g : i < j /\ Closes(g[j])
       /\ \A j \in DOMAIN f : j # 1 /\ Closes(f[j]) => \E i \in DOMAIN g : Closes(g[i])
       /\ \A j \in DOMAIN a : Closes(a[j]) => \E i \in DOMAIN g : Closes(g[i])
  <2>1. \A i \in DOMAIN a : Opens(a[i]) =>
          \/ \E j \in DOMAIN a : i < j /\ Closes(a[j])
          \/ \E j \in DOMAIN f : j # 1 /\ Closes(f[j])
    BY <1>8 DEF Laid
  <2>2. \A i \in DOMAIN f : Opens(f[i]) => \E j \in DOMAIN f : i < j /\ Closes(f[j])
    BY <1>1
  <2> QED
    BY <2>1, <2>2, ClosingStays, ZenonT(20)
<1>12. h2 # {} => \E j \in DOMAIN g : Closes(g[j])
  <2> SUFFICES ASSUME h2 # {} PROVE \E j \in DOMAIN g : Closes(g[j])
    OBVIOUS
  <2>1. s.do # "commit"
    BY <1>8 DEF Moved
  <2>2. CASE s.do = "sync"
    BY <1>8, <1>11, <2>2 DEF Laid
  <2>3. CASE Opens(s)
    <3>1. PICK j \in DOMAIN f : 1 < j /\ Closes(f[j])
      BY <1>1, <1>4, <2>3 DEF s
    <3>2. j # 1
      BY <1>3, <3>1
    <3> QED
      BY <1>11, <3>1, <3>2
  <2>4. CASE ~ Opens(s) /\ ~ Closes(s)
    <3>1. h # {}
      BY <1>8, <2>1, <2>4 DEF Moved
    <3>2. PICK j \in DOMAIN f : Closes(f[j])
      BY <1>1, <3>1
    <3>3. j # 1
      BY <2>4, <3>2 DEF s
    <3> QED
      BY <1>11, <3>2, <3>3
  <2> QED
    BY <2>1, <2>2, <2>3, <2>4 DEF Closes
<1>13. \A k \in Kinds, c, q \in Task : Stray(k, v2, c, q, v2[q]) => WillRemove(k, g, c, q)
  BY <1>1, <1>4, <1>5, <1>6, <1>8, StraysGoOn DEF s
<1> QED
  BY <1>9, <1>10, <1>11, <1>12, <1>13 DEF FamilyFits, v2

-----------------------------------------------------------------------------
(* One handler goes on while the others are idle.                          *)

(* With nothing held the transaction sees the table.                       *)
LEMMA ShownNone ==
  ASSUME NEW r \in [Task -> Row], NEW d PROVE Shown(r, {}, d) = r
BY DEF Shown

(* The table as a transaction sees it has fewer children.                  *)
LEMMA ShownFamily ==
  ASSUME NEW r, NEW h, NEW d, Family(r), \A t \in h : Follows(d[t], r[t]), NEW v,
         v = Shown(r, h, d)
  PROVE  /\ OneKid(v) /\ PlainKids(v) /\ OwnParents(v)
         /\ \A t \in Task : /\ t \notin h => v[t] = r[t]
                            /\ v[t].parent = r[t].parent
                            /\ \A k \in Kinds : Kid(k, v[t]) => Kid(k, r[t])
<1>1. ASSUME NEW t \in Task
      PROVE  /\ t \notin h => v[t] = r[t]
             /\ v[t].parent = r[t].parent
             /\ v[t].rule => r[t].rule
             /\ \A k \in Kinds : Kid(k, v[t]) => Kid(k, r[t])
  BY DEF Shown, Follows
<1>2. "conf" \in Kinds
  BY DEF Kinds
<1>3. OneKid(r) /\ PlainKids(r) /\ OwnParents(r)
  BY DEF Family
<1>4. OneKid(v)
  BY <1>1, <1>2, <1>3 DEF OneKid
<1>5. PlainKids(v)
  BY <1>1, <1>3 DEF PlainKids
<1>6. OwnParents(v)
  BY <1>1, <1>3 DEF OwnParents
<1> QED
  BY <1>1, <1>4, <1>5, <1>6

(* No statement is left.                                                   *)
LEMMA IdleFamily ==
  ASSUME NEW r \in [Task -> Row], NEW d, Family(r) PROVE FamilyFits(<<>>, r, {}, d)
<1>1. DOMAIN <<>> = {}
  OBVIOUS
<1>2. \A k \in Kinds, c, q \in Task : ~ Stray(k, Shown(r, {}, d), c, q, Shown(r, {}, d)[q])
  BY ShownNone DEF Family, NoStray
<1> QED
  BY <1>1, <1>2 DEF FamilyFits

(* A handler that is idle holds nothing.                                   *)
LEMMA IdleHolds ==
  ASSUME TypeOK, FamilyInv, NEW p \in Proc, Idle(p) PROVE held[p] = {} /\ plan[p] = <<>>
<1>1. plan[p] = <<>> /\ DOMAIN <<>> = {}
  BY DEF Idle
<1>2. FamilyFits(<<>>, rows, held[p], dirty[p])
  BY <1>1 DEF FamilyInv
<1> QED
  BY <1>1, <1>2 DEF FamilyFits

(* If p alone is at work and its statements fit, the others have none.     *)
LEMMA FamilyMoves ==
  ASSUME TypeOK, TypeOK', FamilyInv, NEW p \in Proc, \A q \in Proc : ~Idle(q) => q = p,
         NEW f, plan' = [plan EXCEPT ![p] = f],
         \A q \in Proc \ {p} : held'[q] = held[q],
         FamilyFits(f, rows', held'[p], dirty'[p]), Family(rows')
  PROVE  FamilyInv'
<1>1. plan'[p] = f /\ \A q \in Proc \ {p} : plan'[q] = <<>>
  BY DEF TypeOK, Idle
<1>2. \A q \in Proc \ {p} : held'[q] = {}
  BY IdleHolds
<1>3. ASSUME NEW q \in Proc
      PROVE  FamilyFits(plan'[q], rows', held'[q], dirty'[q])
  <2>1. CASE q = p
    BY <1>1, <2>1
  <2>2. CASE q # p
    <3>1. rows' \in [Task -> Row]
      BY DEF TypeOK
    <3>2. plan'[q] = <<>> /\ held'[q] = {}
      BY <1>1, <1>2, <2>2
    <3>3. FamilyFits(<<>>, rows', {}, dirty'[q])
      BY <3>1, IdleFamily
    <3> QED
      BY <3>2, <3>3
  <2> QED
    BY <2>1, <2>2
<1>4. OneInFlight'
  BY <1>1 DEF OneInFlight, Idle
<1> QED
  BY <1>3, <1>4 DEF FamilyInv

(* The statement whose turn it is.                                         *)
LEMMA FamilyHead ==
  ASSUME TypeOK, FamilyInv, NEW p \in Proc, ~Idle(p),
         NEW v, v = Shown(rows, held[p], dirty[p])
  PROVE  /\ plan[p] \in Seq(Step) /\ plan[p] # <<>>
         /\ plan[p][1] = Next1(p) /\ Next1(p) \in Step /\ Next1(p).row \in Row
         /\ \A j \in DOMAIN plan[p] : plan[p][j] \in Step
         /\ \A q \in Proc : ~Idle(q) => q = p
         /\ Suits(Next1(p), {}, plan[p], v, held[p])
         /\ \A j \in DOMAIN plan[p] : j # 1 => /\ Precedes(Next1(p), plan[p][j])
                                               /\ Next1(p) \in Before(plan[p], j)
         /\ Opens(Next1(p)) => \E j \in DOMAIN plan[p] : j # 1 /\ Closes(plan[p][j])
         /\ OneKid(v) /\ PlainKids(v) /\ OwnParents(v) /\ v \in [Task -> Row]
         /\ \A t \in Task : /\ t \notin held[p] => v[t] = rows[t]
                            /\ v[t].parent = rows[t].parent
                            /\ \A k \in Kinds : Kid(k, v[t]) => Kid(k, rows[t])
<1>1. plan[p] \in Seq(Step) /\ plan[p] # <<>>
  BY DEF TypeOK, Idle
<1>2. DOMAIN plan[p] = 1..Len(plan[p]) /\ Len(plan[p]) \in Nat /\ Len(plan[p]) # 0
  BY <1>1, LenProperties, EmptySeq
<1>3. plan[p][1] = Next1(p) /\ 1 \in DOMAIN plan[p]
  BY <1>1, <1>2 DEF Next1
<1>4. \A j \in DOMAIN plan[p] : plan[p][j] \in Step
  BY <1>1, <1>2, ElementOfSeq
<1>5. Next1(p) \in Step /\ Next1(p).row \in Row
  BY <1>3, <1>4 DEF Step, Fields
<1>6. FamilyFits(plan[p], rows, held[p], dirty[p]) /\ Family(rows)
  BY DEF FamilyInv
<1>7. Suits(Next1(p), {}, plan[p], v, held[p])
  BY <1>1, <1>3, <1>6, BeforeFirst DEF FamilyFits
<1>8. \A j \in DOMAIN plan[p] : j # 1 => 1 < j
  BY <1>2
<1>9. \A j \in DOMAIN plan[p] : j # 1 => Next1(p) \in Before(plan[p], j)
  BY <1>3, <1>8 DEF Before
<1>10. \A j \in DOMAIN plan[p] : j # 1 => Precedes(Next1(p), plan[p][j])
  BY <1>6, <1>9 DEF FamilyFits
<1>11. Opens(Next1(p)) => \E j \in DOMAIN plan[p] : j # 1 /\ Closes(plan[p][j])
  <2> SUFFICES ASSUME Opens(Next1(p))
               PROVE  \E j \in DOMAIN plan[p] : j # 1 /\ Closes(plan[p][j])
    OBVIOUS
  <2>1. PICK j \in DOMAIN plan[p] : 1 < j /\ Closes(plan[p][j])
    BY <1>3, <1>6 DEF FamilyFits
  <2> QED
    BY <1>2, <2>1
<1>12. \A q \in Proc : ~Idle(q) => q = p
  BY DEF FamilyInv, OneInFlight
<1>13. /\ OneKid(v) /\ PlainKids(v) /\ OwnParents(v)
       /\ \A t \in Task : /\ t \notin held[p] => v[t] = rows[t]
                          /\ v[t].parent = rows[t].parent
                          /\ \A k \in Kinds : Kid(k, v[t]) => Kid(k, rows[t])
  BY <1>6, ShownFamily DEF FamilyFits
<1>14. v \in [Task -> Row]
  BY DEF TypeOK, Shown
<1> QED
  BY <1>1, <1>3, <1>4, <1>5, <1>7, <1>9, <1>10, <1>11, <1>12, <1>13, <1>14

(* The handler goes on with the statements a.                              *)
LEMMA FamilyGoes ==
  ASSUME TypeOK, TypeOK', FamilyInv, NEW p \in Proc, ~Idle(p),
         NEW a \in Seq(Step), Continue(p, a),
         \A q \in Proc \ {p} : held'[q] = held[q],
         NEW v, v = Shown(rows, held[p], dirty[p]),
         NEW v2, v2 = Shown(rows', held'[p], dirty'[p]),
         Moved(Next1(p), v, v2, held[p], held'[p]),
         NEW g, g = a \o Tail(plan[p]),
         Laid(a, Next1(p), plan[p], g, v2, held'[p]),
         \A t \in held'[p] : Follows(dirty'[p][t], rows'[t]),
         Family(rows')
  PROVE  FamilyInv'
<1>1. /\ plan[p] \in Seq(Step) /\ plan[p] # <<>> /\ plan[p][1] = Next1(p)
      /\ \A q \in Proc : ~Idle(q) => q = p
      /\ PlainKids(v)
  BY FamilyHead
<1>2. FamilyFits(plan[p], rows, held[p], dirty[p])
  BY DEF FamilyInv
<1> DEFINE f == plan[p]
           h == held[p]
           h2 == held'[p]
           d == dirty[p]
           d2 == dirty'[p]
           r2 == rows'
<1>3. /\ f \in Seq(Step) /\ f # <<>> /\ g = a \o Tail(f)
      /\ FamilyFits(f, rows, h, d) /\ PlainKids(Shown(rows, h, d))
      /\ Moved(f[1], Shown(rows, h, d), Shown(r2, h2, d2), h, h2)
      /\ Laid(a, f[1], f, g, Shown(r2, h2, d2), h2)
      /\ \A t \in h2 : Follows(d2[t], r2[t])
  BY <1>1, <1>2
<1> HIDE DEF f, h, h2, d, d2, r2
<1>4. FamilyFits(g, r2, h2, d2)
  BY <1>3, FitsOn
<1>5. plan' = [plan EXCEPT ![p] = g]
  BY DEF Continue
<1> QED
  BY <1>1, <1>4, <1>5, FamilyMoves DEF h2, d2, r2

(* A read lays out statements and changes nothing else.                    *)
LEMMA FamilyReads ==
  ASSUME TypeOK, TypeOK', FamilyInv, NEW p \in Proc, ~Idle(p),
         NEW a \in Seq(Step), Continue(p, a), UNCHANGED <<rows, held, dirty>>,
         Next1(p).do \notin {"txwrite", "commit"},
         NEW v, v = Shown(rows, held[p], dirty[p]),
         NEW g, g = a \o Tail(plan[p]),
         Laid(a, Next1(p), plan[p], g, v, held[p])
  PROVE  FamilyInv'
<1>1. Moved(Next1(p), v, v, held[p], held[p])
  BY DEF Moved
<1>2. \A t \in held[p] : Follows(dirty[p][t], rows[t])
  BY DEF FamilyInv, FamilyFits
<1>3. Family(rows)
  BY DEF FamilyInv
<1> QED
  BY <1>1, <1>2, <1>3, FamilyGoes

(* Nothing takes the place of the statement.                               *)
LEMMA LaidNone ==
  ASSUME NEW s, NEW f, NEW g, NEW v2, NEW h2, s.do # "sync",
         \A k \in Kinds, c, q \in Task :
           Removes(k, s, c, q) /\ v2[c].parent = q /\ Kid(k, v2[c]) => WillRemove(k, g, c, q)
  PROVE  Laid(<<>>, s, f, g, v2, h2)
<1> DEFINE a == <<>>
<1>1. DOMAIN a = {} /\ a = <<>>
  OBVIOUS
<1> HIDE DEF a
<1>2. Laid(a, s, f, g, v2, h2)
  BY <1>1 DEF Laid
<1> QED
  BY <1>2 DEF a

(* One statement takes its place.                                          *)
LEMMA LaidOne ==
  ASSUME NEW s, NEW f, NEW g, NEW v2, NEW h2, ~ Barrier(s),
         \A k \in Kinds, c, q \in Task :
           Removes(k, s, c, q) /\ v2[c].parent = q /\ Kid(k, v2[c]) => WillRemove(k, g, c, q),
         NEW x \in Step, Suits(x, {}, g, v2, h2), ~ Opens(x), ~ Barrier(x),
         \A j \in DOMAIN f : j # 1 => Precedes(x, f[j])
  PROVE  Laid(<<x>>, s, f, g, v2, h2)
<1> DEFINE a == <<x>>
<1>1. a \in Seq(Step) /\ DOMAIN a = {1} /\ a[1] = x
  OBVIOUS
<1> HIDE DEF a
<1>2. Before(a, 1) = {}
  BY <1>1, BeforeFirst
<1>3. s.do \notin {"commit", "sync"}
  BY DEF Barrier
<1>4. Laid(a, s, f, g, v2, h2)
  BY <1>1, <1>2, <1>3 DEF Laid
<1> QED
  BY <1>4 DEF a

(* Only statements of a transaction remove children.                       *)
LEMMA RemovesOpens ==
  ASSUME NEW k, NEW s, NEW c, NEW q, Removes(k, s, c, q) PROVE Opens(s) \/ s.do = "sync"
BY DEF Removes, Opens

(* The handler passes on.                                                  *)
LEMMA NoneGoesOn ==
  ASSUME TypeOK, TypeOK', FamilyInv, NEW p \in Proc, ~Idle(p),
         Continue(p, <<>>), UNCHANGED <<rows, held, dirty>>,
         ~ Opens(Next1(p)), Next1(p).do \notin {"commit", "sync"}
  PROVE  FamilyInv'
<1> DEFINE v == Shown(rows, held[p], dirty[p])
           g == <<>> \o Tail(plan[p])
<1>1. \A k \in Kinds, c, q \in Task : ~ Removes(k, Next1(p), c, q)
  BY RemovesOpens
<1>2. Laid(<<>>, Next1(p), plan[p], g, v, held[p])
  BY <1>1, LaidNone
<1>3. Next1(p).do \notin {"txwrite", "commit"}
  BY DEF Opens
<1> DEFINE a == <<>>
<1>4. a \in Seq(Step) /\ Continue(p, a) /\ g = a \o Tail(plan[p])
      /\ Laid(a, Next1(p), plan[p], g, v, held[p])
  BY <1>2, EmptyPlanType
<1> HIDE DEF a, g
<1> QED
  BY <1>3, <1>4, FamilyReads

(* The handler goes on with one statement more.                            *)
LEMMA OneGoesOn ==
  ASSUME TypeOK, TypeOK', FamilyInv, NEW p \in Proc, ~Idle(p),
         NEW x \in Step, Continue(p, <<x>>), UNCHANGED <<rows, held, dirty>>,
         ~ Opens(Next1(p)), ~ Barrier(Next1(p)),
         \A g : Suits(x, {}, g, Shown(rows, held[p], dirty[p]), held[p]),
         ~ Opens(x), ~ Barrier(x),
         \A j \in DOMAIN plan[p] : j # 1 => Precedes(x, plan[p][j])
  PROVE  FamilyInv'
<1> DEFINE v == Shown(rows, held[p], dirty[p])
           a == <<x>>
           g == a \o Tail(plan[p])
<1>1. \A k \in Kinds, c, q \in Task : ~ Removes(k, Next1(p), c, q)
  BY RemovesOpens DEF Barrier
<1>2. Suits(x, {}, g, v, held[p])
  OBVIOUS
<1>3. Laid(a, Next1(p), plan[p], g, v, held[p])
  BY <1>1, <1>2, LaidOne
<1>4. Next1(p).do \notin {"txwrite", "commit"}
  BY DEF Opens, Barrier
<1>5. a \in Seq(Step) /\ Continue(p, a) /\ g = a \o Tail(plan[p])
  BY SingletonType
<1> HIDE DEF a, g
<1> QED
  BY <1>3, <1>4, <1>5, FamilyReads

-----------------------------------------------------------------------------
(* A handler that gives up, or is stopped, leaves nothing behind.          *)

(* A handler that answers with an error rolls its transaction back.        *)
LEMMA AbortFamily ==
  ASSUME TypeOK, TypeOK', FamilyInv, NEW p \in Proc, ~Idle(p), Abort(p), UNCHANGED rows
  PROVE  FamilyInv'
<1>1. plan' = [plan EXCEPT ![p] = <<>>] /\ held' = [held EXCEPT ![p] = {}]
  BY DEF Abort
<1>2. held'[p] = {} /\ \A q \in Proc \ {p} : held'[q] = held[q]
  BY <1>1 DEF TypeOK
<1>3. Family(rows') /\ rows' \in [Task -> Row]
  BY DEF FamilyInv, TypeOK
<1>4. FamilyFits(<<>>, rows', held'[p], dirty'[p])
  BY <1>2, <1>3, IdleFamily
<1>5. \A q \in Proc : ~Idle(q) => q = p
  BY DEF FamilyInv, OneInFlight
<1> QED
  BY <1>1, <1>2, <1>3, <1>4, <1>5, FamilyMoves

(* A crash rolls every transaction back.                                   *)
LEMMA CrashFamily == ASSUME TypeOK, FamilyInv, Crash PROVE FamilyInv'
<1>1. /\ \A p \in Proc : plan'[p] = <<>> /\ held'[p] = {}
      /\ UNCHANGED rows
  BY DEF Crash
<1>2. rows \in [Task -> Row] /\ Family(rows)
  BY DEF TypeOK, FamilyInv
<1>3. \A p \in Proc : FamilyFits(plan'[p], rows', held'[p], dirty'[p])
  BY <1>1, <1>2, IdleFamily
<1> QED
  BY <1>1, <1>2, <1>3 DEF FamilyInv, OneInFlight, Idle

(* A statement that fails is passed over, when the handler may go on.      *)
LEMMA StatementFailsFamily ==
  ASSUME TypeOK, TypeOK', FamilyInv, NEW p \in Proc, StatementFails(p) PROVE FamilyInv'
<1>1. ~Idle(p) /\ UNCHANGED rows
  BY DEF StatementFails
<1>2. CASE Abort(p)
  BY <1>1, <1>2, AbortFamily
<1>3. CASE "row" \notin Next1(p).must /\ Continue(p, <<>>) /\ UNCHANGED <<held, dirty>>
  <2> DEFINE v == Shown(rows, held[p], dirty[p])
  <2>1. Suits(Next1(p), {}, plan[p], v, held[p])
    BY <1>1, FamilyHead
  <2>2. ~ Opens(Next1(p)) /\ ~ Closes(Next1(p))
    BY <1>3, <2>1 DEF Suits
  <2>3. Next1(p).do \notin {"sync", "commit"}
    BY <2>2 DEF Closes
  <2> QED
    BY <1>1, <1>3, <2>2, <2>3, NoneGoesOn
<1> QED
  BY <1>2, <1>3 DEF StatementFails

-----------------------------------------------------------------------------
(* Later reads keep the statements fit.                                    *)

(* The next child of a series is inserted when no other is waiting.        *)
LEMMA NextChildFamily ==
  ASSUME TypeOK, TypeOK', FamilyInv, NEW p \in Proc, NextChild(p) PROVE FamilyInv'
<1> DEFINE q == Next1(p).t
           row == childOf(rows[q], q, nextRecurrenceAfter(now), "scheduled")
           x == Do("insert", q, row, "schedule", {})
           v == Shown(rows, held[p], dirty[p])
<1>1. /\ ~Idle(p) /\ Next1(p).do = "nextChild" /\ q \in Task
      /\ ~ Opens(Next1(p)) /\ ~ Barrier(Next1(p))
  BY AtType DEF NextChild, At, Statements, Opens, Barrier
<1>2. CASE Read(p, <<>>)
  BY <1>1, <1>2, NoneGoesOn DEF Read, Barrier
<1>3. CASE Read(p, <<x>>) /\ Live(rows, q) /\ isRecurrenceParentWithConfirmation(rows[q])
  <2>1. /\ x.do = "insert" /\ x.t = q /\ x.row = row /\ x.msg = "schedule"
        /\ row.db = "live" /\ row.parent = q /\ row.status = "scheduled" /\ ~ row.rule
    BY DEF Do, childOf
  <2>2. x \in Step
    <3>1. row \in Row
      BY <1>1, RowType, ChildType, NextRecurrenceType DEF TypeOK, Status
    <3> QED
      BY <1>1, <3>1, DoType DEF Statements
  <2>3. /\ Suits(Next1(p), {}, plan[p], v, held[p])
        /\ \A j \in DOMAIN plan[p] : j # 1 => Precedes(Next1(p), plan[p][j])
    BY <1>1, FamilyHead
  <2>4. held[p] = {}
    BY <1>1, <2>3 DEF Suits, Lone, Alone
  <2>5. v = rows
    BY <2>4, ShownNone DEF TypeOK
  <2>6. \A c \in Task : v[c].parent = q => ~ Kid("conf", v[c])
    BY <1>1, <2>3 DEF Suits
  <2>7. v[q].db = "live" /\ Parental(v[q])
    BY <1>3, <2>5 DEF Live, Parental, isRecurrenceParentWithConfirmation
  <2>8. Alone({}, held[p])
    BY <2>4 DEF Alone
  <2> HIDE DEF x, row, v
  <2>9. \A g : Suits(x, {}, g, v, held[p])
    BY <2>1, <2>6, <2>7, <2>8
       DEF Suits, Opens, Closes, Writer, Pooled, Lone, Inserts, Pool
  <2>10. ~ Opens(x) /\ ~ Barrier(x)
    BY <2>1 DEF Opens, Barrier
  <2>11. ASSUME NEW j \in DOMAIN plan[p], j # 1 PROVE Precedes(x, plan[p][j])
    BY <1>1, <2>1, <2>3, <2>11 DEF Precedes, Closes, Pool, Inserts, Writer, Pooled
  <2>12. Continue(p, <<x>>) /\ UNCHANGED <<rows, held, dirty>>
    BY <1>3 DEF Read
  <2> QED
    BY <1>1, <2>2, <2>9, <2>10, <2>11, <2>12, OneGoesOn DEF v
<1> QED
  BY <1>2, <1>3 DEF NextChild

(* A row that differs from another in its status, its start or its muting. *)
LEMMA FollowsAlike ==
  ASSUME NEW x, NEW y, NEW z, x.db = y.db, x.parent = y.parent, x.rule = y.rule,
         \A k \in Kinds : Kid(k, x) <=> Kid(k, y)
  PROVE  (Follows(y, z) => Follows(x, z)) /\ (Follows(z, y) => Follows(z, x))
BY DEF Follows

(* The job moves a task that is waiting.                                   *)
LEMMA RescheduleTaskFamily ==
  ASSUME TypeOK, TypeOK', FamilyInv, NEW p \in Proc, RescheduleTask(p) PROVE FamilyInv'
<1> DEFINE head == Next1(p)
           v == Shown(rows, held[p], dirty[p])
<1>1. /\ ~Idle(p) /\ head.do = "reschedule" /\ head.t \in Task
      /\ ~ Opens(head) /\ ~ Barrier(head)
  BY AtType DEF RescheduleTask, At, Statements, Opens, Barrier
<1>2. /\ Suits(head, {}, plan[p], v, held[p]) /\ head.row \in Row
      /\ \A j \in DOMAIN plan[p] : j # 1 => Precedes(head, plan[p][j])
  BY <1>1, FamilyHead
<1>3. CASE Read(p, <<>>)
  BY <1>1, <1>3, NoneGoesOn DEF Read, Barrier
<1>4. ASSUME NEW n \in Time,
             NEW row, row = [head.row EXCEPT !.status = "rescheduled", !.start = n],
             Read(p, <<Do("publishMoved", head.t, row, "schedule", {})>>)
      PROVE  FamilyInv'
  <2> DEFINE x == Do("publishMoved", head.t, row, "schedule", {})
  <2>1. row \in Row /\ row.db = head.row.db /\ row.parent = head.row.parent
        /\ row.rule = head.row.rule /\ row.conf = head.row.conf /\ row.status = "rescheduled"
    BY <1>2, <1>4 DEF Row, Status
  <2>2. x.do = "publishMoved" /\ x.t = head.t /\ x.row = row /\ x.msg = "schedule"
    BY DEF Do
  <2>3. x \in Step
    BY <1>1, <2>1, DoType DEF Statements
  <2>4. Unfinished(head.row) /\ Writer(head) /\ Pooled(head)
    BY <1>1, <1>2 DEF Suits, Writer, Pooled
  <2>5. \A k \in Kinds : Kid(k, row) <=> Kid(k, head.row)
    BY <2>1, <2>4 DEF Kid, Unfinished
  <2>6. \A z : (Follows(head.row, z) => Follows(row, z)) /\ (Follows(z, head.row) => Follows(z, row))
    BY <2>1, <2>5, FollowsAlike
  <2>7. \A k \in Kinds : Barren(k, row) <=> Barren(k, head.row)
    BY <2>1 DEF Barren
  <2> HIDE DEF x, head, v
  <2>8. \A g : Suits(x, {}, g, v, held[p])
    <3>1. v[x.t].db # "absent" /\ (v[x.t].db = "live" => Follows(x.row, v[x.t]))
      BY <1>2, <2>2, <2>4, <2>6 DEF Suits
    <3>2. \/ Kept(x.t, {}, v, held[p])
          \/ Alone({}, held[p]) /\ \A k \in Kinds, c \in Task : ~ Stray(k, v, c, x.t, x.row)
      BY <1>2, <2>2, <2>4, <2>7 DEF Suits, Stray
    <3> QED
      BY <2>2, <3>1, <3>2 DEF Suits, Opens, Closes, Lone, Inserts, Pool
  <2>9. ~ Opens(x) /\ ~ Barrier(x)
    BY <2>2 DEF Opens, Barrier
  <2>10. ASSUME NEW j \in DOMAIN plan[p], j # 1 PROVE Precedes(x, plan[p][j])
    <3>1. Precedes(head, plan[p][j])
      BY <1>2, <2>10
    <3>2. Parental(head.row) => Parental(row)
      BY <2>1 DEF Parental
    <3> QED
      BY <1>1, <2>2, <2>4, <2>6, <3>1, <3>2 DEF Precedes, Closes, Pool, Inserts
  <2>11. Continue(p, <<x>>) /\ UNCHANGED <<rows, held, dirty>>
    BY <1>4 DEF Read, x
  <2> QED
    BY <1>1, <2>3, <2>8, <2>9, <2>10, <2>11, OneGoesOn DEF v, head
<1>5. addDaysUntilAfter(head.row.start, now) \in Time /\ nextRecurrenceAfter(now) \in Time
  BY <1>2, AddDaysType, NextRecurrenceType DEF Row, Time, TypeOK
<1> QED
  BY <1>3, <1>4, <1>5 DEF RescheduleTask

(* A row alike: the same but for its muting and its start.                 *)
SameRow(x, y) == /\ x.db = y.db /\ x.parent = y.parent /\ x.status = y.status
                 /\ x.rule = y.rule /\ x.conf = y.conf

(* Rows alike take each other's place in every comparison.                 *)
LEMMA SameFollows ==
  ASSUME NEW x, NEW y, SameRow(x, y)
  PROVE  /\ \A z : (Follows(y, z) <=> Follows(x, z)) /\ (Follows(z, y) <=> Follows(z, x))
         /\ \A k : (Barren(k, x) <=> Barren(k, y)) /\ (Kid(k, x) <=> Kid(k, y))
         /\ Parental(x) <=> Parental(y)
         /\ Unfinished(x) <=> Unfinished(y)
<1>1. \A k : (Barren(k, x) <=> Barren(k, y)) /\ (Kid(k, x) <=> Kid(k, y))
  BY DEF SameRow, Barren, Kid
<1>2. (Parental(x) <=> Parental(y)) /\ (Unfinished(x) <=> Unfinished(y))
  BY DEF SameRow, Parental, Unfinished
<1>3. \A z : (Follows(y, z) <=> Follows(x, z)) /\ (Follows(z, y) <=> Follows(z, x))
  BY <1>1 DEF SameRow, Follows
<1> QED
  BY <1>1, <1>2, <1>3

(* A live row follows one that is the same.                                *)
LEMMA FollowsSame ==
  ASSUME NEW x, NEW y, SameRow(x, y), y.db # "absent" PROVE Follows(x, y)
BY DEF SameRow, Follows, Kid

(* Rows of the table are written, the same but for muting and start.       *)
LEMMA WritesGoOn ==
  ASSUME TypeOK, TypeOK', FamilyInv, NEW p \in Proc, ~Idle(p), Pool(Next1(p)),
         NEW a \in Seq(Step), Read(p, a),
         \A i \in DOMAIN a : /\ a[i].do = "write" /\ a[i].t \in Task
                             /\ rows[a[i].t].db = "live"
                             /\ SameRow(a[i].row, rows[a[i].t])
  PROVE  FamilyInv'
<1> DEFINE v == Shown(rows, held[p], dirty[p])
           f == plan[p]
           s == Next1(p)
           g == a \o Tail(f)
<1>1. /\ Suits(s, {}, f, v, held[p])
      /\ \A j \in DOMAIN f : j # 1 => Precedes(s, f[j])
  BY FamilyHead
<1>2. /\ ~ Opens(s) /\ ~ Barrier(s) /\ s.do \notin {"txwrite", "commit", "sync"}
      /\ \A k \in Kinds, c, q \in Task : ~ Removes(k, s, c, q)
  BY RemovesOpens DEF Pool, Opens, Barrier
<1>3. held[p] = {}
  BY <1>1 DEF Suits, Lone, Alone
<1>4. v = rows
  BY <1>3, ShownNone DEF TypeOK
<1>5. FamilyFits(f, rows, held[p], dirty[p]) /\ NoStray(rows)
  BY DEF FamilyInv, Family
<1> HIDE DEF v, f, s
<1>6. ASSUME NEW i \in DOMAIN a
      PROVE  /\ ~ Opens(a[i]) /\ ~ Closes(a[i]) /\ ~ Barrier(a[i]) /\ ~ Pool(a[i])
             /\ ~ Inserts(a[i]) /\ Writer(a[i]) /\ Pooled(a[i]) /\ a[i].do = "write"
             /\ a[i].t \in Task /\ v[a[i].t].db = "live" /\ SameRow(a[i].row, v[a[i].t])
  BY <1>4 DEF Opens, Closes, Barrier, Pool, Inserts, Writer, Pooled
<1>7. ASSUME NEW i \in DOMAIN a, NEW B, \A b \in B : \E m \in DOMAIN a : b = a[m]
      PROVE  Suits(a[i], B, g, v, held[p])
  <2>1. Alone(B, held[p])
    BY <1>3, <1>6, <1>7 DEF Alone
  <2>2. \A k \in Kinds, c \in Task : ~ Stray(k, v, c, a[i].t, a[i].row)
    BY <1>4, <1>5, <1>6, SameFollows DEF NoStray, Stray
  <2>3. Follows(a[i].row, v[a[i].t])
    BY <1>6, FollowsSame
  <2> QED
    BY <1>6, <2>1, <2>2, <2>3 DEF Suits, Lone
<1>8. \A i \in DOMAIN a : \A b \in Before(a, i) : \E m \in DOMAIN a : b = a[m]
  BY DEF Before
<1>9. ASSUME NEW i \in DOMAIN a, NEW m \in DOMAIN a PROVE Precedes(a[m], a[i])
  <2>1. ASSUME a[m].t = a[i].t PROVE Follows(a[i].row, a[m].row)
    <3>1. Follows(a[i].row, v[a[i].t])
      BY <1>6, FollowsSame
    <3> QED
      BY <1>6, <2>1, <3>1, SameFollows
  <2> QED
    BY <1>6, <2>1 DEF Precedes
<1>10. ASSUME NEW i \in DOMAIN a, NEW j \in DOMAIN f, j # 1 PROVE Precedes(a[i], f[j])
  <2>1. ~ Inserts(f[j])
    BY <1>1, <1>10 DEF Precedes, s
  <2>2. Suits(f[j], Before(f, j), f, v, held[p])
    BY <1>5 DEF FamilyFits, v
  <2>3. ASSUME Writer(f[j]), a[i].t = f[j].t PROVE Follows(f[j].row, a[i].row)
    <3>1. Follows(f[j].row, v[a[i].t])
      BY <1>6, <2>2, <2>3 DEF Suits
    <3> QED
      BY <1>6, <3>1, SameFollows
  <2> QED
    BY <1>6, <2>1, <2>3 DEF Precedes
<1>11. Laid(a, s, f, g, v, held[p])
  BY <1>2, <1>6, <1>7, <1>8, <1>9, <1>10 DEF Laid
<1>12. Continue(p, a) /\ UNCHANGED <<rows, held, dirty>>
  BY DEF Read
<1> QED
  BY <1>2, <1>11, <1>12, FamilyReads DEF v, f, s

(* Muting a parent writes its unfinished children.                         *)
LEMMA MuteChildrenFamily ==
  ASSUME TypeOK, TypeOK', FamilyInv, NEW p \in Proc, MuteChildren(p) PROVE FamilyInv'
<1> DEFINE S == {c \in GetChildTasksByParentID(rows, Next1(p).t) : Unfinished(rows[c])}
           mute == Next1(p).do = "muteChildren"
           each(order) == [i \in DOMAIN order |->
                             Do("write", order[i], [rows[order[i]] EXCEPT !.muted = mute],
                                IF mute THEN "delete" ELSE "resched", {})]
<1>1. PICK order \in SetToSeqs(S) : Read(p, each(order))
  BY DEF MuteChildren
<1>2. S \in SUBSET Task
  BY DEF GetChildTasksByParentID
<1>3. ASSUME NEW c \in S
      PROVE  c \in Task /\ rows[c] \in Row /\ rows[c].db = "live"
  BY <1>3, RowType DEF GetChildTasksByParentID, Live
<1>4. mute \in BOOLEAN /\ (IF mute THEN "delete" ELSE "resched") \in {"delete", "resched"}
  OBVIOUS
<1>5. ASSUME NEW i \in DOMAIN order
      PROVE  /\ each(order)[i] \in Step /\ each(order)[i].do = "write"
             /\ each(order)[i].t \in Task
             /\ rows[each(order)[i].t].db = "live"
             /\ SameRow(each(order)[i].row, rows[each(order)[i].t])
  <2> DEFINE row == [rows[order[i]] EXCEPT !.muted = mute]
             msg == IF mute THEN "delete" ELSE "resched"
  <2>1. order[i] \in S
    BY <1>2, <1>5, OrderType
  <2>2. each(order)[i] = Do("write", order[i], row, msg, {})
    BY <1>5
  <2> HIDE DEF each, mute, S
  <2>3. row \in Row /\ SameRow(row, rows[order[i]])
    BY <1>3, <1>4, <2>1 DEF Row, SameRow
  <2>4. msg \in {"none", "delete", "schedule", "resched"}
    BY <1>4
  <2> HIDE DEF row, msg
  <2>5. each(order)[i] \in Step
    BY <1>3, <2>1, <2>2, <2>3, <2>4, DoType DEF Statements
  <2>6. /\ each(order)[i].do = "write" /\ each(order)[i].t = order[i]
        /\ each(order)[i].row = row
    BY <2>2 DEF Do
  <2> QED
    BY <1>3, <2>1, <2>3, <2>5, <2>6
<1>6. each(order) \in Seq(Step)
  BY <1>2, <1>5, ForEachType
<1>7. ~Idle(p) /\ Pool(Next1(p))
  BY DEF MuteChildren, At, Pool
<1>8. DOMAIN each(order) = DOMAIN order
  OBVIOUS
<1> DEFINE a == each(order)
<1>9. /\ a \in Seq(Step) /\ Read(p, a)
      /\ \A i \in DOMAIN a : /\ a[i].do = "write" /\ a[i].t \in Task
                             /\ rows[a[i].t].db = "live"
                             /\ SameRow(a[i].row, rows[a[i].t])
  BY <1>1, <1>5, <1>6, <1>8
<1> HIDE DEF a
<1> QED
  BY <1>7, <1>9, WritesGoOn

(* The job moves recurring tasks.                                          *)
LEMMA RescheduleCronTasksFamily ==
  ASSUME TypeOK, TypeOK', FamilyInv, NEW p \in Proc, RescheduleCronTasks(p) PROVE FamilyInv'
<1> DEFINE S == GetTasksWithCronNeedingRescheduling(rows, now)
           next == nextRecurrenceAfter(now)
           each(order) == [i \in DOMAIN order |->
                             Do("write", order[i], [rows[order[i]] EXCEPT !.start = next],
                                "none", {})]
<1>1. PICK order \in SetToSeqs(S) : Read(p, each(order))
  BY DEF RescheduleCronTasks
<1>2. S \in SUBSET Task
  BY DEF GetTasksWithCronNeedingRescheduling
<1>3. ASSUME NEW c \in S
      PROVE  c \in Task /\ rows[c] \in Row /\ rows[c].db = "live"
  BY <1>3, RowType DEF GetTasksWithCronNeedingRescheduling, Live
<1>4. next \in Nat
  BY NextRecurrenceType DEF TypeOK
<1>5. ASSUME NEW i \in DOMAIN order
      PROVE  /\ each(order)[i] \in Step /\ each(order)[i].do = "write"
             /\ each(order)[i].t \in Task
             /\ rows[each(order)[i].t].db = "live"
             /\ SameRow(each(order)[i].row, rows[each(order)[i].t])
  <2> DEFINE row == [rows[order[i]] EXCEPT !.start = next]
  <2>1. order[i] \in S
    BY <1>2, <1>5, OrderType
  <2>2. each(order)[i] = Do("write", order[i], row, "none", {})
    BY <1>5
  <2> HIDE DEF each, next, S
  <2>3. row \in Row /\ SameRow(row, rows[order[i]])
    BY <1>3, <1>4, <2>1 DEF Row, SameRow, Time
  <2> HIDE DEF row
  <2>4. each(order)[i] \in Step
    BY <1>3, <2>1, <2>2, <2>3, DoType DEF Statements
  <2>5. /\ each(order)[i].do = "write" /\ each(order)[i].t = order[i]
        /\ each(order)[i].row = row
    BY <2>2 DEF Do
  <2> QED
    BY <1>3, <2>1, <2>3, <2>4, <2>5
<1>6. each(order) \in Seq(Step)
  BY <1>2, <1>5, ForEachType
<1>7. ~Idle(p) /\ Pool(Next1(p))
  BY DEF RescheduleCronTasks, At, Pool
<1>8. DOMAIN each(order) = DOMAIN order
  OBVIOUS
<1> DEFINE a == each(order)
<1>9. /\ a \in Seq(Step) /\ Read(p, a)
      /\ \A i \in DOMAIN a : /\ a[i].do = "write" /\ a[i].t \in Task
                             /\ rows[a[i].t].db = "live"
                             /\ SameRow(a[i].row, rows[a[i].t])
  BY <1>1, <1>5, <1>6, <1>8
<1> HIDE DEF a
<1> QED
  BY <1>7, <1>9, WritesGoOn

(* Statements the same but for the start_date of their rows.               *)
SameStep(x, y) == /\ x.do = y.do /\ x.t = y.t /\ x.msg = y.msg /\ x.must = y.must
                  /\ x.why = y.why /\ SameRow(x.row, y.row)

(* Statements alike suit the same table.                                   *)
LEMMA SameSuits ==
  ASSUME NEW x, NEW y, SameStep(x, y), NEW B, NEW C,
         \A b \in B : \E c \in C : SameStep(b, c), \A c \in C : \E b \in B : SameStep(b, c),
         NEW f, NEW g, \A k, c, q : WillRemove(k, f, c, q) => WillRemove(k, g, c, q),
         NEW v, NEW h, Suits(x, B, f, v, h)
  PROVE  Suits(y, C, g, v, h)
<1>1. /\ \A z : Follows(x.row, z) <=> Follows(y.row, z)
      /\ \A k : Barren(k, x.row) <=> Barren(k, y.row)
      /\ Unfinished(x.row) <=> Unfinished(y.row)
      /\ x.row.db = y.row.db /\ x.row.parent = y.row.parent /\ x.row.rule = y.row.rule
  BY SameFollows DEF SameStep, SameRow
<1>2. \A k, c, q : Stray(k, v, c, q, x.row) <=> Stray(k, v, c, q, y.row)
  BY <1>1 DEF Stray
<1>3. x.do = y.do /\ x.t = y.t /\ x.msg = y.msg /\ x.must = y.must /\ x.why = y.why
  BY DEF SameStep
<1>4. /\ Opens(x) = Opens(y) /\ Closes(x) = Closes(y) /\ Writer(x) = Writer(y)
      /\ Pooled(x) = Pooled(y) /\ Lone(x) = Lone(y) /\ Inserts(x) = Inserts(y)
  BY <1>3 DEF Opens, Closes, Writer, Pooled, Lone, Inserts, Pool
<1>5. /\ (\E b \in B : Closes(b)) => \E c \in C : Closes(c)
      /\ Alone(B, h) => Alone(C, h)
      /\ \A t : (\E b \in B : Writing(b, t)) => \E c \in C : Writing(c, t)
      /\ \A t : Kept(t, B, v, h) => Kept(t, C, v, h)
      /\ \A t : (\E b \in B : Writing(b, t) /\ b.row.status = "done") =>
                  \E c \in C : Writing(c, t) /\ c.row.status = "done"
      /\ \A t : (\A b \in B : Opens(b) => Writing(b, t)) => \A c \in C : Opens(c) => Writing(c, t)
  <2>1. \A b, c : SameStep(b, c) => /\ Closes(b) = Closes(c) /\ Opens(b) = Opens(c)
                                    /\ \A t : Writing(b, t) = Writing(c, t)
                                    /\ b.row.status = c.row.status
    BY DEF SameStep, SameRow, Closes, Opens, Writing
  <2>2. (\E b \in B : Closes(b)) => \E c \in C : Closes(c)
    BY <2>1
  <2>3. Alone(B, h) => Alone(C, h)
    BY <2>1 DEF Alone
  <2>4. \A t : (\E b \in B : Writing(b, t)) => \E c \in C : Writing(c, t)
    BY <2>1
  <2>5. \A t : Kept(t, B, v, h) => Kept(t, C, v, h)
    BY <2>4 DEF Kept
  <2>6. \A t : (\E b \in B : Writing(b, t) /\ b.row.status = "done") =>
                 \E c \in C : Writing(c, t) /\ c.row.status = "done"
    BY <2>1
  <2>7. \A t : (\A b \in B : Opens(b) => Writing(b, t)) => \A c \in C : Opens(c) => Writing(c, t)
    BY <2>1
  <2> QED
    BY <2>2, <2>3, <2>4, <2>5, <2>6, <2>7
<1> QED
  BY <1>1, <1>2, <1>3, <1>4, <1>5 DEF Suits

(* Statements alike come in the same order.                                *)
LEMMA SamePrecedes ==
  ASSUME NEW b, NEW c, SameStep(b, c), NEW x, NEW y, SameStep(x, y), Precedes(b, x)
  PROVE  Precedes(c, y)
<1>1. /\ b.do = c.do /\ b.t = c.t /\ b.why = c.why /\ x.do = y.do /\ x.t = y.t
      /\ SameRow(b.row, c.row) /\ SameRow(x.row, y.row)
  BY DEF SameStep
<1>2. /\ Parental(b.row) <=> Parental(c.row)
      /\ Follows(x.row, b.row) <=> Follows(y.row, c.row)
  BY <1>1, SameFollows
<1>3. /\ Closes(b) = Closes(c) /\ Pool(b) = Pool(c) /\ Writer(b) = Writer(c)
      /\ Inserts(b) = Inserts(c) /\ Writer(x) = Writer(y) /\ Inserts(x) = Inserts(y)
  BY <1>1 DEF Closes, Pool, Writer, Pooled, Inserts
<1> QED
  BY <1>1, <1>2, <1>3 DEF Precedes

(* Lists alike fit alike.                                                  *)
LEMMA SameFits ==
  ASSUME NEW f, NEW g, DOMAIN g = DOMAIN f, \A i \in DOMAIN f : SameStep(f[i], g[i]),
         NEW r, NEW h, NEW d, FamilyFits(f, r, h, d)
  PROVE  FamilyFits(g, r, h, d)
<1> DEFINE v == Shown(r, h, d)
<1>0. /\ \A i \in DOMAIN f : Suits(f[i], Before(f, i), f, v, h)
      /\ \A i \in DOMAIN f : \A b \in Before(f, i) : Precedes(b, f[i])
      /\ \A i \in DOMAIN f : Opens(f[i]) => \E j \in DOMAIN f : i < j /\ Closes(f[j])
      /\ h # {} => \E j \in DOMAIN f : Closes(f[j])
      /\ \A t \in h : Follows(d[t], r[t])
      /\ \A k \in Kinds, c, q \in Task : Stray(k, v, c, q, v[q]) => WillRemove(k, f, c, q)
  BY DEF FamilyFits
<1> HIDE DEF v
<1>1. ASSUME NEW i \in DOMAIN f
      PROVE  /\ Opens(f[i]) = Opens(g[i]) /\ Closes(f[i]) = Closes(g[i])
             /\ Barrier(f[i]) = Barrier(g[i])
             /\ \A k, c, q : Removes(k, f[i], c, q) => Removes(k, g[i], c, q)
  BY <1>1 DEF SameStep, Opens, Closes, Barrier, Removes
<1>2. \A k, c, q : WillRemove(k, f, c, q) => WillRemove(k, g, c, q)
  BY <1>1 DEF WillRemove
<1>3. ASSUME NEW i \in DOMAIN f
      PROVE  /\ \A b \in Before(f, i) : \E c \in Before(g, i) : SameStep(b, c)
             /\ \A c \in Before(g, i) : \E b \in Before(f, i) : SameStep(b, c)
  BY <1>3 DEF Before
<1>4. ASSUME NEW i \in DOMAIN g PROVE Suits(g[i], Before(g, i), g, v, h)
  BY <1>0, <1>2, <1>3, <1>4, SameSuits
<1>5. ASSUME NEW i \in DOMAIN g, NEW c \in Before(g, i) PROVE Precedes(c, g[i])
  BY <1>0, <1>3, <1>5, SamePrecedes
<1>6. /\ \A i \in DOMAIN g : Opens(g[i]) => \E j \in DOMAIN g : i < j /\ Closes(g[j])
      /\ h # {} => \E j \in DOMAIN g : Closes(g[j])
  BY <1>0, <1>1
<1>7. \A k \in Kinds, c, q \in Task : Stray(k, v, c, q, v[q]) => WillRemove(k, g, c, q)
  BY <1>0, <1>2
<1> QED
  BY <1>0, <1>4, <1>5, <1>6, <1>7 DEF FamilyFits, v

(* A statement that carries the same row suits in the place of the first.  *)
LEMMA SameRowSuits ==
  ASSUME NEW s, NEW f, NEW v, NEW h, Suits(s, {}, f, v, h), Pooled(s),
         NEW x, x.do \in {"write", "resched", "publishMoved"}, x.t = s.t, SameRow(x.row, s.row),
         x.msg = "resched" => x.do \in {"write", "resched"}
  PROVE  /\ \A g : Suits(x, {}, g, v, h)
         /\ \A y : Precedes(s, y) => Precedes(x, y)
         /\ ~ Opens(x) /\ ~ Barrier(x)
<1>1. Writer(s) /\ Pooled(x) /\ Writer(x) /\ ~ Opens(x) /\ ~ Closes(x) /\ ~ Barrier(x) /\ ~ Lone(x)
      /\ ~ Pool(x) /\ ~ Inserts(x)
  BY DEF Pooled, Writer, Opens, Closes, Barrier, Lone, Pool, Inserts
<1>2. /\ \A z : Follows(s.row, z) <=> Follows(x.row, z)
      /\ \A z : Follows(z, s.row) <=> Follows(z, x.row)
      /\ \A k : Barren(k, x.row) <=> Barren(k, s.row)
      /\ Parental(s.row) <=> Parental(x.row)
  BY SameFollows
<1>3. \A k, c, q : Stray(k, v, c, q, x.row) <=> Stray(k, v, c, q, s.row)
  BY <1>2 DEF Stray
<1>4. v[x.t].db # "absent" /\ (v[x.t].db = "live" => Follows(x.row, v[x.t]))
  BY <1>1, <1>2 DEF Suits
<1>5. \/ Kept(x.t, {}, v, h)
      \/ Alone({}, h) /\ \A k \in Kinds, c \in Task : ~ Stray(k, v, c, x.t, x.row)
  BY <1>3 DEF Suits
<1>6. \A g : Suits(x, {}, g, v, h)
  BY <1>1, <1>4, <1>5 DEF Suits, Inserts
<1>7. ASSUME NEW y, Precedes(s, y) PROVE Precedes(x, y)
  BY <1>1, <1>2, <1>7 DEF Precedes
<1> QED
  BY <1>1, <1>6, <1>7

(* A row whose start is moved is written, and the statements that follow   *)
(* see it moved.                                                           *)
LEMMA PublishScheduleFamily ==
  ASSUME TypeOK, TypeOK', FamilyInv, NEW p \in Proc, PublishSchedule(p) PROVE FamilyInv'
<1> DEFINE s     == Next1(p)
           q     == s.row.parent
           above == IF q = NoTask THEN Absent ELSE rows[q]
           next  == nextExecutableStartDate(s.row, above, now)
           new   == [s.row EXCEPT !.start = next]
           tail  == Tail(plan[p])
           moved(i) == IF tail[i].t = s.t THEN [tail[i] EXCEPT !.row.start = next]
                       ELSE tail[i]
           rest  == [i \in DOMAIN tail |-> moved(i)]
           write == Do("write", s.t, new, "schedule", {})
           sent  == Publish(s.t, s.row, "schedule", {})
           v     == Shown(rows, held[p], dirty[p])
<1>1. /\ ~Idle(p) /\ s.do = "resched" /\ s.t \in Task /\ tail \in Seq(Step)
      /\ s.row \in Row
      /\ ~ Opens(s) /\ ~ Barrier(s) /\ Pooled(s)
  BY AtType DEF PublishSchedule, At, Statements, Opens, Barrier, Pooled
<1>2. /\ Suits(s, {}, plan[p], v, held[p])
      /\ \A j \in DOMAIN plan[p] : j # 1 => Precedes(s, plan[p][j])
      /\ plan[p] \in Seq(Step) /\ plan[p] # <<>> /\ plan[p][1] = s
      /\ PlainKids(v) /\ \A t \in Proc : ~Idle(t) => t = p
  BY <1>1, FamilyHead
<1>3. CASE Read(p, <<>>)
  BY <1>1, <1>3, NoneGoesOn DEF Read, Barrier
<1>4. CASE Read(p, <<sent>>)
  <2>1. sent.do = "publish" /\ sent.t = s.t /\ sent.row = s.row /\ sent.msg = "schedule"
    BY DEF Publish, Do
  <2>2. sent \in Step
    BY <1>1, DoType DEF Statements, Publish
  <2> HIDE DEF sent, s
  <2>3. /\ ~ Opens(sent) /\ ~ Barrier(sent) /\ ~ Closes(sent) /\ ~ Writer(sent) /\ ~ Pooled(sent)
        /\ ~ Lone(sent) /\ ~ Pool(sent) /\ ~ Inserts(sent)
    BY <2>1 DEF Opens, Barrier, Closes, Writer, Pooled, Lone, Pool, Inserts
  <2>4. \A g : Suits(sent, {}, g, v, held[p])
    BY <2>1, <2>3 DEF Suits
  <2>5. \A j \in DOMAIN plan[p] : j # 1 => Precedes(sent, plan[p][j])
    BY <2>1, <2>3 DEF Precedes
  <2>6. Continue(p, <<sent>>) /\ UNCHANGED <<rows, held, dirty>>
    BY <1>4 DEF Read
  <2> QED
    BY <1>1, <2>2, <2>3, <2>4, <2>5, <2>6, OneGoesOn DEF s
<1>5. CASE /\ plan' = [plan EXCEPT ![p] = <<write>> \o rest]
           /\ UNCHANGED <<rows, wire, now, held, dirty, budget>>
  <2>1. above \in Row
    BY <1>1, AbsentType, RowType DEF Row
  <2>2. next \in Nat
    BY <1>1, <2>1, NextExecutableType DEF TypeOK
  <2> HIDE DEF next
  <2>3. new \in Row /\ SameRow(new, s.row)
    BY <1>1, <2>2 DEF Row, Time, SameRow
  <2>4. write.do = "write" /\ write.t = s.t /\ write.row = new /\ write.msg = "schedule"
    BY DEF Do
  <2>5. write \in Step
    BY <1>1, <2>3, DoType DEF Statements
  <2> HIDE DEF s, new, write, tail, v
  <2>6. /\ \A g : Suits(write, {}, g, v, held[p])
        /\ \A j \in DOMAIN plan[p] : j # 1 => Precedes(write, plan[p][j])
        /\ ~ Opens(write) /\ ~ Barrier(write)
    BY <1>1, <1>2, <2>3, <2>4, SameRowSuits
  <2> DEFINE one == <<write>>
             g1  == one \o tail
  <2>7. one \in Seq(Step) /\ g1 = one \o Tail(plan[p])
    BY <2>5, SingletonType DEF tail
  <2>8. Laid(one, plan[p][1], plan[p], g1, v, held[p])
    <3>1. \A k \in Kinds, c, t \in Task : ~ Removes(k, s, c, t)
      BY <1>1, RemovesOpens
    <3> QED
      BY <1>1, <1>2, <2>5, <2>6, <3>1, LaidOne
  <2>9. FamilyFits(g1, rows, held[p], dirty[p])
    <3>1. Moved(plan[p][1], v, v, held[p], held[p])
      BY <1>1, <1>2 DEF Moved
    <3>2. /\ \A t \in held[p] : Follows(dirty[p][t], rows[t])
          /\ FamilyFits(plan[p], rows, held[p], dirty[p])
      BY DEF FamilyInv, FamilyFits
    <3> HIDE DEF one, g1
    <3> QED
      BY <1>2, <2>7, <2>8, <3>1, <3>2, FitsOn DEF v
  <2> HIDE DEF one, g1
  <2>10. DOMAIN tail = 1..Len(tail) /\ Len(tail) \in Nat
    BY <1>1, LenProperties
  <2>11. \A i \in 1..Len(tail) : tail[i] \in Step
    BY <1>1, ElementOfSeq
  <2>12. \A i \in 1..Len(tail) : moved(i) \in Step /\ SameStep(tail[i], moved(i))
    <3> SUFFICES ASSUME NEW i \in 1..Len(tail)
                 PROVE  moved(i) \in Step /\ SameStep(tail[i], moved(i))
      OBVIOUS
    <3> DEFINE x == tail[i]
               y == [x EXCEPT !.row.start = next]
    <3>1. x \in Step /\ x.row \in Row
      BY <2>11 DEF Step, Fields
    <3>2. y \in Step
      BY <2>2, <3>1, StepRowType
    <3>3. y = [x EXCEPT !.row = [x.row EXCEPT !.start = next]]
      OBVIOUS
    <3>4. \A row \in Row : LET u == [x EXCEPT !.row = row] IN
            u.do = x.do /\ u.t = x.t /\ u.msg = x.msg /\ u.must = x.must /\ u.why = x.why
            /\ u.row = row
      BY <3>1 DEF Step, Fields
    <3>5. [x.row EXCEPT !.start = next] \in Row /\ SameRow(x.row, [x.row EXCEPT !.start = next])
      BY <2>2, <3>1 DEF Row, Time, SameRow
    <3>6. SameStep(x, y)
      BY <3>3, <3>4, <3>5 DEF SameStep
    <3>7. SameStep(x, x)
      BY DEF SameStep, SameRow
    <3> HIDE DEF y
    <3> QED
      BY <3>1, <3>2, <3>6, <3>7 DEF y
  <2> HIDE DEF moved
  <2>13. rest \in Seq(Step) /\ Len(rest) = Len(tail) /\ \A i \in 1..Len(tail) : rest[i] = moved(i)
    <3>1. rest \in [1..Len(tail) -> Step]
      BY <2>10, <2>12
    <3>2. rest \in Seq(Step) /\ DOMAIN rest = 1..Len(tail)
      BY <2>10, <3>1, ComprehensionType
    <3>3. Len(rest) = Len(tail)
      BY <2>10, <3>2, LenProperties
    <3> QED
      BY <2>10, <3>2, <3>3
  <2>14. \A i \in 1..Len(tail) : SameStep(tail[i], rest[i])
    BY <2>12, <2>13
  <2> HIDE DEF rest
  <2> DEFINE g == <<write>> \o rest
  <2>15. g \in Seq(Step) /\ g1 \in Seq(Step)
    BY <1>1, <2>7, <2>13, ConcatType DEF one, g1
  <2>16. /\ DOMAIN g1 = 1..(1 + Len(tail)) /\ DOMAIN g = 1..(1 + Len(tail))
         /\ g1[1] = write /\ g[1] = write
         /\ \A i \in 1..(1 + Len(tail)) : i # 1 => g1[i] = tail[i - 1] /\ g[i] = rest[i - 1]
    BY <1>1, <2>5, <2>10, <2>13 DEF g1, one
  <2>17. \A i \in DOMAIN g1 : SameStep(g1[i], g[i])
    <3> SUFFICES ASSUME NEW i \in DOMAIN g1 PROVE SameStep(g1[i], g[i])
      OBVIOUS
    <3>1. CASE i = 1
      BY <2>16, <3>1 DEF SameStep, SameRow
    <3>2. CASE i # 1
      <4>1. i - 1 \in 1..Len(tail)
        BY <2>10, <2>16, <3>2
      <4> QED
        BY <2>14, <2>16, <3>2, <4>1
    <3> QED
      BY <3>1, <3>2
  <2> HIDE DEF g
  <2>18. FamilyFits(g, rows, held[p], dirty[p])
    BY <2>9, <2>16, <2>17, SameFits
  <2>19. FamilyFits(g, rows', held'[p], dirty'[p]) /\ Family(rows')
         /\ \A t \in Proc \ {p} : held'[t] = held[t]
    BY <1>5, <2>18 DEF FamilyInv
  <2>20. plan' = [plan EXCEPT ![p] = g]
    BY <1>5 DEF g
  <2> QED
    BY <1>2, <2>19, <2>20, FamilyMoves
<1> QED
  BY <1>3, <1>4, <1>5 DEF PublishSchedule

-----------------------------------------------------------------------------
(* Reads that lay out statements of the transaction.                       *)

(* A message suits wherever it comes.                                      *)
LEMMA MildSuits ==
  ASSUME NEW s, s.do = "publish", s.msg # "resched"
  PROVE  /\ \A B, f, v, h : Suits(s, B, f, v, h)
         /\ \A b : b.do # "doneChildren" => Precedes(b, s)
         /\ \A x : Precedes(s, x)
         /\ ~ Opens(s) /\ ~ Closes(s) /\ ~ Barrier(s)
<1>1. /\ ~ Opens(s) /\ ~ Closes(s) /\ ~ Barrier(s) /\ ~ Writer(s) /\ ~ Pooled(s) /\ ~ Lone(s)
      /\ ~ Pool(s) /\ ~ Inserts(s)
  BY DEF Opens, Closes, Barrier, Writer, Pooled, Lone, Pool, Inserts
<1>2. \A B, f, v, h : Suits(s, B, f, v, h)
  BY <1>1 DEF Suits
<1>3. \A b : b.do # "doneChildren" => Precedes(b, s)
  BY <1>1 DEF Precedes
<1>4. \A x : Precedes(s, x)
  BY <1>1 DEF Precedes
<1> QED
  BY <1>1, <1>2, <1>3, <1>4

(* The commit suits wherever it comes, after statements of the transaction.*)
LEMMA CommitSuits ==
  /\ \A B, f, v, h : Suits(Commit, B, f, v, h)
  /\ \A b : ~ Barrier(b) /\ ~ Inserts(b) /\ b.do # "nextChild" => Precedes(b, Commit)
  /\ \A x : x.do \in {"publish", "spawn", "insert", "nextChild", "doneChildren"} =>
       Precedes(Commit, x)
  /\ Closes(Commit) /\ ~ Opens(Commit) /\ ~ Inserts(Commit) /\ Commit.do = "commit"
<1>1. /\ Commit.do = "commit" /\ Commit.msg = "none" /\ Commit.must = {"row"}
  BY DEF Commit, Do
<1>2. /\ ~ Opens(Commit) /\ Closes(Commit) /\ ~ Writer(Commit) /\ ~ Pooled(Commit)
      /\ ~ Lone(Commit) /\ ~ Pool(Commit) /\ ~ Inserts(Commit)
  BY <1>1 DEF Opens, Closes, Writer, Pooled, Lone, Pool, Inserts
<1>3. \A B, f, v, h : Suits(Commit, B, f, v, h)
  BY <1>1, <1>2 DEF Suits
<1>4. \A b : ~ Barrier(b) /\ ~ Inserts(b) /\ b.do # "nextChild" => Precedes(b, Commit)
  BY <1>1, <1>2 DEF Precedes, Barrier, Closes
<1>5. ASSUME NEW x, x.do \in {"publish", "spawn", "insert", "nextChild", "doneChildren"}
      PROVE  Precedes(Commit, x)
  BY <1>1, <1>2, <1>5 DEF Precedes
<1> QED
  BY <1>1, <1>2, <1>3, <1>4, <1>5

(* What the transaction sees of a row that is there, and of a child.       *)
LEMMA ShownRow ==
  ASSUME TypeOK, FamilyInv, NEW p \in Proc, ~Idle(p),
         NEW v, v = Shown(rows, held[p], dirty[p]), NEW c \in Task, rows[c].db # "absent"
  PROVE  /\ v[c].db # "absent" /\ v[c].parent = rows[c].parent
         /\ rows[c].parent # NoTask => ~ rows[c].rule /\ ~ v[c].rule
<1>1. \A t \in held[p] : Follows(dirty[p][t], rows[t])
  BY DEF FamilyInv, FamilyFits
<1>2. v[c].db # "absent"
  BY <1>1 DEF Shown, Follows
<1>3. v[c].parent = rows[c].parent /\ PlainKids(v)
  BY FamilyHead
<1>4. PlainKids(rows)
  BY DEF FamilyInv, Family
<1> QED
  BY <1>2, <1>3, <1>4 DEF PlainKids

(* Completing a parent completes its children.                             *)
LEMMA DoneChildrenFamily ==
  ASSUME TypeOK, TypeOK', FamilyInv, NEW p \in Proc, DoneChildren(p) PROVE FamilyInv'
<1> DEFINE s == Next1(p)
           f == plan[p]
           v == Shown(rows, held[p], dirty[p])
           S == {c \in GetChildTasksByParentID(rows, Next1(p).t) : Unfinished(rows[c])}
           each(order) == [i \in DOMAIN order |->
                             Do("txwrite", order[i], [rows[order[i]] EXCEPT !.status = "done"],
                                "delete", {"row", "msg"})]
<1>1. PICK order \in SetToSeqs(S) : Read(p, each(order) \o <<Commit>>)
  BY DEF DoneChildren
<1>2. ~Idle(p) /\ s.do = "doneChildren" /\ s.t \in Task
  BY AtType DEF DoneChildren, At, Statements
<1>3. S \in SUBSET Task
  BY DEF GetChildTasksByParentID
<1>4. ASSUME NEW c \in S
      PROVE  /\ c \in Task /\ rows[c] \in Row /\ rows[c].db = "live"
             /\ rows[c].parent = s.t
  BY <1>4, RowType DEF GetChildTasksByParentID, Live
<1> DEFINE e == each(order)
           a == e \o <<Commit>>
<1>5. ASSUME NEW i \in DOMAIN order
      PROVE  /\ e[i] \in Step /\ e[i].do = "txwrite" /\ e[i].t \in S
             /\ e[i].row = [rows[e[i].t] EXCEPT !.status = "done"]
             /\ e[i].row.db = "live" /\ e[i].row.parent = s.t /\ e[i].row.status = "done"
             /\ e[i].row.rule = rows[e[i].t].rule
             /\ e[i].msg = "delete" /\ e[i].must = {"row", "msg"}
  <2> DEFINE row == [rows[order[i]] EXCEPT !.status = "done"]
  <2>1. order[i] \in S
    BY <1>3, <1>5, OrderType
  <2>2. e[i] = Do("txwrite", order[i], row, "delete", {"row", "msg"})
    BY <1>5
  <2> HIDE DEF each, S, e, s
  <2>3. /\ row \in Row /\ row.db = "live" /\ row.status = "done"
        /\ row.parent = s.t /\ row.rule = rows[order[i]].rule
    BY <1>4, <2>1 DEF Row, Status
  <2>4. row = [rows[order[i]] EXCEPT !.status = "done"]
    OBVIOUS
  <2> HIDE DEF row
  <2>5. e[i] \in Step
    BY <1>4, <2>1, <2>2, <2>3, DoType DEF Statements
  <2>6. /\ e[i].do = "txwrite" /\ e[i].t = order[i] /\ e[i].row = row
        /\ e[i].msg = "delete" /\ e[i].must = {"row", "msg"}
    BY <2>2 DEF Do
  <2> QED
    BY <2>1, <2>3, <2>4, <2>5, <2>6
<1>6. e \in Seq(Step) /\ DOMAIN e = DOMAIN order
  BY <1>3, <1>5, ForEachType
<1> HIDE DEF each, S, e
<1>7. /\ a \in Seq(Step)
      /\ \A i \in DOMAIN a : (i \in DOMAIN e /\ a[i] = e[i]) \/ a[i] = Commit
      /\ \E j \in DOMAIN a : a[j] = Commit /\ \A i \in DOMAIN e : i < j
  BY <1>6, CommitType, LastParts
<1> HIDE DEF a
<1>8. Read(p, a)
  BY <1>1 DEF a, e
<1>9. /\ f \in Seq(Step) /\ f # <<>> /\ f[1] = s
      /\ PlainKids(v)
      /\ \A j \in DOMAIN f : j # 1 => Precedes(s, f[j])
  BY <1>2, FamilyHead
<1>10. \A j \in DOMAIN f : j = 1
  BY <1>2, <1>9 DEF Precedes
<1> DEFINE g == a \o Tail(f)
<1> HIDE DEF g
<1>11. \A k \in Kinds, c, q \in Task : ~ Stray(k, v, c, q, v[q])
  <2>1. \A k \in Kinds, c, q \in Task : Stray(k, v, c, q, v[q]) => WillRemove(k, f, c, q)
    BY DEF FamilyInv, FamilyFits
  <2>2. \A k \in Kinds, c, q \in Task : ~ Removes(k, s, c, q)
    BY <1>2 DEF Removes
  <2> QED
    BY <1>9, <1>10, <2>1, <2>2 DEF WillRemove
<1>12. ASSUME NEW i \in DOMAIN e, NEW B
       PROVE  Suits(e[i], B, g, v, held[p]) /\ ~ Barrier(e[i]) /\ ~ Inserts(e[i])
              /\ e[i].do = "txwrite"
  <2> DEFINE x == e[i]
             c == x.t
  <2>1. /\ x.do = "txwrite" /\ c \in Task /\ rows[c].db = "live" /\ rows[c].parent = s.t
        /\ x.row.db = "live" /\ x.row.parent = s.t /\ x.row.status = "done"
        /\ x.row.rule = rows[c].rule /\ x.msg = "delete" /\ x.must = {"row", "msg"}
    BY <1>4, <1>5, <1>6
  <2>2. /\ v[c].db # "absent" /\ v[c].parent = s.t /\ ~ rows[c].rule /\ ~ v[c].rule
    BY <1>2, <2>1, ShownRow DEF Task, NoTask
  <2> HIDE DEF c, x, v, s
  <2>3. Follows(x.row, v[c])
    BY <2>1, <2>2 DEF Follows, Kid
  <2>4. \A k \in Kinds, b \in Task : ~ Stray(k, v, b, c, x.row)
    <3> SUFFICES ASSUME NEW k \in Kinds, NEW b \in Task, Stray(k, v, b, c, x.row) PROVE FALSE
      OBVIOUS
    <3>1. k = "rule"
      BY <2>1, <2>2 DEF Stray, Barren, Kinds
    <3>2. Stray(k, v, b, c, v[c])
      BY <2>2, <3>1 DEF Stray, Barren
    <3> QED
      BY <1>11, <2>1, <3>2
  <2>5. /\ ~ Closes(x) /\ Writer(x) /\ ~ Pooled(x) /\ ~ Lone(x) /\ ~ Inserts(x) /\ ~ Barrier(x)
    BY <2>1 DEF Closes, Writer, Pooled, Lone, Pool, Inserts, Barrier
  <2>6. x.t = c
    BY DEF c
  <2>7. Suits(x, B, g, v, held[p])
    BY <2>1, <2>2, <2>3, <2>4, <2>5, <2>6 DEF Suits
  <2> QED
    BY <2>1, <2>5, <2>7 DEF x
<1>13. ASSUME NEW i \in DOMAIN e, NEW m \in DOMAIN e PROVE Precedes(e[m], e[i])
  <2>1. ASSUME e[m].t = e[i].t PROVE Follows(e[i].row, e[m].row)
    <3>1. /\ e[i].row = [rows[e[i].t] EXCEPT !.status = "done"]
          /\ e[m].row = [rows[e[m].t] EXCEPT !.status = "done"]
          /\ e[m].row.db = "live"
      BY <1>5, <1>6
    <3>2. e[i].row = e[m].row
      BY <2>1, <3>1
    <3>3. SameRow(e[i].row, e[m].row)
      BY <3>2 DEF SameRow
    <3> QED
      BY <3>1, <3>3, FollowsSame
  <2> QED
    BY <1>12, <2>1 DEF Precedes, Barrier, Closes, Pool
<1>14. \A i \in DOMAIN a : Suits(a[i], Before(a, i), g, v, held[p])
  BY <1>7, <1>12, CommitSuits
<1>15. ASSUME NEW i \in DOMAIN a, NEW b \in Before(a, i) PROVE Precedes(b, a[i])
  <2>1. PICK m \in DOMAIN a : m < i /\ b = a[m]
    BY DEF Before
  <2>2. PICK j \in DOMAIN a : a[j] = Commit /\ \A l \in DOMAIN e : l < j
    BY <1>7
  <2>3. CASE m \in DOMAIN e /\ b = e[m]
    BY <1>7, <1>12, <1>13, <2>3, CommitSuits
  <2>4. CASE m \notin DOMAIN e
    <3>1. DOMAIN a = 1..Len(a) /\ DOMAIN e = 1..Len(e) /\ Len(e) \in Nat /\ Len(a) \in Nat
      BY <1>6, <1>7, LenProperties
    <3>2. Len(a) = Len(e) + 1
      BY <1>6, CommitType, ConcatProperties DEF a
    <3> QED
      BY <2>1, <2>4, <3>1, <3>2
  <2>5. m \in DOMAIN e => a[m] = e[m]
    BY <1>6, <1>7, CommitType, ConcatParts DEF a, Joined
  <2> QED
    BY <2>1, <2>3, <2>4, <2>5
<1>16. \A i \in DOMAIN a : Opens(a[i]) => \E j \in DOMAIN a : i < j /\ Closes(a[j])
  BY <1>7, CommitSuits
<1>17. Laid(a, s, f, g, v, held[p])
  BY <1>2, <1>10, <1>14, <1>15, <1>16 DEF Laid, Barrier, Removes
<1>18. Continue(p, a) /\ UNCHANGED <<rows, held, dirty>>
  BY <1>8 DEF Read
<1> QED
  BY <1>2, <1>7, <1>17, <1>18, FamilyReads DEF s, f, v, g

(* The statement that ends the children of a task.                         *)
LEMMA ChildrenGoSuits ==
  ASSUME NEW s, s.do = "txdeletechildren", s.msg = "none", s.must = {"row"}
  PROVE  /\ \A B, f, v, h : Suits(s, B, f, v, h)
         /\ \A x : ~ Inserts(x) => Precedes(s, x)
         /\ Opens(s) /\ ~ Closes(s) /\ ~ Barrier(s) /\ ~ Inserts(s)
<1>1. /\ Opens(s) /\ ~ Closes(s) /\ ~ Barrier(s) /\ ~ Writer(s) /\ ~ Pooled(s) /\ ~ Lone(s)
      /\ ~ Pool(s) /\ ~ Inserts(s)
  BY DEF Opens, Closes, Barrier, Writer, Pooled, Lone, Pool, Inserts
<1>2. \A B, f, v, h : Suits(s, B, f, v, h)
  BY <1>1 DEF Suits
<1>3. \A x : ~ Inserts(x) => Precedes(s, x)
  BY <1>1 DEF Precedes
<1> QED
  BY <1>1, <1>2, <1>3

(* Deleting a series ends its children.                                    *)
LEMMA DeleteChildrenFamily ==
  ASSUME TypeOK, TypeOK', FamilyInv, NEW p \in Proc, DeleteChildren(p) PROVE FamilyInv'
<1> DEFINE s    == Next1(p)
           f    == plan[p]
           v    == Shown(rows, held[p], dirty[p])
           kids == GetChildTasksByParentID(rows, s.t)
           first == Do("txdeletechildren", s.t, s.row, "none", {"row"})
           head == IF kids = {} THEN <<>> ELSE <<first>>
           each(order) == [i \in DOMAIN order |->
                             Publish(order[i], rows[order[i]], "delete", {"msg"})]
<1>1. ~Idle(p) /\ s.do = "deleteChildren" /\ s.t \in Task /\ s.row \in Row
  BY AtType DEF DeleteChildren, At, Statements
<1>2. CASE Fail(p)
  BY <1>1, <1>2, AbortFamily DEF Fail
<1>3. ASSUME NEW order \in SetToSeqs(kids), Read(p, head \o each(order))
      PROVE  FamilyInv'
  <2>1. kids \in SUBSET Task
    BY DEF GetChildTasksByParentID
  <2>2. head \in Seq(Step) /\ \A i \in DOMAIN head : head[i] = first
    <3>1. first \in Step
      BY <1>1, DoType DEF Statements
    <3> HIDE DEF first
    <3>2. CASE kids = {}
      BY <3>2, EmptyPlanType
    <3>3. CASE kids # {}
      BY <3>1, <3>3, SingletonType
    <3> QED
      BY <3>2, <3>3
  <2>3. kids # {} => 1 \in DOMAIN head
    OBVIOUS
  <2> DEFINE e == each(order)
             a == head \o e
             g == a \o Tail(f)
  <2>4. ASSUME NEW i \in DOMAIN order
        PROVE  e[i] \in Step /\ e[i].do = "publish" /\ e[i].msg = "delete"
    <3>1. order[i] \in Task
      BY <2>1, <2>4, OrderType
    <3>2. e[i] = Publish(order[i], rows[order[i]], "delete", {"msg"})
      BY <2>4
    <3> HIDE DEF e
    <3> QED
      BY <3>1, <3>2, RowType, DoType DEF Publish, Do, Statements
  <2>5. e \in Seq(Step) /\ DOMAIN e = DOMAIN order
    BY <2>1, <2>4, ForEachType
  <2>6. /\ first.do = "txdeletechildren" /\ first.t = s.t
        /\ first.msg = "none" /\ first.must = {"row"}
    BY DEF Do
  <2>7. \A c \in Task : rows[c].db = "live" /\ rows[c].parent = s.t => c \in kids
    BY DEF GetChildTasksByParentID, Live
  <2>8. Continue(p, a) /\ UNCHANGED <<rows, held, dirty>>
    BY <1>3 DEF Read
  <2>9. /\ f \in Seq(Step) /\ f # <<>> /\ f[1] = s
        /\ \A j \in DOMAIN f : j # 1 => Precedes(s, f[j])
        /\ Opens(s) => \E j \in DOMAIN f : j # 1 /\ Closes(f[j])
        /\ \A t \in Task : /\ v[t].parent = rows[t].parent
                           /\ \A k \in Kinds : Kid(k, v[t]) => Kid(k, rows[t])
    BY <1>1, FamilyHead
  <2> HIDE DEF each, e, head, first, kids, a, s, f, v, g
  <2>10. a \in Seq(Step) /\ Joined(head, e, a)
    BY <2>2, <2>5, ConcatParts DEF a
  <2>11. ASSUME NEW i \in DOMAIN a
         PROVE  a[i] = first \/ (a[i].do = "publish" /\ a[i].msg # "resched")
    BY <2>2, <2>4, <2>5, <2>10 DEF Joined
  <2>12. ASSUME NEW i \in DOMAIN a
         PROVE  /\ Suits(a[i], Before(a, i), g, v, held[p])
                /\ \A x : ~ Inserts(x) => Precedes(a[i], x)
                /\ ~ Barrier(a[i]) /\ ~ Inserts(a[i])
    <3>1. CASE a[i] = first
      BY <2>6, <3>1, ChildrenGoSuits
    <3>2. CASE a[i].do = "publish" /\ a[i].msg # "resched"
      BY <3>2, MildSuits DEF Inserts
    <3> QED
      BY <2>11, <3>1, <3>2
  <2>13. \A j \in DOMAIN f : j # 1 => ~ Inserts(f[j])
    BY <1>1, <2>9 DEF Precedes
  <2>14. \E j \in DOMAIN f : j # 1 /\ Closes(f[j])
    BY <1>1, <2>9 DEF Opens
  <2>15. ASSUME NEW k \in Kinds, NEW c \in Task, NEW q \in Task,
                Removes(k, s, c, q), v[c].parent = q, Kid(k, v[c])
         PROVE  WillRemove(k, g, c, q)
    <3>1. s.t = q
      BY <1>1, <2>15 DEF Removes
    <3>2. c \in kids
      BY <2>7, <2>9, <2>15, <3>1 DEF Kid
    <3>3. 1 \in DOMAIN a /\ a[1] = first
      BY <2>2, <2>3, <2>10, <3>2 DEF Joined
    <3>4. Removes(k, a[1], c, q)
      BY <2>6, <3>1, <3>3 DEF Removes
    <3>5. WillRemove(k, a, c, q)
      BY <2>12, <3>3, <3>4 DEF WillRemove
    <3> QED
      BY <2>9, <2>10, <3>5, RemovalLaid DEF g
  <2>16. Laid(a, s, f, g, v, held[p])
    <3>1. \A i \in DOMAIN a : \A b \in Before(a, i) : Precedes(b, a[i])
      BY <2>12 DEF Before
    <3> QED
      BY <1>1, <2>12, <2>13, <2>14, <2>15, <3>1 DEF Laid
  <2> QED
    BY <1>1, <2>8, <2>10, <2>16, FamilyReads DEF s, f, v, g
<1> QED
  BY <1>2, <1>3 DEF DeleteChildren

(* A synchronisation whose turn it is: the transaction holds nothing but   *)
(* the parent, and nothing is left but what follows its commit.            *)
SyncFacts(p, s, f, v) ==
  /\ ~Idle(p) /\ s.do = "sync" /\ s.t \in Task /\ s.row \in Row
  /\ f \in Seq(Step) /\ f # <<>> /\ f[1] = s
  /\ v[s.t].db # "absent" /\ (v[s.t].db = "live" => Follows(s.row, v[s.t]))
  /\ \A B : Kept(s.t, B, v, held[p])
  /\ \A c \in Task : v[c].parent = rows[c].parent
  /\ \A c \in Task : rows[c].parent = s.t =>
       /\ v[c] = rows[c] /\ c # s.t /\ ~ rows[c].rule
       /\ \A k \in Kinds, b \in Task : ~ Stray(k, v, b, c, v[c])
  /\ \A j \in DOMAIN f : j # 1 =>
       /\ f[j].do \in {"publish", "spawn", "insert", "nextChild", "doneChildren"}
       /\ Inserts(f[j]) => /\ Undoes("rule") \cap s.why = {}
                           /\ Parental(v[f[j].t])

(* What holds in a transaction whose next statement is the commit of an    *)
(* update.                                                                 *)
LEMMA SyncHead ==
  ASSUME TypeOK, FamilyInv, NEW p \in Proc, At(p, "sync"),
         NEW v, v = Shown(rows, held[p], dirty[p]),
         NEW s, s = Next1(p), NEW f, f = plan[p]
  PROVE  SyncFacts(p, s, f, v)
<1>1. /\ ~Idle(p) /\ s.do = "sync" /\ s.t \in Task /\ s.row \in Row
  BY AtType DEF At, Statements
<1>2. /\ f \in Seq(Step) /\ f # <<>> /\ f[1] = s
      /\ Suits(s, {}, f, v, held[p])
      /\ \A j \in DOMAIN f : j # 1 => Precedes(s, f[j])
      /\ \A t \in Task : /\ t \notin held[p] => v[t] = rows[t]
                         /\ v[t].parent = rows[t].parent
      /\ PlainKids(v) /\ OwnParents(v)
  BY <1>1, FamilyHead
<1>3. Writer(s) /\ Closes(s)
  BY <1>1 DEF Writer, Closes
<1>4. v[s.t].db # "absent" /\ (v[s.t].db = "live" => Follows(s.row, v[s.t]))
  BY <1>2, <1>3 DEF Suits
<1>5. Kept(s.t, {}, v, held[p]) /\ held[p] \subseteq {s.t}
  BY <1>1, <1>2 DEF Suits
<1>6. \A B : Kept(s.t, B, v, held[p])
  BY <1>5 DEF Kept
<1>7. /\ \A k \in Kinds, c, q \in Task : Stray(k, v, c, q, v[q]) => WillRemove(k, f, c, q)
      /\ \A i \in DOMAIN f : Suits(f[i], Before(f, i), f, v, held[p])
  BY DEF FamilyInv, FamilyFits
<1>8. ASSUME NEW c \in Task, rows[c].parent = s.t
      PROVE  /\ v[c] = rows[c] /\ c # s.t /\ ~ rows[c].rule
             /\ \A k \in Kinds, b \in Task : ~ Stray(k, v, b, c, v[c])
  <2>1. c # s.t
    BY <1>2, <1>8 DEF OwnParents
  <2>2. v[c] = rows[c]
    BY <1>2, <1>5, <2>1
  <2>3. ~ v[c].rule
    BY <1>1, <1>2, <1>8 DEF PlainKids, Task, NoTask
  <2>4. ASSUME NEW k \in Kinds, NEW b \in Task, Stray(k, v, b, c, v[c]) PROVE FALSE
    <3>1. PICK j \in DOMAIN f : Removes(k, f[j], b, c) /\ \A m \in DOMAIN f : m < j => ~ Barrier(f[m])
      BY <1>7, <2>4 DEF WillRemove
    <3>2. DOMAIN f = 1..Len(f) /\ Len(f) \in Nat
      BY <1>2, LenProperties
    <3>3. Barrier(f[1])
      BY <1>1, <1>2 DEF Barrier
    <3>4. j = 1
      BY <3>1, <3>2, <3>3
    <3> QED
      BY <1>1, <1>2, <2>1, <3>1, <3>4 DEF Removes
  <2> QED
    BY <2>1, <2>2, <2>3, <2>4
<1>9. \A j \in DOMAIN f : j # 1 =>
        f[j].do \in {"publish", "spawn", "insert", "nextChild", "doneChildren"}
  BY <1>2, <1>3 DEF Precedes
<1>10. ASSUME NEW j \in DOMAIN f, j # 1, Inserts(f[j])
       PROVE  Undoes("rule") \cap s.why = {} /\ Parental(v[f[j].t])
  <2>1. Undoes("rule") \cap s.why = {}
    BY <1>1, <1>2, <1>10 DEF Precedes
  <2>2. \A b \in Before(f, j) : b.do # "txwrite"
    BY <1>1, <1>2, <1>9 DEF Before
  <2>3. Parental(v[f[j].t])
    BY <1>7, <1>10, <2>2 DEF Suits, Writing
  <2> QED
    BY <2>1, <2>3
<1> QED
  BY <1>1, <1>2, <1>4, <1>6, <1>8, <1>9, <1>10 DEF SyncFacts

(* A list a of statements z, the commit, and messages m.                   *)
CommitList(a, z, m) ==
  /\ a \in Seq(Step) /\ DOMAIN a = 1..(Len(z) + 1 + Len(m))
  /\ Len(z) \in Nat /\ Len(m) \in Nat /\ DOMAIN z = 1..Len(z) /\ DOMAIN m = 1..Len(m)
  /\ \A i \in DOMAIN z : a[i] = z[i]
  /\ a[Len(z) + 1] = Commit
  /\ \A i \in DOMAIN a : i > Len(z) + 1 => /\ i - (Len(z) + 1) \in DOMAIN m
                                           /\ a[i] = m[i - (Len(z) + 1)]

(* Concatenation as an operator of its own: the provers then reason by its    *)
(* two laws.                                                                 *)
Cat(a, b) == a \o b

(* Concatenation is associative.                                           *)
LEMMA CatAssoc ==
  ASSUME NEW S, NEW a \in Seq(S), NEW b \in Seq(S), NEW c \in Seq(S)
  PROVE  Cat(Cat(a, b), c) = Cat(a, Cat(b, c))
BY ConcatAssociative DEF Cat

(* And stays within the sequences of a set.                                *)
LEMMA CatType ==
  ASSUME NEW S, NEW a \in Seq(S), NEW b \in Seq(S)
  PROVE  Cat(a, b) \in Seq(S)
BY ConcatProperties DEF Cat

(* The commit of a plan, told apart from the statements before it and the     *)
(* messages after it.                                                        *)
LEMMA CommitApart ==
  ASSUME NEW p, NEW w, NEW front, NEW one, NEW m, NEW last,
         /\ w \in Seq(Step) /\ front \in Seq(Step) /\ one \in Seq(Step)
         /\ m \in Seq(Step) /\ last \in Seq(Step),
         Read(p, w \o (front \o one) \o m \o last)
  PROVE  Read(p, (w \o front) \o one \o (m \o last))
<1>1. Cat(Cat(w, front), one) = Cat(w, Cat(front, one))
  BY CatAssoc
<1>2. Cat(Cat(w, front), one) \in Seq(Step)
  <2>1. Cat(w, front) \in Seq(Step)
    BY CatType
  <2> QED
    BY <2>1, CatType
<1>3. Cat(Cat(Cat(Cat(w, front), one), m), last) = Cat(Cat(Cat(w, front), one), Cat(m, last))
  BY <1>2, CatAssoc
<1>4. Read(p, Cat(Cat(Cat(w, Cat(front, one)), m), last))
  BY DEF Cat
<1>5. Read(p, Cat(Cat(Cat(w, front), one), Cat(m, last)))
  BY <1>1, <1>3, <1>4
<1> QED
  BY <1>5 DEF Cat

(* A list made of a commit between two others is of that form.             *)
LEMMA CommitParts ==
  ASSUME NEW z \in Seq(Step), NEW m \in Seq(Step), NEW a, a = z \o <<Commit>> \o m
  PROVE  CommitList(a, z, m)
<1> DEFINE one == <<Commit>>
           y == z \o one
<1>1. one \in Seq(Step) /\ Len(one) = 1 /\ one[1] = Commit
  BY CommitType
<1> HIDE DEF one
<1>2. /\ Len(z) \in Nat /\ Len(m) \in Nat /\ DOMAIN z = 1..Len(z) /\ DOMAIN m = 1..Len(m)
  BY LenProperties
<1>3. /\ y \in Seq(Step) /\ Len(y) = Len(z) + 1
      /\ \A i \in 1..Len(y) : y[i] = IF i <= Len(z) THEN z[i] ELSE one[i - Len(z)]
  BY <1>1, ConcatProperties
<1> HIDE DEF y
<1>4. a = y \o m
  BY DEF y, one
<1>5. /\ a \in Seq(Step) /\ Len(a) = Len(y) + Len(m)
      /\ \A i \in 1..Len(a) : a[i] = IF i <= Len(y) THEN y[i] ELSE m[i - Len(y)]
  BY <1>3, <1>4, ConcatProperties
<1>6. DOMAIN a = 1..(Len(z) + 1 + Len(m))
  BY <1>3, <1>5, LenProperties
<1>7. \A i \in DOMAIN z : a[i] = z[i]
  BY <1>2, <1>3, <1>5
<1>8. a[Len(z) + 1] = Commit
  <2>1. y[Len(z) + 1] = one[Len(z) + 1 - Len(z)] /\ Len(z) + 1 - Len(z) = 1
    BY <1>2, <1>3
  <2> QED
    BY <1>1, <1>2, <1>3, <1>5, <2>1
<1>9. \A i \in DOMAIN a : i > Len(z) + 1 => /\ i - (Len(z) + 1) \in DOMAIN m
                                            /\ a[i] = m[i - (Len(z) + 1)]
  BY <1>2, <1>3, <1>5, <1>6
<1> QED
  BY <1>2, <1>5, <1>6, <1>7, <1>8, <1>9 DEF CommitList

(* The same when no message follows the commit.                            *)
LEMMA CommitLast ==
  ASSUME NEW z \in Seq(Step), NEW a, a = z \o <<Commit>> PROVE CommitList(a, z, <<>>)
<1> DEFINE m == <<>>
<1>1. m \in Seq(Step)
  BY EmptyPlanType
<1>2. a = z \o <<Commit>> \o m
  <2>1. a \in Seq(Step)
    BY CommitType, ConcatType
  <2> QED
    BY <2>1, ConcatEmptySeq
<1> HIDE DEF m
<1>3. CommitList(a, z, m)
  BY <1>1, <1>2, CommitParts
<1> QED
  BY <1>3 DEF m

(* A synchronisation lays out statements of the transaction, its commit    *)
(* and messages.                                                           *)
LEMMA SyncGoesOn ==
  ASSUME TypeOK, TypeOK', FamilyInv, NEW p \in Proc, At(p, "sync"),
         NEW v, v = Shown(rows, held[p], dirty[p]),
         NEW s, s = Next1(p), NEW f, f = plan[p],
         NEW z \in Seq(Step), NEW m \in Seq(Step), NEW a, CommitList(a, z, m), Read(p, a),
         \A i \in DOMAIN m : m[i].do = "publish" /\ m[i].msg # "resched",
         \A i \in DOMAIN z : /\ \A B, g : Suits(z[i], B, g, v, held[p])
                             /\ ~ Barrier(z[i]) /\ ~ Inserts(z[i]) /\ z[i].do # "nextChild"
                             /\ \A j \in DOMAIN f : j # 1 => Precedes(z[i], f[j])
                             /\ \A l \in DOMAIN z : l < i => Precedes(z[l], z[i]),
         \A k \in Kinds, c \in Task :
           Undoes(k) \cap s.why # {} /\ rows[c].parent = s.t /\ Kid(k, rows[c]) =>
             WillRemove(k, z, c, s.t)
  PROVE  FamilyInv'
<1> DEFINE n == Len(z)
           g == a \o Tail(f)
<1> HIDE DEF g
<1>2. /\ a \in Seq(Step) /\ DOMAIN a = 1..(n + 1 + Len(m))
      /\ n \in Nat /\ Len(m) \in Nat /\ DOMAIN z = 1..n /\ DOMAIN m = 1..Len(m)
      /\ \A i \in DOMAIN z : a[i] = z[i]
      /\ a[n + 1] = Commit
      /\ \A i \in DOMAIN a : i > n + 1 => i - (n + 1) \in DOMAIN m /\ a[i] = m[i - (n + 1)]
  BY DEF CommitList
<1> HIDE DEF n
<1>3. /\ ~Idle(p) /\ s.do = "sync" /\ s.t \in Task
      /\ f \in Seq(Step) /\ f # <<>> /\ f[1] = s
      /\ \A c \in Task : rows[c].parent = s.t => v[c] = rows[c]
      /\ \A c \in Task : v[c].parent = rows[c].parent
      /\ \A j \in DOMAIN f : j # 1 =>
           f[j].do \in {"publish", "spawn", "insert", "nextChild", "doneChildren"}
  <2>1. SyncFacts(p, s, f, v)
    BY SyncHead
  <2> QED
    BY <2>1 DEF SyncFacts
<1>4. ASSUME NEW i \in DOMAIN a
      PROVE  \/ i \in DOMAIN z /\ a[i] = z[i]
             \/ i = n + 1 /\ a[i] = Commit
             \/ i > n + 1 /\ a[i].do = "publish" /\ a[i].msg # "resched"
  <2>1. CASE i \in DOMAIN z
    BY <1>2, <2>1
  <2>2. CASE i = n + 1
    BY <1>2, <2>2
  <2>3. CASE i > n + 1
    BY <1>2, <2>3
  <2> QED
    BY <1>2, <2>1, <2>2, <2>3
<1>5. ASSUME NEW i \in DOMAIN a
      PROVE  /\ Suits(a[i], Before(a, i), g, v, held[p])
             /\ \A j \in DOMAIN f : j # 1 => Precedes(a[i], f[j])
             /\ a[i].do # "doneChildren"
             /\ Opens(a[i]) => i \in DOMAIN z
  <2>1. CASE i \in DOMAIN z /\ a[i] = z[i]
    BY <2>1 DEF Barrier
  <2>2. CASE i = n + 1 /\ a[i] = Commit
    BY <1>3, <2>2, CommitSuits
  <2>3. CASE i > n + 1 /\ a[i].do = "publish" /\ a[i].msg # "resched"
    BY <2>3, MildSuits
  <2> QED
    BY <1>4, <2>1, <2>2, <2>3
<1>6. ASSUME NEW i \in DOMAIN a, NEW l \in DOMAIN a, l < i PROVE Precedes(a[l], a[i])
  <2>1. CASE i \in DOMAIN z /\ a[i] = z[i]
    <3>1. l \in DOMAIN z
      BY <1>2, <1>6, <2>1
    <3> QED
      BY <1>2, <1>6, <2>1, <3>1
  <2>2. CASE i = n + 1 /\ a[i] = Commit
    <3>1. l \in DOMAIN z
      BY <1>2, <1>6, <2>2
    <3> QED
      BY <1>2, <2>2, <3>1, CommitSuits
  <2>3. CASE i > n + 1 /\ a[i].do = "publish" /\ a[i].msg # "resched"
    BY <1>5, <2>3, MildSuits
  <2> QED
    BY <1>4, <2>1, <2>2, <2>3
<1>7. n + 1 \in DOMAIN a /\ Closes(a[n + 1]) /\ \A i \in DOMAIN a : Opens(a[i]) => i < n + 1
  BY <1>2, <1>5, CommitSuits
<1>8. ASSUME NEW k \in Kinds, NEW c \in Task, NEW q \in Task,
             Removes(k, s, c, q), v[c].parent = q, Kid(k, v[c])
      PROVE  WillRemove(k, g, c, q)
  <2>1. s.t = q /\ Undoes(k) \cap s.why # {}
    BY <1>3, <1>8 DEF Removes
  <2>2. WillRemove(k, z, c, q)
    BY <1>3, <1>8, <2>1
  <2>3. PICK j \in DOMAIN z : Removes(k, z[j], c, q) /\ \A l \in DOMAIN z : l < j => ~ Barrier(z[l])
    BY <2>2 DEF WillRemove
  <2>4. j \in DOMAIN a /\ a[j] = z[j]
    BY <1>2
  <2>5. \A l \in DOMAIN a : l < j => ~ Barrier(a[l])
    <3> SUFFICES ASSUME NEW l \in DOMAIN a, l < j PROVE ~ Barrier(a[l])
      OBVIOUS
    <3>1. l \in DOMAIN z
      BY <1>2
    <3> QED
      BY <1>2, <2>3, <3>1
  <2>6. WillRemove(k, a, c, q)
    BY <2>3, <2>4, <2>5 DEF WillRemove
  <2> QED
    BY <1>2, <1>3, <2>6, RemovalLaid DEF g
<1>9. Laid(a, s, f, g, v, held[p])
  <2>1. \A i \in DOMAIN a : \A b \in Before(a, i) : Precedes(b, a[i])
    BY <1>6 DEF Before
  <2>2. \A i \in DOMAIN a : Opens(a[i]) => \E j \in DOMAIN a : i < j /\ Closes(a[j])
    BY <1>7
  <2> QED
    BY <1>3, <1>5, <1>7, <1>8, <2>1, <2>2 DEF Laid, Barrier
<1>10. Continue(p, a) /\ UNCHANGED <<rows, held, dirty>>
  BY DEF Read
<1> QED
  BY <1>2, <1>3, <1>9, <1>10, FamilyReads DEF g

(* The former parent is scheduled itself.                                  *)
LEMMA DirectSuits ==
  ASSUME NEW p, NEW s, NEW f, NEW v, SyncFacts(p, s, f, v),
         NEW x, x.do = "resched", x.t = s.t, x.row = s.row, x.msg = "resched", x.must = {}
  PROVE  /\ \A B, g : Suits(x, B, g, v, held[p])
         /\ \A b : ~ Barrier(b) /\ ~ Writer(b) /\ ~ Inserts(b) /\ b.do # "nextChild" =>
              Precedes(b, x)
         /\ \A y : ~ Writer(y) /\ ~ Inserts(y) => Precedes(x, y)
         /\ ~ Opens(x) /\ ~ Barrier(x) /\ ~ Inserts(x)
<1>1. /\ ~ Opens(x) /\ ~ Closes(x) /\ ~ Barrier(x) /\ Writer(x) /\ Pooled(x) /\ ~ Lone(x)
      /\ ~ Pool(x) /\ ~ Inserts(x)
  BY DEF Opens, Closes, Barrier, Writer, Pooled, Lone, Pool, Inserts
<1>2. /\ v[x.t].db # "absent" /\ (v[x.t].db = "live" => Follows(x.row, v[x.t]))
      /\ \A B : Kept(x.t, B, v, held[p])
  BY DEF SyncFacts
<1>3. \A B, g : Suits(x, B, g, v, held[p])
  BY <1>1, <1>2 DEF Suits
<1>4. \A b : ~ Barrier(b) /\ ~ Writer(b) /\ ~ Inserts(b) /\ b.do # "nextChild" => Precedes(b, x)
  BY <1>1 DEF Precedes, Barrier, Closes
<1>5. \A y : ~ Writer(y) /\ ~ Inserts(y) => Precedes(x, y)
  BY <1>1 DEF Precedes
<1> QED
  BY <1>1, <1>3, <1>4, <1>5

(* A list y2 of the statements of y1 and x.                                *)
OneMore(y2, y1, x) ==
  /\ y2 \in Seq(Step)
  /\ \A i \in DOMAIN y2 : \/ i \in DOMAIN y1 /\ y2[i] = y1[i]
                          \/ i \notin DOMAIN y1 /\ y2[i] = x
  /\ \A i, l \in DOMAIN y2 : i \notin DOMAIN y1 /\ l \notin DOMAIN y1 => i = l
  /\ \A i \in DOMAIN y1 : i \in DOMAIN y2 /\ y2[i] = y1[i]

(* A list with one statement more is of that form.                         *)
LEMMA OneMoreParts ==
  ASSUME NEW y1 \in Seq(Step), NEW x \in Step PROVE OneMore(y1 \o <<x>>, y1, x)
<1> DEFINE one == <<x>>
           y2 == y1 \o one
<1>1. one \in Seq(Step) /\ Len(one) = 1 /\ one[1] = x
  OBVIOUS
<1> HIDE DEF one
<1>0. Len(y1) \in Nat
  BY LenProperties
<1>2. /\ y2 \in Seq(Step) /\ Len(y2) = Len(y1) + 1
      /\ \A i \in 1..Len(y2) : y2[i] = IF i <= Len(y1) THEN y1[i] ELSE one[i - Len(y1)]
  <2>1. /\ y2 \in Seq(Step) /\ Len(y2) = Len(y1) + Len(one)
        /\ \A i \in 1..(Len(y1) + Len(one)) :
             y2[i] = IF i <= Len(y1) THEN y1[i] ELSE one[i - Len(y1)]
    BY <1>1, ConcatProperties, Zenon
  <2> QED
    BY <1>0, <1>1, <2>1
<1> HIDE DEF y2
<1>3. DOMAIN y1 = 1..Len(y1) /\ DOMAIN y2 = 1..(Len(y1) + 1) /\ Len(y1) \in Nat
  BY <1>2, LenProperties
<1>4. ASSUME NEW i \in DOMAIN y2, i \notin DOMAIN y1 PROVE i = Len(y1) + 1 /\ y2[i] = x
  <2>1. i = Len(y1) + 1 /\ i - Len(y1) = 1
    BY <1>3, <1>4
  <2> QED
    BY <1>1, <1>2, <1>3, <2>1
<1>5. OneMore(y2, y1, x)
  BY <1>2, <1>3, <1>4 DEF OneMore
<1> QED
  BY <1>5 DEF y2, one

(* Case 1: the confirmation removed.                                       *)
LEMMA SyncConfRemovedFamily ==
  ASSUME TypeOK, TypeOK', FamilyInv, NEW p \in Proc, At(p, "sync"),
         NEW kids, kids = GetChildTasksByParentID(rows, Next1(p).t),
         NEW order \in SetToSeqs(kids), "confRemoved" \in Next1(p).why,
         NEW first, first = Do("txdeletechildren", Next1(p).t, Next1(p).row, "none", {"row"}),
         NEW front \in Seq(Step), \A i \in DOMAIN front : i = 1 /\ front[i] = first,
         kids # {} => 1 \in DOMAIN front,
         NEW forget, forget = [i \in DOMAIN order |->
                                 Publish(order[i], rows[order[i]], "delete", {"msg"})],
         NEW direct, direct = Do("resched", Next1(p).t, Next1(p).row, "resched", {}),
         NEW quiet \in Seq(Step), \A i \in DOMAIN quiet : Quiet(quiet[i]),
         Read(p, front \o forget \o <<direct>> \o quiet \o <<Commit>>)
  PROVE  FamilyInv'
<1> DEFINE s == Next1(p)
           f == plan[p]
           v == Shown(rows, held[p], dirty[p])
<1>1. SyncFacts(p, s, f, v)
  BY SyncHead
<1>2. s.t \in Task /\ s.row \in Row /\ kids \in SUBSET Task
  BY AtType DEF Statements, At, GetChildTasksByParentID
<1>3. ASSUME NEW i \in DOMAIN order PROVE forget[i] \in Step /\ Quiet(forget[i])
  <2>1. order[i] \in Task
    BY <1>2, <1>3, OrderType
  <2>2. forget[i] = Publish(order[i], rows[order[i]], "delete", {"msg"})
    BY <1>3
  <2> QED
    BY <2>1, <2>2, RowType, DoType DEF Publish, Do, Statements, Quiet
<1>4. forget \in Seq(Step) /\ DOMAIN forget = DOMAIN order
  BY <1>2, <1>3, ForEachType
<1>5. /\ first.do = "txdeletechildren" /\ first.t = s.t
      /\ first.msg = "none" /\ first.must = {"row"}
      /\ direct.do = "resched" /\ direct.t = s.t /\ direct.row = s.row
      /\ direct.msg = "resched" /\ direct.must = {}
  BY DEF Do
<1>6. direct \in Step
  BY <1>2, DoType DEF Statements
<1> HIDE DEF s, f, v
<1> DEFINE y1 == front \o forget
<1>7. y1 \in Seq(Step) /\ Joined(front, forget, y1)
  BY <1>4, ConcatParts
<1> HIDE DEF y1
<1> DEFINE y2 == y1 \o <<direct>>
<1>8. /\ y2 \in Seq(Step)
      /\ \A i \in DOMAIN y2 : (i \in DOMAIN y1 /\ y2[i] = y1[i]) \/ (i \notin DOMAIN y1 /\ y2[i] = direct)
      /\ \A i, l \in DOMAIN y2 : i \notin DOMAIN y1 /\ l \notin DOMAIN y1 => i = l
      /\ \A i \in DOMAIN y1 : i \in DOMAIN y2 /\ y2[i] = y1[i]
  <2>1. OneMore(y2, y1, direct)
    BY <1>6, <1>7, OneMoreParts
  <2> HIDE DEF y2
  <2> QED
    BY <2>1 DEF OneMore
<1> DEFINE z == y2 \o quiet
<1>9. z \in Seq(Step) /\ Joined(y2, quiet, z)
  <2> HIDE DEF y2
  <2> QED
    BY <1>8, ConcatParts
<1> DEFINE a == z \o <<Commit>>
<1>10. CommitList(a, z, <<>>) /\ Read(p, a)
  <2>1. Read(p, a)
    BY DEF y1
  <2>2. a = z \o <<Commit>>
    OBVIOUS
  <2> HIDE DEF z, a
  <2> QED
    BY <1>9, <2>1, <2>2, CommitLast
<1> HIDE DEF y2, z, a
<1>11. ASSUME NEW i \in DOMAIN z
       PROVE  \/ Quiet(z[i]) \/ z[i] = first
              \/ i \in DOMAIN y2 /\ i \notin DOMAIN y1 /\ z[i] = direct
  <2>1. i \in DOMAIN y1 => y1[i] = first \/ Quiet(y1[i])
    BY <1>3, <1>4, <1>7 DEF Joined
  <2> QED
    BY <1>8, <1>9, <2>1 DEF Joined
<1>12. \A x : Quiet(x) => /\ x.do = "publish" /\ x.msg # "resched" /\ ~ Writer(x) /\ ~ Inserts(x)
                          /\ x.do # "nextChild" /\ ~ Barrier(x)
  BY DEF Quiet, Writer, Pooled, Inserts, Barrier
<1>13. ~ Writer(first) /\ ~ Inserts(first) /\ ~ Barrier(first) /\ first.do # "nextChild"
  BY <1>5 DEF Writer, Pooled, Inserts, Barrier
<1>14. /\ \A B, g : Suits(direct, B, g, v, held[p])
       /\ \A b : ~ Barrier(b) /\ ~ Writer(b) /\ ~ Inserts(b) /\ b.do # "nextChild" =>
            Precedes(b, direct)
       /\ \A y : ~ Writer(y) /\ ~ Inserts(y) => Precedes(direct, y)
       /\ ~ Opens(direct) /\ ~ Barrier(direct) /\ ~ Inserts(direct) /\ direct.do # "nextChild"
  BY <1>1, <1>5, DirectSuits
<1>15. ASSUME NEW j \in DOMAIN f, j # 1 PROVE ~ Inserts(f[j]) /\ ~ Writer(f[j])
  <2>1. Undoes("rule") \cap s.why # {}
    BY DEF Undoes, s
  <2> QED
    BY <1>1, <1>15, <2>1 DEF SyncFacts, Inserts, Writer, Pooled
<1>16. ASSUME NEW i \in DOMAIN z
       PROVE  /\ \A B, g : Suits(z[i], B, g, v, held[p])
              /\ ~ Barrier(z[i]) /\ ~ Inserts(z[i]) /\ z[i].do # "nextChild"
              /\ \A y : ~ Writer(y) /\ ~ Inserts(y) => Precedes(z[i], y)
  <2>1. CASE Quiet(z[i])
    BY <1>12, <2>1, MildSuits
  <2>2. CASE z[i] = first
    BY <1>5, <1>13, <2>2, ChildrenGoSuits
  <2>3. CASE z[i] = direct
    BY <1>14, <2>3
  <2> QED
    BY <1>11, <2>1, <2>2, <2>3
<1>17. ASSUME NEW i \in DOMAIN z, NEW l \in DOMAIN z, l < i PROVE Precedes(z[l], z[i])
  <2>1. CASE Quiet(z[i]) \/ z[i] = first
    BY <1>12, <1>13, <1>16, <2>1
  <2>2. CASE i \in DOMAIN y2 /\ i \notin DOMAIN y1 /\ z[i] = direct
    <3>1. z \in Seq(Step)
      BY <1>9
    <3>2. DOMAIN z = 1..Len(z)
      BY <3>1, LenProperties
    <3>3. l # i
      BY <1>17, <3>2
    <3>4. Quiet(z[l]) \/ z[l] = first
      BY <1>8, <1>11, <2>2, <3>3
    <3> QED
      BY <1>12, <1>13, <1>14, <2>2, <3>4
  <2> QED
    BY <1>11, <2>1, <2>2
<1>18. ASSUME NEW k \in Kinds, NEW c \in Task, rows[c].parent = s.t, Kid(k, rows[c])
       PROVE  WillRemove(k, z, c, s.t)
  <2>1. c \in kids
    BY <1>18 DEF Kid, GetChildTasksByParentID, Live, s
  <2>2. 1 \in DOMAIN y1 /\ y1[1] = first
    BY <1>7, <2>1 DEF Joined
  <2>3. 1 \in DOMAIN z /\ z[1] = first
    BY <1>8, <1>9, <2>2 DEF Joined
  <2>4. Removes(k, z[1], c, s.t)
    BY <1>5, <2>3 DEF Removes
  <2> QED
    BY <1>16, <2>3, <2>4 DEF WillRemove
<1>19. \A i \in DOMAIN <<>> : FALSE
  OBVIOUS
<1> DEFINE m == <<>>
<1>20. m \in Seq(Step) /\ CommitList(a, z, m) /\ \A i \in DOMAIN m : m[i].do = "publish" /\ m[i].msg # "resched"
  BY <1>10, <1>19, EmptyPlanType
<1> HIDE DEF m
<1> QED
  BY <1>9, <1>10, <1>15, <1>16, <1>17, <1>18, <1>20, SyncGoesOn DEF s, f, v

(* A child that goes with its parent's rule.                               *)
LEMMA ChildGoesSuits ==
  ASSUME NEW p, NEW s, NEW f, NEW v, SyncFacts(p, s, f, v),
         NEW x, x.do = "txdelete", x.msg = "delete", x.must = {"row", "msg"},
         x.t \in Task, rows[x.t].parent = s.t
  PROVE  /\ \A B, g : Suits(x, B, g, v, held[p])
         /\ \A y : ~ Inserts(y) => Precedes(x, y)
         /\ ~ Barrier(x) /\ ~ Inserts(x) /\ x.do # "nextChild"
<1>1. /\ Opens(x) /\ ~ Closes(x) /\ ~ Barrier(x) /\ ~ Writer(x) /\ ~ Pooled(x) /\ ~ Lone(x)
      /\ ~ Pool(x) /\ ~ Inserts(x)
  BY DEF Opens, Closes, Barrier, Writer, Pooled, Lone, Pool, Inserts
<1>2. \A c \in Task : ~ (v[c].parent = x.t /\ Kid("rule", v[c]))
  <2>1. ~ v[x.t].rule /\ \A k \in Kinds, c \in Task : ~ Stray(k, v, c, x.t, v[x.t])
    BY DEF SyncFacts
  <2>2. Barren("rule", v[x.t]) /\ "rule" \in Kinds
    BY <2>1 DEF Barren, Kinds
  <2> QED
    BY <2>1, <2>2 DEF Stray
<1>3. \A B, g : Suits(x, B, g, v, held[p])
  BY <1>1, <1>2 DEF Suits
<1>4. \A y : ~ Inserts(y) => Precedes(x, y)
  BY <1>1 DEF Precedes
<1> QED
  BY <1>1, <1>3, <1>4

(* A child that follows its parent.                                        *)
LEMMA ChildFollowsSuits ==
  ASSUME NEW p, NEW s, NEW f, NEW v, SyncFacts(p, s, f, v),
         NEW x, x.do = "txwrite", x.msg \in {"delete", "none"}, x.must = {"row"},
         x.t \in Task, rows[x.t].parent = s.t, rows[x.t].db = "live", SameRow(x.row, rows[x.t])
  PROVE  /\ \A B, g : Suits(x, B, g, v, held[p])
         /\ \A y : y.do = "publish" \/ (y.do = "txwrite" /\ (y.t = x.t => SameRow(y.row, rows[x.t]))) =>
              Precedes(x, y)
         /\ \A j \in DOMAIN f : j # 1 => Precedes(x, f[j])
         /\ ~ Barrier(x) /\ ~ Inserts(x) /\ x.do # "nextChild"
<1>1. /\ ~ Closes(x) /\ ~ Barrier(x) /\ Writer(x) /\ ~ Pooled(x) /\ ~ Lone(x)
      /\ ~ Pool(x) /\ ~ Inserts(x)
  BY DEF Closes, Barrier, Writer, Pooled, Lone, Pool, Inserts
<1>2. /\ v[x.t] = rows[x.t] /\ ~ rows[x.t].rule
      /\ \A k \in Kinds, c \in Task : ~ Stray(k, v, c, x.t, v[x.t])
  BY DEF SyncFacts
<1>3. Follows(x.row, v[x.t])
  BY <1>2, FollowsSame
<1>4. \A k \in Kinds, c \in Task : ~ Stray(k, v, c, x.t, x.row)
  <2>1. \A k : Barren(k, x.row) <=> Barren(k, v[x.t])
    BY <1>2, SameFollows
  <2> QED
    BY <1>2, <2>1 DEF Stray
<1>5. \A B, g : Suits(x, B, g, v, held[p])
  BY <1>1, <1>2, <1>3, <1>4 DEF Suits
<1>6. ASSUME NEW y, y.do = "publish" \/ (y.do = "txwrite" /\ (y.t = x.t => SameRow(y.row, rows[x.t])))
      PROVE  Precedes(x, y)
  <2>1. ~ Inserts(y)
    BY <1>6 DEF Inserts
  <2>2. ASSUME Writer(y), y.t = x.t PROVE Follows(y.row, x.row)
    <3>1. SameRow(y.row, rows[x.t])
      BY <1>6, <2>2 DEF Writer, Pooled
    <3>2. SameRow(y.row, x.row) /\ x.row.db = "live"
      BY <3>1 DEF SameRow
    <3> QED
      BY <3>2, FollowsSame
  <2> QED
    BY <1>1, <2>1, <2>2 DEF Precedes
<1>7. ASSUME NEW j \in DOMAIN f, j # 1 PROVE Precedes(x, f[j])
  <2>1. /\ f[j].do \in {"publish", "spawn", "insert", "nextChild", "doneChildren"}
        /\ Inserts(f[j]) => Parental(v[f[j].t])
    BY <1>7 DEF SyncFacts
  <2>2. ~ Writer(f[j])
    BY <2>1 DEF Writer, Pooled
  <2>3. Inserts(f[j]) => f[j].t # x.t
    BY <1>2, <2>1 DEF Parental
  <2> QED
    BY <1>1, <2>2, <2>3 DEF Precedes
<1> QED
  BY <1>1, <1>5, <1>6, <1>7

(* Case 2: the rule removed.                                               *)
LEMMA SyncRuleRemovedFamily ==
  ASSUME TypeOK, TypeOK', FamilyInv, NEW p \in Proc, At(p, "sync"),
         "confRemoved" \notin Next1(p).why, "ruleRemoved" \in Next1(p).why,
         NEW open, open = {c \in GetChildTasksByParentID(rows, Next1(p).t) : Unfinished(rows[c])},
         NEW order \in SetToSeqs(open),
         NEW delete, delete = [i \in DOMAIN order |->
                                 Do("txdelete", order[i], rows[order[i]], "delete",
                                    {"row", "msg"})],
         NEW quiet \in Seq(Step), \A i \in DOMAIN quiet : Quiet(quiet[i]),
         Read(p, delete \o quiet \o <<Commit>>)
  PROVE  FamilyInv'
<1> DEFINE s == Next1(p)
           f == plan[p]
           v == Shown(rows, held[p], dirty[p])
<1>1. SyncFacts(p, s, f, v)
  BY SyncHead
<1>2. open \in SUBSET Task
  BY DEF GetChildTasksByParentID
<1>3. ASSUME NEW i \in DOMAIN order
      PROVE  /\ delete[i] \in Step /\ delete[i].do = "txdelete" /\ delete[i].t = order[i]
             /\ delete[i].t \in Task /\ rows[delete[i].t].parent = s.t
             /\ delete[i].msg = "delete" /\ delete[i].must = {"row", "msg"}
  <2>1. order[i] \in open /\ order[i] \in Task
    BY <1>2, <1>3, OrderType
  <2>2. delete[i] = Do("txdelete", order[i], rows[order[i]], "delete", {"row", "msg"})
    BY <1>3
  <2>3. rows[order[i]].parent = s.t
    BY <2>1 DEF GetChildTasksByParentID
  <2> HIDE DEF s
  <2> QED
    BY <2>1, <2>2, <2>3, RowType, DoType DEF Do, Statements
<1>4. delete \in Seq(Step) /\ DOMAIN delete = DOMAIN order
  BY <1>2, <1>3, ForEachType
<1> HIDE DEF s, f, v
<1> DEFINE z == delete \o quiet
<1>5. z \in Seq(Step) /\ Joined(delete, quiet, z)
  BY <1>4, ConcatParts
<1> DEFINE a == z \o <<Commit>>
           m == <<>>
<1>6. CommitList(a, z, m) /\ Read(p, a)
  <2>1. Read(p, a) /\ a = z \o <<Commit>>
    OBVIOUS
  <2> HIDE DEF z, a
  <2> QED
    BY <1>5, <2>1, CommitLast
<1>7. m \in Seq(Step) /\ \A i \in DOMAIN m : m[i].do = "publish" /\ m[i].msg # "resched"
  BY EmptyPlanType
<1> HIDE DEF z, a, m
<1>8. ASSUME NEW i \in DOMAIN z
      PROVE  \/ Quiet(z[i])
             \/ i \in DOMAIN delete /\ z[i] = delete[i]
  BY <1>5 DEF Joined
<1>9. ASSUME NEW j \in DOMAIN f, j # 1 PROVE ~ Inserts(f[j])
  <2>1. Undoes("rule") \cap s.why # {}
    BY DEF Undoes, s
  <2> QED
    BY <1>1, <1>9, <2>1 DEF SyncFacts
<1>10. ASSUME NEW i \in DOMAIN z
       PROVE  /\ \A B, g : Suits(z[i], B, g, v, held[p])
              /\ ~ Barrier(z[i]) /\ ~ Inserts(z[i]) /\ z[i].do # "nextChild"
              /\ \A y : ~ Inserts(y) => Precedes(z[i], y)
  <2>1. CASE Quiet(z[i])
    BY <2>1, MildSuits DEF Quiet, Inserts
  <2>2. CASE i \in DOMAIN delete /\ z[i] = delete[i]
    <3> DEFINE x == z[i]
    <3>0. /\ delete[i].do = "txdelete" /\ delete[i].msg = "delete"
          /\ delete[i].must = {"row", "msg"}
          /\ delete[i].t \in Task /\ rows[delete[i].t].parent = s.t
      <4>1. i \in DOMAIN order
        BY <1>4, <2>2
      <4> QED
        BY <1>3, <4>1
    <3>1. /\ x.do = "txdelete" /\ x.msg = "delete" /\ x.must = {"row", "msg"}
          /\ x.t \in Task /\ rows[x.t].parent = s.t
      BY <2>2, <3>0
    <3> HIDE DEF x
    <3>2. /\ \A B, g : Suits(x, B, g, v, held[p])
          /\ \A y : ~ Inserts(y) => Precedes(x, y)
          /\ ~ Barrier(x) /\ ~ Inserts(x) /\ x.do # "nextChild"
      BY <1>1, <3>1, ChildGoesSuits
    <3> QED
      BY <3>2 DEF x
  <2> QED
    BY <1>8, <2>1, <2>2
<1>11. ASSUME NEW k \in Kinds, NEW c \in Task, Undoes(k) \cap s.why # {},
              rows[c].parent = s.t, Kid(k, rows[c])
       PROVE  WillRemove(k, z, c, s.t)
  <2>1. k = "rule"
    BY <1>11 DEF Undoes, Kinds, s
  <2>2. c \in open
    BY <1>11, <2>1 DEF Kid, GetChildTasksByParentID, Live, Unfinished, s
  <2>3. PICK i \in DOMAIN order : order[i] = c
    BY <1>2, <2>2, OrderAll
  <2>4. i \in DOMAIN z /\ z[i] = delete[i]
    BY <1>4, <1>5, <2>3 DEF Joined
  <2>5. Removes(k, z[i], c, s.t)
    BY <1>3, <2>3, <2>4 DEF Removes
  <2> QED
    BY <1>10, <2>4, <2>5 DEF WillRemove
<1> QED
  BY <1>5, <1>6, <1>7, <1>9, <1>10, <1>11, SyncGoesOn DEF s, f, v

(* A child made to follow its parent is the same task.                     *)
LEMMA SyncedSame ==
  ASSUME TypeOK, NEW q \in Task, NEW c \in Row, NEW new \in Row, NEW why,
         NEW k, k = syncedChild(q, c, new, why)
  PROVE  k \in Row /\ SameRow(k, c)
<1> DEFINE moved == {"rule", "start"} \cap why # {} /\ (new.rule \/ "start" \in why)
           muted == IF "muteGiven" \in why THEN new.muted ELSE c.muted
           start == IF ~moved THEN c.start
                    ELSE IF new.rule THEN nextRecurrenceAfter(now) ELSE new.start
           child == [c EXCEPT !.muted = muted, !.start = start]
           unmuted == "muteToggled" \in why /\ ~new.muted
           next == nextExecutableStartDate(child, rows[q], now)
<1>1. muted \in BOOLEAN /\ start \in Nat
  BY NextRecurrenceType DEF TypeOK, Row, Time
<1>2. child \in Row /\ SameRow(child, c)
  <2> HIDE DEF muted, start
  <2> QED
    BY <1>1 DEF Row, Time, SameRow
<1>3. next \in Nat
  <2> HIDE DEF child
  <2> QED
    BY <1>2, RowType, NextExecutableType DEF TypeOK
<1>4. LET later == [child EXCEPT !.start = next] IN later \in Row /\ SameRow(later, child)
  <2> HIDE DEF child, next
  <2> QED
    BY <1>2, <1>3 DEF Row, Time, SameRow
<1>5. k = IF Overdue(child, now) /\ (moved \/ unmuted) /\ Live(rows, q) /\ next # 0
            THEN [child EXCEPT !.start = next] ELSE child
  BY DEF syncedChild
<1> HIDE DEF child, next, moved, unmuted
<1> QED
  BY <1>2, <1>4, <1>5 DEF SameRow

(* A statement writes a child of S that is the same task.                  *)
FollowWrite(x, S) ==
  /\ x.do = "txwrite" /\ x.msg \in {"delete", "none"} /\ x.must = {"row"}
  /\ x.t \in S /\ SameRow(x.row, rows[x.t])

FollowList(z, m, S) ==
  /\ z \in Seq(Step) /\ m \in Seq(Step)
  /\ \A i \in DOMAIN z : FollowWrite(z[i], S) \/ Quiet(z[i])
  /\ \A i \in DOMAIN m : m[i].do = "publish" /\ m[i].msg # "resched"

(* Children written as the tasks they were, the commit, and messages.      *)
LEMMA FollowGoesOn ==
  ASSUME TypeOK, TypeOK', FamilyInv, NEW p \in Proc, At(p, "sync"),
         {"confRemoved", "ruleRemoved"} \cap Next1(p).why = {},
         NEW S \in SUBSET Task,
         \A c \in S : rows[c].db = "live" /\ rows[c].parent = Next1(p).t,
         NEW z, NEW m, FollowList(z, m, S), NEW a, CommitList(a, z, m), Read(p, a)
  PROVE  FamilyInv'
<1> DEFINE s == Next1(p)
           f == plan[p]
           v == Shown(rows, held[p], dirty[p])
<1>1. SyncFacts(p, s, f, v)
  BY SyncHead
<1>17. z \in Seq(Step) /\ m \in Seq(Step)
  BY DEF FollowList
<1> HIDE DEF s, f, v
<1>11. \A i \in DOMAIN m : m[i].do = "publish" /\ m[i].msg # "resched"
  BY DEF FollowList
<1>12. \A i \in DOMAIN z : FollowWrite(z[i], S) \/ Quiet(z[i])
  BY DEF FollowList
<1>13. ASSUME NEW x, FollowWrite(x, S)
       PROVE  /\ \A B, g : Suits(x, B, g, v, held[p])
              /\ \A y : Quiet(y) \/ FollowWrite(y, S) => Precedes(x, y)
              /\ \A j \in DOMAIN f : j # 1 => Precedes(x, f[j])
              /\ ~ Barrier(x) /\ ~ Inserts(x) /\ x.do # "nextChild"
  <2>1. /\ x.do = "txwrite" /\ x.msg \in {"delete", "none"} /\ x.must = {"row"}
        /\ x.t \in Task /\ rows[x.t].parent = s.t /\ rows[x.t].db = "live"
        /\ SameRow(x.row, rows[x.t])
    BY <1>13 DEF FollowWrite, s
  <2>2. /\ \A B, g : Suits(x, B, g, v, held[p])
        /\ \A y : y.do = "publish" \/ (y.do = "txwrite" /\ (y.t = x.t => SameRow(y.row, rows[x.t]))) =>
             Precedes(x, y)
        /\ \A j \in DOMAIN f : j # 1 => Precedes(x, f[j])
        /\ ~ Barrier(x) /\ ~ Inserts(x) /\ x.do # "nextChild"
    BY <1>1, <2>1, ChildFollowsSuits
  <2>3. \A y : Quiet(y) => y.do = "publish"
    BY DEF Quiet
  <2>4. \A y : FollowWrite(y, S) => y.do = "txwrite" /\ (y.t = x.t => SameRow(y.row, rows[x.t]))
    BY DEF FollowWrite
  <2> QED
    BY <2>2, <2>3, <2>4
<1>14. ASSUME NEW x, Quiet(x)
       PROVE  /\ \A B, g : Suits(x, B, g, v, held[p])
              /\ \A y : Precedes(x, y)
              /\ ~ Barrier(x) /\ ~ Inserts(x) /\ x.do # "nextChild"
  BY <1>14, MildSuits DEF Quiet, Inserts
<1>15. ASSUME NEW i \in DOMAIN z
       PROVE  /\ \A B, g : Suits(z[i], B, g, v, held[p])
              /\ ~ Barrier(z[i]) /\ ~ Inserts(z[i]) /\ z[i].do # "nextChild"
              /\ \A j \in DOMAIN f : j # 1 => Precedes(z[i], f[j])
              /\ \A l \in DOMAIN z : l < i => Precedes(z[l], z[i])
  BY <1>12, <1>13, <1>14
<1>16. \A k \in Kinds, c \in Task :
         Undoes(k) \cap s.why # {} /\ rows[c].parent = s.t /\ Kid(k, rows[c]) =>
           WillRemove(k, z, c, s.t)
  BY DEF Undoes, s
<1> QED
  BY <1>11, <1>15, <1>16, <1>17, SyncGoesOn DEF s, f, v

(* The statements of a synchronisation that follows the parent.            *)
FollowStatements(p, S, order, child, mute, writes, front, msg, messages, last) ==
  /\ \A c \in S : rows[c].db = "live" /\ rows[c].parent = Next1(p).t
  /\ \A i \in DOMAIN order :
       child[i] = syncedChild(Next1(p).t, rows[order[i]], Next1(p).row, Next1(p).why)
  /\ \/ writes = <<>>
     \/ writes = [i \in DOMAIN order |-> Do("txwrite", order[i], child[i], mute, {"row"})]
  /\ \A i \in DOMAIN front : Quiet(front[i])
  /\ \A i \in DOMAIN order : msg[i] \in {"schedule", "none"}
  /\ messages = [i \in DOMAIN order |-> Publish(order[i], child[i], msg[i], {})]
  /\ \A i \in DOMAIN last : Quiet(last[i])
  /\ Read(p, writes \o (front \o <<Commit>>) \o messages \o last)

(* Otherwise: the children follow their parent.                            *)
LEMMA SyncFollowFamily ==
  ASSUME TypeOK, TypeOK', FamilyInv, NEW p \in Proc, At(p, "sync"),
         {"confRemoved", "ruleRemoved"} \cap Next1(p).why = {},
         NEW S \in SUBSET Task, NEW order \in SetToSeqs(S), NEW child,
         NEW mute \in {"delete", "none"}, NEW writes, NEW front \in Seq(Step), NEW msg,
         NEW messages, NEW last \in Seq(Step),
         FollowStatements(p, S, order, child, mute, writes, front, msg, messages, last)
  PROVE  FamilyInv'
<1>0. /\ \A c \in S : rows[c].db = "live" /\ rows[c].parent = Next1(p).t
      /\ \A i \in DOMAIN order :
           child[i] = syncedChild(Next1(p).t, rows[order[i]], Next1(p).row, Next1(p).why)
      /\ \/ writes = <<>>
         \/ writes = [i \in DOMAIN order |-> Do("txwrite", order[i], child[i], mute, {"row"})]
      /\ \A i \in DOMAIN front : Quiet(front[i])
      /\ \A i \in DOMAIN order : msg[i] \in {"schedule", "none"}
      /\ messages = [i \in DOMAIN order |-> Publish(order[i], child[i], msg[i], {})]
      /\ \A i \in DOMAIN last : Quiet(last[i])
      /\ Read(p, writes \o (front \o <<Commit>>) \o messages \o last)
  BY DEF FollowStatements
<1> USE <1>0
<1> DEFINE s == Next1(p)
           f == plan[p]
           v == Shown(rows, held[p], dirty[p])
<1>1. SyncFacts(p, s, f, v)
  BY SyncHead
<1>2. s.t \in Task /\ s.row \in Row
  BY <1>1 DEF SyncFacts
<1>3. ASSUME NEW i \in DOMAIN order
      PROVE  /\ order[i] \in S /\ order[i] \in Task /\ child[i] \in Row
             /\ SameRow(child[i], rows[order[i]])
  <2>1. order[i] \in S /\ order[i] \in Task /\ rows[order[i]] \in Row
    BY <1>3, OrderType, RowType
  <2> QED
    BY <1>2, <1>3, <2>1, SyncedSame
<1> HIDE DEF s, f, v
<1>4. ASSUME NEW i \in DOMAIN order,
             NEW x, x = Do("txwrite", order[i], child[i], mute, {"row"})
      PROVE  x \in Step /\ FollowWrite(x, S)
  <2>1. /\ x.do = "txwrite" /\ x.t = order[i] /\ x.row = child[i] /\ x.msg = mute
        /\ x.must = {"row"}
    BY <1>4 DEF Do
  <2>2. x \in Step
    BY <1>3, <1>4, DoType DEF Statements
  <2> QED
    BY <1>3, <2>1, <2>2 DEF FollowWrite
<1>5. ASSUME NEW i \in DOMAIN order, NEW x, x = Publish(order[i], child[i], msg[i], {})
      PROVE  x \in Step /\ x.do = "publish" /\ x.msg # "resched"
  <2>1. msg[i] \in {"none", "delete", "schedule", "resched"} /\ msg[i] # "resched"
    BY <1>5
  <2>2. x.do = "publish" /\ x.msg = msg[i]
    BY <1>5 DEF Publish, Do
  <2>3. x \in Step
    BY <1>3, <1>5, <2>1, DoType DEF Publish, Statements
  <2> QED
    BY <2>1, <2>2, <2>3
<1>6. writes \in Seq(Step) /\ \A i \in DOMAIN writes : FollowWrite(writes[i], S)
  <2>1. CASE writes = <<>>
    BY <2>1, EmptyPlanType
  <2>2. CASE writes = [i \in DOMAIN order |->
                         Do("txwrite", order[i], child[i], mute, {"row"})]
    <3>1. \A i \in DOMAIN order : writes[i] \in Step /\ FollowWrite(writes[i], S)
      BY <1>4, <2>2
    <3>2. writes \in Seq(Step)
      BY <2>2, <3>1, ForEachType
    <3> QED
      BY <2>2, <3>1, <3>2
  <2> QED
    BY <2>1, <2>2
<1>7. /\ messages \in Seq(Step)
      /\ \A i \in DOMAIN messages : messages[i].do = "publish" /\ messages[i].msg # "resched"
  <2>1. \A i \in DOMAIN order : /\ messages[i] \in Step /\ messages[i].do = "publish"
                                /\ messages[i].msg # "resched"
    BY <1>5
  <2>2. messages \in Seq(Step)
    BY <2>1, ForEachType
  <2> QED
    BY <2>1, <2>2
<1> DEFINE z == writes \o front
           m == messages \o last
           one == <<Commit>>
           a == z \o one \o m
<1>8. /\ z \in Seq(Step) /\ Joined(writes, front, z)
      /\ m \in Seq(Step) /\ Joined(messages, last, m)
  BY <1>6, <1>7, ConcatParts
<1>9. CommitList(a, z, m)
  <2> HIDE DEF z, m
  <2> QED
    BY <1>8, CommitParts
<1>10. Read(p, a)
  <2>1. Read(p, writes \o (front \o one) \o messages \o last)
    OBVIOUS
  <2>2. one \in Seq(Step)
    BY CommitType
  <2> HIDE DEF one
  <2>3. /\ writes \in Seq(Step) /\ front \in Seq(Step) /\ one \in Seq(Step)
        /\ messages \in Seq(Step) /\ last \in Seq(Step)
    BY <1>6, <1>7, <2>2
  <2> HIDE <1>0
  <2> QED
    BY <2>1, <2>3, CommitApart
<1>11. ASSUME NEW i \in DOMAIN m PROVE m[i].do = "publish" /\ m[i].msg # "resched"
  <2> HIDE DEF m
  <2>1. CASE i \in DOMAIN messages /\ m[i] = messages[i]
    BY <1>7, <2>1
  <2>2. ASSUME NEW j \in DOMAIN last, m[i] = last[j]
        PROVE  m[i].do = "publish" /\ m[i].msg # "resched"
    <3>1. Quiet(last[j])
      BY <2>2
    <3> QED
      BY <2>2, <3>1 DEF Quiet
  <2> QED
    BY <1>8, <1>11, <2>1, <2>2 DEF Joined
<1>12. FollowList(z, m, S)
  <2> HIDE DEF z, m
  <2>1. \A i \in DOMAIN z : FollowWrite(z[i], S) \/ Quiet(z[i])
    BY <1>6, <1>8 DEF Joined
  <2> QED
    BY <1>8, <1>11, <2>1 DEF FollowList
<1> HIDE DEF z, m, a
<1> QED
  BY <1>9, <1>10, <1>12, FollowGoesOn

(* The synchronisation of the children with an updated parent keeps the    *)
(* statements fit.                                                         *)
LEMMA SyncChildTasksFamily ==
  ASSUME TypeOK, TypeOK', FamilyInv, NEW p \in Proc, SyncChildTasks(p) PROVE FamilyInv'
<1> DEFINE s    == Next1(p)
           kids == GetChildTasksByParentID(rows, s.t)
           open == {c \in kids : Unfinished(rows[c])}
           left == {c \in kids : rows[c].status # "done"}
           mutes == "muteToggled" \in s.why /\ s.row.muted
           quiet == IF mutes THEN <<Publish(s.t, s.row, "delete", {})>> ELSE <<>>
           first == Do("txdeletechildren", s.t, s.row, "none", {"row"})
           front == IF kids = {} THEN <<>> ELSE <<first>>
           forget(order) == [i \in DOMAIN order |->
                               Publish(order[i], rows[order[i]], "delete", {"msg"})]
           direct == Do("resched", s.t, s.row, "resched", {})
           delete(order) == [i \in DOMAIN order |->
                               Do("txdelete", order[i], rows[order[i]], "delete",
                                  {"row", "msg"})]
           child(order) == [i \in DOMAIN order |->
                              syncedChild(s.t, rows[order[i]], s.row, s.why)]
           mute  == IF mutes THEN "delete" ELSE "none"
           writes(order) == [i \in DOMAIN order |->
                               Do("txwrite", order[i], child(order)[i], mute, {"row"})]
           wr(order) == IF s.why = {} THEN <<>> ELSE writes(order)
           tx == IF kids = {} THEN quiet \o <<Commit>> ELSE <<Commit>>
           lead == IF kids = {} THEN quiet ELSE <<>>
           msg(order) == [i \in DOMAIN order |->
                            IF republished(child(order)[i], s.row, s.why)
                              THEN "schedule" ELSE "none"]
           messages(order) == [i \in DOMAIN order |->
                                 Publish(order[i], child(order)[i], msg(order)[i], {})]
           last == IF kids = {} THEN <<>> ELSE quiet
<1>1. At(p, "sync")
  BY DEF SyncChildTasks
<1>2. s.row \in Row /\ s.t \in Task /\ ~Idle(p)
  BY <1>1, AtType DEF Statements
<1>3. /\ kids \in SUBSET Task /\ open \in SUBSET Task /\ left \in SUBSET Task
      /\ \A c \in kids : rows[c].db = "live" /\ rows[c].parent = s.t
  BY DEF GetChildTasksByParentID, Live
<1>4. quiet \in Seq(Step) /\ \A i \in DOMAIN quiet : Quiet(quiet[i])
  <2> DEFINE one == Publish(s.t, s.row, "delete", {})
  <2>1. one \in Step /\ Quiet(one)
    BY <1>2, DoType DEF Publish, Do, Statements, Quiet
  <2> HIDE DEF one
  <2>2. <<one>> \in Seq(Step) /\ \A i \in DOMAIN <<one>> : Quiet(<<one>>[i])
    BY <2>1
  <2>3. <<>> \in Seq(Step) /\ \A i \in DOMAIN <<>> : FALSE
    BY EmptyPlanType
  <2>4. quiet = <<one>> \/ quiet = <<>>
    BY DEF one
  <2> QED
    BY <2>2, <2>3, <2>4
<1>5. CASE Fail(p)
  BY <1>2, <1>5, AbortFamily DEF Fail
<1>6. ASSUME "confRemoved" \in s.why, NEW order \in SetToSeqs(kids),
             Read(p, front \o forget(order) \o <<direct>> \o quiet \o <<Commit>>)
      PROVE  FamilyInv'
  <2>1. /\ front \in Seq(Step) /\ \A i \in DOMAIN front : i = 1 /\ front[i] = first
        /\ kids # {} => 1 \in DOMAIN front
    <3>1. first \in Step
      BY <1>2, DoType DEF Statements
    <3> HIDE DEF first
    <3>2. CASE kids = {}
      BY <3>2, EmptyPlanType
    <3>3. CASE kids # {}
      BY <3>1, <3>3, SingletonType
    <3> QED
      BY <3>2, <3>3
  <2> HIDE DEF quiet, front
  <2> QED
    BY <1>1, <1>4, <1>6, <2>1, SyncConfRemovedFamily
<1>7. ASSUME "confRemoved" \notin s.why, "ruleRemoved" \in s.why,
             NEW order \in SetToSeqs(open), Read(p, delete(order) \o quiet \o <<Commit>>)
      PROVE  FamilyInv'
  <2> HIDE DEF quiet
  <2> QED
    BY <1>1, <1>4, <1>7, SyncRuleRemovedFamily
<1>8. ASSUME {"confRemoved", "ruleRemoved"} \cap s.why = {}, NEW order \in SetToSeqs(left),
             Read(p, wr(order) \o tx \o messages(order) \o last)
      PROVE  FamilyInv'
  <2>1. \A c \in left : rows[c].db = "live" /\ rows[c].parent = s.t
    BY <1>3
  <2>2. mute \in {"delete", "none"}
    OBVIOUS
  <2>3. /\ lead \in Seq(Step) /\ \A i \in DOMAIN lead : Quiet(lead[i])
        /\ tx = lead \o <<Commit>>
    <3>1. <<>> \in Seq(Step) /\ (\A i \in DOMAIN <<>> : FALSE) /\ <<>> \o <<Commit>> = <<Commit>>
      BY EmptyPlanType, CommitType, ConcatEmptySeq
    <3> HIDE DEF quiet
    <3> QED
      BY <1>4, <3>1
  <2>4. last \in Seq(Step) /\ \A i \in DOMAIN last : Quiet(last[i])
    <3>1. <<>> \in Seq(Step) /\ \A i \in DOMAIN <<>> : FALSE
      BY EmptyPlanType
    <3> HIDE DEF quiet
    <3> QED
      BY <1>4, <3>1
  <2>5. wr(order) = <<>> \/ wr(order) = writes(order)
    OBVIOUS
  <2>6. \A i \in DOMAIN order : msg(order)[i] \in {"schedule", "none"}
    OBVIOUS
  <2>7. \A i \in DOMAIN order :
          child(order)[i] = syncedChild(s.t, rows[order[i]], s.row, s.why)
    OBVIOUS
  <2>8. wr(order) = [i \in DOMAIN order |->
                       Do("txwrite", order[i], child(order)[i], mute, {"row"})]
        \/ wr(order) = <<>>
    BY <2>5
  <2>9. messages(order) = [i \in DOMAIN order |->
                             Publish(order[i], child(order)[i], msg(order)[i], {})]
    OBVIOUS
  <2>10. Read(p, wr(order) \o (lead \o <<Commit>>) \o messages(order) \o last)
    BY <1>8, <2>3
  <2> HIDE DEF quiet, left, tx, lead, last, wr, writes, msg, messages, child, mute
  <2> QED
    <3>1. FollowStatements(p, left, order, child(order), mute, wr(order), lead, msg(order),
                           messages(order), last)
      BY <2>1, <2>3, <2>4, <2>6, <2>7, <2>8, <2>9, <2>10 DEF FollowStatements
    <3> QED
      BY <1>1, <1>3, <1>8, <2>2, <2>3, <2>4, <3>1, SyncFollowFamily
<1>9. ASSUME NEW order \in SetToSeqs(left)
      PROVE  messages(order) =
               [i \in DOMAIN order |->
                  Publish(order[i], child(order)[i],
                          IF republished(child(order)[i], s.row, s.why)
                            THEN "schedule" ELSE "none", {})]
  OBVIOUS
<1>10. \/ Fail(p)
       \/ /\ "confRemoved" \in s.why
          /\ \E order \in SetToSeqs(kids) :
               Read(p, front \o forget(order) \o <<direct>> \o quiet \o <<Commit>>)
       \/ /\ "confRemoved" \notin s.why /\ "ruleRemoved" \in s.why
          /\ \E order \in SetToSeqs(open) : Read(p, delete(order) \o quiet \o <<Commit>>)
       \/ /\ {"confRemoved", "ruleRemoved"} \cap s.why = {}
          /\ \E order \in SetToSeqs(left) :
               Read(p, wr(order) \o tx
                       \o [i \in DOMAIN order |->
                             Publish(order[i], child(order)[i],
                                     IF republished(child(order)[i], s.row, s.why)
                                       THEN "schedule" ELSE "none", {})]
                       \o last)
  BY Zenon DEF SyncChildTasks
<1>11. ASSUME {"confRemoved", "ruleRemoved"} \cap s.why = {}, NEW order \in SetToSeqs(left),
              Read(p, wr(order) \o tx
                      \o [i \in DOMAIN order |->
                            Publish(order[i], child(order)[i],
                                    IF republished(child(order)[i], s.row, s.why)
                                      THEN "schedule" ELSE "none", {})]
                      \o last)
       PROVE  FamilyInv'
  <2>1. Read(p, wr(order) \o tx \o messages(order) \o last)
    <3>1. messages(order) =
            [i \in DOMAIN order |->
               Publish(order[i], child(order)[i],
                       IF republished(child(order)[i], s.row, s.why)
                         THEN "schedule" ELSE "none", {})]
      BY <1>9
    <3> HIDE DEF messages, wr, tx, child, last
    <3> QED
      BY <1>11, <3>1, Zenon
  <2> QED
    BY <1>8, <1>11, <2>1
<1> QED
  BY <1>5, <1>6, <1>7, <1>10, <1>11

-----------------------------------------------------------------------------
(* Statements keep the ones that follow fit.                               *)

(* What follows a write suits what the write suited.                       *)
LEMMA AfterWriteSuits ==
  ASSUME NEW s, s.do = "write", NEW f, NEW v, NEW h, Suits(s, {}, f, v, h),
         NEW x, x.t = s.t, x.row = s.row, x.msg = s.msg,
         \/ x.do = "resched" /\ s.msg = "resched"
         \/ x.do = "publish" /\ s.msg # "resched"
  PROVE  /\ \A g : Suits(x, {}, g, v, h)
         /\ \A y : Precedes(s, y) => Precedes(x, y)
         /\ ~ Opens(x) /\ ~ Barrier(x)
<1>1. CASE x.do = "publish" /\ s.msg # "resched"
  BY <1>1, MildSuits
<1>2. CASE x.do = "resched" /\ s.msg = "resched"
  <2>1. Pooled(s) /\ SameRow(x.row, s.row)
    BY DEF Pooled, SameRow
  <2> QED
    BY <1>2, <2>1, SameRowSuits
<1> QED
  BY <1>1, <1>2

(* The table after a write through the pool.                               *)
LEMMA WrittenFamily ==
  ASSUME NEW r, Family(r), NEW t \in Task, NEW x, Follows(x, r[t]),
         \A k \in Kinds, c \in Task : ~ Stray(k, r, c, t, x),
         NEW r2, r2[t] = x, \A c \in Task : c # t => r2[c] = r[c]
  PROVE  /\ Family(r2)
         /\ \A c \in Task : /\ r2[c].parent = r[c].parent
                            /\ \A k \in Kinds : Kid(k, r2[c]) => Kid(k, r[c])
<1>1. \A c \in Task : r2[c] = IF c = t THEN x ELSE r[c]
  OBVIOUS
<1>2. \A c \in Task : /\ r2[c].parent = r[c].parent
                      /\ \A k \in Kinds : Kid(k, r2[c]) => Kid(k, r[c])
                      /\ r2[c].rule => r[c].rule
  BY <1>1 DEF Follows
<1>3. NoStray(r2)
  <2> SUFFICES ASSUME NEW k \in Kinds, NEW c \in Task, NEW q \in Task, Stray(k, r2, c, q, r2[q])
               PROVE  FALSE
    BY DEF NoStray
  <2>1. r[c].parent = q /\ Kid(k, r[c]) /\ Barren(k, r2[q])
    BY <1>2 DEF Stray
  <2>2. CASE q = t
    BY <1>1, <2>1, <2>2 DEF Stray
  <2>3. CASE q # t
    BY <1>1, <2>1, <2>3 DEF Stray, Family, NoStray
  <2> QED
    BY <2>2, <2>3
<1>4. OneKid(r2)
  BY <1>2 DEF Family, OneKid, Kinds
<1>5. PlainKids(r2) /\ OwnParents(r2)
  BY <1>2 DEF Family, PlainKids, OwnParents
<1> QED
  BY <1>2, <1>3, <1>4, <1>5 DEF Family

(* A write through the pool leaves no child to a row that may have none.   *)
LEMMA WriteRowFamily ==
  ASSUME TypeOK, TypeOK', FamilyInv, NEW p \in Proc, WriteRow(p) PROVE FamilyInv'
<1> DEFINE s == Next1(p)
           f == plan[p]
           h == held[p]
           v == Shown(rows, held[p], dirty[p])
           a == After(s)
<1>1. /\ ~Idle(p) /\ s.do = "write" /\ s.t \in Task /\ s \in Fields(Statements, Task)
      /\ s.row \in Row
  BY AtType DEF WriteRow, At, Statements
<1>2. /\ s.t \notin h
      /\ rows' = IF Live(rows, s.t) THEN [rows EXCEPT ![s.t] = s.row] ELSE rows
      /\ Continue(p, a) /\ UNCHANGED <<wire, held, dirty>>
  BY DEF WriteRow
<1>3. /\ f \in Seq(Step) /\ f # <<>> /\ Suits(s, {}, f, v, h)
      /\ \A j \in DOMAIN f : j # 1 => Precedes(s, f[j])
      /\ v[s.t] = rows[s.t]
  BY <1>1, <1>2, FamilyHead
<1>4. /\ a \in Seq(Step)
      /\ \A i \in DOMAIN a :
           /\ i = 1 /\ a[i].t = s.t /\ a[i].row = s.row /\ a[i].msg = s.msg
           /\ \/ a[i].do = "resched" /\ s.msg = "resched"
              \/ a[i].do = "publish" /\ s.msg # "resched"
  BY <1>1, AfterParts
<1>5. ~ Opens(s) /\ ~ Closes(s) /\ ~ Barrier(s) /\ Pooled(s) /\ Writer(s)
      /\ s.do # "deleteChildren"
  BY <1>1 DEF Opens, Closes, Barrier, Pooled, Writer
<1>6. \A k, c, q : ~ Removes(k, s, c, q)
  BY <1>1 DEF Removes
<1>7. /\ Live(rows, s.t) <=> rows[s.t].db = "live"
      /\ rows \in [Task -> Row]
  BY DEF Live, TypeOK
<1> HIDE DEF s, f, h, v, a
<1>8. ASSUME NEW v2, NEW g, g = a \o Tail(f), Suits(s, {}, f, v2, h)
      PROVE  Laid(a, s, f, g, v2, h)
  <2>1. ASSUME NEW i \in DOMAIN a
        PROVE  /\ i = 1 /\ \A y : Suits(a[i], {}, y, v2, h)
               /\ \A y : Precedes(s, y) => Precedes(a[i], y)
               /\ ~ Opens(a[i]) /\ ~ Barrier(a[i])
    <3> DEFINE x == a[i]
    <3>1. /\ x.t = s.t /\ x.row = s.row /\ x.msg = s.msg /\ i = 1
          /\ \/ x.do = "resched" /\ s.msg = "resched"
             \/ x.do = "publish" /\ s.msg # "resched"
      BY <1>4
    <3> HIDE DEF x
    <3> QED
      BY <1>1, <1>8, <3>1, AfterWriteSuits DEF x
  <2>2. \A i \in DOMAIN a : Before(a, i) = {}
    BY <1>4, <2>1, BeforeFirst
  <2> QED
    BY <1>1, <1>3, <1>5, <1>6, <2>1, <2>2 DEF Laid
<1>9. CASE rows[s.t].db # "live"
  <2>1. UNCHANGED <<rows, held, dirty>>
    BY <1>2, <1>7, <1>9
  <2>2. PICK g : g = a \o Tail(f)
    OBVIOUS
  <2>3. Laid(a, s, f, g, v, h)
    BY <1>3, <1>8, <2>2
  <2>4. s.do \notin {"txwrite", "commit"}
    BY <1>1
  <2> QED
    BY <1>1, <1>2, <1>4, <2>1, <2>2, <2>3, <2>4, FamilyReads DEF s, f, h, v
<1>10. CASE rows[s.t].db = "live"
  <2>1. Follows(s.row, rows[s.t])
    BY <1>3, <1>5, <1>10 DEF Suits
  <2>2. h = {} /\ \A k \in Kinds, c \in Task : ~ Stray(k, v, c, s.t, s.row)
    <3>1. ~ Kept(s.t, {}, v, h)
      BY <1>2, <1>3, <1>10 DEF Kept
    <3> QED
      BY <1>3, <1>5, <3>1 DEF Suits, Alone
  <2>3. v = rows
    BY <1>7, <2>2, ShownNone DEF h, v
  <2>4. rows' = [rows EXCEPT ![s.t] = s.row] /\ Family(rows)
    BY <1>2, <1>7, <1>10 DEF FamilyInv
  <2>5. PICK r2 : r2 = rows'
    OBVIOUS
  <2>6. r2[s.t] = s.row /\ \A t \in Task : t # s.t => r2[t] = rows[t]
    BY <1>1, <1>7, <2>4, <2>5
  <2>7. /\ Family(r2)
        /\ \A c \in Task : /\ r2[c].parent = rows[c].parent
                           /\ \A k \in Kinds : Kid(k, r2[c]) => Kid(k, rows[c])
    <3>1. \A k \in Kinds, c \in Task : ~ Stray(k, rows, c, s.t, s.row)
      BY <2>2, <2>3
    <3>2. Family(rows) /\ s.t \in Task
      BY <1>1, <2>4
    <3> QED
      BY <2>1, <2>6, <3>1, <3>2, WrittenFamily
  <2>8. Moved(s, rows, r2, {}, {})
    BY <1>1, <1>5, <1>10, <2>6 DEF Moved
  <2>9. Suits(s, {}, f, r2, {})
    <3>1. Suits(s, {}, f, rows, {})
      BY <1>3, <2>2, <2>3
    <3>2. r2[s.t].db # "absent" /\ Follows(s.row, r2[s.t])
      BY <2>1, <2>6 DEF Follows
    <3>3. \A k \in Kinds, c \in Task : ~ Stray(k, r2, c, s.t, s.row)
      BY <2>2, <2>3, <2>7 DEF Stray
    <3>4. Alone({}, {})
      BY DEF Alone
    <3> QED
      BY <1>1, <3>1, <3>2, <3>3, <3>4 DEF Suits, Inserts
  <2>10. PICK g : g = a \o Tail(f)
    OBVIOUS
  <2>11. Laid(a, s, f, g, r2, h)
    BY <1>8, <2>2, <2>9, <2>10
  <2>12. r2 = Shown(rows', held'[p], dirty'[p]) /\ held'[p] = {} /\ held'[p] = h
    <3>1. held'[p] = {} /\ held'[p] = h
      BY <1>2, <2>2 DEF h
    <3>2. rows' \in [Task -> Row]
      BY DEF TypeOK
    <3> QED
      BY <2>5, <3>1, <3>2, ShownNone
  <2>13. \A q \in Proc \ {p} : held'[q] = held[q]
    BY <1>2
  <2>14. Moved(s, v, r2, h, held'[p]) /\ Laid(a, s, f, g, r2, held'[p])
    BY <2>2, <2>3, <2>8, <2>11, <2>12
  <2>15. \A t \in held'[p] : Follows(dirty'[p][t], rows'[t])
    BY <2>12
  <2> QED
    BY <1>1, <1>2, <1>4, <2>5, <2>7, <2>10, <2>12, <2>13, <2>14, <2>15, FamilyGoes
       DEF s, f, h, v
<1> QED
  BY <1>9, <1>10

(* A row that follows one that follows another.                            *)
LEMMA FollowsOn ==
  ASSUME NEW x, NEW y, NEW z, Follows(x, y), Follows(y, z) PROVE Follows(x, z)
BY DEF Follows

(* What a statement of a transaction stages: rows that follow those it     *)
(* sees, and no child it was to take is left.                              *)
StagedRows(s, S, new, v, v2, h) ==
  /\ \A t \in Task : v2[t] = IF t \in S THEN new[t] ELSE v[t]
  /\ \A t \in S : Follows(new[t], v[t])
  /\ Moved(s, v, v2, h, h \cup S)
  /\ \A k \in Kinds, c, q \in Task : Removes(k, s, c, q) /\ v2[c].parent = q => ~ Kid(k, v2[c])

(* A statement stages such rows in the transaction, and the handler goes   *)
(* on.                                                                     *)
LEMMA StageFamily ==
  ASSUME TypeOK, TypeOK', FamilyInv, NEW p \in Proc, ~Idle(p),
         Next1(p) \in Fields(Statements, Task), Opens(Next1(p)),
         Next1(p).do # "deleteChildren",
         NEW S \in SUBSET Task, NEW new, Stage(p, S, new),
         NEW v, v = Shown(rows, held[p], dirty[p]),
         NEW v2, v2 = [t \in Task |-> IF t \in S THEN new[t] ELSE v[t]],
         StagedRows(Next1(p), S, new, v, v2, held[p])
  PROVE  FamilyInv'
<1> DEFINE s == Next1(p)
           f == plan[p]
           h == held[p]
           a == After(s)
<1>1. /\ f \in Seq(Step) /\ f # <<>> /\ Suits(s, {}, f, v, h)
      /\ \E j \in DOMAIN f : j # 1 /\ Closes(f[j])
  BY FamilyHead
<1>2. /\ held' = [held EXCEPT ![p] = held[p] \cup S]
      /\ dirty' = [dirty EXCEPT ![p] = [t \in Task |-> IF t \in S THEN new[t]
                                                      ELSE dirty[p][t]]]
      /\ Continue(p, a) /\ UNCHANGED <<rows, wire>>
  BY DEF Stage
<1>3. PICK h2, d2 : h2 = held'[p] /\ d2 = dirty'[p]
  OBVIOUS
<1>4. /\ h2 = h \cup S
      /\ \A t \in Task : d2[t] = IF t \in S THEN new[t] ELSE dirty[p][t]
      /\ \A q \in Proc \ {p} : held'[q] = held[q]
  BY <1>2, <1>3 DEF TypeOK
<1>5. h \subseteq Task
  BY DEF TypeOK
<1>6. /\ a \in Seq(Step)
      /\ \A i \in DOMAIN a : /\ a[i].msg = s.msg
                             /\ \/ a[i].do = "resched" /\ s.msg = "resched"
                                \/ a[i].do = "publish" /\ s.msg # "resched"
  BY AfterParts
<1>7. /\ s.msg # "resched"
      /\ s.do \notin {"commit", "sync", "doneChildren", "deleteChildren"}
  BY <1>1 DEF Suits, Opens
<1> HIDE DEF s, f, h, a
<1>8. \A i \in DOMAIN a : a[i].do = "publish" /\ a[i].msg # "resched"
  BY <1>6, <1>7
<1>9. v2 = Shown(rows', held'[p], dirty'[p])
  <2>1. \A t \in Task : v2[t] = IF t \in h2 THEN d2[t] ELSE rows[t]
    BY <1>4 DEF Shown, h
  <2> QED
    BY <1>2, <1>3, <2>1 DEF Shown
<1>10. PICK g : g = a \o Tail(f)
  OBVIOUS
<1>11. Laid(a, s, f, g, v2, h2)
  <2>1. ASSUME NEW i \in DOMAIN a
        PROVE  /\ \A B : Suits(a[i], B, g, v2, h2)
               /\ \A x : Precedes(a[i], x)
               /\ ~ Opens(a[i]) /\ ~ Barrier(a[i])
               /\ \A b : b.do # "doneChildren" => Precedes(b, a[i])
    <3> DEFINE x == a[i]
    <3>1. x.do = "publish" /\ x.msg # "resched"
      BY <1>8
    <3> HIDE DEF x
    <3> QED
      BY <3>1, MildSuits DEF x
  <2>2. ASSUME NEW i \in DOMAIN a, NEW b \in Before(a, i) PROVE b.do # "doneChildren"
    BY <1>8, <2>2 DEF Before
  <2>3. \A k \in Kinds, c, q \in Task :
          Removes(k, s, c, q) /\ v2[c].parent = q => ~ Kid(k, v2[c])
    BY DEF StagedRows, s
  <2> QED
    BY <1>7, <2>1, <2>2, <2>3 DEF Laid
<1>12. \A t \in h2 : Follows(d2[t], rows[t])
  <2>1. \A t \in h : Follows(dirty[p][t], rows[t])
    BY DEF FamilyInv, FamilyFits, h
  <2>2. ASSUME NEW t \in S PROVE Follows(d2[t], rows[t])
    <3>1. Follows(d2[t], v[t])
      BY <1>4, <2>2 DEF StagedRows
    <3>2. v[t] = rows[t] \/ (t \in h /\ v[t] = dirty[p][t])
      BY <2>2 DEF Shown, h
    <3> QED
      BY <2>1, <3>1, <3>2, FollowsOn
  <2>3. \A t \in h : t \notin S => d2[t] = dirty[p][t]
    BY <1>4, <1>5
  <2> QED
    BY <1>4, <2>1, <2>2, <2>3
<1>13. Family(rows') /\ \A t \in held'[p] : Follows(dirty'[p][t], rows'[t])
  BY <1>2, <1>3, <1>12 DEF FamilyInv
<1>14. Moved(s, v, v2, h, held'[p]) /\ Laid(a, s, f, g, v2, held'[p])
  BY <1>3, <1>4, <1>11 DEF StagedRows, s, h
<1> QED
  BY <1>2, <1>4, <1>6, <1>9, <1>10, <1>13, <1>14, FamilyGoes DEF s, f, h

(* A row written in the transaction.                                       *)
LEMMA UpdateTaskWithTxFamily ==
  ASSUME TypeOK, TypeOK', FamilyInv, NEW p \in Proc, UpdateTaskWithTx(p) PROVE FamilyInv'
<1> DEFINE s == Next1(p)
           h == held[p]
           v == Shown(rows, held[p], dirty[p])
           S == {t \in {s.t} : View(p, t).db = "live"}
           new == [t \in Task |-> s.row]
           v2 == [t \in Task |-> IF t \in S THEN new[t] ELSE v[t]]
<1>1. /\ ~Idle(p) /\ s.do = "txwrite" /\ s.t \in Task /\ s \in Fields(Statements, Task)
      /\ Opens(s) /\ Writer(s)
  BY AtType DEF UpdateTaskWithTx, At, Statements, Opens, Writer
<1>2. Suits(s, {}, plan[p], v, h)
  BY <1>1, FamilyHead
<1>3. S \in SUBSET Task /\ Stage(p, S, new)
  BY <1>1 DEF UpdateTaskWithTx
<1>4. /\ \A t \in Task : View(p, t) = v[t]
      /\ v[s.t].db = "live" => S = {s.t}
      /\ v[s.t].db # "live" => S = {}
      /\ new[s.t] = s.row
  BY <1>1 DEF Shown, View
<1>5. \A t \in Task : v2[t] = IF t \in S THEN new[t] ELSE v[t]
  OBVIOUS
<1> HIDE DEF s, h, v, S, new
<1>6. v[s.t].db = "live" => Follows(s.row, v[s.t])
  BY <1>1, <1>2 DEF Suits
<1>7. \A t \in S : t = s.t /\ Follows(new[t], v[t])
  BY <1>1, <1>4, <1>6
<1>8. Moved(s, v, v2, h, h \cup S)
  <2> HIDE DEF v2
  <2> QED
    BY <1>1, <1>4, <1>5 DEF Moved
<1>9. \A k, c, q : ~ Removes(k, s, c, q)
  BY <1>1 DEF Removes
<1>10. StagedRows(s, S, new, v, v2, h)
  <2> HIDE DEF v2
  <2> QED
    BY <1>5, <1>7, <1>8, <1>9 DEF StagedRows
<1>11. v2 = [t \in Task |-> IF t \in S THEN new[t] ELSE v[t]]
  OBVIOUS
<1> HIDE DEF v2
<1>12. s.do # "deleteChildren" /\ v = Shown(rows, held[p], dirty[p])
  BY <1>1 DEF v
<1> QED
  BY <1>1, <1>3, <1>10, <1>11, <1>12, StageFamily DEF s, h

(* A row deleted from the table, as the transaction sees it.               *)
LEMMA SoftDeletedRow ==
  ASSUME NEW x \in Row, x.db = "live", NEW y, y = softDeleted(x)
  PROVE  Fell(y, x) /\ Follows(y, x) /\ \A k : ~ Kid(k, y)
<1>1. y.db = "gone" /\ y.parent = x.parent /\ y.rule = x.rule /\ y.conf = x.conf
  BY DEF softDeleted, Row
<1> QED
  BY <1>1 DEF Fell, Follows, Kid

(* What the transaction sees.                                              *)
LEMMA ViewShown ==
  ASSUME TypeOK, NEW p \in Proc, NEW v, v = Shown(rows, held[p], dirty[p])
  PROVE  \A t \in Task : View(p, t) = v[t] /\ v[t] \in Row
<1>1. \A t \in Task : View(p, t) = v[t]
  BY DEF Shown, View
<1> QED
  BY <1>1, ViewType

(* Rows deleted in the transaction.                                        *)
LEMMA DeletionFamily ==
  ASSUME TypeOK, TypeOK', FamilyInv, NEW p \in Proc, ~Idle(p),
         Next1(p) \in Fields(Statements, Task),
         Next1(p).do \in {"txdelete", "txdeletechildren"},
         NEW S \in SUBSET Task, NEW v, v = Shown(rows, held[p], dirty[p]),
         NEW new, \A t \in S : new[t] = softDeleted(v[t]), Stage(p, S, new),
         \A t \in Task :
           t \in S <=> /\ v[t].db = "live"
                       /\ \/ Next1(p).do = "txdelete" /\ t = Next1(p).t
                          \/ Next1(p).do = "txdeletechildren" /\ v[t].parent = Next1(p).t
  PROVE  FamilyInv'
<1> DEFINE s == Next1(p)
           h == held[p]
           v2 == [t \in Task |-> IF t \in S THEN new[t] ELSE v[t]]
<1>1. \A t \in Task : v[t] \in Row
  BY ViewShown
<1>2. ASSUME NEW t \in S PROVE Fell(new[t], v[t]) /\ Follows(new[t], v[t]) /\ \A k : ~ Kid(k, new[t])
  BY <1>1, <1>2, SoftDeletedRow
<1>3. \A t \in Task : v2[t] = IF t \in S THEN new[t] ELSE v[t]
  OBVIOUS
<1>4. v2 = [t \in Task |-> IF t \in S THEN new[t] ELSE v[t]]
  OBVIOUS
<1> HIDE DEF s, h, v2
<1>5. Opens(s) /\ s.do \in {"txdelete", "txdeletechildren"}
  BY DEF Opens, s
<1>6. Moved(s, v, v2, h, h \cup S)
  <2>1. \A t \in Task :
          \/ v2[t] = v[t]
          \/ /\ Fell(v2[t], v[t])
             /\ \/ s.do = "txdelete" /\ t = s.t
                \/ s.do = "txdeletechildren" /\ v[t].parent = s.t
    BY <1>2, <1>3 DEF s
  <2> QED
    BY <1>5, <2>1 DEF Moved
<1>7. ASSUME NEW k \in Kinds, NEW c \in Task, NEW q \in Task, Removes(k, s, c, q),
             v2[c].parent = q
      PROVE  ~ Kid(k, v2[c])
  <2>1. CASE c \in S
    BY <1>2, <1>3, <2>1
  <2>2. CASE c \notin S
    <3>1. v2[c] = v[c]
      BY <1>3, <2>2
    <3>2. v[c].db # "live"
      BY <1>5, <1>7, <2>2, <3>1 DEF Removes, s
    <3> QED
      BY <3>1, <3>2 DEF Kid
  <2> QED
    BY <2>1, <2>2
<1>8. StagedRows(s, S, new, v, v2, h)
  BY <1>2, <1>3, <1>6, <1>7 DEF StagedRows
<1>9. s.do # "deleteChildren"
  BY <1>5
<1> QED
  BY <1>4, <1>5, <1>8, <1>9, StageFamily DEF s, h

(* A row deleted in the transaction.                                       *)
LEMMA DeleteTaskWithTxFamily ==
  ASSUME TypeOK, TypeOK', FamilyInv, NEW p \in Proc, DeleteTaskWithTx(p) PROVE FamilyInv'
<1> DEFINE s == Next1(p)
           v == Shown(rows, held[p], dirty[p])
           S == {t \in {s.t} : View(p, t).db = "live"}
           new == [t \in Task |-> softDeleted(View(p, t))]
<1>1. ~Idle(p) /\ s.do = "txdelete" /\ s.t \in Task /\ s \in Fields(Statements, Task)
  BY AtType DEF DeleteTaskWithTx, At, Statements
<1>2. \A t \in Task : View(p, t) = v[t]
  BY ViewShown
<1>3. S \in SUBSET Task /\ Stage(p, S, new)
  BY <1>1 DEF DeleteTaskWithTx
<1>4. /\ \A t \in S : new[t] = softDeleted(v[t])
      /\ \A t \in Task : t \in S <=> v[t].db = "live" /\ t = s.t
  BY <1>1, <1>2
<1>5. v = Shown(rows, held[p], dirty[p])
  OBVIOUS
<1> HIDE DEF S, new, v
<1> QED
  BY <1>1, <1>3, <1>4, <1>5, DeletionFamily

(* The children deleted in the transaction.                                *)
LEMMA DeleteChildTasksWithTxFamily ==
  ASSUME TypeOK, TypeOK', FamilyInv, NEW p \in Proc, DeleteChildTasksWithTx(p)
  PROVE  FamilyInv'
<1> DEFINE s == Next1(p)
           v == Shown(rows, held[p], dirty[p])
           S == {t \in Task : View(p, t).db = "live" /\ View(p, t).parent = s.t}
           new == [t \in Task |-> softDeleted(View(p, t))]
<1>1. ~Idle(p) /\ s.do = "txdeletechildren" /\ s \in Fields(Statements, Task)
  BY AtType DEF DeleteChildTasksWithTx, At, Statements
<1>2. \A t \in Task : View(p, t) = v[t]
  BY ViewShown
<1>3. S \in SUBSET Task /\ Stage(p, S, new)
  BY <1>1 DEF DeleteChildTasksWithTx
<1>4. /\ \A t \in S : new[t] = softDeleted(v[t])
      /\ \A t \in Task : t \in S <=> v[t].db = "live" /\ v[t].parent = s.t
  BY <1>2
<1>5. v = Shown(rows, held[p], dirty[p])
  OBVIOUS
<1> HIDE DEF S, new, v
<1> QED
  BY <1>1, <1>3, <1>4, <1>5, DeletionFamily

(* The commit leaves no child to a row that may have none: one before it   *)
(* would have taken it.                                                    *)
LEMMA CommitTxFamily ==
  ASSUME TypeOK, TypeOK', FamilyInv, NEW p \in Proc, CommitTx(p) PROVE FamilyInv'
<1> DEFINE s == Next1(p)
           f == plan[p]
           h == held[p]
           v == Shown(rows, held[p], dirty[p])
<1>1. ~Idle(p) /\ s.do = "commit" /\ Barrier(s)
  BY DEF CommitTx, At, Barrier
<1>2. /\ f \in Seq(Step) /\ f # <<>> /\ f[1] = s
      /\ OneKid(v) /\ PlainKids(v) /\ OwnParents(v)
  BY <1>1, FamilyHead
<1>3. \A t \in Task : View(p, t) = v[t]
  BY ViewShown
<1>4. /\ held'[p] = {} /\ \A q \in Proc \ {p} : held'[q] = held[q]
      /\ Continue(p, <<>>)
  BY DEF CommitTx, TypeOK
<1>5. rows' = v
  BY <1>3 DEF CommitTx, Shown
<1>6. \A k, c, q : ~ Removes(k, s, c, q)
  BY <1>1 DEF Removes
<1>7. \A k \in Kinds, c, q \in Task : Stray(k, v, c, q, v[q]) => WillRemove(k, f, c, q)
  BY DEF FamilyInv, FamilyFits
<1>8. v = Shown(rows', held'[p], dirty'[p])
  <2>1. rows' \in [Task -> Row]
    BY DEF TypeOK
  <2> QED
    BY <1>4, <1>5, <2>1, ShownNone
<1>9. PICK g : g = <<>> \o Tail(f)
  OBVIOUS
<1> HIDE DEF s, f, h, v
<1>10. NoStray(v)
  <2> SUFFICES ASSUME NEW k \in Kinds, NEW c \in Task, NEW q \in Task, Stray(k, v, c, q, v[q])
               PROVE  FALSE
    BY DEF NoStray
  <2>1. PICK j \in DOMAIN f : Removes(k, f[j], c, q) /\ \A m \in DOMAIN f : m < j => ~ Barrier(f[m])
    BY <1>7 DEF WillRemove
  <2>2. DOMAIN f = 1..Len(f) /\ Len(f) \in Nat
    BY <1>2, LenProperties
  <2>3. j = 1
    BY <1>1, <1>2, <2>1, <2>2
  <2> QED
    BY <1>2, <1>6, <2>1, <2>3
<1>11. Family(rows')
  BY <1>2, <1>5, <1>10 DEF Family
<1>12. Moved(s, v, v, h, held'[p])
  BY <1>1, <1>4 DEF Moved
<1>13. Laid(<<>>, s, f, g, v, held'[p])
  <2>1. s.do # "sync"
    BY <1>1
  <2> QED
    BY <1>6, <2>1, LaidNone
<1>14. \A t \in held'[p] : Follows(dirty'[p][t], rows'[t])
  BY <1>4
<1>15. v = Shown(rows, held[p], dirty[p])
  BY DEF v
<1> QED
  BY <1>1, <1>4, <1>8, <1>9, <1>11, <1>12, <1>13, <1>14, <1>15, EmptyPlanType, FamilyGoes
     DEF s, f, h

(* The table with one more child of a series that had none waiting.        *)
LEMMA InsertedFamily ==
  ASSUME NEW r, Family(r), NEW id \in Task, r[id].db = "absent", NEW q \in Task,
         r[q].db = "live", Parental(r[q]),
         \A c \in Task : r[c].parent = q => ~ Kid("conf", r[c]),
         NEW x, x.db = "live", x.parent = q, ~ x.rule,
         NEW r2, r2[id] = x, \A c \in Task : c # id => r2[c] = r[c]
  PROVE  Family(r2)
<1>1. q # id
  OBVIOUS
<1>2. OneKid(r2)
  <2> SUFFICES ASSUME NEW c \in Task, NEW e \in Task, r2[c].parent = r2[e].parent,
                      r2[c].parent # NoTask, Kid("conf", r2[c]), Kid("conf", r2[e]), c # e
               PROVE  FALSE
    BY DEF OneKid
  <2>1. CASE c = id
    BY <2>1
  <2>2. CASE e = id
    BY <2>2
  <2>3. CASE c # id /\ e # id
    BY <2>3 DEF Family, OneKid
  <2> QED
    BY <2>1, <2>2, <2>3
<1>3. NoStray(r2)
  <2> SUFFICES ASSUME NEW k \in Kinds, NEW c \in Task, NEW b \in Task, Stray(k, r2, c, b, r2[b])
               PROVE  FALSE
    BY DEF NoStray
  <2>1. CASE c = id
    <3>1. b = q /\ Barren(k, r[q])
      BY <1>1, <2>1 DEF Stray
    <3> QED
      BY <3>1 DEF Barren, Parental
  <2>2. CASE c # id
    <3>1. r[c].parent = b /\ Kid(k, r[c])
      BY <2>2 DEF Stray
    <3>2. Barren(k, r[b])
      BY DEF Stray, Barren
    <3> QED
      BY <3>1, <3>2 DEF Stray, Family, NoStray
  <2> QED
    BY <2>1, <2>2
<1>4. PlainKids(r2) /\ OwnParents(r2)
  BY <1>1 DEF Family, PlainKids, OwnParents
<1> QED
  BY <1>2, <1>3, <1>4 DEF Family

(* A child is inserted when its series has none waiting.                   *)
LEMMA InsertChildFamily ==
  ASSUME TypeOK, TypeOK', FamilyInv, NEW p \in Proc, InsertChild(p) PROVE FamilyInv'
<1> DEFINE s   == Next1(p)
           f   == plan[p]
           id  == NewId
           row == IF s.do = "insert" THEN s.row
                  ELSE childOf(s.row, s.t, nextRecurrenceAfter(now), "scheduled")
           u   == [s EXCEPT !.t = id, !.row = row]
           a   == After(u)
           v   == Shown(rows, held[p], dirty[p])
<1>1. /\ ~Idle(p) /\ s.do \in {"insert", "spawn"} /\ s.t \in Task
      /\ s \in Fields(Statements, Task) /\ s.row \in Row
  BY AtType DEF InsertChild, At, Statements
<1>2. /\ f \in Seq(Step) /\ f # <<>> /\ Suits(s, {}, f, v, held[p])
      /\ \A j \in DOMAIN f : j # 1 => Precedes(s, f[j])
      /\ \A q \in Proc : ~Idle(q) => q = p
      /\ FamilyFits(f, rows, held[p], dirty[p]) /\ Family(rows)
  BY <1>1, FamilyHead DEF FamilyInv
<1>3. Inserts(s) /\ Lone(s)
  BY <1>1 DEF Inserts, Lone
<1>4. held[p] = {} /\ v = rows
  <2>1. held[p] = {}
    BY <1>2, <1>3 DEF Suits, Alone
  <2> QED
    BY <2>1, ShownNone DEF TypeOK
<1>5. /\ rows[s.t].db = "live" /\ Parental(rows[s.t])
      /\ \A c \in Task : rows[c].parent = s.t => ~ Kid("conf", rows[c])
      /\ s.msg # "resched"
      /\ s.do = "insert" => s.row.db = "live" /\ s.row.parent = s.t /\ ~ s.row.rule
  <2> HIDE DEF s, f, v
  <2> QED
    BY <1>1, <1>2, <1>3, <1>4 DEF Suits
<1>6. id \in Task /\ rows[id].db = "absent"
  BY FreeType DEF InsertChild
<1>7. row \in Row /\ row.db = "live" /\ row.parent = s.t /\ ~ row.rule
  <2>1. CASE s.do = "insert"
    BY <1>1, <1>5, <2>1
  <2>2. CASE s.do # "insert"
    <3> DEFINE c == childOf(s.row, s.t, nextRecurrenceAfter(now), "scheduled")
    <3>1. c \in Row
      BY <1>1, ChildType, NextRecurrenceType DEF TypeOK, Status
    <3>2. c.db = "live" /\ c.parent = s.t /\ c.rule = FALSE
      BY DEF childOf
    <3>3. row = c
      BY <2>2
    <3> HIDE DEF c, row
    <3> QED
      BY <3>1, <3>2, <3>3
  <2> QED
    BY <2>1, <2>2
<1>8. /\ rows' = [rows EXCEPT ![id] = row] /\ Continue(p, a)
      /\ UNCHANGED <<wire, held, dirty>>
  BY DEF InsertChild
<1> HIDE DEF s, row, id
<1>9. u \in Fields(Statements, Task) /\ u.msg = s.msg
  BY <1>1, <1>6, <1>7 DEF Fields
<1> HIDE DEF u
<1>10. /\ a \in Seq(Step)
       /\ \A i \in DOMAIN a : i = 1 /\ a[i].do = "publish" /\ a[i].msg # "resched"
  BY <1>5, <1>9, AfterParts
<1> HIDE DEF a, f
<1>11. PICK r2 : r2 = rows'
  OBVIOUS
<1>12. r2[id] = row /\ \A t \in Task : t # id => r2[t] = rows[t]
  BY <1>6, <1>8, <1>11 DEF TypeOK
<1>13. Family(r2)
  BY <1>1, <1>2, <1>5, <1>6, <1>7, <1>12, InsertedFamily
<1>14. PICK g : g = a \o Tail(f)
  OBVIOUS
<1>15. Spliced(g, a, f)
  BY <1>2, <1>10, <1>14, BeforeParts
<1>16. ASSUME NEW j \in DOMAIN f, j # 1
       PROVE  f[j].do \in {"publish", "doneChildren"} /\ f[j].msg # "resched"
  <2>1. f[j].do \in {"publish", "doneChildren"}
    BY <1>2, <1>3, <1>16 DEF Precedes
  <2>2. Suits(f[j], Before(f, j), f, rows, {})
    BY <1>2, <1>4, ShownNone DEF FamilyFits, v
  <2> QED
    BY <2>1, <2>2 DEF Suits
<1>17. ASSUME NEW i \in DOMAIN g
       PROVE  g[i].do \in {"publish", "doneChildren"} /\ g[i].msg # "resched"
  <2>1. CASE i \in DOMAIN a /\ g[i] = a[i]
    BY <1>10, <2>1
  <2>2. ASSUME NEW j \in DOMAIN f, g[i] = f[j], Later(Before(g, i), f, j, a)
        PROVE  g[i].do \in {"publish", "doneChildren"} /\ g[i].msg # "resched"
    BY <1>16, <2>2 DEF Later
  <2> QED
    BY <1>15, <1>17, <2>1, <2>2 DEF Spliced
<1>18. ASSUME NEW i \in DOMAIN g PROVE Suits(g[i], Before(g, i), g, r2, {}) /\ ~ Opens(g[i])
  <2> DEFINE x == g[i]
  <2>1. x.do \in {"publish", "doneChildren"} /\ x.msg # "resched"
    BY <1>17, <1>18
  <2> HIDE DEF x
  <2>2. Suits(x, Before(g, i), g, r2, {}) /\ ~ Opens(x)
    BY <2>1 DEF Suits, Opens, Closes, Writer, Pooled, Lone, Pool, Inserts
  <2> QED
    BY <2>2 DEF x
<1>19. ASSUME NEW i \in DOMAIN g, NEW b \in Before(g, i) PROVE Precedes(b, g[i])
  <2>1. ASSUME NEW m \in DOMAIN a, b = a[m] PROVE Precedes(b, g[i])
    <3>1. b.do = "publish" /\ b.msg # "resched"
      BY <1>10, <2>1
    <3> QED
      BY <3>1, MildSuits
  <2>2. CASE i \in DOMAIN a /\ Before(g, i) = Before(a, i)
    <3>1. Before(a, i) = {}
      BY <1>10, <2>2, BeforeFirst
    <3> QED
      BY <1>19, <2>2, <3>1
  <2>3. ASSUME NEW j \in DOMAIN f, g[i] = f[j], Later(Before(g, i), f, j, a)
        PROVE  Precedes(b, g[i])
    <3>1. CASE b \in Before(f, j)
      BY <1>2, <2>3, <3>1 DEF FamilyFits
    <3> QED
      BY <1>19, <2>1, <2>3, <3>1 DEF Later
  <2> QED
    BY <1>15, <1>19, <2>2, <2>3 DEF Spliced
<1>20. FamilyFits(g, r2, {}, dirty[p])
  <2>1. Shown(r2, {}, dirty[p]) = r2
    BY <1>11, ShownNone DEF TypeOK
  <2>2. \A k \in Kinds, c, q \in Task : ~ Stray(k, r2, c, q, r2[q])
    BY <1>13 DEF Family, NoStray
  <2> QED
    BY <1>18, <1>19, <2>1, <2>2 DEF FamilyFits
<1>21. plan' = [plan EXCEPT ![p] = g]
  BY <1>8, <1>14 DEF Continue, f
<1>22. /\ FamilyFits(g, rows', held'[p], dirty'[p]) /\ Family(rows')
       /\ \A q \in Proc \ {p} : held'[q] = held[q]
  BY <1>4, <1>8, <1>11, <1>13, <1>20
<1> QED
  BY <1>2, <1>21, <1>22, FamilyMoves

(* Messages: the job's are followed by the row.                            *)
LEMMA SendFamily ==
  ASSUME TypeOK, TypeOK', FamilyInv, NEW p \in Proc, Send(p) PROVE FamilyInv'
<1> DEFINE s     == Next1(p)
           write == Do("write", s.t, s.row, "none", {})
           after == IF s.do = "publish" THEN <<>> ELSE <<write>>
<1>1. /\ ~Idle(p) /\ s.do \in {"publish", "publishMoved"} /\ s.t \in Task /\ s.row \in Row
      /\ s.do \notin {"commit", "sync"}
  BY AtType DEF Send, At, Statements
<1>2. ~ Opens(s) /\ ~ Barrier(s)
  BY <1>1 DEF Opens, Barrier
<1>3. /\ write \in Step /\ write.do = "write" /\ write.t = s.t /\ write.row = s.row
      /\ write.msg = "none"
  BY <1>1, DoType DEF Do, Statements
<1>4. /\ Suits(s, {}, plan[p], Shown(rows, held[p], dirty[p]), held[p])
      /\ \A j \in DOMAIN plan[p] : j # 1 => Precedes(s, plan[p][j])
  BY <1>1, FamilyHead
<1>5. CASE UNCHANGED rows /\ Abort(p)
  BY <1>1, <1>5, AbortFamily
<1>6. CASE UNCHANGED <<rows, held, dirty>> /\ Continue(p, <<>>)
  BY <1>1, <1>2, <1>6, NoneGoesOn
<1>7. CASE UNCHANGED <<rows, held, dirty>> /\ Continue(p, after) /\ s.do = "publishMoved"
  <2>1. Continue(p, <<write>>) /\ Pooled(s)
    BY <1>7 DEF Pooled
  <2> HIDE DEF write, s
  <2>2. SameRow(write.row, s.row)
    BY <1>3 DEF SameRow
  <2>3. /\ \A g : Suits(write, {}, g, Shown(rows, held[p], dirty[p]), held[p])
        /\ \A y : Precedes(s, y) => Precedes(write, y)
        /\ ~ Opens(write) /\ ~ Barrier(write)
    BY <1>3, <1>4, <2>1, <2>2, SameRowSuits
  <2> QED
    BY <1>1, <1>2, <1>3, <1>4, <1>7, <2>1, <2>3, OneGoesOn DEF s
<1>8. CASE UNCHANGED <<rows, held, dirty>> /\ Continue(p, after)
  BY <1>1, <1>6, <1>7, <1>8
<1>9. \/ UNCHANGED <<rows, held, dirty>> /\ Continue(p, after)
      \/ UNCHANGED <<rows, held, dirty>> /\ Continue(p, <<>>)
      \/ UNCHANGED rows /\ Abort(p)
  BY DEF Send, Read
<1> QED
  BY <1>5, <1>6, <1>8, <1>9

-----------------------------------------------------------------------------
(* New requests.  A handler that begins holds nothing.                     *)

Members(f) == {f[i] : i \in DOMAIN f}

(* The beginning f of a list g that suits the table r.                     *)
Starts(f, g, r) ==
  \A i \in DOMAIN f : /\ Suits(f[i], Before(f, i), g, r, {})
                      /\ \A b \in Before(f, i) : Precedes(b, f[i])

(* What opens a transaction is followed by what closes it.                 *)
Shut(f) == \A i \in DOMAIN f : Opens(f[i]) => \E j \in DOMAIN f : i < j /\ Closes(f[j])

(* The beginning x goes on from f by y.                                    *)
Grown(x, f, y, g, r) ==
  /\ x \in Seq(Step) /\ Starts(x, g, r) /\ Members(x) = Members(f) \cup Members(y)
  /\ (\A i \in DOMAIN y : ~ Opens(y[i])) =>
       (Shut(f) \/ (\E i \in DOMAIN y : Closes(y[i])) => Shut(x))
  /\ \A i \in DOMAIN f : i \in DOMAIN x /\ x[i] = f[i]
  /\ \A i \in DOMAIN y : \E j \in DOMAIN x : x[j] = y[i] /\ Before(x, j) = Members(f) \cup Before(y, i)

(* A list that suits, followed by statements that suit what precedes them. *)
LEMMA ListGrows ==
  ASSUME NEW f \in Seq(Step), NEW y \in Seq(Step), NEW x, x = f \o y, NEW g, NEW r,
         Starts(f, g, r),
         \A i \in DOMAIN y : /\ Suits(y[i], Members(f) \cup Before(y, i), g, r, {})
                             /\ \A b \in Members(f) \cup Before(y, i) : Precedes(b, y[i])
  PROVE  Grown(x, f, y, g, r)
<1> DEFINE n == Len(f)
           m == Len(y)
<1>1. /\ n \in Nat /\ DOMAIN f = 1..n /\ m \in Nat /\ DOMAIN y = 1..m
  BY LenProperties
<1>2. /\ x \in Seq(Step) /\ Len(x) = n + m
      /\ \A i \in 1..Len(x) : x[i] = IF i <= n THEN f[i] ELSE y[i - n]
  BY ConcatProperties
<1> HIDE DEF n, m
<1>3. DOMAIN x = 1..(n + m)
  BY <1>2, LenProperties
<1>4. /\ \A i \in DOMAIN f : i \in DOMAIN x /\ x[i] = f[i]
      /\ \A i \in DOMAIN y : n + i \in DOMAIN x /\ x[n + i] = y[i]
      /\ \A i \in DOMAIN x : \/ i \in DOMAIN f /\ x[i] = f[i]
                             \/ i > n /\ i - n \in DOMAIN y /\ x[i] = y[i - n]
  <2>1. \A i \in DOMAIN f : i \in DOMAIN x /\ x[i] = f[i]
    BY <1>1, <1>2, <1>3
  <2>2. ASSUME NEW i \in DOMAIN y PROVE n + i \in DOMAIN x /\ x[n + i] = y[i]
    <3> DEFINE l == n + i
    <3>1. l \in 1..(n + m) /\ ~ (l <= n) /\ l - n = i
      BY <1>1
    <3> HIDE DEF l
    <3>2. l \in DOMAIN x /\ x[l] = y[l - n]
      BY <1>2, <1>3, <3>1
    <3> QED
      BY <3>1, <3>2 DEF l
  <2>3. ASSUME NEW i \in DOMAIN x
        PROVE  \/ i \in DOMAIN f /\ x[i] = f[i]
               \/ i > n /\ i - n \in DOMAIN y /\ x[i] = y[i - n]
    BY <1>1, <1>2, <1>3
  <2> QED
    BY <2>1, <2>2, <2>3
<1>5. ASSUME NEW i \in DOMAIN f PROVE Before(x, i) = Before(f, i)
  <2>1. \A l : l \in DOMAIN x /\ l < i <=> l \in DOMAIN f /\ l < i
    BY <1>1, <1>3, <1>5
  <2>2. {l \in DOMAIN x : l < i} = {l \in DOMAIN f : l < i}
    BY <2>1
  <2>3. \A l \in {j \in DOMAIN f : j < i} : x[l] = f[l]
    BY <1>4
  <2> QED
    BY <2>2, <2>3 DEF Before
<1>6. ASSUME NEW i \in DOMAIN y PROVE Before(x, n + i) = Members(f) \cup Before(y, i)
  <2>1. ASSUME NEW b \in Before(x, n + i) PROVE b \in Members(f) \cup Before(y, i)
    <3>1. PICK l \in DOMAIN x : l < n + i /\ b = x[l]
      BY <2>1 DEF Before
    <3>2. CASE l \in DOMAIN f /\ x[l] = f[l]
      BY <3>1, <3>2 DEF Members
    <3>3. CASE l > n /\ l - n \in DOMAIN y /\ x[l] = y[l - n]
      <4>1. l - n < i
        BY <1>1, <1>3, <1>6, <3>1
      <4> QED
        BY <3>1, <3>3, <4>1 DEF Before
    <3> QED
      BY <1>4, <3>2, <3>3
  <2>2. ASSUME NEW b \in Members(f) PROVE b \in Before(x, n + i)
    <3>1. PICK l \in DOMAIN f : b = f[l]
      BY <2>2 DEF Members
    <3>2. l \in DOMAIN x /\ x[l] = b /\ l < n + i
      BY <1>1, <1>4, <1>6, <3>1
    <3> QED
      BY <3>2 DEF Before
  <2>3. ASSUME NEW b \in Before(y, i) PROVE b \in Before(x, n + i)
    <3>1. PICK l \in DOMAIN y : l < i /\ b = y[l]
      BY <2>3 DEF Before
    <3>2. n + l \in DOMAIN x /\ x[n + l] = b /\ n + l < n + i
      BY <1>1, <1>4, <1>6, <3>1
    <3> QED
      BY <3>2 DEF Before
  <2> QED
    BY <2>1, <2>2, <2>3
<1>7. Starts(x, g, r)
  <2> SUFFICES ASSUME NEW i \in DOMAIN x
               PROVE  /\ Suits(x[i], Before(x, i), g, r, {})
                      /\ \A b \in Before(x, i) : Precedes(b, x[i])
    BY DEF Starts
  <2>1. CASE i \in DOMAIN f /\ x[i] = f[i]
    BY <1>5, <2>1 DEF Starts
  <2>2. CASE i > n /\ i - n \in DOMAIN y /\ x[i] = y[i - n]
    <3>1. PICK j \in DOMAIN y : j = i - n
      BY <2>2
    <3>2. i = n + j
      BY <1>1, <1>3, <3>1
    <3>3. Before(x, i) = Members(f) \cup Before(y, j) /\ x[i] = y[j]
      BY <1>6, <2>2, <3>1, <3>2
    <3> QED
      BY <3>3
  <2> QED
    BY <1>4, <2>1, <2>2
<1>8. Members(x) = Members(f) \cup Members(y)
  <2>1. \A b \in Members(x) : b \in Members(f) \/ b \in Members(y)
    BY <1>4 DEF Members
  <2>2. \A b \in Members(f) : b \in Members(x)
    BY <1>4 DEF Members
  <2>3. \A b \in Members(y) : b \in Members(x)
    <3> SUFFICES ASSUME NEW i \in DOMAIN y PROVE y[i] \in Members(x)
      BY DEF Members
    <3>1. \E j \in DOMAIN x : x[j] = y[i]
      BY <1>4
    <3> QED
      BY <3>1 DEF Members
  <2> QED
    BY <2>1, <2>2, <2>3
<1>9. ASSUME \A i \in DOMAIN y : ~ Opens(y[i]), Shut(f) \/ \E i \in DOMAIN y : Closes(y[i])
      PROVE  Shut(x)
  <2> SUFFICES ASSUME NEW i \in DOMAIN x, Opens(x[i])
               PROVE  \E j \in DOMAIN x : i < j /\ Closes(x[j])
    BY DEF Shut
  <2>1. i \in DOMAIN f /\ x[i] = f[i]
    BY <1>4, <1>9
  <2>2. CASE Shut(f)
    BY <1>4, <2>1, <2>2 DEF Shut
  <2>3. ASSUME NEW l \in DOMAIN y, Closes(y[l]) PROVE \E j \in DOMAIN x : i < j /\ Closes(x[j])
    <3>1. n + l \in DOMAIN x /\ x[n + l] = y[l] /\ i < n + l
      BY <1>1, <1>4, <2>1, <2>3
    <3> QED
      BY <2>3, <3>1
  <2> QED
    BY <1>9, <2>2, <2>3
<1>10. \A i \in DOMAIN y : \E j \in DOMAIN x : x[j] = y[i] /\ Before(x, j) = Members(f) \cup Before(y, i)
  BY <1>4, <1>6
<1> QED
  BY <1>2, <1>4, <1>7, <1>8, <1>9, <1>10 DEF Grown

(* The list of no statements.                                              *)
LEMMA NoneStarts ==
  ASSUME NEW g, NEW r
  PROVE  Starts(<<>>, g, r) /\ Shut(<<>>) /\ Members(<<>>) = {} /\ <<>> \in Seq(Step)
<1>1. DOMAIN <<>> = {}
  OBVIOUS
<1> QED
  BY <1>1, EmptyPlanType DEF Starts, Shut, Members

(* The list of one statement.                                              *)
LEMMA OneStarts ==
  ASSUME NEW s \in Step, NEW f, f = <<s>>, NEW g, NEW r, Suits(s, {}, g, r, {})
  PROVE  /\ f \in Seq(Step) /\ Starts(f, g, r) /\ Members(f) = {s} /\ 1 \in DOMAIN f
         /\ f[1] = s /\ Before(f, 1) = {} /\ (~ Opens(s) => Shut(f))
<1>1. f \in Seq(Step) /\ DOMAIN f = {1} /\ f[1] = s
  BY SingletonType
<1>2. Before(f, 1) = {}
  BY <1>1, BeforeFirst
<1> QED
  BY <1>1, <1>2 DEF Starts, Members, Shut

(* One more statement.                                                     *)
LEMMA OneGrows ==
  ASSUME NEW f \in Seq(Step), NEW s \in Step, NEW x, x = f \o <<s>>, NEW g, NEW r,
         Starts(f, g, r), Suits(s, Members(f), g, r, {}),
         \A b \in Members(f) : Precedes(b, s)
  PROVE  /\ x \in Seq(Step) /\ Starts(x, g, r) /\ Members(x) = Members(f) \cup {s}
         /\ ~ Opens(s) /\ (Shut(f) \/ Closes(s)) => Shut(x)
         /\ \A i \in DOMAIN f : i \in DOMAIN x /\ x[i] = f[i]
         /\ \E j \in DOMAIN x : x[j] = s /\ Before(x, j) = Members(f)
<1> DEFINE y == <<s>>
<1>1. y \in Seq(Step) /\ DOMAIN y = {1} /\ y[1] = s
  BY SingletonType
<1>2. x = f \o y
  OBVIOUS
<1> HIDE DEF y
<1>3. \A i \in DOMAIN y : i = 1 /\ y[i] = s /\ Before(y, i) = {}
  BY <1>1, BeforeFirst
<1>4. \A i \in DOMAIN y : /\ Suits(y[i], Members(f) \cup Before(y, i), g, r, {})
                          /\ \A b \in Members(f) \cup Before(y, i) : Precedes(b, y[i])
  BY <1>3
<1>5. Grown(x, f, y, g, r)
  BY <1>1, <1>2, <1>4, ListGrows
<1>6. Members(y) = {s}
  BY <1>1 DEF Members
<1>7. /\ x \in Seq(Step) /\ Starts(x, g, r) /\ Members(x) = Members(f) \cup {s}
      /\ \A i \in DOMAIN f : i \in DOMAIN x /\ x[i] = f[i]
  BY <1>5, <1>6 DEF Grown
<1>8. ASSUME ~ Opens(s), Shut(f) \/ Closes(s) PROVE Shut(x)
  BY <1>1, <1>3, <1>5, <1>8 DEF Grown
<1>9. \E j \in DOMAIN x : x[j] = s /\ Before(x, j) = Members(f)
  <2>1. \E j \in DOMAIN x : x[j] = y[1] /\ Before(x, j) = Members(f) \cup Before(y, 1)
    BY <1>1, <1>5 DEF Grown
  <2>2. Before(y, 1) = {}
    BY <1>1, <1>3
  <2> QED
    BY <1>1, <2>1, <2>2
<1> QED
  BY <1>7, <1>8, <1>9

(* A handler that begins while the others are idle.                        *)
LEMMA StartsFamily ==
  ASSUME TypeOK, TypeOK', FamilyInv, OneAtATime, NEW p \in Proc, Idle(p),
         Cardinality(InFlight) < MaxInFlight,
         NEW f, plan' = [plan EXCEPT ![p] = f], UNCHANGED <<held, dirty>>,
         NEW r2, r2 = rows', Family(r2), Starts(f, f, r2), Shut(f)
  PROVE  FamilyInv'
<1>1. IsFiniteSet(Proc)
  BY ServiceAssumption, FS_AddElement DEF Proc
<1>2. InFlight = {}
  <2>1. IsFiniteSet(InFlight)
    BY <1>1, FS_Subset DEF InFlight
  <2>2. Cardinality(InFlight) = 0
    BY <2>1, FS_CardinalityType DEF OneAtATime
  <2> QED
    BY <2>1, <2>2, FS_EmptySet
<1>3. \A q \in Proc : ~Idle(q) => q = p
  BY <1>2 DEF InFlight
<1>4. held'[p] = {}
  BY IdleHolds
<1>5. Shown(r2, {}, dirty'[p]) = r2
  BY ShownNone DEF TypeOK
<1>6. \A k \in Kinds, c, q \in Task : ~ Stray(k, r2, c, q, r2[q])
  BY DEF Family, NoStray
<1>7. FamilyFits(f, r2, {}, dirty'[p])
  BY <1>5, <1>6 DEF FamilyFits, Starts, Shut
<1>8. FamilyFits(f, rows', held'[p], dirty'[p]) /\ Family(rows')
  BY <1>4, <1>7
<1> QED
  BY <1>3, <1>8, FamilyMoves

(* A request that begins by reading only.                                  *)
LEMMA BeginFamily ==
  ASSUME TypeOK, TypeOK', FamilyInv, OneAtATime, NEW p \in Proc, NEW op, NEW f, Begin(p, op, f),
         UNCHANGED rows, Starts(f, f, rows), Shut(f)
  PROVE  FamilyInv'
<1>1. PICK r2 : r2 = rows' /\ r2 = rows
  OBVIOUS
<1>2. Family(r2)
  BY <1>1 DEF FamilyInv
<1> QED
  BY <1>1, <1>2, StartsFamily DEF Begin

(* Nobody is the child of a task that is not there.                        *)
LEMMA NoKidsOfAbsent ==
  ASSUME NEW r, NoStray(r), NEW q \in Task, r[q].db = "absent", NEW k \in Kinds, NEW c \in Task,
         r[c].parent = q
  PROVE  ~ Kid(k, r[c])
BY DEF NoStray, Stray, Barren

(* A created task has no children; its first is inserted next.             *)
LEMMA CreateTaskFamily ==
  ASSUME TypeOK, TypeOK', FamilyInv, OneAtATime, NEW p \in Proc, CreateTask(p)
  PROVE  FamilyInv'
<1> DEFINE id == NewId
<1>1. PICK row \in CreateRequests :
        /\ Free # {}
        /\ rows' = [rows EXCEPT ![id] = row]
        /\ Begin(p, "create",
                 IF isRecurrenceParentWithConfirmation(row)
                   THEN <<Do("insert", id, childOf(row, id, row.start, "pending"),
                             "none", {})>>
                   ELSE <<>>)
  BY DEF CreateTask
<1>2. row \in Row /\ row.db = "live" /\ row.parent = NoTask
  BY ServiceAssumption
<1>3. id \in Task /\ rows[id].db = "absent"
  BY <1>1, FreeType
<1> HIDE DEF id
<1>4. PICK r2 : r2 = rows'
  OBVIOUS
<1>5. r2[id] = row /\ \A t \in Task : t # id => r2[t] = rows[t]
  BY <1>1, <1>3, <1>4 DEF TypeOK
<1>6. \A t \in Task : t # NoTask
  BY RowsAssumption DEF NoTask, Task
<1>7. Family(rows)
  BY DEF FamilyInv
<1>8. \A k \in Kinds, c \in Task : r2[c].parent = id => ~ Kid(k, r2[c])
  <2> SUFFICES ASSUME NEW k \in Kinds, NEW c \in Task, r2[c].parent = id PROVE ~ Kid(k, r2[c])
    OBVIOUS
  <2>1. c # id
    BY <1>2, <1>3, <1>5, <1>6
  <2>2. r2[c] = rows[c]
    BY <1>5, <2>1
  <2> QED
    BY <1>3, <1>7, <2>2, NoKidsOfAbsent DEF Family
<1>9. Family(r2)
  <2>1. NoStray(r2)
    <3> SUFFICES ASSUME NEW k \in Kinds, NEW c \in Task, NEW q \in Task, Stray(k, r2, c, q, r2[q])
                 PROVE  FALSE
      BY DEF NoStray
    <3>1. q # id /\ c # id
      BY <1>2, <1>5, <1>6, <1>8 DEF Stray
    <3> QED
      BY <1>5, <1>7, <3>1 DEF Stray, Family, NoStray
  <2>2. OneKid(r2)
    BY <1>2, <1>5, <1>7 DEF Family, OneKid
  <2>3. PlainKids(r2) /\ OwnParents(r2)
    BY <1>2, <1>3, <1>5, <1>6, <1>7 DEF Family, PlainKids, OwnParents
  <2> QED
    BY <2>1, <2>2, <2>3 DEF Family
<1> DEFINE s == Do("insert", id, childOf(row, id, row.start, "pending"), "none", {})
<1>10. /\ s \in Step /\ s.do = "insert" /\ s.t = id /\ s.msg = "none"
       /\ s.row.db = "live" /\ s.row.parent = id /\ ~ s.row.rule
  <2> DEFINE c == childOf(row, id, row.start, "pending")
  <2>1. c \in Row
    BY <1>2, <1>3, ChildType DEF Status, Row, Time
  <2>2. c.db = "live" /\ c.parent = id /\ c.rule = FALSE
    BY DEF childOf
  <2>3. s = Do("insert", id, c, "none", {})
    OBVIOUS
  <2> HIDE DEF c, s
  <2> QED
    BY <1>3, <2>1, <2>2, <2>3, DoType DEF Do, Statements
<1> HIDE DEF s
<1>11. PICK f : f = (IF isRecurrenceParentWithConfirmation(row) THEN <<s>> ELSE <<>>)
  OBVIOUS
<1>12. Starts(f, f, r2) /\ Shut(f)
  <2>1. CASE isRecurrenceParentWithConfirmation(row)
    <3>1. Parental(r2[id]) /\ r2[id].db = "live"
      BY <1>2, <1>5, <2>1 DEF Parental, isRecurrenceParentWithConfirmation
    <3>2. \A c \in Task : r2[c].parent = id => ~ Kid("conf", r2[c])
      BY <1>8 DEF Kinds
    <3>3. Suits(s, {}, f, r2, {}) /\ ~ Opens(s)
      BY <1>10, <3>1, <3>2 DEF Suits, Opens, Closes, Writer, Pooled, Alone
    <3>4. f = <<s>>
      BY <1>11, <2>1
    <3> QED
      BY <1>10, <3>3, <3>4, OneStarts
  <2>2. CASE ~ isRecurrenceParentWithConfirmation(row)
    <3>1. f = <<>>
      BY <1>11, <2>2
    <3> QED
      BY <3>1, NoneStarts
  <2> QED
    BY <2>1, <2>2
<1>13. Begin(p, "create", f)
  BY <1>1, <1>11 DEF s
<1> QED
  BY <1>4, <1>9, <1>12, <1>13, StartsFamily DEF Begin

(* A queued message changes nothing.                                       *)
LEMMA QueueTaskFamily ==
  ASSUME TypeOK, TypeOK', FamilyInv, OneAtATime, NEW p \in Proc, QueueTask(p)
  PROVE  FamilyInv'
<1>1. PICK t \in Task, msg \in {"schedule", "delete"} :
        /\ GetTaskByID(rows, t)
        /\ Begin(p, "queue", <<Publish(t, rows[t], msg, {"msg"})>>)
        /\ UNCHANGED rows
  BY DEF QueueTask
<1> DEFINE s == Publish(t, rows[t], msg, {"msg"})
           f == <<s>>
<1>2. s \in Step /\ s.do = "publish" /\ s.msg # "resched"
  BY RowType, DoType DEF Publish, Do, Statements
<1>3. Begin(p, "queue", f) /\ UNCHANGED rows
  BY <1>1
<1>4. f = <<s>>
  OBVIOUS
<1> HIDE DEF s, f
<1>5. Suits(s, {}, f, rows, {}) /\ ~ Opens(s)
  BY <1>2, MildSuits
<1>6. Starts(f, f, rows) /\ Shut(f)
  BY <1>2, <1>4, <1>5, OneStarts
<1> QED
  BY <1>3, <1>6, BeginFamily

(* A deletion takes the children before the task, when it has a rule;      *)
(* otherwise it has none.                                                  *)
LEMMA DeleteTaskFamily ==
  ASSUME TypeOK, TypeOK', FamilyInv, OneAtATime, NEW p \in Proc, DeleteTask(p)
  PROVE  FamilyInv'
<1>1. PICK t \in Task :
        /\ Begin(p, "delete",
                 (IF rows[t].rule
                    THEN <<Do("deleteChildren", t, rows[t], "none", {"row"})>> ELSE <<>>)
                 \o <<Do("txdelete", t, rows[t], "delete", {"row", "msg"}), Commit>>)
        /\ UNCHANGED rows
  BY DEF DeleteTask
<1> DEFINE c == Do("deleteChildren", t, rows[t], "none", {"row"})
           e == Do("txdelete", t, rows[t], "delete", {"row", "msg"})
           x == IF rows[t].rule THEN <<c>> ELSE <<>>
           y == x \o <<e>>
           f == y \o <<Commit>>
<1>2. /\ c \in Step /\ c.do = "deleteChildren" /\ c.t = t /\ c.msg = "none" /\ "row" \in c.must
      /\ e \in Step /\ e.do = "txdelete" /\ e.t = t /\ e.msg = "delete" /\ "row" \in e.must
  BY RowType, DoType DEF Do, Statements
<1>3. Commit \in Step
  BY CommitType
<1>4. Begin(p, "delete", f) /\ UNCHANGED rows
  <2>1. x \in Seq(Step)
    <3>1. <<c>> \in Seq(Step)
      BY <1>2, SingletonType
    <3> QED
      BY <3>1, EmptyPlanType
  <2>2. <<e>> \in Seq(Step) /\ <<Commit>> \in Seq(Step) /\ <<e, Commit>> = <<e>> \o <<Commit>>
    BY <1>2, <1>3, CommitType, SingletonType
  <2>3. Begin(p, "delete", x \o <<e, Commit>>) /\ UNCHANGED rows
    BY <1>1
  <2> HIDE DEF c, e, x
  <2>4. x \o <<e, Commit>> = f
    BY <2>1, <2>2, ConcatAssociative
  <2> QED
    BY <2>3, <2>4
<1> HIDE DEF c, e
<1>5. Family(rows)
  BY DEF FamilyInv
<1>6. \A g, B : Suits(c, B, g, rows, {}) /\ Precedes(c, e)
  BY <1>2 DEF Suits, Precedes, Writer, Pooled, Lone, Pool, Inserts, Closes
<1>7. /\ x \in Seq(Step) /\ (\A g : Starts(x, g, rows)) /\ Members(x) \subseteq {c}
      /\ rows[t].rule => 1 \in DOMAIN x /\ x[1] = c
  <2>1. CASE rows[t].rule
    <3>1. x = <<c>>
      BY <2>1
    <3> HIDE DEF x
    <3> QED
      BY <1>2, <1>6, <3>1, OneStarts
  <2>2. CASE ~ rows[t].rule
    <3>1. x = <<>>
      BY <2>2
    <3> HIDE DEF x
    <3> QED
      BY <2>2, <3>1, NoneStarts
  <2> QED
    BY <2>1, <2>2
<1>8. y = x \o <<e>> /\ f = y \o <<Commit>>
  OBVIOUS
<1> HIDE DEF x, y, f
<1>9. ASSUME rows[t].rule, NEW q \in Task PROVE WillRemove("rule", f, q, t)
  <2>1. 1 \in DOMAIN f /\ f[1] = c /\ f \in Seq(Step)
    <3>1. y \in Seq(Step) /\ Joined(x, <<e>>, y)
      <4>1. <<e>> \in Seq(Step)
        BY <1>2, SingletonType
      <4> QED
        BY <1>7, <1>8, <4>1, ConcatParts
    <3>2. f \in Seq(Step) /\ Joined(y, <<Commit>>, f)
      BY <1>8, <3>1, CommitType, ConcatParts
    <3> QED
      BY <1>7, <1>9, <3>1, <3>2 DEF Joined
  <2>2. \A m \in DOMAIN f : ~ (m < 1)
    BY <2>1, LenProperties
  <2>3. Removes("rule", f[1], q, t)
    BY <1>2, <2>1 DEF Removes
  <2> QED
    BY <2>1, <2>2, <2>3 DEF WillRemove
<1>10. Suits(e, Members(x), f, rows, {})
  <2>1. ASSUME NEW q \in Task, rows[q].parent = t, Kid("rule", rows[q])
        PROVE  WillRemove("rule", f, q, t)
    <3>1. ~ Stray("rule", rows, q, t, rows[t])
      BY <1>5 DEF Family, NoStray, Kinds
    <3>2. rows[t].rule
      BY <2>1, <3>1 DEF Stray, Barren
    <3> QED
      BY <1>9, <3>2
  <2> QED
    BY <1>2, <2>1 DEF Suits, Writer, Pooled, Lone, Pool, Inserts, Closes
<1>11. /\ y \in Seq(Step) /\ Starts(y, f, rows) /\ Members(y) = Members(x) \cup {e}
  <2>1. Precedes(c, e)
    BY <1>6
  <2>2. \A b \in Members(x) : Precedes(b, e)
    BY <1>7, <2>1
  <2>3. x \in Seq(Step) /\ Starts(x, f, rows) /\ e \in Step /\ y = x \o <<e>>
    BY <1>2, <1>7, <1>8
  <2> QED
    BY <1>10, <2>2, <2>3, OneGrows
<1>12. Suits(Commit, Members(y), f, rows, {}) /\ \A b \in Members(y) : Precedes(b, Commit)
  <2>1. \A b \in {c, e} : ~ Barrier(b) /\ ~ Inserts(b) /\ b.do # "nextChild"
    BY <1>2 DEF Barrier, Inserts
  <2> QED
    BY <1>7, <1>11, <2>1, CommitSuits
<1>13. Starts(f, f, rows) /\ Shut(f)
  <2>1. ~ Opens(Commit) /\ Closes(Commit)
    BY CommitSuits
  <2> QED
    BY <1>3, <1>8, <1>11, <1>12, <2>1, OneGrows
<1> QED
  BY <1>4, <1>13, BeginFamily

(* Perhaps one more statement.                                             *)
LEMMA MayGrow ==
  ASSUME NEW f \in Seq(Step), NEW s, NEW y, NEW x, x = f \o y, NEW g, NEW r, Starts(f, g, r),
         \/ y = <<>>
         \/ /\ y = <<s>> /\ s \in Step /\ Suits(s, Members(f), g, r, {})
            /\ \A b \in Members(f) : Precedes(b, s)
  PROVE  /\ x \in Seq(Step) /\ Starts(x, g, r)
         /\ \A b \in Members(x) : b \in Members(f) \/ (b = s /\ y = <<s>>)
         /\ Members(f) \subseteq Members(x)
         /\ Shut(f) /\ ~ Opens(s) => Shut(x)
<1>1. CASE y = <<>>
  <2>1. x = f
    BY <1>1, ConcatEmptySeq
  <2> QED
    BY <2>1
<1>2. CASE /\ y = <<s>> /\ s \in Step /\ Suits(s, Members(f), g, r, {})
           /\ \A b \in Members(f) : Precedes(b, s)
  <2>1. x = f \o <<s>>
    BY <1>2
  <2>2. /\ x \in Seq(Step) /\ Starts(x, g, r) /\ Members(x) = Members(f) \cup {s}
        /\ ~ Opens(s) /\ (Shut(f) \/ Closes(s)) => Shut(x)
    BY <1>2, <2>1, OneGrows
  <2> QED
    BY <1>2, <2>2
<1> QED
  BY <1>1, <1>2

(* A row written as it is, but for its muting and start, outside of any    *)
(* transaction.                                                            *)
LEMMA PooledSuits ==
  ASSUME NEW r, Family(r), NEW s, s.do \in {"write", "resched", "reschedule"}, s.t \in Task,
         s.msg = "resched" => s.do = "resched", r[s.t].db = "live", SameRow(s.row, r[s.t]),
         s.do = "reschedule" => Unfinished(s.row)
  PROVE  /\ \A B, g : (\A b \in B : ~ Opens(b)) => Suits(s, B, g, r, {})
         /\ ~ Opens(s) /\ ~ Closes(s) /\ ~ Barrier(s) /\ ~ Pool(s) /\ ~ Inserts(s) /\ Writer(s)
<1>1. \A k \in Kinds, c \in Task : ~ Stray(k, r, c, s.t, s.row)
  BY SameFollows DEF Family, NoStray, Stray
<1>2. Follows(s.row, r[s.t])
  BY FollowsSame
<1>3. ~ Opens(s) /\ ~ Closes(s) /\ ~ Barrier(s) /\ ~ Pool(s) /\ ~ Inserts(s) /\ Writer(s)
  BY DEF Opens, Closes, Barrier, Pool, Inserts, Writer, Pooled
<1>4. ASSUME NEW B, NEW g, \A b \in B : ~ Opens(b) PROVE Suits(s, B, g, r, {})
  <2>1. Alone(B, {})
    BY <1>4 DEF Alone
  <2> QED
    BY <1>1, <1>2, <1>3, <2>1 DEF Suits, Lone
<1> QED
  BY <1>3, <1>4

(* Muting changes nothing but the muting, of the row and then of its       *)
(* children.                                                               *)
LEMMA MuteTaskFamily ==
  ASSUME TypeOK, TypeOK', FamilyInv, OneAtATime, NEW p \in Proc, MuteTask(p) PROVE FamilyInv'
<1>1. PICK t \in Task :
        /\ Live(rows, t)
        /\ LET new == [rows[t] EXCEPT !.muted = TRUE] IN
             Begin(p, "mute",
               <<Do("write", t, new, "none", {"row"})>>
               \o (IF isRecurrenceParentWithConfirmation(new)
                     THEN <<Do("muteChildren", t, new, "none", {})>> ELSE <<>>)
               \o <<Publish(t, new, "delete", {})>>)
        /\ UNCHANGED rows
  BY DEF MuteTask
<1>2. PICK new : new = [rows[t] EXCEPT !.muted = TRUE]
  OBVIOUS
<1>3. new \in Row /\ SameRow(new, rows[t]) /\ rows[t].db = "live"
  BY <1>1, <1>2, LiveRow DEF Row, SameRow
<1> DEFINE w == Do("write", t, new, "none", {"row"})
           m == Do("muteChildren", t, new, "none", {})
           u == Publish(t, new, "delete", {})
           y == IF isRecurrenceParentWithConfirmation(new) THEN <<m>> ELSE <<>>
           o == <<w>>
           x == o \o y
           f == x \o <<u>>
<1>4. /\ w \in Step /\ w.do = "write" /\ w.t = t /\ w.row = new /\ w.msg = "none"
      /\ m \in Step /\ m.do = "muteChildren" /\ m.msg = "none"
      /\ u \in Step /\ u.do = "publish" /\ u.msg = "delete"
  BY <1>3, DoType DEF Do, Publish, Statements
<1>5. Begin(p, "mute", f) /\ UNCHANGED rows
  BY <1>1, <1>2
<1>6. y = <<>> \/ y = <<m>>
  OBVIOUS
<1>7. x = o \o y /\ f = x \o <<u>> /\ o = <<w>>
  OBVIOUS
<1> HIDE DEF w, m, u, y, o, x, f
<1>8. Family(rows)
  BY DEF FamilyInv
<1>9. /\ \A B, g : (\A b \in B : ~ Opens(b)) => Suits(w, B, g, rows, {})
      /\ ~ Opens(w) /\ ~ Closes(w) /\ ~ Barrier(w) /\ ~ Pool(w) /\ ~ Inserts(w)
  BY <1>3, <1>4, <1>8, PooledSuits
<1>10. Suits(w, {}, f, rows, {})
  BY <1>9
<1>11. o \in Seq(Step) /\ Starts(o, f, rows) /\ Members(o) = {w} /\ Shut(o)
  BY <1>4, <1>7, <1>9, <1>10, OneStarts
<1>12. Suits(m, Members(o), f, rows, {}) /\ \A b \in Members(o) : Precedes(b, m)
  <2>1. Precedes(w, m)
    BY <1>4, <1>9 DEF Precedes, Writer, Pooled, Inserts
  <2>2. Suits(m, {w}, f, rows, {})
    BY <1>4, <1>9 DEF Suits, Opens, Closes, Writer, Pooled, Inserts, Alone
  <2> QED
    BY <1>11, <2>1, <2>2
<1>13. ~ Opens(m)
  BY <1>4 DEF Opens
<1>14. /\ x \in Seq(Step) /\ Starts(x, f, rows) /\ Shut(x)
       /\ \A b \in Members(x) : b \in Members(o) \/ (b = m /\ y = <<m>>)
  <2>1. \/ y = <<>>
        \/ /\ y = <<m>> /\ m \in Step /\ Suits(m, Members(o), f, rows, {})
           /\ \A b \in Members(o) : Precedes(b, m)
    BY <1>4, <1>6, <1>12
  <2>2. o \in Seq(Step) /\ x = o \o y /\ Starts(o, f, rows)
    BY <1>7, <1>11
  <2> QED
    BY <1>11, <1>13, <2>1, <2>2, MayGrow
<1>15. Suits(u, Members(x), f, rows, {}) /\ (\A b \in Members(x) : Precedes(b, u)) /\ ~ Opens(u)
  <2>1. \A b \in Members(x) : b.do # "doneChildren"
    BY <1>4, <1>11, <1>14
  <2> QED
    BY <1>4, <2>1, MildSuits
<1>16. Starts(f, f, rows) /\ Shut(f)
  BY <1>4, <1>7, <1>14, <1>15, OneGrows
<1> QED
  BY <1>5, <1>16, BeginFamily

(* So does unmuting.                                                       *)
LEMMA UnmuteTaskFamily ==
  ASSUME TypeOK, TypeOK', FamilyInv, OneAtATime, NEW p \in Proc, UnmuteTask(p) PROVE FamilyInv'
<1>1. PICK t \in Task :
        /\ Live(rows, t)
        /\ LET new == [rows[t] EXCEPT !.muted = FALSE] IN
             Begin(p, "unmute",
               <<Do("write", t, new, "none", {"row"})>>
               \o (IF isRecurrenceParentWithConfirmation(new)
                     THEN <<Do("unmuteChildren", t, new, "none", {})>> ELSE <<>>)
               \o <<Do("resched", t, new, "resched", {})>>)
        /\ UNCHANGED rows
  BY DEF UnmuteTask
<1>2. PICK new : new = [rows[t] EXCEPT !.muted = FALSE]
  OBVIOUS
<1>3. new \in Row /\ SameRow(new, rows[t]) /\ rows[t].db = "live"
  BY <1>1, <1>2, LiveRow DEF Row, SameRow
<1> DEFINE w == Do("write", t, new, "none", {"row"})
           m == Do("unmuteChildren", t, new, "none", {})
           u == Do("resched", t, new, "resched", {})
           y == IF isRecurrenceParentWithConfirmation(new) THEN <<m>> ELSE <<>>
           o == <<w>>
           x == o \o y
           f == x \o <<u>>
<1>4. /\ w \in Step /\ w.do = "write" /\ w.t = t /\ w.row = new /\ w.msg = "none"
      /\ m \in Step /\ m.do = "unmuteChildren" /\ m.msg = "none"
      /\ u \in Step /\ u.do = "resched" /\ u.t = t /\ u.row = new /\ u.msg = "resched"
  BY <1>3, DoType DEF Do, Statements
<1>5. Begin(p, "unmute", f) /\ UNCHANGED rows
  BY <1>1, <1>2
<1>6. y = <<>> \/ y = <<m>>
  OBVIOUS
<1>7. x = o \o y /\ f = x \o <<u>> /\ o = <<w>>
  OBVIOUS
<1> HIDE DEF w, m, u, y, o, x, f
<1>8. Family(rows)
  BY DEF FamilyInv
<1>9. /\ \A B, g : (\A b \in B : ~ Opens(b)) => Suits(w, B, g, rows, {})
      /\ ~ Opens(w) /\ ~ Closes(w) /\ ~ Barrier(w) /\ ~ Pool(w) /\ ~ Inserts(w)
  BY <1>3, <1>4, <1>8, PooledSuits
<1>10. /\ \A B, g : (\A b \in B : ~ Opens(b)) => Suits(u, B, g, rows, {})
       /\ ~ Opens(u) /\ ~ Closes(u) /\ ~ Barrier(u) /\ ~ Pool(u) /\ ~ Inserts(u)
  BY <1>3, <1>4, <1>8, PooledSuits
<1>11. o \in Seq(Step) /\ Starts(o, f, rows) /\ Members(o) = {w} /\ Shut(o)
  <2>1. Suits(w, {}, f, rows, {})
    BY <1>9
  <2> QED
    BY <1>4, <1>7, <1>9, <2>1, OneStarts
<1>12. Suits(m, Members(o), f, rows, {}) /\ \A b \in Members(o) : Precedes(b, m)
  <2>1. Precedes(w, m)
    BY <1>4, <1>9 DEF Precedes, Writer, Pooled, Inserts
  <2>2. Suits(m, {w}, f, rows, {})
    BY <1>4, <1>9 DEF Suits, Opens, Closes, Writer, Pooled, Inserts, Alone
  <2> QED
    BY <1>11, <2>1, <2>2
<1>13. ~ Opens(m)
  BY <1>4 DEF Opens
<1>14. /\ x \in Seq(Step) /\ Starts(x, f, rows) /\ Shut(x)
       /\ \A b \in Members(x) : b \in Members(o) \/ (b = m /\ y = <<m>>)
  <2>1. \/ y = <<>>
        \/ /\ y = <<m>> /\ m \in Step /\ Suits(m, Members(o), f, rows, {})
           /\ \A b \in Members(o) : Precedes(b, m)
    BY <1>4, <1>6, <1>12
  <2>2. o \in Seq(Step) /\ x = o \o y /\ Starts(o, f, rows)
    BY <1>7, <1>11
  <2> QED
    BY <1>11, <1>13, <2>1, <2>2, MayGrow
<1>15. Suits(u, Members(x), f, rows, {}) /\ \A b \in Members(x) : Precedes(b, u)
  <2>1. Precedes(w, u)
    <3>1. Follows(u.row, w.row)
      BY <1>3, <1>4, SameFollows, FollowsSame DEF SameRow
    <3> QED
      BY <1>4, <1>9, <1>10, <3>1 DEF Precedes, Writer, Pooled
  <2>2. Precedes(m, u)
    BY <1>4, <1>10 DEF Precedes, Writer, Pooled, Inserts, Closes
  <2>3. \A b \in Members(x) : b = w \/ b = m
    BY <1>11, <1>14
  <2>4. \A b \in Members(x) : ~ Opens(b)
    BY <1>9, <1>13, <2>3
  <2> QED
    BY <1>10, <2>1, <2>2, <2>3, <2>4
<1>16. Starts(f, f, rows) /\ Shut(f)
  BY <1>4, <1>7, <1>10, <1>14, <1>15, OneGrows
<1> QED
  BY <1>5, <1>16, BeginFamily

(* A completion commits the row, done; then the series goes on, the only   *)
(* child that waited being the one just done.                              *)
LEMMA MarkTaskAsDoneFamily ==
  ASSUME TypeOK, TypeOK', FamilyInv, OneAtATime, NEW p \in Proc, MarkTaskAsDone(p)
  PROVE  FamilyInv'
<1>1. PICK t \in Task :
        /\ Live(rows, t) /\ rows[t].status # "done"
        /\ LET new == [rows[t] EXCEPT !.status = "done"] IN
             Begin(p, "done",
               <<Do("txwrite", t, new, "delete", {"row", "msg"}), Commit>>
               \o (IF new.parent # NoTask
                     THEN <<Do("nextChild", new.parent, new, "none", {})>> ELSE <<>>)
               \o (IF new.rule
                     THEN <<Do("doneChildren", t, new, "none", {})>> ELSE <<>>))
        /\ UNCHANGED rows
  BY DEF MarkTaskAsDone
<1>2. PICK new : new = [rows[t] EXCEPT !.status = "done"]
  OBVIOUS
<1>3. /\ new \in Row /\ new.db = "live" /\ new.parent = rows[t].parent /\ new.status = "done"
      /\ new.rule = rows[t].rule /\ new.conf = rows[t].conf /\ rows[t].db = "live"
  BY <1>1, <1>2, LiveRow DEF Row, Status
<1> DEFINE w == Do("txwrite", t, new, "delete", {"row", "msg"})
           n == Do("nextChild", new.parent, new, "none", {})
           c == Do("doneChildren", t, new, "none", {})
           y == IF new.parent # NoTask THEN <<n>> ELSE <<>>
           z == IF new.rule THEN <<c>> ELSE <<>>
           q == <<w>>
           o == q \o <<Commit>>
           x == o \o y
           f == x \o z
<1>4. /\ w \in Step /\ w.do = "txwrite" /\ w.t = t /\ w.row = new /\ w.msg = "delete"
      /\ "row" \in w.must
      /\ new.parent # NoTask => n \in Step
      /\ n.do = "nextChild" /\ n.msg = "none" /\ n.t = new.parent
      /\ c \in Step /\ c.do = "doneChildren" /\ c.msg = "none"
      /\ Commit \in Step
  <2>1. new.parent \in Task \cup {NoTask}
    BY <1>3 DEF Row
  <2>2. new.parent # NoTask => n \in Step
    BY <1>3, <2>1, DoType DEF Statements
  <2>3. w \in Step /\ c \in Step /\ Commit \in Step
    BY <1>3, DoType, CommitType DEF Statements
  <2>4. /\ w.do = "txwrite" /\ w.t = t /\ w.row = new /\ w.msg = "delete"
        /\ "row" \in w.must
        /\ n.do = "nextChild" /\ n.msg = "none" /\ n.t = new.parent
        /\ c.do = "doneChildren" /\ c.msg = "none"
    BY DEF Do
  <2> QED
    BY <2>2, <2>3, <2>4
<1>5. Begin(p, "done", f) /\ UNCHANGED rows
  <2>1. <<w, Commit>> = o
    OBVIOUS
  <2>2. Begin(p, "done", <<w, Commit>> \o y \o z) /\ UNCHANGED rows
    BY <1>1, <1>2
  <2> HIDE DEF w, o, y, z
  <2> QED
    BY <2>1, <2>2
<1>6. (y = <<>> \/ (y = <<n>> /\ new.parent # NoTask)) /\ (z = <<>> \/ z = <<c>>)
  OBVIOUS
<1>7. q = <<w>> /\ o = q \o <<Commit>> /\ x = o \o y /\ f = x \o z
  OBVIOUS
<1> HIDE DEF w, n, c, y, z, q, o, x, f
<1>8. Family(rows)
  BY DEF FamilyInv
<1>9. Suits(w, {}, f, rows, {})
  <2>1. Follows(w.row, rows[w.t])
    BY <1>3, <1>4 DEF Follows, Kid
  <2>2. \A k \in Kinds, e \in Task : ~ Stray(k, rows, e, w.t, w.row)
    <3>1. \A k : Barren(k, new) <=> Barren(k, rows[t])
      BY <1>3 DEF Barren
    <3> QED
      BY <1>4, <1>8, <3>1 DEF Family, NoStray, Stray
  <2>3. ~ Pooled(w) /\ ~ Lone(w) /\ ~ Inserts(w)
    BY <1>4 DEF Pooled, Lone, Pool, Inserts
  <2>4. rows[w.t].db # "absent" /\ w.do = "txwrite" /\ w.msg # "resched" /\ "row" \in w.must
    BY <1>3, <1>4
  <2> QED
    BY <2>1, <2>2, <2>3, <2>4 DEF Suits
<1>10. q \in Seq(Step) /\ Starts(q, f, rows) /\ Members(q) = {w}
  BY <1>4, <1>7, <1>9, OneStarts
<1>11. /\ o \in Seq(Step) /\ Starts(o, f, rows) /\ Members(o) = {w, Commit} /\ Shut(o)
  <2>1. ~ Barrier(w) /\ ~ Inserts(w) /\ w.do # "nextChild"
    BY <1>4 DEF Barrier, Inserts
  <2>2. Suits(Commit, Members(q), f, rows, {}) /\ \A b \in Members(q) : Precedes(b, Commit)
    BY <1>10, <2>1, CommitSuits
  <2>3. ~ Opens(Commit) /\ Closes(Commit)
    BY CommitSuits
  <2>4. o \in Seq(Step) /\ Starts(o, f, rows) /\ Members(o) = Members(q) \cup {Commit} /\ Shut(o)
    <3>1. Suits(Commit, Members(q), f, rows, {})
      BY <2>2
    <3>2. \A b \in Members(q) : Precedes(b, Commit)
      BY <2>2
    <3>3. q \in Seq(Step) /\ Commit \in Step /\ o = q \o <<Commit>> /\ Starts(q, f, rows)
      BY <1>4, <1>7, <1>10
    <3> QED
      BY <2>3, <3>1, <3>2, <3>3, OneGrows
  <2> QED
    BY <1>10, <2>4
<1>12. new.parent # NoTask => Suits(n, Members(o), f, rows, {})
  <2> SUFFICES ASSUME new.parent # NoTask PROVE Suits(n, Members(o), f, rows, {})
    OBVIOUS
  <2>1. \E b \in Members(o) : Closes(b)
    BY <1>11, CommitSuits
  <2>2. ASSUME NEW e \in Task, rows[e].parent = n.t, Kid("conf", rows[e])
        PROVE  \E b \in Members(o) : Writing(b, e) /\ b.row.status = "done"
    <3>1. Kid("conf", rows[t])
      BY <1>1, <1>3 DEF Kid
    <3>2. e = t
      BY <1>3, <1>4, <1>8, <2>2, <3>1 DEF Family, OneKid
    <3> QED
      BY <1>3, <1>4, <1>11, <3>2 DEF Writing
  <2>3. ~ Opens(n) /\ ~ Closes(n) /\ ~ Writer(n) /\ ~ Pooled(n) /\ ~ Inserts(n)
    BY <1>4 DEF Opens, Closes, Writer, Pooled, Inserts
  <2> QED
    BY <1>4, <2>1, <2>2, <2>3 DEF Suits
<1>13. \A b \in Members(o) : Precedes(b, n) /\ Precedes(b, c)
  <2>1. Precedes(w, n) /\ Precedes(w, c)
    BY <1>4 DEF Precedes, Closes, Pool, Inserts, Writer, Pooled
  <2>2. Precedes(Commit, n) /\ Precedes(Commit, c)
    BY <1>4, CommitSuits
  <2> QED
    BY <1>11, <2>1, <2>2
<1>14. ~ Opens(n) /\ ~ Opens(c)
  BY <1>4 DEF Opens
<1>15. /\ x \in Seq(Step) /\ Starts(x, f, rows) /\ Shut(x)
       /\ \A b \in Members(x) : b \in Members(o) \/ (b = n /\ y = <<n>>)
  <2>1. \/ y = <<>>
        \/ /\ y = <<n>> /\ n \in Step /\ Suits(n, Members(o), f, rows, {})
           /\ \A b \in Members(o) : Precedes(b, n)
    BY <1>4, <1>6, <1>12, <1>13
  <2>2. o \in Seq(Step) /\ x = o \o y /\ Starts(o, f, rows)
    BY <1>7, <1>11
  <2> QED
    BY <1>11, <1>14, <2>1, <2>2, MayGrow
<1>16. Suits(c, Members(x), f, rows, {}) /\ \A b \in Members(x) : Precedes(b, c)
  <2>1. Precedes(n, c)
    BY <1>4 DEF Precedes, Closes, Pool, Inserts, Writer, Pooled
  <2>2. Suits(c, Members(x), f, rows, {})
    BY <1>4 DEF Suits, Opens, Closes, Writer, Pooled, Inserts, Lone, Pool
  <2> QED
    BY <1>13, <1>15, <2>1, <2>2
<1>17. Starts(f, f, rows) /\ Shut(f)
  <2>1. \/ z = <<>>
        \/ /\ z = <<c>> /\ c \in Step /\ Suits(c, Members(x), f, rows, {})
           /\ \A b \in Members(x) : Precedes(b, c)
    BY <1>4, <1>6, <1>16
  <2>2. x \in Seq(Step) /\ f = x \o z /\ Starts(x, f, rows)
    BY <1>7, <1>15
  <2> QED
    BY <1>14, <1>15, <2>1, <2>2, MayGrow
<1> QED
  BY <1>5, <1>17, BeginFamily

(* The job writes rows of the table, none of them over.                    *)
LEMMA RunScheduledReschedulingFamily ==
  ASSUME TypeOK, TypeOK', FamilyInv, OneAtATime, RunScheduledRescheduling PROVE FamilyInv'
<1> DEFINE due == GetTasksNeedingRescheduling(rows, now)
           each(order) == [i \in DOMAIN order |->
                             Do("reschedule", order[i], rows[order[i]], "none", {})]
           last == Do("reschedulecron", NoTask, Absent, "none", {})
<1>1. PICK order \in SetToSeqs(due) :
        plan' = [plan EXCEPT ![Cron] = each(order) \o <<last>>]
  BY DEF RunScheduledRescheduling
<1>2. due \in SUBSET Task
  BY DEF GetTasksNeedingRescheduling
<1>3. ASSUME NEW c \in due
      PROVE  c \in Task /\ rows[c] \in Row /\ rows[c].db = "live" /\ Unfinished(rows[c])
  BY <1>3, RowType DEF GetTasksNeedingRescheduling, Live, Unfinished
<1> DEFINE e == each(order)
           f == e \o <<last>>
<1>4. ASSUME NEW i \in DOMAIN order
      PROVE  /\ e[i] \in Step /\ e[i].do = "reschedule" /\ e[i].t \in Task
             /\ e[i].row = rows[e[i].t] /\ e[i].msg = "none"
             /\ rows[e[i].t].db = "live" /\ Unfinished(e[i].row)
  <2>1. order[i] \in due
    BY <1>2, <1>4, OrderType
  <2>2. e[i] = Do("reschedule", order[i], rows[order[i]], "none", {})
    BY <1>4
  <2> HIDE DEF each, due, e
  <2>3. e[i] \in Step
    BY <1>3, <2>1, <2>2, DoType DEF Statements
  <2>4. e[i].do = "reschedule" /\ e[i].t = order[i] /\ e[i].row = rows[order[i]] /\ e[i].msg = "none"
    BY <2>2 DEF Do
  <2> QED
    BY <1>3, <2>1, <2>3, <2>4
<1>5. e \in Seq(Step)
  BY <1>2, <1>4, ForEachType
<1>6. DOMAIN e = DOMAIN order
  OBVIOUS
<1>7. last \in Step /\ last.do = "reschedulecron" /\ last.msg = "none"
  BY AbsentType DEF Do, Step, Fields
<1>8. plan' = [plan EXCEPT ![Cron] = f] /\ f = e \o <<last>>
  BY <1>1
<1> HIDE DEF each, due, e, last, f
<1>9. Family(rows)
  BY DEF FamilyInv
<1>10. ASSUME NEW i \in DOMAIN e
       PROVE  /\ \A B, g : (\A b \in B : ~ Opens(b)) => Suits(e[i], B, g, rows, {})
              /\ ~ Opens(e[i]) /\ ~ Closes(e[i]) /\ ~ Barrier(e[i]) /\ ~ Pool(e[i])
              /\ ~ Inserts(e[i])
  <2> DEFINE s == e[i]
  <2>1. /\ s.do = "reschedule" /\ s.t \in Task /\ s.row = rows[s.t] /\ s.msg = "none"
        /\ rows[s.t].db = "live" /\ Unfinished(s.row)
    BY <1>4, <1>6, <1>10
  <2> HIDE DEF s
  <2>2. SameRow(s.row, rows[s.t])
    BY <2>1 DEF SameRow
  <2>3. /\ \A B, g : (\A b \in B : ~ Opens(b)) => Suits(s, B, g, rows, {})
        /\ ~ Opens(s) /\ ~ Closes(s) /\ ~ Barrier(s) /\ ~ Pool(s) /\ ~ Inserts(s)
    BY <1>9, <2>1, <2>2, PooledSuits
  <2> QED
    BY <2>3 DEF s
<1>11. ASSUME NEW i \in DOMAIN e, NEW m \in DOMAIN e PROVE Precedes(e[m], e[i])
  <2>1. ASSUME e[m].t = e[i].t PROVE Follows(e[i].row, e[m].row)
    <3>1. e[i].row = rows[e[i].t] /\ e[m].row = rows[e[i].t] /\ rows[e[i].t].db = "live"
      BY <1>4, <1>6, <2>1
    <3> QED
      BY <3>1 DEF Follows
  <2>2. e[m].do = "reschedule"
    BY <1>4, <1>6
  <2> QED
    BY <1>10, <2>1, <2>2 DEF Precedes
<1>12. Starts(e, f, rows) /\ Shut(e)
  <2>1. ASSUME NEW i \in DOMAIN e
        PROVE  /\ Suits(e[i], Before(e, i), f, rows, {})
               /\ \A b \in Before(e, i) : Precedes(b, e[i])
    <3>1. \A b \in Before(e, i) : ~ Opens(b) /\ Precedes(b, e[i])
      BY <1>10, <1>11, <2>1 DEF Before
    <3> QED
      BY <1>10, <3>1
  <2> QED
    BY <1>10, <2>1 DEF Starts, Shut
<1>13. /\ Suits(last, Members(e), f, rows, {}) /\ ~ Opens(last)
       /\ \A b \in Members(e) : Precedes(b, last)
  <2>1. \A b \in Members(e) : ~ Opens(b)
    BY <1>10 DEF Members
  <2>2. Suits(last, Members(e), f, rows, {}) /\ ~ Opens(last)
    BY <1>7, <2>1 DEF Suits, Opens, Closes, Writer, Pooled, Inserts, Alone
  <2>3. \A i \in DOMAIN e : Precedes(e[i], last)
    <3>1. \A i \in DOMAIN e : e[i].do = "reschedule"
      BY <1>4, <1>6
    <3> QED
      BY <1>7, <1>10, <3>1 DEF Precedes, Inserts, Writer, Pooled
  <2> QED
    BY <2>2, <2>3 DEF Members
<1>14. Starts(f, f, rows) /\ Shut(f)
  BY <1>5, <1>7, <1>8, <1>12, <1>13, OneGrows
<1>15. PICK r2 : r2 = rows' /\ r2 = rows
  BY DEF RunScheduledRescheduling
<1>16. /\ Cron \in Proc /\ Idle(Cron) /\ Cardinality(InFlight) < MaxInFlight
       /\ UNCHANGED <<held, dirty>>
  BY DEF RunScheduledRescheduling, Proc
<1> QED
  BY <1>8, <1>9, <1>14, <1>15, <1>16, StartsFamily

(* What an update that sets no rule makes of a row, and what is told of    *)
(* it.                                                                     *)
Updates(old, new, why) ==
  /\ old \in Row /\ new \in Row /\ old.db = "live" /\ new.db = "live"
  /\ Follows(new, old)
  /\ "confRemoved" \in why <=> old.conf /\ ~ new.conf
  /\ "ruleRemoved" \in why <=> old.rule /\ old.conf /\ ~ new.rule

(* An update is of that kind when it sets no rule.                         *)
LEMMA UpdatedFamily ==
  ASSUME NoNewRule, NEW old \in Row, old.db = "live", old.status # "done",
         NEW u \in PutRequests, NEW new, new = applyUpdate(old, u)
  PROVE  Updates(old, new, changesOf(old, new, u))
<1>1. u \in Put /\ u.rule # "set"
  BY ServiceAssumption DEF NoNewRule
<1>2. new \in Row
  BY <1>1, UpdatedType
<1> DEFINE st == IF u.status = "keep" THEN old.status ELSE u.status
           sd == IF u.start = -1 THEN old.start ELSE u.start
           ru == IF u.rule = "keep" THEN old.rule ELSE u.rule = "set"
           co == IF u.conf = "keep" THEN old.conf ELSE u.conf = "on"
           mu == IF u.muted = "keep" THEN old.muted ELSE u.muted = "on"
<1>3. new = [old EXCEPT !.status = st, !.start = sd, !.rule = ru, !.conf = co, !.muted = mu]
  BY DEF applyUpdate
<1>4. ru => old.rule
  BY <1>1
<1>5. NoRevival /\ st \notin {"done", "deleted"} => old.status \notin {"done", "deleted"}
  <2>1. NoRevival => u.status \in {"keep", "done", "deleted"}
    BY DEF NoRevival
  <2> QED
    BY <2>1
<1> HIDE DEF st, sd, ru, co, mu
<1>6. new.db = old.db /\ new.parent = old.parent /\ new.status = st /\ new.rule = ru
  BY <1>3 DEF Row
<1>7. Follows(new, old)
  <2>1. Kid("conf", new) => Kid("conf", old)
    BY DEF Kid
  <2>2. Kid("rule", new) => Kid("rule", old)
    BY <1>5, <1>6 DEF Kid
  <2> QED
    BY <1>4, <1>6, <2>1, <2>2 DEF Follows, Kinds
<1>8. /\ "confRemoved" \in changesOf(old, new, u) <=> old.conf /\ ~ new.conf
      /\ "ruleRemoved" \in changesOf(old, new, u) <=> old.rule /\ old.conf /\ ~ new.rule
  BY DEF changesOf, Changes, isRecurrenceParentWithConfirmation
<1> QED
  BY <1>2, <1>6, <1>7, <1>8 DEF Updates

(* Whom the updated row may leave without a parent: only children that the *)
(* update removes.                                                         *)
LEMMA UpdateStrays ==
  ASSUME NEW r, Family(r), NEW t \in Task, NEW old, old = r[t], NEW new, NEW why,
         Updates(old, new, why), NEW k \in Kinds, NEW c \in Task, Stray(k, r, c, t, new)
  PROVE  old.rule /\ old.conf /\ Undoes(k) \cap why # {}
<1>1. ~ Stray("conf", r, c, t, old) /\ ~ Stray("rule", r, c, t, old)
  BY DEF Family, NoStray, Kinds
<1>2. Kid("conf", r[c])
  BY DEF Stray, Kid
<1>3. ~ (old.rule /\ ~ old.conf)
  BY <1>1, <1>2 DEF Stray, Barren
<1>4. CASE k = "conf"
  <2>1. new.rule /\ ~ new.conf
    BY <1>4 DEF Stray, Barren, Updates
  <2>2. old.rule
    BY <2>1 DEF Updates, Follows
  <2>3. old.conf /\ "confRemoved" \in why
    BY <1>3, <2>1, <2>2 DEF Updates
  <2> QED
    BY <1>4, <2>2, <2>3 DEF Undoes
<1>5. CASE k = "rule"
  <2>1. ~ new.rule
    BY <1>5 DEF Stray, Barren, Updates
  <2>2. old.rule
    BY <1>1, <1>5 DEF Stray, Barren
  <2>3. old.conf /\ "ruleRemoved" \in why
    BY <1>3, <2>1, <2>2 DEF Updates
  <2> QED
    BY <1>5, <2>2, <2>3 DEF Undoes
<1> QED
  BY <1>4, <1>5 DEF Kinds

(* The statements an update is made of.                                    *)
UpdateSteps(t, new, why, w, x, del, res, sync, spawn) ==
  /\ w \in Step /\ w.do = "write" /\ w.t = t /\ w.row = new /\ w.msg = "none"
  /\ x \in Step /\ x.do = "txwrite" /\ x.t = t /\ x.row = new /\ x.msg = "none"
  /\ "row" \in x.must
  /\ del \in Step /\ del.do = "publish" /\ del.msg = "delete"
  /\ res \in Step /\ res.do = "resched" /\ res.t = t /\ res.row = new /\ res.msg = "resched"
  /\ sync \in Step /\ sync.do = "sync" /\ sync.t = t /\ sync.row = new /\ sync.msg = "none"
  /\ "row" \in sync.must /\ sync.why = why
  /\ spawn \in Step /\ spawn.do = "spawn" /\ spawn.t = t /\ spawn.row = new
  /\ spawn.msg = "schedule"

(* The list of an update of a task without children: the row is written,   *)
(* then its messages are sent.                                             *)
DirectList(f, w, own, del, res) ==
  own \in Seq(Step) /\ (\A i \in DOMAIN own : own[i] \in {del, res}) /\ f = <<w>> \o own

(* Such a list suits the table.                                            *)
LEMMA DirectUpdateFamily ==
  ASSUME NEW r, Family(r), NEW t \in Task, NEW old, old = r[t], NEW new, NEW why,
         Updates(old, new, why), ~ (old.rule /\ old.conf),
         NEW w, NEW x, NEW del, NEW res, NEW sync, NEW spawn,
         UpdateSteps(t, new, why, w, x, del, res, sync, spawn),
         NEW own, NEW f, DirectList(f, w, own, del, res)
  PROVE  Starts(f, f, r) /\ Shut(f)
<1>1. /\ w.do = "write" /\ w.t = t /\ w.row = new /\ w.msg = "none" /\ w \in Step
      /\ del.do = "publish" /\ del.msg = "delete"
      /\ res.do = "resched" /\ res.t = t /\ res.row = new /\ res.msg = "resched"
  BY DEF UpdateSteps
<1>2. \A k \in Kinds, c \in Task : ~ Stray(k, r, c, t, new)
  BY UpdateStrays
<1>3. Follows(new, old) /\ Follows(new, new) /\ r[t].db # "absent"
  BY DEF Updates, Follows
<1>4. ASSUME NEW s \in {w, res}
      PROVE  /\ \A B, g : (\A b \in B : ~ Opens(b)) => Suits(s, B, g, r, {})
             /\ ~ Opens(s) /\ ~ Closes(s) /\ ~ Pool(s) /\ ~ Inserts(s)
             /\ s.do \in {"write", "resched"}
  <2>1. s.do \in {"write", "resched"} /\ s.t = t /\ s.row = new
    BY <1>1, <1>4
  <2>2. ~ Opens(s) /\ ~ Closes(s) /\ ~ Pool(s) /\ ~ Inserts(s)
    BY <2>1 DEF Opens, Closes, Pool, Inserts
  <2>3. ASSUME NEW B, NEW g, \A b \in B : ~ Opens(b) PROVE Suits(s, B, g, r, {})
    <3>1. Alone(B, {})
      BY <2>3 DEF Alone
    <3>2. Follows(s.row, r[s.t]) /\ r[s.t].db # "absent"
      BY <1>3, <2>1
    <3>3. \A k \in Kinds, c \in Task : ~ Stray(k, r, c, s.t, s.row)
      BY <1>2, <2>1
    <3> QED
      BY <2>1, <2>2, <3>1, <3>2, <3>3 DEF Suits, Lone
  <2> QED
    BY <2>1, <2>2, <2>3
<1>5. ASSUME NEW a \in {w, res}, NEW b \in {w, res} PROVE Precedes(a, b)
  <2>1. Follows(b.row, a.row)
    BY <1>1, <1>3, <1>5
  <2>2. a.do \in {"write", "resched"} /\ ~ Closes(a) /\ ~ Pool(a) /\ ~ Inserts(a) /\ ~ Inserts(b)
    BY <1>4, <1>5
  <2> QED
    BY <2>1, <2>2 DEF Precedes
<1>6. ASSUME NEW a \in {w, del, res}, NEW b \in {w, del, res} PROVE Precedes(a, b)
  <2>1. a.do # "doneChildren"
    BY <1>1, <1>6
  <2>2. CASE a = del \/ b = del
    BY <1>1, <2>1, <2>2, MildSuits
  <2>3. CASE a \in {w, res} /\ b \in {w, res}
    BY <1>5, <2>3
  <2> QED
    BY <1>6, <2>2, <2>3
<1>7. ASSUME NEW s \in {w, del, res}, NEW B \in SUBSET {w, del, res}
      PROVE  Suits(s, B, f, r, {}) /\ ~ Opens(s)
  <2>1. \A b \in {w, del, res} : ~ Opens(b)
    BY <1>1, <1>4, MildSuits
  <2>2. CASE s = del
    BY <1>1, <2>2, MildSuits
  <2>3. CASE s \in {w, res}
    BY <1>4, <2>1, <2>3
  <2> QED
    BY <1>7, <2>2, <2>3
<1> DEFINE o == <<w>>
<1>8. o \in Seq(Step) /\ DOMAIN o = {1} /\ o[1] = w /\ f = o \o own
  BY <1>1, SingletonType DEF DirectList
<1> HIDE DEF o
<1>9. Joined(o, own, f)
  BY <1>8, ConcatParts DEF DirectList
<1>10. \A i \in DOMAIN f : f[i] \in {w, del, res}
  BY <1>8, <1>9 DEF Joined, DirectList
<1>11. ASSUME NEW i \in DOMAIN f
       PROVE  /\ Suits(f[i], Before(f, i), f, r, {}) /\ ~ Opens(f[i])
              /\ \A b \in Before(f, i) : Precedes(b, f[i])
  <2>1. Before(f, i) \in SUBSET {w, del, res}
    BY <1>10 DEF Before
  <2> QED
    BY <1>6, <1>7, <1>10, <2>1
<1> QED
  BY <1>11 DEF Starts, Shut

(* Where a statement is in a list: after those of a.                       *)
Placed(f, a, s) ==
  \E j \in DOMAIN f : f[j] = s /\ \A m \in DOMAIN f : m < j => \E i \in DOMAIN a : f[m] = a[i]

(* The statement between two lists comes after those of the first.         *)
LEMMA MiddlePlace ==
  ASSUME NEW a \in Seq(Step), NEW s \in Step, NEW b \in Seq(Step), NEW g, g = a \o <<s>>,
         NEW f, f = g \o b
  PROVE  Placed(f, a, s)
<1>1. g \in Seq(Step)
  BY LastParts
<1>2. Len(a) \in Nat /\ Len(g) = Len(a) + 1 /\ g[Len(a) + 1] = s
      /\ \A i \in 1..Len(a) : g[i] = a[i]
  <2> DEFINE o == <<s>>
  <2>1. o \in Seq(Step) /\ Len(o) = 1 /\ o[1] = s /\ g = a \o o
    OBVIOUS
  <2> HIDE DEF o
  <2>2. /\ Len(g) = Len(a) + Len(o)
        /\ \A i \in 1..Len(g) : g[i] = IF i <= Len(a) THEN a[i] ELSE o[i - Len(a)]
    BY <2>1, ConcatProperties
  <2>3. Len(a) \in Nat
    BY LenProperties
  <2> QED
    BY <2>1, <2>2, <2>3
<1>3. /\ f \in Seq(Step) /\ Len(f) = Len(g) + Len(b) /\ Len(b) \in Nat
      /\ \A i \in 1..Len(f) : f[i] = IF i <= Len(g) THEN g[i] ELSE b[i - Len(g)]
  BY <1>1, ConcatProperties, LenProperties
<1>4. DOMAIN f = 1..Len(f) /\ DOMAIN a = 1..Len(a)
  BY <1>3, LenProperties
<1> DEFINE n == Len(a)
           j == n + 1
<1>5. n \in Nat /\ Len(g) = j /\ j \in 1..Len(f)
  BY <1>2, <1>3
<1>6. f[j] = s
  BY <1>2, <1>3, <1>5
<1>7. ASSUME NEW m \in DOMAIN f, m < j PROVE \E i \in DOMAIN a : f[m] = a[i]
  <2>1. m \in 1..n
    BY <1>4, <1>5, <1>7
  <2>2. f[m] = g[m] /\ g[m] = a[m]
    BY <1>2, <1>3, <1>4, <1>5, <2>1
  <2> QED
    BY <1>4, <2>1, <2>2
<1> QED
  BY <1>4, <1>5, <1>6, <1>7 DEF Placed

(* The list of statements of an update in a transaction.                   *)
UpdateList(f, x, own, sync, post, del, res, spawn, old, new) ==
  /\ own \in Seq(Step) /\ (\A i \in DOMAIN own : own[i] \in {del, res})
  /\ (post = <<>> \/ (post = <<del, spawn>> /\ new.rule /\ new.conf /\ ~ old.conf))
  /\ f = <<x>> \o own \o <<sync>> \o post

(* A parent is written in a transaction that ends by doing to its children *)
(* what was done to it; its first child, if it now waits for the user, is  *)
(* inserted after the commit.                                              *)
LEMMA TxUpdateFamily ==
  ASSUME NEW r, Family(r), NEW t \in Task, NEW old, old = r[t], NEW new, NEW why,
         Updates(old, new, why),
         NEW w, NEW x, NEW del, NEW res, NEW sync, NEW spawn,
         UpdateSteps(t, new, why, w, x, del, res, sync, spawn),
         NEW own, NEW post, NEW f,
         UpdateList(f, x, own, sync, post, del, res, spawn, old, new)
  PROVE  Starts(f, f, r) /\ Shut(f)
<1>1. /\ x \in Step /\ x.do = "txwrite" /\ x.t = t /\ x.row = new /\ x.msg = "none"
      /\ "row" \in x.must
      /\ del \in Step /\ del.do = "publish" /\ del.msg = "delete"
      /\ res.do = "resched" /\ res.t = t /\ res.row = new /\ res.msg = "resched"
  BY DEF UpdateSteps
<1>2. /\ sync \in Step /\ sync.do = "sync" /\ sync.t = t /\ sync.row = new /\ sync.msg = "none"
      /\ "row" \in sync.must /\ sync.why = why
      /\ spawn \in Step /\ spawn.do = "spawn" /\ spawn.t = t /\ spawn.row = new
      /\ spawn.msg = "schedule"
  BY DEF UpdateSteps
<1>3. /\ Follows(new, old) /\ Follows(new, new) /\ r[t].db # "absent" /\ r[t].db = "live"
      /\ new.db = "live"
  BY DEF Updates, Follows
<1> DEFINE one == <<x>>
           pre == one \o own
           mid == pre \o <<sync>>
<1>4. f = mid \o post /\ pre = one \o own /\ mid = pre \o <<sync>> /\ one = <<x>>
  BY DEF UpdateList
<1>5. /\ own \in Seq(Step) /\ (\A i \in DOMAIN own : own[i] \in {del, res})
       /\ (post = <<>> \/ (post = <<del, spawn>> /\ new.rule /\ new.conf /\ ~ old.conf))
  BY DEF UpdateList
<1> HIDE DEF one, pre, mid
<1>6. one \in Seq(Step) /\ DOMAIN one = {1} /\ one[1] = x
  BY <1>1, <1>4, SingletonType
<1>7. pre \in Seq(Step) /\ \A i \in DOMAIN pre : pre[i] \in {x, del, res}
  <2>1. pre \in Seq(Step) /\ Joined(one, own, pre)
    BY <1>4, <1>6, <1>5, ConcatParts
  <2> QED
    BY <1>6, <1>5, <2>1 DEF Joined
<1>8. post \in Seq(Step)
  <2>1. <<del, spawn>> \in Seq(Step)
    BY <1>1, <1>2
  <2> QED
    BY <1>5, <2>1, EmptyPlanType
<1>9. /\ ~ Barrier(x) /\ ~ Closes(x) /\ ~ Pool(x) /\ ~ Inserts(x) /\ ~ Pooled(x) /\ ~ Lone(x)
      /\ ~ Opens(res) /\ ~ Barrier(res) /\ ~ Closes(res) /\ ~ Pool(res) /\ ~ Inserts(res)
      /\ ~ Lone(res)
      /\ ~ Opens(del) /\ ~ Barrier(del)
  BY <1>1 DEF Opens, Barrier, Closes, Pool, Inserts, Pooled, Lone
<1>10. ASSUME NEW k \in Kinds, NEW c \in Task, Stray(k, r, c, t, new) PROVE WillRemove(k, f, c, t)
  <2>1. PICK j \in DOMAIN f : /\ f[j] = sync
                              /\ \A m \in DOMAIN f : m < j => \E i \in DOMAIN pre : f[m] = pre[i]
    <3>1. /\ pre \in Seq(Step) /\ sync \in Step /\ post \in Seq(Step)
          /\ mid = pre \o <<sync>> /\ f = mid \o post
      BY <1>2, <1>4, <1>7, <1>8
    <3>2. Placed(f, pre, sync)
      BY <3>1, MiddlePlace
    <3> QED
      BY <3>2 DEF Placed
  <2>2. \A m \in DOMAIN f : m < j => ~ Barrier(f[m])
    <3>1. \A i \in DOMAIN pre : ~ Barrier(pre[i])
      BY <1>7, <1>9
    <3> QED
      BY <2>1, <3>1
  <2>3. Undoes(k) \cap why # {}
    BY <1>10, UpdateStrays
  <2>4. Removes(k, sync, c, t)
    BY <1>2, <2>3 DEF Removes
  <2> QED
    BY <2>1, <2>2, <2>4 DEF WillRemove
<1>11. Suits(x, {}, f, r, {})
  <2>1. Follows(x.row, r[x.t]) /\ r[x.t].db # "absent"
    BY <1>1, <1>3
  <2>2. \A k \in Kinds, c \in Task : Stray(k, r, c, x.t, x.row) => WillRemove(k, f, c, x.t)
    BY <1>1, <1>10
  <2> QED
    BY <1>1, <1>9, <2>1, <2>2 DEF Suits
<1>12. ASSUME NEW B, x \in B PROVE Suits(res, B, f, r, {})
  <2>1. Follows(res.row, r[res.t]) /\ r[res.t].db # "absent"
    BY <1>1, <1>3
  <2>2. Kept(res.t, B, r, {})
    BY <1>1, <1>12 DEF Kept, Writing
  <2> QED
    BY <1>1, <1>9, <2>1, <2>2 DEF Suits
<1>13. ASSUME NEW B \in SUBSET {x, del, res}, x \in B PROVE Suits(sync, B, f, r, {})
  <2>1. Follows(sync.row, r[sync.t]) /\ r[sync.t].db # "absent"
    BY <1>2, <1>3
  <2>2. Kept(sync.t, B, r, {})
    BY <1>1, <1>2, <1>13 DEF Kept, Writing
  <2>3. \A b \in B : Opens(b) => Writing(b, sync.t)
    BY <1>1, <1>2, <1>9 DEF Writing
  <2>4. ~ Pooled(sync) /\ ~ Inserts(sync) /\ ~ Lone(sync)
    BY <1>2 DEF Pooled, Inserts, Lone, Pool
  <2> QED
    BY <1>2, <2>1, <2>2, <2>3, <2>4 DEF Suits
<1>14. /\ Precedes(x, res) /\ Precedes(res, res) /\ Precedes(x, sync) /\ Precedes(res, sync)
  <2>1. \A a, b \in {x, res, sync} : Follows(b.row, a.row)
    BY <1>1, <1>2, <1>3
  <2>2. ~ Inserts(sync) /\ x.do # "nextChild" /\ res.do # "nextChild"
    BY <1>1, <1>2 DEF Inserts
  <2>3. x.do # "doneChildren" /\ res.do # "doneChildren"
    BY <1>1
  <2> QED
    BY <1>9, <2>1, <2>2, <2>3 DEF Precedes
<1>15. \A a, b \in {x, del, res} : b # x => Precedes(a, b)
  <2>1. Precedes(x, del) /\ Precedes(res, del) /\ Precedes(del, del) /\ Precedes(del, res)
    BY <1>1, MildSuits
  <2> QED
    BY <1>14, <2>1
<1>16. Precedes(del, sync)
  BY <1>1, MildSuits
<1>17. del # x /\ res # x
  BY <1>1
<1>18. Starts(pre, f, r) /\ x \in Members(pre) /\ Members(pre) \subseteq {x, del, res}
  <2>1. Starts(one, f, r) /\ Members(one) = {x}
    BY <1>1, <1>4, <1>11, OneStarts
  <2>2. ASSUME NEW i \in DOMAIN own
        PROVE  /\ Suits(own[i], Members(one) \cup Before(own, i), f, r, {})
               /\ \A b \in Members(one) \cup Before(own, i) : Precedes(b, own[i])
    <3>1. \A b \in Members(one) \cup Before(own, i) : b \in {x, del, res}
      BY <1>5, <2>1 DEF Before
    <3>2. x \in Members(one) \cup Before(own, i)
      BY <2>1
    <3>3. CASE own[i] = del
      BY <1>1, <1>15, <1>17, <3>1, <3>3, MildSuits
    <3>4. CASE own[i] = res
      BY <1>12, <1>15, <1>17, <3>1, <3>2, <3>4
    <3> QED
      BY <1>5, <3>3, <3>4
  <2>3. Grown(pre, one, own, f, r)
    BY <1>4, <1>6, <1>7, <1>5, <2>1, <2>2, ListGrows
  <2>4. Members(own) \subseteq {del, res}
    BY <1>5 DEF Members
  <2> QED
    BY <2>1, <2>3, <2>4 DEF Grown
<1>19. /\ mid \in Seq(Step) /\ Starts(mid, f, r) /\ Shut(mid)
       /\ Members(mid) = Members(pre) \cup {sync}
  <2>1. Suits(sync, Members(pre), f, r, {})
    BY <1>13, <1>18
  <2>2. \A b \in Members(pre) : Precedes(b, sync)
    BY <1>14, <1>16, <1>18
  <2>3. ~ Opens(sync) /\ Closes(sync)
    BY <1>2 DEF Opens, Closes
  <2>4. pre \in Seq(Step) /\ sync \in Step /\ mid = pre \o <<sync>> /\ Starts(pre, f, r)
    BY <1>2, <1>4, <1>7, <1>18
  <2>5. /\ mid \in Seq(Step) /\ Starts(mid, f, r) /\ Members(mid) = Members(pre) \cup {sync}
        /\ ~ Opens(sync) /\ (Shut(pre) \/ Closes(sync)) => Shut(mid)
    BY <2>1, <2>2, <2>4, OneGrows
  <2> QED
    BY <2>3, <2>5
<1>20. CASE post = <<>>
  <2>1. f = mid
    BY <1>4, <1>19, <1>20, ConcatEmptySeq
  <2> QED
    BY <1>19, <2>1
<1>21. CASE post = <<del, spawn>> /\ new.rule /\ new.conf /\ ~ old.conf
  <2> DEFINE y == mid \o <<del>>
  <2>1. y = mid \o <<del>>
    OBVIOUS
  <2>2. f = y \o <<spawn>>
    <3>1. <<del>> \in Seq(Step) /\ <<spawn>> \in Seq(Step)
      BY <1>1, <1>2, SingletonType
    <3>2. post = <<del>> \o <<spawn>>
      BY <1>21
    <3> DEFINE d == <<del>>
               e == <<spawn>>
    <3>3. d \in Seq(Step) /\ e \in Seq(Step) /\ post = d \o e /\ y = mid \o d
      BY <2>1, <3>1, <3>2
    <3> HIDE DEF y, d, e
    <3>4. (mid \o d) \o e = mid \o (d \o e)
      BY <1>19, <3>3, ConcatAssociative
    <3>5. f = y \o e
      BY <1>4, <3>3, <3>4
    <3> QED
      BY <3>5 DEF e
  <2> HIDE DEF y
  <2>3. \A b \in Members(mid) : b \in {x, del, res, sync}
    BY <1>18, <1>19
  <2>4. /\ y \in Seq(Step) /\ Starts(y, f, r) /\ Shut(y) /\ Members(y) = Members(mid) \cup {del}
    <3>1. \A b \in Members(mid) : b.do # "doneChildren"
      BY <1>1, <1>2, <2>3
    <3>2. Suits(del, Members(mid), f, r, {})
      BY <1>1, MildSuits
    <3>3. \A b \in Members(mid) : Precedes(b, del)
      BY <1>1, <3>1, MildSuits
    <3>4. mid \in Seq(Step) /\ del \in Step /\ y = mid \o <<del>> /\ Starts(mid, f, r)
      BY <1>1, <1>19, <2>1
    <3>5. /\ y \in Seq(Step) /\ Starts(y, f, r) /\ Members(y) = Members(mid) \cup {del}
          /\ ~ Opens(del) /\ (Shut(mid) \/ Closes(del)) => Shut(y)
      BY <3>2, <3>3, <3>4, OneGrows
    <3> QED
      BY <1>9, <1>19, <3>5
  <2>5. \A b \in Members(y) : b \in {x, del, res, sync}
    BY <2>3, <2>4
  <2>6. x \in Members(y) /\ sync \in Members(y)
    BY <1>18, <1>19, <2>4
  <2>7. Suits(spawn, Members(y), f, r, {})
    <3>1. \E b \in Members(y) : Closes(b)
      BY <1>2, <2>6 DEF Closes
    <3>2. \E b \in Members(y) : Writing(b, spawn.t)
      BY <1>1, <1>2, <2>6 DEF Writing
    <3>3. \A c \in Task : r[c].parent = spawn.t => ~ Kid("conf", r[c])
      <4>1. Barren("conf", old)
        BY <1>21 DEF Barren, Updates, Follows
      <4> QED
        BY <1>2, <4>1 DEF Family, NoStray, Stray, Kinds
    <3>4. r[spawn.t].db = "live"
      BY <1>2, <1>3
    <3>5. ~ Opens(spawn) /\ ~ Closes(spawn) /\ ~ Writer(spawn) /\ ~ Pooled(spawn)
      BY <1>2 DEF Opens, Closes, Writer, Pooled
    <3> QED
      BY <1>2, <3>1, <3>2, <3>3, <3>4, <3>5 DEF Suits
  <2>8. \A b \in Members(y) : Precedes(b, spawn)
    <3>1. Parental(new)
      BY <1>3, <1>21 DEF Parental
    <3>2. Undoes("rule") \cap sync.why = {}
      BY <1>2, <1>21 DEF Undoes, Updates
    <3>3. ~ Writer(spawn)
      BY <1>2 DEF Writer, Pooled
    <3>4. Precedes(x, spawn)
      BY <1>1, <1>9, <3>1, <3>3 DEF Precedes
    <3>5. Precedes(res, spawn)
      BY <1>1, <1>9, <3>1, <3>3 DEF Precedes
    <3>6. Precedes(del, spawn)
      BY <1>1, MildSuits
    <3>7. Precedes(sync, spawn)
      BY <1>2, <3>1, <3>2, <3>3 DEF Precedes, Pool, Inserts
    <3> QED
      BY <2>5, <3>4, <3>5, <3>6, <3>7
  <2>9. ~ Opens(spawn)
    BY <1>2 DEF Opens
  <2>10. y \in Seq(Step) /\ spawn \in Step /\ f = y \o <<spawn>> /\ Starts(y, f, r) /\ Shut(y)
    BY <1>2, <2>2, <2>4
  <2> QED
    BY <2>7, <2>8, <2>9, <2>10, OneGrows
<1> QED
  BY <1>20, <1>21, <1>5

(* The statements of an update suit the table.                             *)
LEMMA UpdatePlanFamily ==
  ASSUME NoNewRule, NEW r, Family(r), NEW t \in Task, NEW old \in Row, old = r[t],
         old.db = "live", old.status # "done",
         NEW u \in PutRequests, NEW new, new = applyUpdate(old, u),
         NEW f, f = updatePlan(t, old, new, u)
  PROVE  Starts(f, f, r) /\ Shut(f)
<1> DEFINE why       == changesOf(old, new, u)
           isParent  == isRecurrenceParentWithConfirmation(new)
           wasParent == isRecurrenceParentWithConfirmation(old)
           own       == IF isParent THEN <<>> ELSE ownMessages(t, old, new, u)
           sync      == [Do("sync", t, new, "none", {"row"}) EXCEPT !.why = why]
           spawn     == Do("spawn", t, new, "schedule", {})
           del       == Publish(t, new, "delete", {})
           res       == Do("resched", t, new, "resched", {})
           w         == Do("write", t, new, "none", {"row"})
           x         == Do("txwrite", t, new, "none", {"row"})
           post      == IF isParent /\ ~old.conf THEN <<del, spawn>> ELSE <<>>
<1>1. Updates(old, new, why) /\ u \in Put
  BY UpdatedFamily, ServiceAssumption
<1>2. new \in Row
  BY <1>1 DEF Updates
<1>3. /\ del \in Step /\ del.do = "publish" /\ del.msg = "delete"
      /\ res \in Step /\ res.do = "resched" /\ res.t = t /\ res.row = new
      /\ res.msg = "resched"
      /\ w \in Step /\ w.do = "write" /\ w.t = t /\ w.row = new /\ w.msg = "none"
      /\ x \in Step /\ x.do = "txwrite" /\ x.t = t /\ x.row = new /\ x.msg = "none"
      /\ "row" \in x.must
      /\ spawn \in Step /\ spawn.do = "spawn" /\ spawn.t = t /\ spawn.row = new
      /\ spawn.msg = "schedule"
  BY <1>2, DoType DEF Do, Publish, Statements
<1>4. /\ sync \in Step /\ sync.do = "sync" /\ sync.t = t /\ sync.row = new
      /\ sync.msg = "none" /\ "row" \in sync.must /\ sync.why = why
  <2>1. why \in SUBSET Changes
    BY DEF changesOf
  <2> HIDE DEF why
  <2> QED
    BY <1>2, <2>1 DEF Do, Step, Fields, Statements
<1>5. own \in Seq(Step) /\ \A i \in DOMAIN own : own[i] \in {del, res}
  <2>1. CASE isParent
    BY <2>1, EmptyPlanType
  <2>2. CASE ~ isParent
    <3>1. own = ownMessages(t, old, new, u)
      BY <2>2
    <3> QED
      BY <1>1, <1>2, <3>1, OwnParts
  <2> QED
    BY <2>1, <2>2
<1>6. f = IF ~isParent /\ ~wasParent THEN <<w>> \o own
          ELSE <<x>> \o own \o <<sync>> \o post
  BY DEF updatePlan
<1>7. /\ isParent <=> new.conf /\ new.rule
      /\ wasParent <=> old.conf /\ old.rule
  BY DEF isRecurrenceParentWithConfirmation
<1>8. post = <<>> \/ (post = <<del, spawn>> /\ isParent /\ ~ old.conf)
  OBVIOUS
<1> HIDE DEF why, isParent, wasParent, own, sync, spawn, del, res, w, x, post
<1>9. UpdateSteps(t, new, why, w, x, del, res, sync, spawn)
  BY <1>3, <1>4 DEF UpdateSteps
<1>10. CASE ~isParent /\ ~wasParent
  <2>1. f = <<w>> \o own /\ ~ (old.rule /\ old.conf)
    BY <1>6, <1>7, <1>10
  <2>2. DirectList(f, w, own, del, res)
    BY <1>5, <2>1 DEF DirectList
  <2> QED
    BY <1>1, <1>9, <2>1, <2>2, DirectUpdateFamily
<1>11. CASE isParent \/ wasParent
  <2>1. f = <<x>> \o own \o <<sync>> \o post
    BY <1>6, <1>11
  <2>2. UpdateList(f, x, own, sync, post, del, res, spawn, old, new)
    BY <1>5, <1>7, <1>8, <2>1 DEF UpdateList
  <2> QED
    BY <1>1, <1>9, <2>2, TxUpdateFamily
<1> QED
  BY <1>10, <1>11

(* An update that sets no rule.                                            *)
LEMMA UpdateTaskFamily ==
  ASSUME TypeOK, TypeOK', FamilyInv, OneAtATime, NoNewRule, NEW p \in Proc, UpdateTask(p)
  PROVE  FamilyInv'
<1>1. PICK t \in Task, u \in PutRequests :
        /\ GetTaskByID(rows, t)
        /\ Begin(p, "update", updatePlan(t, rows[t], applyUpdate(rows[t], u), u))
        /\ UNCHANGED rows
  BY DEF UpdateTask
<1>2. rows[t] \in Row /\ rows[t].db = "live" /\ rows[t].status # "done"
  BY <1>1, RowType DEF GetTaskByID, Live
<1>3. Family(rows)
  BY DEF FamilyInv
<1>4. PICK old, new, f : /\ old = rows[t] /\ new = applyUpdate(old, u)
                         /\ f = updatePlan(t, old, new, u)
  OBVIOUS
<1>5. Starts(f, f, rows) /\ Shut(f)
  BY <1>2, <1>3, <1>4, UpdatePlanFamily
<1>6. Begin(p, "update", f) /\ UNCHANGED rows
  BY <1>1, <1>4
<1> QED
  BY <1>5, <1>6, BeginFamily

-----------------------------------------------------------------------------
(* Every step.                                                             *)

(* A handler that waits for a row is at a statement.                       *)
LEMMA DeadlockDetectedFamily ==
  ASSUME TypeOK, TypeOK', FamilyInv, NEW p \in Proc, DeadlockDetected(p) PROVE FamilyInv'
<1>1. PICK q \in Proc : WaitsFor(p, q)
  BY DEF DeadlockDetected
<1>2. ~Idle(p)
  BY <1>1 DEF WaitsFor, Wanted, At
<1>3. Abort(p) /\ UNCHANGED rows
  BY DEF DeadlockDetected
<1> QED
  BY <1>2, <1>3, AbortFamily

(* No handler has begun, and every row is absent.                          *)
LEMMA InitFamily == Init => FamilyInv
<1> SUFFICES ASSUME Init PROVE FamilyInv
  OBVIOUS
<1>1. \A p \in Proc : plan[p] = <<>> /\ held[p] = {}
  BY DEF Init
<1>2. \A t \in Task : rows[t] = Absent
  BY DEF Init
<1>3. \A k \in Kinds, t \in Task : ~ Kid(k, rows[t])
  BY <1>2 DEF Absent, Kid
<1>4. \A t \in Task : t # NoTask /\ rows[t].parent = NoTask
  BY <1>2, RowsAssumption DEF Task, Absent, NoTask
<1>5. Family(rows)
  BY <1>3, <1>4 DEF Family, OneKid, NoStray, Stray, PlainKids, OwnParents
<1>6. rows \in [Task -> Row]
  BY AbsentType DEF Init
<1>7. \A p \in Proc : FamilyFits(plan[p], rows, held[p], dirty[p])
  BY <1>1, <1>5, <1>6, IdleFamily
<1> QED
  BY <1>1, <1>5, <1>7 DEF FamilyInv, OneInFlight, Idle

(* Every step keeps the families.                                          *)
LEMMA NextFamily ==
  ASSUME OneAtATime, NoNewRule
  PROVE  TypeOK /\ TypeOK' /\ FamilyInv /\ [Next]_vars => FamilyInv'
<1> SUFFICES ASSUME TypeOK, TypeOK', FamilyInv, [Next]_vars PROVE FamilyInv'
  OBVIOUS
<1>1. ASSUME UNCHANGED <<rows, plan, held, dirty>> PROVE FamilyInv'
  BY <1>1 DEF FamilyInv, OneInFlight, Idle
<1>2. ASSUME NEW p \in Proc, Request(p) PROVE FamilyInv'
  BY <1>2, CreateTaskFamily, UpdateTaskFamily, DeleteTaskFamily, QueueTaskFamily,
     MuteTaskFamily, UnmuteTaskFamily, MarkTaskAsDoneFamily DEF Request
<1>3. ASSUME NEW p \in Proc, Proceed(p) PROVE FamilyInv'
  BY <1>3, SyncChildTasksFamily, DeleteChildrenFamily, NextChildFamily, DoneChildrenFamily,
     MuteChildrenFamily, PublishScheduleFamily, RescheduleTaskFamily, RescheduleCronTasksFamily,
     WriteRowFamily, UpdateTaskWithTxFamily, DeleteTaskWithTxFamily,
     DeleteChildTasksWithTxFamily, CommitTxFamily, InsertChildFamily, SendFamily,
     DeadlockDetectedFamily DEF Proceed
<1>4. ASSUME NEW p \in Proc, StatementFails(p) PROVE FamilyInv'
  BY <1>4, StatementFailsFamily
<1>5. CASE RunScheduledRescheduling
  BY <1>5, RunScheduledReschedulingFamily
<1>6. CASE Crash
  BY <1>6, CrashFamily
<1>7. CASE Tick
  BY <1>1, <1>7 DEF Tick
<1>8. CASE UNCHANGED vars
  BY <1>1, <1>8 DEF vars
<1> QED
  BY <1>2, <1>3, <1>4, <1>5, <1>6, <1>7, <1>8 DEF Next

(* The invariant holds throughout.                                         *)
LEMMA FamilyCorrect ==
  ASSUME OneAtATime, NoNewRule PROVE Spec => []FamilyInv
<1>1. TypeOK /\ TypeOK' /\ FamilyInv /\ [Next]_vars => FamilyInv'
  BY NextFamily
<1> QED
  BY <1>1, InitFamily, TypeCorrect, PTL DEF Spec

(* Requests served one after another, with failing statements and messages *)
(* and crashes, never leave a series with two occurrences that wait for    *)
(* the user.  (An update that gives a rule back to a task that had one     *)
(* may: the children of the first rule were not all removed with it.)      *)
THEOREM AtMostOneActiveChildCorrect ==
  ASSUME OneAtATime, NoNewRule PROVE Spec => []AtMostOneActiveChild
<1>1. FamilyInv => AtMostOneActiveChild
  <2> SUFFICES ASSUME FamilyInv, NEW q \in Task PROVE Cardinality(ActiveChildren(q)) <= 1
    BY DEF AtMostOneActiveChild
  <2>1. OneKid(rows)
    BY DEF FamilyInv, Family
  <2>2. q # NoTask
    BY RowsAssumption DEF Task, NoTask
  <2>3. \A c \in ActiveChildren(q) : c \in Task /\ rows[c].parent = q /\ Kid("conf", rows[c])
    BY DEF ActiveChildren, Active, Live, Unfinished, Kid
  <2>4. \A c, e \in ActiveChildren(q) : c = e
    BY <2>1, <2>2, <2>3 DEF OneKid
  <2>5. CASE ActiveChildren(q) = {}
    BY <2>5, FS_EmptySet
  <2>6. CASE ActiveChildren(q) # {}
    <3>1. PICK c : c \in ActiveChildren(q)
      BY <2>6
    <3>2. ActiveChildren(q) = {c}
      BY <2>4, <3>1
    <3> QED
      BY <3>2, FS_Singleton
  <2> QED
    BY <2>5, <2>6
<1> QED
  BY <1>1, FamilyCorrect, PTL

(* Under the same faults a deleted series keeps no occurrence.  (An update *)
(* that takes back the status deleted of a child may revive one.)          *)
THEOREM GoneParentHasNoActiveChildCorrect ==
  ASSUME OneAtATime, NoNewRule, NoRevival PROVE Spec => []GoneParentHasNoActiveChild
<1>1. FamilyInv => GoneParentHasNoActiveChild
  <2> SUFFICES ASSUME FamilyInv, NEW q \in Task, rows[q].db = "gone",
                      NEW c \in ActiveChildren(q)
               PROVE  FALSE
    BY DEF GoneParentHasNoActiveChild
  <2>1. c \in Task /\ rows[c].parent = q /\ Kid("rule", rows[c])
    BY DEF ActiveChildren, Active, Live, Unfinished, Kid
  <2>2. Barren("rule", rows[q])
    BY DEF Barren
  <2> QED
    BY <2>1, <2>2 DEF FamilyInv, Family, NoStray, Stray, Kinds
<1> QED
  BY <1>1, FamilyCorrect, PTL
=============================================================================
