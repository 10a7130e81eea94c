------------------------- MODULE HealDispatchProofs -------------------------
(***************************************************************************)
(* Proofs about HealDispatch, for any patterns, rows, bounds and faults.   *)
(***************************************************************************)
EXTENDS HealDispatch, FiniteSetTheorems, SequenceTheorems, WellFoundedInduction, TLAPS

-----------------------------------------------------------------------------
(***************************************************************************)
(* How often a row is used                                                 *)
(***************************************************************************)

\* The heal actions of row i among given-up requests la that the hotel may
\* still serve.
Open(la, i) == {q \in la : q.op[1] = "act" /\ q.row = i}

\* The dispatcher, at p with batch b, is past the triage of row i, its heal
\* action ahead ...
Past(b, p, i) == p \in {"file", "filing", "act"} /\ b # <<>> /\ Head(b) = i

\* ... or has the triage of row i ahead.
Todo(b, p, i) == \E k \in 1..Len(b) : b[k] = i /\ (k > 1 \/ p = "triage")

\* The runs of the heal action of row i: those that were, those that may come
\* late and the one that is due.
Uses(r, la, b, p, i) ==
  r[i].acted + Cardinality(Open(la, i)) + (IF Past(b, p, i) THEN 1 ELSE 0)

\* There is one use for each refused triage and one more; the one more is left
\* as long as the row is pending or to be triaged.
UseOk(r, la, b, p) ==
  \A i \in 1..Len(r) :
    /\ Uses(r, la, b, p, i) <= 1 + r[i].refused
    /\ r[i].status = "pending" \/ Todo(b, p, i) => Uses(r, la, b, p, i) <= r[i].refused

Kinds == {"raw", "event", "filed", "notice"}
RowSet ==
  [kind : Kinds, pat : AllPatterns, status : Statuses, age : 0..(Retention + 1),
   tagged : BOOLEAN, acted : Nat, refused : Nat]

\* Row x becomes y: it is not used, refused or pending again.
Kept(x, y) ==
  /\ y.kind = x.kind /\ y.pat = x.pat /\ y.acted = x.acted /\ y.refused = x.refused
  /\ y.status = "pending" => x.status = "pending"

\* Rows come and change their status.
Calm(r, r2) ==
  /\ r2 \in Seq(RowSet) /\ Len(r) <= Len(r2)
  /\ \A i \in 1..Len(r) : Kept(r[i], r2[i])
  /\ \A i \in 1..Len(r2) : i > Len(r) => r2[i].acted = 0

LEMMA CardOpen ==
  ASSUME NEW la, IsFiniteSet(la), NEW i
  PROVE  IsFiniteSet(Open(la, i)) /\ Cardinality(Open(la, i)) \in Nat
<1>1. Open(la, i) \subseteq la
  BY DEF Open
<1> QED BY <1>1, FS_Subset, FS_CardinalityType

LEMMA SumLeq ==
  ASSUME NEW x \in Nat, NEW n \in Nat, NEW n2 \in Nat, n2 <= n,
         NEW a \in Nat, NEW a2 \in Nat, a2 <= a
  PROVE  /\ x + n2 + a2 <= x + n + a
         /\ \A y \in Nat : x + n + a <= y => x + n2 + a2 <= y
OBVIOUS

LEMMA SumMoved ==
  ASSUME NEW x \in Nat, NEW n \in Nat, NEW a \in Nat, NEW y, y = x + 1, NEW m, m = n - 1
  PROVE  y + m + a = x + n + a
OBVIOUS

LEMMA CalmUses ==
  ASSUME NEW r \in Seq(RowSet), NEW r2, Calm(r, r2),
         NEW la, NEW la2, IsFiniteSet(la), \A i : Open(la2, i) \subseteq Open(la, i),
         NEW b, NEW p, NEW b2, NEW p2,
         \A i : (Past(b2, p2, i) => Past(b, p, i)) /\ (Todo(b2, p2, i) => Todo(b, p, i)),
         \A i : i \notin 1..Len(r) => Open(la, i) = {} /\ ~Past(b, p, i) /\ ~Todo(b, p, i),
         UseOk(r, la, b, p)
  PROVE  UseOk(r2, la2, b2, p2)
<1> SUFFICES ASSUME NEW i \in 1..Len(r2)
             PROVE  /\ Uses(r2, la2, b2, p2, i) <= 1 + r2[i].refused
                    /\ r2[i].status = "pending" \/ Todo(b2, p2, i)
                         => Uses(r2, la2, b2, p2, i) <= r2[i].refused
  BY DEF UseOk
<1>0. r2 \in Seq(RowSet) /\ Len(r) \in Nat /\ Len(r2) \in Nat /\ Len(r) <= Len(r2)
  BY DEF Calm
<1>a. r2[i] \in RowSet
  BY <1>0
<1>1. r2[i].acted \in Nat /\ r2[i].refused \in Nat
  BY <1>a DEF RowSet
<1> DEFINE n == Cardinality(Open(la, i))
           n2 == Cardinality(Open(la2, i))
           a == IF Past(b, p, i) THEN 1 ELSE 0
           a2 == IF Past(b2, p2, i) THEN 1 ELSE 0
<1>2. n \in Nat /\ n2 \in Nat /\ n2 <= n
  <2>1. IsFiniteSet(Open(la, i)) /\ Open(la2, i) \subseteq Open(la, i)
    BY CardOpen
  <2> QED BY <2>1, FS_Subset, FS_CardinalityType
<1>3. a \in Nat /\ a2 \in Nat /\ a2 <= a
  OBVIOUS
<1>4. CASE i \in 1..Len(r)
  <2>1. /\ r2[i].acted = r[i].acted /\ r2[i].refused = r[i].refused
        /\ r2[i].status = "pending" => r[i].status = "pending"
    BY <1>4 DEF Calm, Kept
  <2>2. /\ r[i].acted + n + a <= 1 + r[i].refused
        /\ r[i].status = "pending" \/ Todo(b, p, i) => r[i].acted + n + a <= r[i].refused
    BY <1>4 DEF UseOk, Uses
  <2>3. Uses(r2, la2, b2, p2, i) = r2[i].acted + n2 + a2
    BY DEF Uses
  <2> HIDE DEF n, n2, a, a2
  <2>4. \A y \in Nat : r2[i].acted + n + a <= y => r2[i].acted + n2 + a2 <= y
    BY <1>1, <1>2, <1>3, SumLeq
  <2>5. r2[i].refused \in Nat /\ 1 + r2[i].refused \in Nat
    BY <1>1
  <2>6. Todo(b2, p2, i) => Todo(b, p, i)
    OBVIOUS
  <2> QED BY <2>1, <2>2, <2>3, <2>4, <2>5, <2>6
<1>5. CASE i \notin 1..Len(r)
  <2>1. r2[i].acted = 0
    BY <1>0, <1>5 DEF Calm
  <2>2. Open(la2, i) = {} /\ ~Past(b2, p2, i)
    BY <1>5
  <2>3. n2 = 0
    BY <2>2, FS_EmptySet
  <2>4. Uses(r2, la2, b2, p2, i) = 0
    BY <2>1, <2>2, <2>3 DEF Uses
  <2> QED BY <1>1, <2>4
<1> QED BY <1>4, <1>5

-----------------------------------------------------------------------------
(***************************************************************************)
(* What the steps do to the rows                                           *)
(***************************************************************************)

LEMMA CalmSame ==
  ASSUME NEW r \in Seq(RowSet)
  PROVE  Calm(r, r)
BY DEF Calm, Kept

LEMMA CalmTrans ==
  ASSUME NEW r \in Seq(RowSet), NEW r2, NEW r3, Calm(r, r2), Calm(r2, r3)
  PROVE  Calm(r, r3)
<1>1. /\ r2 \in Seq(RowSet) /\ r3 \in Seq(RowSet) /\ Len(r) \in Nat /\ Len(r2) \in Nat
      /\ Len(r3) \in Nat /\ Len(r) <= Len(r2) /\ Len(r2) <= Len(r3)
  BY DEF Calm
<1>2. ASSUME NEW i \in 1..Len(r)
      PROVE  Kept(r[i], r3[i])
  <2>1. i \in 1..Len(r2)
    BY <1>1
  <2>2. Kept(r[i], r2[i]) /\ Kept(r2[i], r3[i])
    BY <2>1 DEF Calm
  <2> QED BY <2>2 DEF Kept
<1>3. ASSUME NEW i \in 1..Len(r3), i > Len(r) PROVE r3[i].acted = 0
  <2>1. i \in 1..Len(r2) \/ i > Len(r2)
    BY <1>1
  <2>2. CASE i \in 1..Len(r2)
    <3>1. Kept(r2[i], r3[i]) /\ r2[i].acted = 0
      BY <1>3, <2>2 DEF Calm
    <3> QED BY <3>1 DEF Kept
  <2>3. CASE i > Len(r2)
    BY <2>3 DEF Calm
  <2> QED BY <2>1, <2>2, <2>3
<1> QED BY <1>1, <1>2, <1>3 DEF Calm

LEMMA CalmAppend ==
  ASSUME NEW r \in Seq(RowSet), NEW x \in RowSet, x.acted = 0
  PROVE  Calm(r, Append(r, x)) /\ Calm(r, r \o <<x>>)
<1>1. /\ Append(r, x) \in Seq(RowSet) /\ Len(r) \in Nat /\ Len(Append(r, x)) = Len(r) + 1
      /\ Append(r, x)[Len(r) + 1] = x
      /\ \A i \in 1..Len(r) : Append(r, x)[i] = r[i]
      /\ \A i \in 1..Len(r) + 1 : i > Len(r) => i = Len(r) + 1
  OBVIOUS
<1>2. Calm(r, Append(r, x))
  BY <1>1 DEF Calm, Kept
<1>3. r \o <<x>> = Append(r, x)
  OBVIOUS
<1> QED BY <1>2, <1>3

\* Every row changed on its own.
LEMMA CalmMap ==
  ASSUME NEW r \in Seq(RowSet), NEW r2, r2 = [i \in 1..Len(r) |-> r2[i]],
         \A i \in 1..Len(r) : r2[i] \in RowSet /\ Kept(r[i], r2[i])
  PROVE  Calm(r, r2)
<1>1. r2 \in Seq(RowSet) /\ Len(r2) = Len(r) /\ Len(r) \in Nat
  OBVIOUS
<1> QED BY <1>1 DEF Calm

LEMMA NewRowFits ==
  ASSUME NEW kind \in Kinds, NEW p \in AllPatterns
  PROVE  /\ NewRow(kind, p) \in RowSet /\ NewRow(kind, p).acted = 0
         /\ \A st \in Statuses, tg \in BOOLEAN :
              LET x == [NewRow(kind, p) EXCEPT !.status = st, !.tagged = tg] IN
              x \in RowSet /\ x.acted = 0
<1> DEFINE n == NewRow(kind, p)
<1>1. n \in RowSet /\ n.acted = 0
  <2>1. /\ "pending" \in Statuses /\ (kind \in {"event", "notice"}) \in BOOLEAN
        /\ 0 \in Nat /\ 0 \in 0..(Retention + 1)
    BY HealAssumption DEF Statuses
  <2> QED BY <2>1 DEF NewRow, RowSet
<1> HIDE DEF n
<1>2. ASSUME NEW st \in Statuses, NEW tg \in BOOLEAN
      PROVE  LET x == [n EXCEPT !.status = st, !.tagged = tg] IN x \in RowSet /\ x.acted = 0
  BY <1>1 DEF RowSet
<1> QED BY <1>1, <1>2 DEF n

LEMMA CalmUpdate ==
  ASSUME NEW r \in Seq(RowSet), NEW i \in 1..Len(r)
  PROVE  Calm(r, UpdateTriage(r, i)) /\ Calm(r, ResolveRow(r, i))
<1>1. r[i] \in RowSet
  OBVIOUS
<1>2. Calm(r, UpdateTriage(r, i))
  <2>1. CASE r[i].status = "deleted"
    BY <2>1, CalmSame DEF UpdateTriage
  <2>2. CASE r[i].status # "deleted"
    <3> DEFINE x == [r[i] EXCEPT !.status = "assigned", !.tagged = TRUE]
               r2 == [r EXCEPT ![i] = x]
    <3>1. x \in RowSet /\ Kept(r[i], x)
      BY <1>1 DEF RowSet, Statuses, Kept
    <3>2. UpdateTriage(r, i) = r2
      BY <2>2 DEF UpdateTriage
    <3> HIDE DEF x
    <3>3. r2 = [j \in 1..Len(r) |-> r2[j]]
      OBVIOUS
    <3>4. \A j \in 1..Len(r) : r2[j] = IF j = i THEN x ELSE r[j]
      OBVIOUS
    <3>5. \A j \in 1..Len(r) : r[j] \in RowSet /\ Kept(r[j], r[j])
      BY DEF Kept
    <3> HIDE DEF r2
    <3>6. Calm(r, r2)
      BY <3>1, <3>3, <3>4, <3>5, CalmMap
    <3> QED BY <3>2, <3>6
  <2> QED BY <2>1, <2>2
<1>3. Calm(r, ResolveRow(r, i))
  <2>1. CASE r[i].status = "deleted"
    BY <2>1, CalmSame DEF ResolveRow
  <2>2. CASE r[i].status # "deleted"
    <3> DEFINE x == [r[i] EXCEPT !.status = "resolved"]
               r2 == [r EXCEPT ![i] = x]
    <3>1. x \in RowSet /\ Kept(r[i], x)
      BY <1>1 DEF RowSet, Statuses, Kept
    <3>2. ResolveRow(r, i) = r2
      BY <2>2 DEF ResolveRow
    <3> HIDE DEF x
    <3>3. r2 = [j \in 1..Len(r) |-> r2[j]]
      OBVIOUS
    <3>4. \A j \in 1..Len(r) : r2[j] = IF j = i THEN x ELSE r[j]
      OBVIOUS
    <3>5. \A j \in 1..Len(r) : r[j] \in RowSet /\ Kept(r[j], r[j])
      BY DEF Kept
    <3> HIDE DEF r2
    <3>6. Calm(r, r2)
      BY <3>1, <3>3, <3>4, <3>5, CalmMap
    <3> QED BY <3>2, <3>6
  <2> QED BY <2>1, <2>2
<1> QED BY <1>2, <1>3

LEMMA CalmNotice ==
  ASSUME NEW r \in Seq(RowSet)
  PROVE  Calm(r, WithNotice(r))
<1>1. NewRow("notice", Notice) \in RowSet /\ NewRow("notice", Notice).acted = 0
  BY NewRowFits DEF Kinds, AllPatterns
<1>2. WithNotice(r) = r \/ WithNotice(r) = Append(r, NewRow("notice", Notice))
  BY DEF WithNotice
<1> QED BY <1>1, <1>2, CalmSame, CalmAppend

\* A filing adds its info row and the notice, or one of them, or none.
LEMMA CalmFiled ==
  ASSUME rows \in Seq(RowSet), NEW p \in AllPatterns,
         NEW r \in FiledRows(p) \cup FiledRowsHalfDone(p)
  PROVE  Calm(rows, r)
<1>1. ASSUME NEW st \in Statuses, NEW tg \in BOOLEAN PROVE Calm(rows, rows \o InfoRow(p, st, tg))
  <2> DEFINE x == [NewRow("filed", p) EXCEPT !.status = st, !.tagged = tg]
  <2>1. x \in RowSet /\ x.acted = 0
    BY NewRowFits DEF Kinds
  <2>2. InfoRow(p, st, tg) = <<x>>
    BY DEF InfoRow
  <2> HIDE DEF x
  <2> QED BY <2>1, <2>2, CalmAppend
<1>2. rows \o <<>> = rows
  OBVIOUS
<1>3. Calm(rows, rows \o InfoDone(p))
  BY <1>1 DEF InfoDone, Statuses
<1>4. ASSUME NEW info \in InfoHalfDone(p) PROVE Calm(rows, rows \o info)
  BY <1>1, <1>2, <1>4, CalmSame DEF InfoHalfDone, Statuses
<1>5. ASSUME NEW r0, Calm(rows, r0) PROVE Calm(rows, WithNotice(r0))
  <2>1. r0 \in Seq(RowSet)
    BY <1>5 DEF Calm
  <2> QED BY <1>5, <2>1, CalmNotice, CalmTrans
<1> QED BY <1>3, <1>4, <1>5 DEF FiledRows, FiledRowsHalfDone

-----------------------------------------------------------------------------
(***************************************************************************)
(* The inductive invariant                                                 *)
(***************************************************************************)

Points == {"down", "idle", "triage", "file", "filing", "act", "resolve"}
Ops == {"triage", "file", "filing", "act", "resolve"}

CallShape(c) ==
  \E p \in AllPatterns : \E n, k, m : c = [pat |-> p, count |-> n, found |-> k, seen |-> m]

\* A request given up at fault n, which tells it from all later ones.
LateShape(q, len, bound) ==
  \E o \in Ops, n \in Nat, i \in 1..len : \E c :
    n < bound /\ CallShape(c) /\ q = [op |-> <<o, n>>, row |-> i, call |-> c]

\* A batch has a row once.
BatchOk(b, p, len) ==
  /\ p \in Points /\ b \in Seq(1..len)
  /\ (b = <<>>) <=> (p \in {"down", "idle"})
  /\ \A j, k \in 1..Len(b) : b[j] = b[k] => j = k

HealInv ==
  /\ rows \in Seq(RowSet) /\ CallShape(call) /\ faults \in Nat
  /\ IsFiniteSet(late) /\ \A q \in late : LateShape(q, Len(rows), faults)
  /\ BatchOk(batch, pc, Len(rows))
  /\ UseOk(rows, late, batch, pc)

\* Nobody uses a row that is not there.
LEMMA NothingBeyond ==
  ASSUME HealInv, NEW i, i \notin 1..Len(rows)
  PROVE  Open(late, i) = {} /\ ~Past(batch, pc, i) /\ ~Todo(batch, pc, i)
<1>1. ASSUME NEW q \in late PROVE q.row \in 1..Len(rows)
  BY <1>1 DEF HealInv, LateShape
<1>2. Open(late, i) = {}
  BY <1>1 DEF Open
<1>3. batch \in Seq(1..Len(rows))
  BY DEF HealInv, BatchOk
<1>4. \A k \in 1..Len(batch) : batch[k] \in 1..Len(rows)
  BY <1>3
<1>5. batch # <<>> => Head(batch) \in 1..Len(rows)
  BY <1>3
<1> QED BY <1>2, <1>4, <1>5 DEF Past, Todo

LEMMA BatchGrows ==
  ASSUME NEW b, NEW p, NEW n \in Nat, NEW m \in Nat, n <= m, BatchOk(b, p, n)
  PROVE  BatchOk(b, p, m)
<1>1. b \in Seq(1..n) /\ 1..n \subseteq 1..m
  BY DEF BatchOk
<1>2. b \in Seq(1..m)
  BY <1>1
<1> QED BY <1>2 DEF BatchOk

\* A step that uses no row keeps the invariant.
LEMMA CalmStep ==
  ASSUME HealInv, Calm(rows, rows'), CallShape(call'), faults' \in {faults, faults + 1},
         IsFiniteSet(late'), \A q \in late' : LateShape(q, Len(rows), faults),
         \A i : Open(late', i) \subseteq Open(late, i),
         BatchOk(batch', pc', Len(rows)),
         \A i : /\ Past(batch', pc', i) => Past(batch, pc, i)
                /\ Todo(batch', pc', i) => Todo(batch, pc, i)
  PROVE  HealInv'
<1>1. /\ rows \in Seq(RowSet) /\ rows' \in Seq(RowSet) /\ Len(rows) \in Nat
      /\ Len(rows') \in Nat /\ Len(rows) <= Len(rows') /\ faults \in Nat /\ IsFiniteSet(late)
      /\ UseOk(rows, late, batch, pc)
  BY DEF HealInv, Calm
<1>2. UseOk(rows', late', batch', pc')
  BY <1>1, NothingBeyond, CalmUses
<1>3. BatchOk(batch', pc', Len(rows'))
  BY <1>1, BatchGrows
<1>4. faults' \in Nat /\ \A n \in Nat : n < faults => n < faults'
  BY <1>1
<1>5. ASSUME NEW q \in late' PROVE LateShape(q, Len(rows'), faults')
  <2>1. PICK o \in Ops, n \in Nat, i \in 1..Len(rows) : \E c :
          n < faults /\ CallShape(c) /\ q = [op |-> <<o, n>>, row |-> i, call |-> c]
    BY <1>5 DEF LateShape
  <2>2. i \in 1..Len(rows')
    BY <1>1
  <2> QED BY <1>4, <2>1, <2>2 DEF LateShape
<1> QED BY <1>1, <1>2, <1>3, <1>4, <1>5 DEF HealInv

\* One that leaves the dispatcher alone and adds no request.
LEMMA QuietStep ==
  ASSUME HealInv, Calm(rows, rows'), faults' \in {faults, faults + 1}, late' \subseteq late,
         UNCHANGED <<pc, batch, call>>
  PROVE  HealInv'
<1>1. /\ CallShape(call') /\ IsFiniteSet(late') /\ \A q \in late' : LateShape(q, Len(rows), faults)
      /\ BatchOk(batch', pc', Len(rows))
  BY FS_Subset DEF HealInv
<1>2. \A i : Open(late', i) \subseteq Open(late, i)
  BY DEF Open
<1> QED BY <1>1, <1>2, CalmStep

-----------------------------------------------------------------------------
(***************************************************************************)
(* The queue and its filings                                               *)
(***************************************************************************)

LEMMA FaultCounts ==
  ASSUME NEW f, Fault(f)
  PROVE  faults' = faults + 1
BY DEF Fault

LEMMA PushInv ==
  ASSUME HealInv, NEW p \in Patterns, PushError(p) \/ PushEvent(p)
  PROVE  HealInv' /\ Calm(rows, rows')
<1>1. PICK kind \in {"raw", "event"} : rows' = Append(rows, NewRow(kind, p))
  BY DEF PushError, PushEvent
<1>2. late' = late /\ faults' = faults /\ UNCHANGED <<pc, batch, call>>
  BY DEF PushError, PushEvent, dispVars
<1>3. NewRow(kind, p) \in RowSet /\ NewRow(kind, p).acted = 0
  BY NewRowFits DEF Kinds, AllPatterns
<1>4. rows \in Seq(RowSet)
  BY DEF HealInv
<1>5. Calm(rows, rows')
  BY <1>1, <1>3, <1>4, CalmAppend
<1> QED BY <1>2, <1>5, QuietStep

LEMMA VacuumInv ==
  ASSUME HealInv, VacuumAbandoned \/ VacuumOld
  PROVE  HealInv' /\ Calm(rows, rows')
<1>0. /\ rows \in Seq(RowSet) /\ DOMAIN rows = 1..Len(rows)
      /\ \A i \in 1..Len(rows) : rows[i] \in RowSet
  BY DEF HealInv
<1>1. late' = late /\ UNCHANGED <<pc, batch, call>> /\ faults' \in {faults, faults + 1}
  BY DEF VacuumAbandoned, VacuumOld, Fault, dispVars
<1>2. \/ rows' = rows
      \/ rows' = [i \in DOMAIN rows |->
                    IF Overdue(rows[i]) THEN [rows[i] EXCEPT !.status = "abandoned"]
                    ELSE rows[i]]
      \/ rows' = [i \in DOMAIN rows |->
                    IF rows[i].status \in {"resolved", "abandoned"} /\ rows[i].age > Retention
                      THEN [rows[i] EXCEPT !.status = "deleted", !.tagged = FALSE]
                      ELSE rows[i]]
  BY DEF VacuumAbandoned, VacuumOld
<1>3. ASSUME NEW x \in RowSet, NEW y \in {x, [x EXCEPT !.status = "abandoned"],
                                          [x EXCEPT !.status = "deleted", !.tagged = FALSE]}
      PROVE  y \in RowSet /\ Kept(x, y)
  BY DEF RowSet, Statuses, Kept
<1>4. rows' = rows \/ /\ rows' = [i \in 1..Len(rows) |-> rows'[i]]
                      /\ \A i \in 1..Len(rows) :
                           rows'[i] \in {rows[i], [rows[i] EXCEPT !.status = "abandoned"],
                                         [rows[i] EXCEPT !.status = "deleted", !.tagged = FALSE]}
  BY <1>0, <1>2
<1>a. ASSUME rows' # rows, NEW i \in 1..Len(rows)
      PROVE  rows'[i] \in RowSet /\ Kept(rows[i], rows'[i])
  <2>1. rows[i] \in RowSet
    BY <1>0
  <2> QED BY <1>3, <1>4, <1>a, <2>1
<1>5. Calm(rows, rows')
  <2>1. CASE rows' = rows
    BY <1>0, <2>1, CalmSame
  <2>2. CASE rows' # rows
    <3>1. rows' = [i \in 1..Len(rows) |-> rows'[i]]
      BY <1>4, <2>2
    <3> QED BY <1>0, <1>a, <2>2, <3>1, CalmMap
  <2> QED BY <2>1, <2>2
<1> QED BY <1>1, <1>5, QuietStep

LEMMA TickInv ==
  ASSUME HealInv, Tick
  PROVE  HealInv' /\ Calm(rows, rows')
<1>0. /\ rows \in Seq(RowSet) /\ DOMAIN rows = 1..Len(rows)
      /\ \A i \in 1..Len(rows) : rows[i] \in RowSet
  BY DEF HealInv
<1>1. /\ late' = late /\ UNCHANGED <<pc, batch, call>> /\ faults' = faults
      /\ rows' = [i \in DOMAIN rows |-> [rows[i] EXCEPT !.age = Older(@, Retention)]]
  BY DEF Tick
<1>2. ASSUME NEW x \in RowSet
      PROVE  LET y == [x EXCEPT !.age = Older(@, Retention)] IN
             y \in RowSet /\ Kept(x, y)
  <2>1. x.age \in 0..(Retention + 1)
    BY DEF RowSet
  <2>2. Older(x.age, Retention) \in 0..(Retention + 1)
    BY <2>1, HealAssumption DEF Older
  <2> QED BY <2>2 DEF RowSet, Kept
<1>3. /\ rows' = [i \in 1..Len(rows) |-> rows'[i]]
      /\ \A i \in 1..Len(rows) : rows'[i] = [rows[i] EXCEPT !.age = Older(@, Retention)]
  BY <1>0, <1>1
<1>4. ASSUME NEW i \in 1..Len(rows)
      PROVE  rows'[i] \in RowSet /\ Kept(rows[i], rows'[i])
  <2>1. rows[i] \in RowSet /\ rows'[i] = [rows[i] EXCEPT !.age = Older(@, Retention)]
    BY <1>0, <1>3
  <2> QED BY <1>2, <2>1
<1>5. Calm(rows, rows')
  BY <1>0, <1>3, <1>4, CalmMap
<1> QED BY <1>1, <1>5, QuietStep

\* A filing adds rows, whatever becomes of it.
LEMMA FileServedCalm ==
  ASSUME HealInv, NEW q, CallShape(q), FileServed(q)
  PROVE  Calm(rows, rows') /\ faults' \in {faults, faults + 1}
<1>1. q.pat \in AllPatterns
  BY DEF CallShape
<1>2. rows \in Seq(RowSet)
  BY DEF HealInv
<1>3. faults' \in {faults, faults + 1}
  BY DEF FileServed, Fault
<1>4. rows' = rows \/ rows' \in FiledRows(q.pat) \cup FiledRowsHalfDone(q.pat)
  BY DEF FileServed, Bump, File, FileRefused, FileFails
<1> QED BY <1>1, <1>2, <1>3, <1>4, CalmSame, CalmFiled

LEMMA LookupKeepsShape ==
  ASSUME NEW c, CallShape(c)
  PROVE  CallShape(LookedUp(c))
<1>1. PICK p \in AllPatterns : \E n, k, m : c = [pat |-> p, count |-> n, found |-> k, seen |-> m]
  BY DEF CallShape
<1>2. PICK n, k, m : c = [pat |-> p, count |-> n, found |-> k, seen |-> m]
  BY <1>1
<1> DEFINE k2 == OpenItem(c.pat)
           m2 == IF k2 = 0 THEN 0 ELSE items[k2].count
<1>3. LookedUp(c) = [c EXCEPT !.found = k2, !.seen = m2]
  BY DEF LookedUp
<1> HIDE DEF k2, m2
<1>4. LookedUp(c) = [pat |-> p, count |-> n, found |-> k2, seen |-> m2]
  BY <1>2, <1>3
<1> QED BY <1>4 DEF CallShape

-----------------------------------------------------------------------------
(***************************************************************************)
(* The dispatcher                                                          *)
(***************************************************************************)

LEMMA NextRowOk ==
  ASSUME NEW b, NEW p, NEW len, BatchOk(b, p, len), p \notin {"down", "idle"},
         NEW p2, p2 = IF Tail(b) = <<>> THEN "idle" ELSE "triage"
  PROVE  /\ BatchOk(Tail(b), p2, len)
         /\ \A i : ~Past(Tail(b), p2, i) /\ (Todo(Tail(b), p2, i) => Todo(b, p, i))
<1>1. b \in Seq(1..len) /\ b # <<>>
  BY DEF BatchOk
<1>2. /\ Tail(b) \in Seq(1..len) /\ Len(b) \in Nat /\ Len(Tail(b)) = Len(b) - 1
      /\ \A k \in 1..Len(Tail(b)) : /\ Tail(b)[k] = b[k + 1] /\ k + 1 \in 1..Len(b)
                                    /\ k + 1 > 1
  BY <1>1
<1> DEFINE t == Tail(b)
<1> HIDE DEF t
<1>3. ASSUME NEW j \in 1..Len(t), NEW k \in 1..Len(t), t[j] = t[k] PROVE j = k
  <2>1. b[j + 1] = b[k + 1] /\ j + 1 \in 1..Len(b) /\ k + 1 \in 1..Len(b)
    BY <1>2, <1>3 DEF t
  <2>2. j + 1 = k + 1
    BY <2>1 DEF BatchOk
  <2> QED BY <2>2
<1>4. p2 \in Points /\ (t = <<>> <=> p2 \in {"down", "idle"})
  BY DEF Points, t
<1>5. BatchOk(t, p2, len)
  BY <1>2, <1>3, <1>4 DEF BatchOk, t
<1>6. ASSUME NEW i PROVE ~Past(t, p2, i) /\ (Todo(t, p2, i) => Todo(b, p, i))
  BY <1>2 DEF Past, Todo, t
<1> QED BY <1>5, <1>6 DEF t

LEMMA RowIsThere ==
  ASSUME HealInv, pc \notin {"down", "idle"}
  PROVE  Row \in 1..Len(rows) /\ batch # <<>> /\ batch[1] = Row /\ 1 \in 1..Len(batch)
BY DEF HealInv, BatchOk, Row

LEMMA ReconnectInv ==
  ASSUME HealInv, Reconnect
  PROVE  HealInv'
<1>0. rows \in Seq(RowSet) /\ BatchOk(batch, pc, Len(rows))
  BY DEF HealInv
<1>1. /\ rows' = rows /\ batch' = batch /\ call' = call /\ late' = late /\ faults' = faults
      /\ pc = "down" /\ pc' = "idle"
  BY DEF Reconnect, storeVars
<1>2. BatchOk(batch', pc', Len(rows)) /\ batch' = <<>>
  BY <1>0, <1>1 DEF BatchOk, Points
<1>3. \A i : ~Past(batch', pc', i) /\ ~Todo(batch', pc', i)
  BY <1>1, <1>2 DEF Past, Todo
<1>4. CallShape(call') /\ IsFiniteSet(late') /\ \A q \in late' : LateShape(q, Len(rows), faults)
  BY <1>1 DEF HealInv
<1>5. Calm(rows, rows')
  BY <1>0, <1>1, CalmSame
<1> QED BY <1>1, <1>2, <1>3, <1>4, <1>5, CalmStep

LEMMA SkipInv ==
  ASSUME HealInv, TriageSkips \/ Resolve
  PROVE  HealInv' /\ Calm(rows, rows') /\ \A i : Todo(batch', pc', i) => Todo(batch, pc, i)
<1>0. rows \in Seq(RowSet) /\ BatchOk(batch, pc, Len(rows)) /\ pc \notin {"down", "idle"}
  BY DEF HealInv, TriageSkips, Resolve
<1>1. /\ call' = call /\ late' = late /\ faults' \in {faults, faults + 1}
      /\ rows' \in {rows, UpdateTriage(rows, Row), ResolveRow(rows, Row)}
      /\ batch' = Tail(batch) /\ pc' = IF Tail(batch) = <<>> THEN "idle" ELSE "triage"
  BY DEF TriageSkips, Resolve, NextRow, Fault
<1>2. /\ BatchOk(batch', pc', Len(rows))
      /\ \A i : ~Past(batch', pc', i) /\ (Todo(batch', pc', i) => Todo(batch, pc, i))
  BY <1>0, <1>1, NextRowOk
<1>3. Calm(rows, rows')
  BY <1>0, <1>1, RowIsThere, CalmSame, CalmUpdate
<1>4. CallShape(call') /\ IsFiniteSet(late') /\ \A q \in late' : LateShape(q, Len(rows), faults)
  BY <1>1 DEF HealInv
<1> QED BY <1>1, <1>2, <1>3, <1>4, CalmStep

LEMMA FilingInv ==
  ASSUME HealInv, FileLookup \/ FileReply
  PROVE  HealInv'
<1>0. rows \in Seq(RowSet) /\ BatchOk(batch, pc, Len(rows)) /\ CallShape(call)
  BY DEF HealInv
<1>1. /\ batch' = batch /\ late' = late /\ pc \in {"file", "filing"} /\ pc' \in {"filing", "act"}
  BY DEF FileLookup, FileReply
<1>2. CallShape(NoCall)
  BY DEF CallShape, NoCall, AllPatterns
<1>3. CallShape(call')
  BY <1>0, <1>2, LookupKeepsShape DEF FileLookup, FileReply
<1>4. Calm(rows, rows') /\ faults' \in {faults, faults + 1}
  BY <1>0, CalmSame, FileServedCalm DEF FileLookup, FileReply, storeVars
<1>5. BatchOk(batch', pc', Len(rows))
  BY <1>0, <1>1 DEF BatchOk, Points
<1>6. \A i : /\ Past(batch', pc', i) => Past(batch, pc, i)
             /\ Todo(batch', pc', i) => Todo(batch, pc, i)
  BY <1>1 DEF Past, Todo
<1>7. IsFiniteSet(late') /\ \A q \in late' : LateShape(q, Len(rows), faults)
  BY <1>1 DEF HealInv
<1> QED BY <1>1, <1>3, <1>4, <1>5, <1>6, <1>7, CalmStep

\* A batch has pending rows, each once.
LEMMA PollInv ==
  ASSUME HealInv, Poll
  PROVE  HealInv'
<1>0. rows \in Seq(RowSet) /\ DOMAIN rows = 1..Len(rows) /\ UseOk(rows, late, batch, pc)
  BY DEF HealInv
<1>1. /\ rows' = rows /\ call' = call /\ late' = late /\ faults' = faults /\ pc = "idle"
      /\ pc' = "triage"
  BY DEF Poll, storeVars
<1> DEFINE ids == {i \in DOMAIN rows : rows[i].status = "pending"}
<1>2. PICK q \in Oldest(ids) : q # <<>> /\ batch' = q
  BY DEF Poll, PendingErrors
<1>3. /\ \E n \in 0..BatchLimit : q \in [1..n -> ids]
      /\ \A j, k \in DOMAIN q : j < k => q[j] < q[k]
  BY DEF Oldest
<1>4. ids \subseteq 1..Len(rows)
  BY <1>0
<1> HIDE DEF ids
<1>5. PICK n \in 0..BatchLimit : q \in [1..n -> ids]
  BY <1>3
<1>6. q \in Seq(ids) /\ q \in Seq(1..Len(rows)) /\ Len(q) = n /\ DOMAIN q = 1..n
  <2>1. n \in Nat
    BY HealAssumption
  <2>2. DOMAIN q = 1..n /\ q \in Seq(ids)
    BY <1>5, <2>1, SeqDef
  <2>3. Len(q) = n
    BY <1>5, <2>1, <2>2
  <2>4. q \in Seq(1..Len(rows))
    BY <1>4, <2>2, SeqMonotonic
  <2> QED BY <2>2, <2>3, <2>4
<1>7. ASSUME NEW j \in 1..Len(q), NEW k \in 1..Len(q), q[j] = q[k] PROVE j = k
  <2>1. q[j] \in Int /\ q[k] \in Int /\ ~(q[j] < q[k]) /\ ~(q[k] < q[j])
    BY <1>6, <1>7
  <2>2. ~(j < k) /\ ~(k < j) /\ j \in Int /\ k \in Int
    BY <1>3, <1>6, <2>1
  <2> QED BY <2>2
<1>8. BatchOk(batch', pc', Len(rows'))
  BY <1>1, <1>2, <1>6, <1>7 DEF BatchOk, Points
<1>9. ASSUME NEW i PROVE ~Past(batch', pc', i) /\ (Todo(batch', pc', i) => i \in ids)
  <2>1. ~Past(batch', pc', i)
    BY <1>1 DEF Past
  <2>2. \A k \in 1..Len(q) : q[k] \in ids
    BY <1>6
  <2> QED BY <1>2, <2>1, <2>2 DEF Todo
<1>10. UseOk(rows', late', batch', pc')
  <2> SUFFICES ASSUME NEW i \in 1..Len(rows)
               PROVE  /\ Uses(rows, late, batch', pc', i) <= 1 + rows[i].refused
                      /\ rows[i].status = "pending" \/ Todo(batch', pc', i)
                           => Uses(rows, late, batch', pc', i) <= rows[i].refused
    BY <1>1 DEF UseOk
  <2>1. Uses(rows, late, batch', pc', i) = Uses(rows, late, batch, pc, i)
    <3>1. ~Past(batch, pc, i) /\ ~Past(batch', pc', i)
      BY <1>1, <1>9 DEF Past
    <3> QED BY <3>1 DEF Uses
  <2>2. Todo(batch', pc', i) => rows[i].status = "pending"
    BY <1>9 DEF ids
  <2> QED BY <1>0, <2>1, <2>2 DEF UseOk
<1> QED BY <1>1, <1>8, <1>10 DEF HealInv

\* The counts of a row that is there.
LEMMA RowCounts ==
  ASSUME HealInv, NEW i \in 1..Len(rows)
  PROVE  /\ rows[i] \in RowSet /\ rows[i].acted \in Nat /\ rows[i].refused \in Nat
         /\ Cardinality(Open(late, i)) \in Nat
<1>1. rows[i] \in RowSet
  BY DEF HealInv
<1>2. rows[i].acted \in Nat /\ rows[i].refused \in Nat
  BY <1>1 DEF RowSet
<1> QED BY <1>1, <1>2, CardOpen DEF HealInv

\* One counter of one row changes.
LEMMA RowBumped ==
  ASSUME NEW r \in Seq(RowSet), NEW i \in 1..Len(r), NEW x \in RowSet
  PROVE  LET r2 == [r EXCEPT ![i] = x] IN
         /\ r2 \in Seq(RowSet) /\ Len(r2) = Len(r) /\ r2[i] = x
         /\ \A j \in 1..Len(r) : j # i => r2[j] = r[j]
OBVIOUS

LEMMA NoCallShape == CallShape(NoCall)
BY DEF CallShape, NoCall, AllPatterns

LEMMA RecordOk ==
  ASSUME HealInv, NEW i \in 1..Len(rows), Record(i)
  PROVE  pc' \in {"file", "act"} /\ CallShape(call')
<1>1. CASE rows[i].kind = "filed"
  BY <1>1 DEF Record, HealInv
<1>2. CASE rows[i].kind # "filed"
  <2> DEFINE p == rows[i].pat
             n == Len(Recorded(p))
  <2>1. /\ pc' \in {"file", "act"}
        /\ call' = [NoCall EXCEPT !.pat = p, !.count = n] \/ call' = NoCall
    BY <1>2 DEF Record
  <2>a. rows[i] \in RowSet
    BY RowCounts
  <2>2. p \in AllPatterns
    BY <2>a DEF RowSet
  <2> HIDE DEF n, p
  <2>3. CallShape([NoCall EXCEPT !.pat = p, !.count = n])
    <3> DEFINE c == [NoCall EXCEPT !.pat = p]
    <3>1. c = [pat |-> p, count |-> 0, found |-> 0, seen |-> 0]
      BY DEF NoCall
    <3>2. [NoCall EXCEPT !.pat = p, !.count = n] = [c EXCEPT !.count = n]
      BY DEF NoCall
    <3> HIDE DEF c
    <3>3. [c EXCEPT !.count = n] = [pat |-> p, count |-> n, found |-> 0, seen |-> 0]
      BY <3>1
    <3> QED BY <2>2, <3>2, <3>3 DEF CallShape
  <2> QED BY <2>1, <2>3, NoCallShape
<1> QED BY <1>1, <1>2

LEMMA TriageInv ==
  ASSUME HealInv, Triage
  PROVE  HealInv'
<1>0. /\ rows \in Seq(RowSet) /\ BatchOk(batch, pc, Len(rows)) /\ pc = "triage"
      /\ UseOk(rows, late, batch, pc) /\ faults \in Nat
  BY DEF HealInv, Triage
<1>1. Row \in 1..Len(rows) /\ batch # <<>> /\ batch[1] = Row /\ 1 \in 1..Len(batch)
  BY <1>0, RowIsThere
<1>2. batch' = batch /\ late' = late /\ Record(Row) /\ faults' \in {faults, faults + 1}
  BY DEF Triage, Fault
<1>3. pc' \in {"file", "act"} /\ CallShape(call')
  BY <1>1, <1>2, RecordOk
<1> DEFINE x == [rows[Row] EXCEPT !.refused = @ + 1]
<1>4. rows' = UpdateTriage(rows, Row) \/ rows' = [rows EXCEPT ![Row] = x]
  BY DEF Triage
<1>5. rows[Row] \in RowSet /\ rows[Row].refused \in Nat /\ rows[Row].acted \in Nat
  BY <1>1, RowCounts
<1>a. rows[Row].refused + 1 \in Nat
  BY <1>5
<1>6. x \in RowSet /\ x.acted = rows[Row].acted /\ x.refused = rows[Row].refused + 1
  BY <1>5, <1>a DEF RowSet
<1> HIDE DEF x
<1>7. /\ rows' \in Seq(RowSet) /\ Len(rows') = Len(rows)
      /\ \A j \in 1..Len(rows) : j # Row => rows'[j] = rows[j]
      /\ rows'[Row].acted = rows[Row].acted
      /\ \/ rows'[Row].refused = rows[Row].refused /\ rows'[Row].status # "pending"
         \/ rows'[Row].refused = rows[Row].refused + 1
  <2>1. CASE rows' = [rows EXCEPT ![Row] = x]
    BY <1>0, <1>1, <1>6, <2>1, RowBumped
  <2>2. CASE rows' = UpdateTriage(rows, Row) /\ rows[Row].status = "deleted"
    <3>1. rows' = rows
      BY <2>2 DEF UpdateTriage
    <3> QED BY <1>0, <2>2, <3>1
  <2>3. CASE rows' = UpdateTriage(rows, Row) /\ rows[Row].status # "deleted"
    <3> DEFINE y == [rows[Row] EXCEPT !.status = "assigned", !.tagged = TRUE]
    <3>1. rows' = [rows EXCEPT ![Row] = y]
      BY <2>3 DEF UpdateTriage
    <3>2. /\ y \in RowSet /\ y.acted = rows[Row].acted /\ y.refused = rows[Row].refused
          /\ y.status = "assigned"
      BY <1>5 DEF RowSet, Statuses
    <3> HIDE DEF y
    <3>3. y.status # "pending"
      BY <3>2
    <3> QED BY <1>0, <1>1, <3>1, <3>2, <3>3, RowBumped
  <2> QED BY <1>4, <2>1, <2>2, <2>3
<1>8. BatchOk(batch', pc', Len(rows'))
  BY <1>0, <1>2, <1>3, <1>7 DEF BatchOk, Points
<1>9. ASSUME NEW i \in 1..Len(rows)
      PROVE  /\ Uses(rows', late, batch, pc', i) <= 1 + rows'[i].refused
             /\ rows'[i].status = "pending" \/ Todo(batch, pc', i)
                  => Uses(rows', late, batch, pc', i) <= rows'[i].refused
  <2> DEFINE n == Cardinality(Open(late, i))
  <2>0. n \in Nat
    BY RowCounts
  <2>1. CASE i # Row
    <3>1. rows'[i] = rows[i] /\ ~Past(batch, pc, i) /\ ~Past(batch, pc', i)
      BY <1>7, <2>1 DEF Past, Row
    <3>2. Todo(batch, pc', i) => Todo(batch, pc, i)
      BY <1>0, <1>3 DEF Todo
    <3>3. Uses(rows', late, batch, pc', i) = Uses(rows, late, batch, pc, i)
      BY <3>1 DEF Uses
    <3> QED BY <1>0, <3>1, <3>2, <3>3 DEF UseOk
  <2>2. CASE i = Row
    <3>1. Todo(batch, pc, i) /\ ~Past(batch, pc, i) /\ Past(batch, pc', i)
      BY <1>0, <1>1, <1>3, <2>2 DEF Todo, Past, Row
    <3>2. ~Todo(batch, pc', i)
      BY <1>0, <1>1, <1>3, <2>2 DEF Todo, BatchOk
    <3>3. rows[i].acted + n <= rows[i].refused
      <4>1. Uses(rows, late, batch, pc, i) <= rows[i].refused
        BY <1>0, <3>1 DEF UseOk
      <4>2. Uses(rows, late, batch, pc, i) = rows[i].acted + n + 0
        BY <3>1 DEF Uses
      <4> HIDE DEF n
      <4> QED BY <1>5, <2>0, <2>2, <4>1, <4>2
    <3>4. Uses(rows', late, batch, pc', i) = rows[i].acted + n + 1
      BY <1>7, <2>2, <3>1 DEF Uses
    <3> HIDE DEF n
    <3>5. rows'[i].refused = rows[i].refused => rows'[i].status # "pending"
      BY <1>5, <1>7, <2>2
    <3>6. rows[i].acted + n + 1 <= rows[i].refused + 1
      BY <1>5, <2>0, <2>2, <3>3
    <3>7. rows'[i].refused \in {rows[i].refused, rows[i].refused + 1}
      BY <1>7, <2>2
    <3> QED BY <1>5, <2>0, <2>2, <3>2, <3>4, <3>5, <3>6, <3>7
  <2> QED BY <2>1, <2>2
<1>10. UseOk(rows', late', batch', pc')
  BY <1>2, <1>7, <1>9 DEF UseOk
<1>11. faults' \in Nat /\ \A m \in Nat : m < faults => m < faults'
  BY <1>0, <1>2
<1>12. \A q \in late' : LateShape(q, Len(rows'), faults')
  BY <1>2, <1>7, <1>11 DEF HealInv, LateShape
<1> QED BY <1>2, <1>3, <1>7, <1>8, <1>10, <1>11, <1>12 DEF HealInv

LEMMA ExecuteActionInv ==
  ASSUME HealInv, ExecuteAction
  PROVE  HealInv'
<1>0. /\ rows \in Seq(RowSet) /\ BatchOk(batch, pc, Len(rows)) /\ pc = "act" /\ pc' = "resolve"
      /\ UseOk(rows, late, batch, pc)
  BY DEF HealInv, ExecuteAction
<1>1. Row \in 1..Len(rows) /\ batch # <<>>
  BY <1>0, RowIsThere
<1> DEFINE x == [rows[Row] EXCEPT !.acted = @ + 1]
<1>2. /\ batch' = batch /\ late' = late /\ call' = call /\ faults' = faults
      /\ rows' = [rows EXCEPT ![Row] = x]
  BY DEF ExecuteAction
<1>3. rows[Row] \in RowSet /\ rows[Row].refused \in Nat /\ rows[Row].acted \in Nat
  BY <1>1, RowCounts
<1>a. rows[Row].acted + 1 \in Nat
  BY <1>3
<1>4. /\ x \in RowSet /\ x.acted = rows[Row].acted + 1 /\ x.refused = rows[Row].refused
      /\ x.status = rows[Row].status
  BY <1>3, <1>a DEF RowSet
<1> HIDE DEF x
<1>5. /\ rows' \in Seq(RowSet) /\ Len(rows') = Len(rows) /\ rows'[Row] = x
      /\ \A j \in 1..Len(rows) : j # Row => rows'[j] = rows[j]
  BY <1>0, <1>1, <1>2, <1>4, RowBumped
<1>6. BatchOk(batch', pc', Len(rows'))
  BY <1>0, <1>2, <1>5 DEF BatchOk, Points
<1>7. ASSUME NEW i \in 1..Len(rows)
      PROVE  /\ Uses(rows', late, batch, pc', i) = Uses(rows, late, batch, pc, i)
             /\ rows'[i].refused = rows[i].refused /\ rows'[i].status = rows[i].status
             /\ Todo(batch, pc', i) => Todo(batch, pc, i)
  <2> DEFINE n == Cardinality(Open(late, i))
  <2>0. n \in Nat
    BY RowCounts
  <2>1. CASE i # Row
    <3>1. rows'[i] = rows[i] /\ ~Past(batch, pc, i) /\ ~Past(batch, pc', i)
      BY <1>5, <2>1 DEF Past, Row
    <3> QED BY <1>0, <3>1 DEF Uses, Todo
  <2>2. CASE i = Row
    <3>1. Past(batch, pc, i) /\ ~Past(batch, pc', i)
      BY <1>0, <1>1, <2>2 DEF Past, Row
    <3>2. /\ Uses(rows, late, batch, pc, i) = rows[i].acted + n + 1
          /\ Uses(rows', late, batch, pc', i) = rows'[i].acted + n + 0
      BY <3>1 DEF Uses
    <3> HIDE DEF n
    <3>3. rows'[i].acted + n + 0 = rows[i].acted + n + 1
      BY <1>3, <1>4, <1>5, <2>0, <2>2
    <3> QED BY <1>0, <1>4, <1>5, <2>2, <3>2, <3>3 DEF Todo
  <2> QED BY <2>1, <2>2
<1>8. UseOk(rows', late', batch', pc')
  BY <1>0, <1>2, <1>5, <1>7 DEF UseOk
<1> QED BY <1>2, <1>5, <1>6, <1>8 DEF HealInv

-----------------------------------------------------------------------------
(***************************************************************************)
(* Requests that were given up                                             *)
(***************************************************************************)

LEMMA LateParts ==
  ASSUME HealInv, NEW q \in late
  PROVE  /\ q.row \in 1..Len(rows) /\ CallShape(q.call)
         /\ \E o \in Ops, n \in Nat : n < faults /\ q = [op |-> <<o, n>>, row |-> q.row, call |-> q.call]
<1>1. LateShape(q, Len(rows), faults)
  BY DEF HealInv
<1>2. PICK o \in Ops, n \in Nat, i \in 1..Len(rows) : \E c :
        n < faults /\ CallShape(c) /\ q = [op |-> <<o, n>>, row |-> i, call |-> c]
  BY <1>1 DEF LateShape
<1>3. PICK c : n < faults /\ CallShape(c) /\ q = [op |-> <<o, n>>, row |-> i, call |-> c]
  BY <1>2
<1>4. q.row = i /\ q.call = c
  BY <1>3
<1> QED BY <1>3, <1>4

\* A filing given up is looked up: still one request, and no heal action.
LEMMA LateLookupInv ==
  ASSUME HealInv, NEW q \in late, q.op[1] = "file",
         late' = (late \ {q}) \cup {[q EXCEPT !.op[1] = "filing", !.call = LookedUp(q.call)]},
         UNCHANGED <<rows, faults, pc, batch, call>>
  PROVE  HealInv'
<1>0. rows \in Seq(RowSet) /\ IsFiniteSet(late) /\ CallShape(call) /\ BatchOk(batch, pc, Len(rows))
  BY DEF HealInv
<1>1. q.row \in 1..Len(rows) /\ CallShape(q.call)
  BY LateParts
<1>2. PICK o \in Ops, n \in Nat : n < faults /\ q = [op |-> <<o, n>>, row |-> q.row, call |-> q.call]
  BY LateParts
<1> DEFINE c == LookedUp(q.call)
           z == [q EXCEPT !.op[1] = "filing", !.call = LookedUp(q.call)]
<1>3. CallShape(c)
  BY <1>1, LookupKeepsShape
<1> HIDE DEF c
<1>4. z = [op |-> <<"filing", n>>, row |-> q.row, call |-> c]
  <2> DEFINE t == <<"filing", n>>
  <2>1. [q.op EXCEPT ![1] = "filing"] = t
    <3>1. q.op = <<o, n>>
      BY <1>2
    <3> QED BY <3>1
  <2> HIDE DEF t
  <2>2. ASSUME NEW i, NEW c0, NEW u, q = [op |-> u, row |-> i, call |-> c0]
        PROVE  [[q EXCEPT !.op = t] EXCEPT !.call = c] = [op |-> t, row |-> i, call |-> c]
    <3> DEFINE q2 == [q EXCEPT !.op = t]
    <3>1. q2 = [op |-> t, row |-> i, call |-> c0]
      BY <2>2
    <3> HIDE DEF q2
    <3>2. [q2 EXCEPT !.call = c] = [op |-> t, row |-> i, call |-> c]
      BY <3>1
    <3> QED BY <3>2 DEF q2
  <2>3. z = [[q EXCEPT !.op = [q.op EXCEPT ![1] = "filing"]] EXCEPT !.call = c]
    BY DEF c
  <2>4. z = [[q EXCEPT !.op = t] EXCEPT !.call = c]
    BY <2>1, <2>3
  <2> HIDE DEF z
  <2>5. [[q EXCEPT !.op = t] EXCEPT !.call = c] = [op |-> t, row |-> q.row, call |-> c]
    BY <1>2, <2>2
  <2>6. z = [op |-> t, row |-> q.row, call |-> c]
    BY <2>4, <2>5
  <2> QED BY <2>6 DEF t
<1> HIDE DEF z
<1>5. LateShape(z, Len(rows), faults)
  BY <1>1, <1>2, <1>3, <1>4 DEF LateShape, Ops
<1>6. late' = (late \ {q}) \cup {z}
  BY DEF z
<1>7. IsFiniteSet(late')
  <2>1. IsFiniteSet(late \ {q})
    BY <1>0, FS_RemoveElement
  <2> QED BY <1>6, <2>1, FS_AddElement
<1>8. \A p \in late' : LateShape(p, Len(rows), faults)
  BY <1>5, <1>6 DEF HealInv
<1>9. z.op[1] # "act"
  BY <1>4
<1>10. \A i : Open(late', i) \subseteq Open(late, i)
  BY <1>6, <1>9 DEF Open
<1>11. Calm(rows, rows')
  BY <1>0, CalmSame
<1> QED BY <1>0, <1>7, <1>8, <1>10, <1>11, CalmStep

\* A heal action given up is run: it was counted, and still is.
LEMMA LateActInv ==
  ASSUME HealInv, NEW q \in late, q.op[1] = "act",
         rows' = [rows EXCEPT ![q.row].acted = @ + 1], late' = late \ {q},
         UNCHANGED <<faults, pc, batch, call>>
  PROVE  HealInv'
<1> DEFINE w == q.row
           x == [rows[w] EXCEPT !.acted = @ + 1]
<1>0. /\ rows \in Seq(RowSet) /\ IsFiniteSet(late) /\ UseOk(rows, late, batch, pc)
      /\ BatchOk(batch, pc, Len(rows))
  BY DEF HealInv
<1>1. w \in 1..Len(rows)
  BY LateParts
<1>2. rows' = [rows EXCEPT ![w] = x]
  OBVIOUS
<1>3. rows[w] \in RowSet /\ rows[w].refused \in Nat /\ rows[w].acted \in Nat
  BY <1>1, RowCounts
<1>a. rows[w].acted + 1 \in Nat
  BY <1>3
<1>4. /\ x \in RowSet /\ x.acted = rows[w].acted + 1 /\ x.refused = rows[w].refused
      /\ x.status = rows[w].status
  BY <1>3, <1>a DEF RowSet
<1>b. q \in Open(late, w) /\ \A i : i # w => q \notin Open(late, i)
  BY DEF Open
<1> HIDE DEF x, w
<1>5. /\ rows' \in Seq(RowSet) /\ Len(rows') = Len(rows) /\ rows'[w] = x
      /\ \A j \in 1..Len(rows) : j # w => rows'[j] = rows[j]
  <2> DEFINE r2 == [rows EXCEPT ![w] = x]
  <2>1. /\ r2 \in Seq(RowSet) /\ Len(r2) = Len(rows) /\ r2[w] = x
        /\ \A j \in 1..Len(rows) : j # w => r2[j] = rows[j]
    BY <1>0, <1>1, <1>4, RowBumped
  <2>2. rows' = r2
    BY <1>2
  <2> HIDE DEF r2
  <2> QED BY <2>1, <2>2
<1>6. \A i : Open(late', i) = Open(late, i) \ {q}
  BY DEF Open
<1>7. ASSUME NEW i \in 1..Len(rows)
      PROVE  /\ Uses(rows', late', batch, pc, i) = Uses(rows, late, batch, pc, i)
             /\ rows'[i].refused = rows[i].refused /\ rows'[i].status = rows[i].status
  <2>1. CASE i # w
    <3>1. rows'[i] = rows[i] /\ Open(late', i) = Open(late, i)
      BY <1>5, <1>6, <1>b, <2>1
    <3> QED BY <3>1 DEF Uses
  <2>2. CASE i = w
    <3> DEFINE n == Cardinality(Open(late, i))
               n2 == Cardinality(Open(late', i))
               a == IF Past(batch, pc, i) THEN 1 ELSE 0
    <3>1. n \in Nat
      BY RowCounts
    <3>2. n2 = n - 1
      BY <1>0, <1>6, <1>b, <2>2, CardOpen, FS_RemoveElement
    <3>3. /\ Uses(rows, late, batch, pc, i) = rows[i].acted + n + a
          /\ Uses(rows', late', batch, pc, i) = rows'[i].acted + n2 + a
      BY DEF Uses
    <3>4. a \in Nat
      OBVIOUS
    <3> HIDE DEF n, n2, a
    <3>5. rows'[i].acted = rows[i].acted + 1 /\ rows[i].acted \in Nat
      BY <1>3, <1>4, <1>5, <2>2
    <3> DEFINE d == rows[i].acted
               d2 == rows'[i].acted
    <3>6. d2 + n2 + a = d + n + a
      <4>1. d \in Nat /\ d2 = d + 1
        BY <3>5
      <4> HIDE DEF d, d2
      <4> QED BY <3>1, <3>2, <3>4, <4>1, SumMoved
    <3> QED BY <1>4, <1>5, <2>2, <3>3, <3>6
  <2> QED BY <2>1, <2>2
<1>8. UseOk(rows', late', batch', pc')
  BY <1>0, <1>5, <1>7 DEF UseOk
<1>9. IsFiniteSet(late') /\ late' \subseteq late
  BY <1>0, FS_RemoveElement
<1> QED BY <1>5, <1>8, <1>9 DEF HealInv

LEMMA ServeLateInv ==
  ASSUME HealInv, NEW q \in late, ServeLate(q)
  PROVE  HealInv'
<1>0. rows \in Seq(RowSet)
  BY DEF HealInv
<1>1. q.row \in 1..Len(rows) /\ CallShape(q.call)
  BY LateParts
<1>2. UNCHANGED <<pc, batch, call>>
  BY DEF ServeLate, dispVars
<1>3. CASE /\ rows' \in {UpdateTriage(rows, q.row), ResolveRow(rows, q.row)}
           /\ late' = late \ {q} /\ faults' = faults
  <2>1. Calm(rows, rows')
    BY <1>0, <1>1, <1>3, CalmUpdate
  <2> QED BY <1>2, <1>3, <2>1, QuietStep
<1>4. CASE /\ q.op[1] = "act" /\ rows' = [rows EXCEPT ![q.row].acted = @ + 1]
           /\ late' = late \ {q} /\ faults' = faults
  BY <1>2, <1>4, LateActInv
<1>5. CASE /\ q.op[1] = "file"
           /\ late' = (late \ {q}) \cup
                      {[q EXCEPT !.op[1] = "filing", !.call = LookedUp(q.call)]}
           /\ rows' = rows /\ faults' = faults
  BY <1>2, <1>5, LateLookupInv
<1>6. CASE FileServed(q.call) /\ late' = late \ {q}
  <2>1. Calm(rows, rows') /\ faults' \in {faults, faults + 1}
    BY <1>1, <1>6, FileServedCalm
  <2> QED BY <1>2, <1>6, <2>1, QuietStep
<1> QED BY <1>3, <1>4, <1>5, <1>6 DEF ServeLate

\* The dispatcher waits for one request at most, and for a heal action only
\* when it is due.
LEMMA AskedOne ==
  ASSUME HealInv
  PROVE  \/ Asked = {}
         \/ \E o \in Ops : \E c : /\ Asked = {[op |-> o, row |-> Row, call |-> c]}
                                  /\ CallShape(c) /\ o = pc
<1>1. CallShape(call) /\ CallShape(NoCall)
  BY NoCallShape DEF HealInv
<1>2. CASE pc \in {"triage", "resolve"}
  <2>1. Asked = {[op |-> pc, row |-> Row, call |-> NoCall]} /\ pc \in Ops
    BY <1>2 DEF Asked, Ops
  <2> QED BY <1>1, <2>1
<1>3. CASE pc \in {"file", "filing"}
  <2>1. Asked = {[op |-> pc, row |-> Row, call |-> call]} /\ pc \in Ops
    BY <1>3 DEF Asked, Ops
  <2> QED BY <1>1, <2>1
<1>4. CASE pc = "act" /\ rows[Row].pat \in Remedied
  <2>1. Asked = {[op |-> "act", row |-> Row, call |-> NoCall]} /\ pc \in Ops
    BY <1>4 DEF Asked, Ops
  <2> QED BY <1>1, <1>4, <2>1
<1>5. CASE /\ pc \notin {"triage", "resolve"} /\ pc \notin {"file", "filing"}
           /\ ~(pc = "act" /\ rows[Row].pat \in Remedied)
  BY <1>5 DEF Asked
<1> QED BY <1>2, <1>3, <1>4, <1>5

\* What the dispatcher asked for may come late: the action that was due is
\* now one of those.
LEMMA CutOffInv ==
  ASSUME HealInv, NEW crash \in BOOLEAN, CutOff(crash)
  PROVE  HealInv'
<1>0. /\ rows \in Seq(RowSet) /\ IsFiniteSet(late) /\ UseOk(rows, late, batch, pc)
      /\ BatchOk(batch, pc, Len(rows)) /\ faults \in Nat
      /\ \A q \in late : LateShape(q, Len(rows), faults)
  BY DEF HealInv
<1>1. /\ rows' = rows /\ pc' = "down" /\ batch' = <<>> /\ call' = NoCall /\ faults' = faults + 1
      /\ late' = late \cup {[q EXCEPT !.op = <<@, faults>>] : q \in Asked}
  BY DEF CutOff, Fault, storeVars
<1>2. BatchOk(batch', pc', Len(rows'))
  BY <1>1 DEF BatchOk, Points
<1>3. faults' \in Nat /\ faults < faults' /\ \A m \in Nat : m < faults => m < faults'
  BY <1>0, <1>1
<1>4. \A q \in late : LateShape(q, Len(rows'), faults')
  BY <1>0, <1>1, <1>3 DEF LateShape
<1>5. \A i : ~Past(batch', pc', i) /\ ~Todo(batch', pc', i)
  BY <1>1 DEF Past, Todo
<1>6. CASE Asked = {}
  <2>1. late' = late
    BY <1>1, <1>6
  <2>2. ASSUME NEW i \in 1..Len(rows)
        PROVE  /\ Uses(rows', late', batch', pc', i) \in Nat
               /\ Uses(rows, late, batch, pc, i) \in Nat
               /\ Uses(rows', late', batch', pc', i) <= Uses(rows, late, batch, pc, i)
    <3> DEFINE n == Cardinality(Open(late, i))
               a == IF Past(batch, pc, i) THEN 1 ELSE 0
    <3>1. n \in Nat /\ rows[i].acted \in Nat /\ a \in Nat
      BY RowCounts
    <3>2. /\ Uses(rows, late, batch, pc, i) = rows[i].acted + n + a
          /\ Uses(rows', late', batch', pc', i) = rows[i].acted + n + 0
      BY <1>1, <1>5, <2>1 DEF Uses
    <3> HIDE DEF n, a
    <3> QED BY <3>1, <3>2
  <2>3. IsFiniteSet(late') /\ \A q \in late' : LateShape(q, Len(rows'), faults')
    BY <1>0, <1>4, <2>1
  <2>4. UseOk(rows', late', batch', pc')
    <3> SUFFICES ASSUME NEW i \in 1..Len(rows)
                 PROVE  /\ Uses(rows', late', batch', pc', i) <= 1 + rows[i].refused
                        /\ rows[i].status = "pending" \/ Todo(batch', pc', i)
                             => Uses(rows', late', batch', pc', i) <= rows[i].refused
      BY <1>1 DEF UseOk
    <3>1. /\ Uses(rows, late, batch, pc, i) <= 1 + rows[i].refused
          /\ rows[i].status = "pending" => Uses(rows, late, batch, pc, i) <= rows[i].refused
      BY <1>0 DEF UseOk
    <3>3. rows[i].refused \in Nat
      BY RowCounts
    <3> QED BY <1>5, <2>2, <3>1, <3>3
  <2> QED BY <1>0, <1>1, <1>2, <1>3, <2>3, <2>4, NoCallShape DEF HealInv
<1>7. CASE Asked # {}
  <2>1. PICK o \in Ops : \E c : /\ Asked = {[op |-> o, row |-> Row, call |-> c]}
                                /\ CallShape(c) /\ o = pc
    BY <1>7, AskedOne
  <2>2. PICK c : Asked = {[op |-> o, row |-> Row, call |-> c]} /\ CallShape(c) /\ o = pc
    BY <2>1
  <2> DEFINE z == [op |-> <<o, faults>>, row |-> Row, call |-> c]
  <2>3. late' = late \cup {z}
    BY <1>1, <2>2
  <2>4. Row \in 1..Len(rows) /\ batch # <<>>
    BY <2>2, RowIsThere DEF Ops
  <2>5. LateShape(z, Len(rows'), faults')
    BY <1>0, <1>1, <1>3, <2>2, <2>4 DEF LateShape
  <2>6. z \notin late
    <3>1. ASSUME z \in late PROVE FALSE
      <4>1. PICK o2 \in Ops, n2 \in Nat :
              n2 < faults /\ z = [op |-> <<o2, n2>>, row |-> z.row, call |-> z.call]
        BY <3>1, LateParts
      <4>2. z.op = <<o, faults>> /\ z.op = <<o2, n2>>
        BY <4>1
      <4>3. n2 = faults
        BY <4>2
      <4> QED BY <1>0, <4>1, <4>3
    <3> QED BY <3>1
  <2>7. z.op[1] = pc /\ z.row = Row
    BY <2>2
  <2> HIDE DEF z
  <2>8. IsFiniteSet(late') /\ \A q \in late' : LateShape(q, Len(rows'), faults')
    BY <1>0, <1>4, <2>3, <2>5, FS_AddElement
  <2>9. ASSUME NEW i \in 1..Len(rows)
        PROVE  /\ Uses(rows', late', batch', pc', i) \in Nat
               /\ Uses(rows, late, batch, pc, i) \in Nat
               /\ Uses(rows', late', batch', pc', i) <= Uses(rows, late, batch, pc, i)
    <3> DEFINE n == Cardinality(Open(late, i))
               n2 == Cardinality(Open(late', i))
               a == IF Past(batch, pc, i) THEN 1 ELSE 0
    <3>1. n \in Nat /\ rows[i].acted \in Nat /\ a \in Nat
      BY RowCounts
    <3>2. /\ Uses(rows, late, batch, pc, i) = rows[i].acted + n + a
          /\ Uses(rows', late', batch', pc', i) = rows[i].acted + n2 + 0
      BY <1>1, <1>5 DEF Uses
    <3>3. CASE pc = "act" /\ i = Row
      <4>1. Open(late', i) = Open(late, i) \cup {z} /\ z \notin Open(late, i)
        BY <2>3, <2>6, <2>7, <3>3 DEF Open
      <4>2. n2 = n + 1
        BY <1>0, <4>1, CardOpen, FS_AddElement
      <4>3. a = 1
        BY <2>4, <3>3 DEF Past, Row
      <4> HIDE DEF n, n2, a
      <4> QED BY <3>1, <3>2, <4>2, <4>3
    <3>4. CASE ~(pc = "act" /\ i = Row)
      <4>1. Open(late', i) = Open(late, i)
        BY <2>3, <2>7, <3>4 DEF Open
      <4>2. n2 = n
        BY <4>1
      <4> HIDE DEF n, n2, a
      <4> QED BY <3>1, <3>2, <4>2
    <3> QED BY <3>3, <3>4
  <2>10. UseOk(rows', late', batch', pc')
    <3> SUFFICES ASSUME NEW i \in 1..Len(rows)
                 PROVE  /\ Uses(rows', late', batch', pc', i) <= 1 + rows[i].refused
                        /\ rows[i].status = "pending" \/ Todo(batch', pc', i)
                             => Uses(rows', late', batch', pc', i) <= rows[i].refused
      BY <1>1 DEF UseOk
    <3>1. /\ Uses(rows, late, batch, pc, i) <= 1 + rows[i].refused
          /\ rows[i].status = "pending" => Uses(rows, late, batch, pc, i) <= rows[i].refused
      BY <1>0 DEF UseOk
    <3>3. rows[i].refused \in Nat
      BY RowCounts
    <3> QED BY <1>5, <2>9, <3>1, <3>3
  <2> QED BY <1>0, <1>1, <1>2, <1>3, <2>8, <2>10, NoCallShape DEF HealInv
<1> QED BY <1>6, <1>7

-----------------------------------------------------------------------------
(***************************************************************************)
(* The theorem                                                             *)
(***************************************************************************)

LEMMA InitInv ==
  ASSUME Init
  PROVE  HealInv
<1>1. /\ rows = <<>> /\ batch = <<>> /\ pc = "down" /\ call = NoCall /\ late = {} /\ faults = 0
  BY DEF Init
<1>2. rows \in Seq(RowSet) /\ Len(rows) = 0
  BY <1>1
<1>3. BatchOk(batch, pc, Len(rows))
  BY <1>1 DEF BatchOk, Points
<1>4. UseOk(rows, late, batch, pc)
  BY <1>2 DEF UseOk
<1> QED BY <1>1, <1>2, <1>3, <1>4, NoCallShape, FS_EmptySet DEF HealInv

\* Steps that touch neither rows nor the dispatcher.
LEMMA ElsewhereInv ==
  ASSUME HealInv, UNCHANGED <<rows, faults, pc, batch, call>>, late' \subseteq late
  PROVE  HealInv'
<1>1. Calm(rows, rows')
  BY CalmSame DEF HealInv
<1> QED BY <1>1, QuietStep

LEMMA NextInv ==
  ASSUME HealInv, [Next]_vars
  PROVE  HealInv'
<1>1. CASE \E p \in Patterns : PushError(p) \/ PushEvent(p)
  BY <1>1, PushInv
<1>2. CASE VacuumAbandoned \/ VacuumOld
  BY <1>2, VacuumInv
<1>3. CASE Dispatcher \/ TriageSkips
  BY <1>3, ReconnectInv, PollInv, TriageInv, FilingInv, ExecuteActionInv, SkipInv DEF Dispatcher
<1>4. CASE \E crash \in BOOLEAN : CutOff(crash)
  BY <1>4, CutOffInv
<1>5. CASE \E q \in late : ServeLate(q)
  BY <1>5, ServeLateInv
<1>6. CASE \E q \in late : DropLate(q)
  BY <1>6, ElsewhereInv DEF DropLate, storeVars, dispVars
<1>7. CASE (\E k \in DOMAIN items : CloseHealWorkItem(k)) \/ NewDay
  BY <1>7, ElsewhereInv DEF CloseHealWorkItem, NewDay, storeVars, dispVars
<1>8. CASE Tick
  BY <1>8, TickInv
<1>9. CASE UNCHANGED vars
  BY <1>9, ElsewhereInv DEF vars, storeVars, dispVars
<1> QED BY <1>1, <1>2, <1>3, <1>4, <1>5, <1>6, <1>7, <1>8, <1>9 DEF Next

\* However requests time out, arrive late or are refused, crashes of the
\* dispatcher included, the heal action of a row (process_row, execute_action)
\* runs once, and once more for each triage of it that the store refused.
THEOREM RepeatsAreRefusals == Spec => []RepeatNeedsRefusal
<1>1. Init => HealInv
  BY InitInv
<1>2. HealInv /\ [Next]_vars => HealInv'
  BY NextInv
<1>3. HealInv => RepeatNeedsRefusal
  <2> SUFFICES ASSUME HealInv, NEW i \in DOMAIN rows
               PROVE  rows[i].acted <= 1 + rows[i].refused
    BY DEF RepeatNeedsRefusal
  <2>1. i \in 1..Len(rows)
    BY DEF HealInv
  <2> DEFINE n == Cardinality(Open(late, i))
             a == IF Past(batch, pc, i) THEN 1 ELSE 0
  <2>2. rows[i].acted + n + a <= 1 + rows[i].refused
    BY <2>1 DEF HealInv, UseOk, Uses
  <2>3. rows[i].acted \in Nat /\ rows[i].refused \in Nat /\ n \in Nat /\ a \in Nat
    BY <2>1, RowCounts
  <2> HIDE DEF n, a
  <2> QED BY <2>2, <2>3
<1> QED BY <1>1, <1>2, <1>3, PTL DEF Spec

-----------------------------------------------------------------------------
(***************************************************************************)
(* Types                                                                   *)
(***************************************************************************)

\* A finite set of numbers that is not empty has a least one: of its initial
\* segments, the smallest.
LEMMA LeastExists ==
  ASSUME NEW D \in SUBSET Nat, IsFiniteSet(D), D # {}
  PROVE  \E m \in D : \A j \in D : m <= j
<1> DEFINE Seg(m) == {j \in D : j <= m}
           T == {Seg(m) : m \in D}
           R == StrictSubsetOrdering(D)
<1>1. IsWellFoundedOn(R, FiniteSubsetsOf(D))
  BY FS_StrictSubsetOrderingWellFounded
<1>2. T \subseteq FiniteSubsetsOf(D) /\ T # {}
  <2>1. ASSUME NEW m \in D PROVE Seg(m) \in FiniteSubsetsOf(D)
    <3>1. Seg(m) \subseteq D
      OBVIOUS
    <3> HIDE DEF Seg
    <3>2. IsFiniteSet(Seg(m))
      BY <3>1, FS_Subset
    <3> QED BY <3>1, <3>2 DEF FiniteSubsetsOf
  <2> QED BY <2>1
<1> HIDE DEF R, T
<1>3. PICK x \in T : \A y \in T : ~ (<<y, x>> \in R)
  BY <1>1, <1>2, WFMin
<1>4. PICK m \in D : x = Seg(m)
  BY <1>3 DEF T
<1>5. ASSUME NEW j \in D, ~(m <= j) PROVE FALSE
  <2>1. j < m /\ j \in Nat /\ m \in Nat
    BY <1>5
  <2>2. Seg(j) \subseteq Seg(m) /\ m \in Seg(m) /\ m \notin Seg(j)
    <3>1. \A i \in D : i \in Nat
      OBVIOUS
    <3>2. \A i \in Nat : i <= j => i <= m
      BY <2>1
    <3>3. m <= m /\ ~(m <= j)
      BY <2>1
    <3> QED BY <3>1, <3>2, <3>3
  <2>3. Seg(j) \in SUBSET D /\ Seg(m) \in SUBSET D /\ Seg(j) # Seg(m)
    BY <2>2
  <2>4. <<Seg(j), Seg(m)>> \in R
    <3> HIDE DEF Seg
    <3> QED BY <2>2, <2>3 DEF R, StrictSubsetOrdering
  <2>5. Seg(j) \in T
    BY DEF T
  <2> QED BY <1>3, <1>4, <2>4, <2>5
<1> QED BY <1>4, <1>5

ItemSet == [pat : AllPatterns, count : Nat, open : BOOLEAN]

\* A filing: what it found is an item of its pattern.
CallFits(c, its) ==
  /\ c.pat \in AllPatterns /\ c.count \in Nat /\ c.seen \in Nat
  /\ c.found \in 0..Len(its)
  /\ c.found # 0 => its[c.found].pat = c.pat

\* Items are added and keep their pattern.
ItemsGrow(its, its2) ==
  /\ its2 \in Seq(ItemSet) /\ Len(its) <= Len(its2)
  /\ \A k \in 1..Len(its) : its2[k].pat = its[k].pat

LedgerOk == items \in Seq(ItemSet) /\ audits \in Nat /\ Len(items) <= audits /\ spent \in 0..Budget
CallsOk == CallFits(call, items) /\ \A q \in late : CallFits(q.call, items)
WindowOk ==
  /\ events = [p \in AllPatterns |-> events[p]]
  /\ \A p \in AllPatterns : events[p] \in Seq(0..(Window + 1)) /\ Len(events[p]) < Threshold

TypeInv ==
  /\ HealInv /\ vac \in BOOLEAN /\ faults \in 0..MaxFaults
  /\ LedgerOk /\ CallsOk /\ WindowOk

LEMMA NoCallFits ==
  ASSUME NEW its \in Seq(ItemSet)
  PROVE  CallFits(NoCall, its)
<1>1. Len(its) \in Nat
  OBVIOUS
<1> QED BY <1>1 DEF CallFits, NoCall, AllPatterns

LEMMA FitsGrown ==
  ASSUME NEW its \in Seq(ItemSet), NEW its2, ItemsGrow(its, its2), NEW c, CallFits(c, its)
  PROVE  CallFits(c, its2)
<1>1. Len(its) \in Nat /\ Len(its2) \in Nat /\ Len(its) <= Len(its2)
  BY DEF ItemsGrow
<1>2. c.found \in 0..Len(its2)
  BY <1>1 DEF CallFits
<1>3. c.found # 0 => c.found \in 1..Len(its)
  BY <1>1 DEF CallFits
<1>4. c.found # 0 => its2[c.found].pat = c.pat
  BY <1>3 DEF CallFits, ItemsGrow
<1> QED BY <1>2, <1>4 DEF CallFits

\* The lookup finds an open item of the pattern, or none.
LEMMA OpenItemFound ==
  ASSUME items \in Seq(ItemSet), NEW p
  PROVE  \/ OpenItem(p) = 0
         \/ OpenItem(p) \in 1..Len(items) /\ items[OpenItem(p)].pat = p
<1> DEFINE open == {k \in DOMAIN items : items[k].open /\ items[k].pat = p}
<1>1. OpenItem(p) = IF open = {} THEN 0 ELSE CHOOSE k \in open : \A j \in open : k <= j
  BY DEF OpenItem
<1>2. DOMAIN items = 1..Len(items) /\ Len(items) \in Nat
  OBVIOUS
<1>3. open \in SUBSET Nat /\ IsFiniteSet(open)
  <2>1. IsFiniteSet(1..Len(items)) /\ open \subseteq 1..Len(items)
    BY <1>2, FS_Interval
  <2> QED BY <1>2, <2>1, FS_Subset
<1>4. \A k \in open : k \in 1..Len(items) /\ items[k].pat = p
  BY <1>2
<1> HIDE DEF open
<1>5. CASE open # {}
  <2>1. \E k \in open : \A j \in open : k <= j
    BY <1>3, <1>5, LeastExists
  <2>2. OpenItem(p) \in open
    BY <1>1, <1>5, <2>1
  <2> QED BY <1>4, <2>2
<1> QED BY <1>1, <1>5

LEMMA LookupFits ==
  ASSUME items \in Seq(ItemSet), NEW c, CallShape(c), CallFits(c, items)
  PROVE  /\ CallFits(LookedUp(c), items)
         /\ LookedUp(c).pat = c.pat /\ LookedUp(c).count = c.count
         /\ LET d == LookedUp(c) IN d.found # 0 => d.seen = items[d.found].count
<1> DEFINE k2 == OpenItem(c.pat)
           m2 == IF k2 = 0 THEN 0 ELSE items[k2].count
<1>1. PICK p \in AllPatterns : \E n, k, m : c = [pat |-> p, count |-> n, found |-> k, seen |-> m]
  BY DEF CallShape
<1>2. PICK n, k, m : c = [pat |-> p, count |-> n, found |-> k, seen |-> m]
  BY <1>1
<1>3. LookedUp(c) = [c EXCEPT !.found = k2, !.seen = m2]
  BY DEF LookedUp
<1>4. k2 \in 0..Len(items) /\ m2 \in Nat /\ (k2 # 0 => items[k2].pat = c.pat)
  <2>1. k2 = 0 \/ (k2 \in 1..Len(items) /\ items[k2].pat = c.pat)
    BY OpenItemFound
  <2>2. \A j \in 1..Len(items) : items[j] \in ItemSet
    OBVIOUS
  <2>3. \A j \in 1..Len(items) : items[j].count \in Nat
    BY <2>2 DEF ItemSet
  <2>4. Len(items) \in Nat
    OBVIOUS
  <2> HIDE DEF k2
  <2> QED BY <2>1, <2>3, <2>4
<1>5. k2 # 0 => m2 = items[k2].count
  OBVIOUS
<1> HIDE DEF k2, m2
<1>6. LookedUp(c) = [pat |-> p, count |-> n, found |-> k2, seen |-> m2]
  BY <1>2, <1>3
<1>7. c.pat = p /\ c.count = n
  BY <1>2
<1> DEFINE d == LookedUp(c)
<1>8. d.pat = p /\ d.count = n /\ d.found = k2 /\ d.seen = m2
  BY <1>6
<1> HIDE DEF d
<1>9. CallFits(d, items) /\ d.pat = c.pat /\ d.count = c.count
      /\ (d.found # 0 => d.seen = items[d.found].count)
  BY <1>4, <1>5, <1>7, <1>8 DEF CallFits
<1> QED BY <1>9 DEF d

\* What the tracker holds once an occurrence is recorded.
LEMMA RecordedFits ==
  ASSUME WindowOk, NEW p \in AllPatterns
  PROVE  Recorded(p) \in Seq(0..(Window + 1)) /\ Len(Recorded(p)) \in 1..(Len(events[p]) + 1)
<1> DEFINE q == events[p]
           D == {j \in DOMAIN q : q[j] <= Window} \cup {Len(q) + 1}
           first == Min(D)
           s == SubSeq(q, first, Len(q))
<1>1. q \in Seq(0..(Window + 1))
  BY DEF WindowOk
<1> HIDE DEF q
<1>2. Len(q) \in Nat /\ DOMAIN q = 1..Len(q)
  BY <1>1
<1>3. D \subseteq 1..(Len(q) + 1) /\ D # {}
  BY <1>2
<1>4. first \in 1..(Len(q) + 1)
  <2>1. IsFiniteSet(1..(Len(q) + 1)) /\ 1..(Len(q) + 1) \subseteq Nat
    BY <1>2, FS_Interval
  <2> HIDE DEF D
  <2>2. D \in SUBSET Nat /\ IsFiniteSet(D)
    BY <1>3, <2>1, FS_Subset
  <2>3. \E m \in D : \A j \in D : m <= j
    BY <1>3, <2>2, LeastExists
  <2>4. first \in D
    BY <2>3 DEF Min
  <2> QED BY <1>3, <2>4
<1>5. Recorded(p) = Append(s, 0)
  BY DEF Recorded, q
<1> HIDE DEF first, D
<1>6. s \in Seq(0..(Window + 1)) /\ Len(s) \in 0..Len(q)
  <2>1. first \in Int /\ Len(q) \in Int /\ \A i \in first..Len(q) : i \in 1..Len(q)
    BY <1>2, <1>4
  <2> DEFINE A == 0..(Window + 1)
  <2> HIDE DEF A
  <2>a. \A i \in 1..Len(q) : q[i] \in A
    <3>1. q \in Seq(A)
      BY <1>1 DEF A
    <3> QED BY <3>1
  <2>2. \A i \in first..Len(q) : q[i] \in 0..(Window + 1)
    BY <2>1, <2>a DEF A
  <2>3. /\ s \in Seq(0..(Window + 1))
        /\ Len(s) = IF first <= Len(q) THEN Len(q) - first + 1 ELSE 0
    BY <2>1, <2>2, SubSeqProperties
  <2> QED BY <1>2, <1>4, <2>3
<1> HIDE DEF s
<1>7. 0 \in 0..(Window + 1)
  BY HealAssumption
<1>8. Append(s, 0) \in Seq(0..(Window + 1)) /\ Len(Append(s, 0)) = Len(s) + 1
  BY <1>6, <1>7
<1>9. Len(s) + 1 \in 1..(Len(q) + 1)
  BY <1>2, <1>6
<1> QED BY <1>5, <1>8, <1>9 DEF q

\* What is asked of the lane grows the ledger, or leaves it alone.
LEMMA LedgerGrows ==
  ASSUME LedgerOk, NEW q, q.pat \in AllPatterns, q.count \in Nat, q.seen \in Nat,
         q.found \in 0..Len(items), q.found # 0 => items[q.found].pat = q.pat, FileServed(q)
  PROVE  LedgerOk' /\ ItemsGrow(items, items')
<1>0. /\ items \in Seq(ItemSet) /\ Len(items) \in Nat /\ audits \in Nat /\ spent \in 0..Budget
      /\ Len(items) <= audits /\ Budget \in Nat
  BY HealAssumption DEF LedgerOk
<1>1. CASE Bump(q)
  <2> DEFINE x == [pat |-> q.pat, count |-> q.seen + q.count, open |-> TRUE]
             k == q.found
  <2>1. x \in ItemSet /\ x.pat = q.pat
    BY DEF ItemSet
  <2>2. k \in 1..Len(items) /\ items[k].pat = q.pat /\ items' = [items EXCEPT ![k] = x]
    BY <1>0, <1>1 DEF Bump
  <2>3. audits' = audits /\ spent' = spent
    BY <1>1 DEF Bump
  <2> HIDE DEF x, k
  <2>4. items' \in Seq(ItemSet) /\ Len(items') = Len(items)
    BY <1>0, <2>1, <2>2
  <2>5. \A j \in 1..Len(items) : items'[j] = IF j = k THEN x ELSE items[j]
    BY <1>0, <2>2
  <2>6. \A j \in 1..Len(items) : items'[j].pat = items[j].pat
    BY <2>1, <2>2, <2>5
  <2> QED BY <1>0, <2>3, <2>4, <2>6 DEF LedgerOk, ItemsGrow
<1>2. CASE File(q, FiledRows(q.pat)) \/ File(q, FiledRowsHalfDone(q.pat))
  <2> DEFINE x == [pat |-> q.pat, count |-> q.count, open |-> TRUE]
  <2>1. x \in ItemSet
    BY DEF ItemSet
  <2>2. items' = Append(items, x) /\ audits' = audits + 1 /\ spent' = spent + 1 /\ spent < Budget
    BY <1>2 DEF File
  <2> HIDE DEF x
  <2>3. /\ items' \in Seq(ItemSet) /\ Len(items') = Len(items) + 1
        /\ \A j \in 1..Len(items) : items'[j] = items[j]
    BY <1>0, <2>1, <2>2
  <2>4. audits' \in Nat /\ spent' \in 0..Budget /\ Len(items') <= audits'
    BY <1>0, <2>2, <2>3
  <2>5. Len(items) <= Len(items')
    BY <1>0, <2>3
  <2> QED BY <2>3, <2>4, <2>5 DEF LedgerOk, ItemsGrow
<1>3. CASE FileRefused(q) \/ FileFails(q)
  <2>1. /\ items' = items /\ audits' \in {audits, audits + 1}
        /\ spent' = spent \/ (spent < Budget /\ spent' = spent + 1)
    BY <1>3 DEF FileRefused, FileFails
  <2>2. spent' \in 0..Budget /\ audits' \in Nat /\ Len(items) <= audits'
    BY <1>0, <2>1
  <2> QED BY <1>0, <2>1, <2>2 DEF LedgerOk, ItemsGrow
<1> QED BY <1>1, <1>2, <1>3 DEF FileServed

LEMMA LedgerStep ==
  ASSUME HealInv, LedgerOk, CallsOk, [Next]_vars
  PROVE  LedgerOk' /\ ItemsGrow(items, items')
<1>0. /\ items \in Seq(ItemSet) /\ Len(items) \in Nat /\ audits \in Nat /\ spent \in 0..Budget
      /\ Len(items) <= audits /\ Budget \in Nat
  BY HealAssumption DEF LedgerOk
<1>1. CASE UNCHANGED filingVars
  <2>1. items' = items /\ audits' = audits /\ spent' = spent
    BY <1>1 DEF filingVars
  <2> QED BY <1>0, <2>1 DEF LedgerOk, ItemsGrow
<1>2. CASE NewDay
  <2>1. items' = items /\ audits' = audits /\ spent' = 0
    BY <1>2 DEF NewDay
  <2>2. 0 \in 0..Budget
    BY <1>0
  <2> QED BY <1>0, <2>1, <2>2 DEF LedgerOk, ItemsGrow
<1>3. ASSUME NEW k \in DOMAIN items, CloseHealWorkItem(k) PROVE LedgerOk' /\ ItemsGrow(items, items')
  <2> DEFINE x == [items[k] EXCEPT !.open = FALSE]
  <2>1. k \in 1..Len(items) /\ items[k] \in ItemSet
    BY <1>0
  <2>2. x \in ItemSet /\ x.pat = items[k].pat
    BY <2>1 DEF ItemSet
  <2>3. items' = [items EXCEPT ![k] = x] /\ audits' = audits /\ spent' = spent
    BY <1>3 DEF CloseHealWorkItem
  <2> HIDE DEF x
  <2>4. items' \in Seq(ItemSet) /\ Len(items') = Len(items)
    BY <1>0, <2>1, <2>2, <2>3
  <2>5. \A j \in 1..Len(items) : items'[j] = IF j = k THEN x ELSE items[j]
    BY <1>0, <2>1, <2>3
  <2>6. \A j \in 1..Len(items) : items'[j].pat = items[j].pat
    BY <2>2, <2>5
  <2> QED BY <1>0, <2>3, <2>4, <2>6 DEF LedgerOk, ItemsGrow
<1>4. CASE FileReply
  BY <1>4, LedgerGrows DEF FileReply, CallsOk, CallFits
<1>5. ASSUME NEW q \in late, ServeLate(q), ~ UNCHANGED filingVars
      PROVE  LedgerOk' /\ ItemsGrow(items, items')
  <2>1. FileServed(q.call)
    BY <1>5 DEF ServeLate, filingVars
  <2> QED BY <2>1, LedgerGrows DEF CallsOk, CallFits
<1>6. \/ UNCHANGED filingVars \/ NewDay \/ FileReply
      \/ \E k \in DOMAIN items : CloseHealWorkItem(k)
      \/ \E q \in late : ServeLate(q)
  BY DEF Next, Dispatcher, vars, PushError, PushEvent, VacuumAbandoned, VacuumOld, Reconnect, Poll,
         Triage, FileLookup, ExecuteAction, Resolve, TriageSkips, CutOff, DropLate, Tick
<1> QED BY <1>1, <1>2, <1>3, <1>4, <1>5, <1>6

\* A breach asks for the occurrences that were in the window.
LEMMA RecordFits ==
  ASSUME HealInv, LedgerOk, CallsOk, WindowOk, NEW i \in 1..Len(rows), Record(i)
  PROVE  CallFits(call', items) /\ WindowOk'
<1>0. items \in Seq(ItemSet) /\ CallFits(call, items)
  BY DEF LedgerOk, CallsOk
<1>1. CASE rows[i].kind = "filed"
  <2>1. events' = events /\ call' = call
    BY <1>1 DEF Record
  <2> QED BY <1>0, <2>1 DEF WindowOk
<1>2. CASE rows[i].kind # "filed"
  <2> DEFINE p == rows[i].pat
             s == Recorded(p)
             t == IF Len(s) >= Threshold THEN <<>> ELSE s
  <2>1. /\ events' = [events EXCEPT ![p] = t]
        /\ call' = [NoCall EXCEPT !.pat = p, !.count = Len(s)] \/ call' = NoCall
    BY <1>2 DEF Record
  <2>2. rows[i] \in RowSet
    BY RowCounts
  <2>3. p \in AllPatterns
    BY <2>2 DEF RowSet
  <2>4. s \in Seq(0..(Window + 1)) /\ Len(s) \in Nat
    BY <2>3, RecordedFits
  <2>5. t \in Seq(0..(Window + 1)) /\ Len(t) < Threshold
    <3>1. Threshold \in Nat /\ 0 < Threshold
      BY HealAssumption
    <3>2. <<>> \in Seq(0..(Window + 1)) /\ Len(<<>>) = 0
      OBVIOUS
    <3> HIDE DEF s
    <3>3. CASE Len(s) >= Threshold
      BY <3>1, <3>2, <3>3
    <3>4. CASE ~(Len(s) >= Threshold)
      BY <2>4, <3>1, <3>4
    <3> QED BY <3>3, <3>4
  <2> HIDE DEF t, s, p
  <2>6. WindowOk'
    <3>1. events = [x \in AllPatterns |-> events[x]]
      BY DEF WindowOk
    <3>2. events' = [x \in AllPatterns |-> IF x = p THEN t ELSE events[x]]
      BY <2>1, <3>1
    <3>3. events' = [x \in AllPatterns |-> events'[x]]
      BY <3>2
    <3>4. ASSUME NEW x \in AllPatterns
          PROVE  events'[x] \in Seq(0..(Window + 1)) /\ Len(events'[x]) < Threshold
      <4>1. events'[x] = t \/ events'[x] = events[x]
        BY <3>2
      <4>2. events[x] \in Seq(0..(Window + 1)) /\ Len(events[x]) < Threshold
        BY DEF WindowOk
      <4> QED BY <2>5, <4>1, <4>2
    <3> QED BY <3>3, <3>4 DEF WindowOk
  <2>7. CallFits(call', items)
    <3>1. CASE call' = NoCall
      BY <1>0, <3>1, NoCallFits
    <3>2. CASE call' = [NoCall EXCEPT !.pat = p, !.count = Len(s)]
      <4> DEFINE n == Len(s)
      <4> HIDE DEF n
      <4>1. /\ [NoCall EXCEPT !.pat = p, !.count = n].pat = p
            /\ [NoCall EXCEPT !.pat = p, !.count = n].count = n
            /\ [NoCall EXCEPT !.pat = p, !.count = n].found = 0
            /\ [NoCall EXCEPT !.pat = p, !.count = n].seen = 0
        BY DEF NoCall
      <4>2. call'.pat = p /\ call'.count = n /\ call'.found = 0 /\ call'.seen = 0
        BY <3>2, <4>1 DEF n
      <4>3. 0 \in 0..Len(items)
        BY <1>0
      <4> QED BY <2>3, <2>4, <4>2, <4>3 DEF CallFits, n
    <3> QED BY <2>1, <3>1, <3>2
  <2> QED BY <2>6, <2>7
<1> QED BY <1>1, <1>2

\* What becomes of the filings: each is kept, looked up or new.
LEMMA CallsStep ==
  ASSUME HealInv, LedgerOk, CallsOk, WindowOk, [Next]_vars, ItemsGrow(items, items')
  PROVE  CallsOk'
<1>0. items \in Seq(ItemSet) /\ items' \in Seq(ItemSet) /\ CallFits(call, items) /\ CallShape(call)
  BY DEF LedgerOk, CallsOk, HealInv, ItemsGrow
<1>1. CallFits(NoCall, items) /\ CallFits(NoCall, items')
  BY <1>0, NoCallFits
<1>2. CallFits(call, items') /\ \A q \in late : CallFits(q.call, items')
  BY <1>0, FitsGrown DEF CallsOk
<1>3. CASE Triage
  <2>1. Record(Row) /\ pc = "triage" /\ late' = late
    BY <1>3 DEF Triage
  <2>2. CallFits(call', items)
    BY <2>1, RowIsThere, RecordFits
  <2> QED BY <1>0, <1>2, <2>1, <2>2, FitsGrown DEF CallsOk
<1>4. CASE FileLookup
  <2>1. call' = LookedUp(call) /\ late' = late
    BY <1>4 DEF FileLookup
  <2>2. CallFits(call', items)
    BY <1>0, <2>1, LookupFits
  <2> QED BY <1>0, <1>2, <2>1, <2>2, FitsGrown DEF CallsOk
<1>5. ASSUME NEW crash \in BOOLEAN, CutOff(crash) PROVE CallsOk'
  <2>1. call' = NoCall /\ late' = late \cup {[q EXCEPT !.op = <<@, faults>>] : q \in Asked}
    BY <1>5 DEF CutOff
  <2>2. ASSUME NEW q \in Asked PROVE [q EXCEPT !.op = <<@, faults>>].call \in {NoCall, call}
    <3>1. /\ Asked \subseteq {[op |-> pc, row |-> Row, call |-> NoCall],
                             [op |-> pc, row |-> Row, call |-> call],
                             [op |-> "act", row |-> Row, call |-> NoCall]}
      BY DEF Asked
    <3>2. q = [op |-> q.op, row |-> Row, call |-> q.call] /\ q.call \in {NoCall, call}
      BY <2>2, <3>1
    <3> QED BY <3>2
  <2> QED BY <1>1, <1>2, <2>1, <2>2 DEF CallsOk
<1>6. ASSUME NEW q \in late, ServeLate(q) PROVE CallsOk'
  <2>1. call' = call
    BY <1>6 DEF ServeLate, dispVars
  <2>2. CASE late' = late \ {q}
    BY <1>2, <2>1, <2>2 DEF CallsOk
  <2>3. CASE late' = (late \ {q}) \cup
                     {[q EXCEPT !.op[1] = "filing", !.call = LookedUp(q.call)]}
    <3> DEFINE c == LookedUp(q.call)
    <3>1. CallShape(q.call) /\ CallFits(q.call, items)
      BY LateParts DEF CallsOk
    <3>2. CallFits(c, items')
      BY <1>0, <3>1, LookupFits, FitsGrown
    <3>3. [q EXCEPT !.op[1] = "filing", !.call = LookedUp(q.call)].call = c
      <4> HIDE DEF c
      <4>1. PICK o \in Ops, n \in Nat : q = [op |-> <<o, n>>, row |-> q.row, call |-> q.call]
        BY LateParts
      <4>2. [q EXCEPT !.op[1] = "filing", !.call = c].call = c
        BY <4>1
      <4> QED BY <4>2 DEF c
    <3> HIDE DEF c
    <3> QED BY <1>2, <2>1, <2>3, <3>2, <3>3 DEF CallsOk
  <2> QED BY <1>6, <2>2, <2>3 DEF ServeLate
<1>7. CASE call' \in {NoCall, call} /\ late' \subseteq late
  BY <1>1, <1>2, <1>7 DEF CallsOk
<1>8. \/ Triage \/ FileLookup \/ (call' \in {NoCall, call} /\ late' \subseteq late)
      \/ \E crash \in BOOLEAN : CutOff(crash)
      \/ \E q \in late : ServeLate(q)
  BY DEF Next, Dispatcher, vars, PushError, PushEvent, VacuumAbandoned, VacuumOld, Reconnect, Poll,
         FileReply, ExecuteAction, Resolve, TriageSkips, DropLate, CloseHealWorkItem, NewDay,
         Tick, dispVars
<1> QED BY <1>3, <1>4, <1>5, <1>6, <1>7, <1>8

LEMMA WindowStep ==
  ASSUME HealInv, LedgerOk, CallsOk, WindowOk, [Next]_vars
  PROVE  WindowOk'
<1>1. CASE Triage
  <2>1. Record(Row) /\ pc = "triage"
    BY <1>1 DEF Triage
  <2> QED BY <2>1, RowIsThere, RecordFits
<1>2. CASE events' = [p \in AllPatterns |-> <<>>]
  <2>1. events' = [p \in AllPatterns |-> events'[p]] /\ \A p \in AllPatterns : events'[p] = <<>>
    BY <1>2
  <2>2. <<>> \in Seq(0..(Window + 1)) /\ Len(<<>>) = 0 /\ 0 < Threshold
    BY HealAssumption
  <2> QED BY <2>1, <2>2 DEF WindowOk
<1>3. CASE Tick
  <2>1. events' = [p \in AllPatterns |->
                     [k \in DOMAIN events[p] |-> Older(events[p][k], Window)]]
    BY <1>3 DEF Tick
  <2>2. events' = [p \in AllPatterns |-> events'[p]]
    BY <2>1
  <2>3. ASSUME NEW p \in AllPatterns
        PROVE  events'[p] \in Seq(0..(Window + 1)) /\ Len(events'[p]) < Threshold
    <3> DEFINE s == events[p]
               S == 0..(Window + 1)
    <3>1. s \in Seq(S) /\ Len(s) < Threshold
      BY DEF WindowOk
    <3>2. events'[p] = [k \in DOMAIN s |-> Older(s[k], Window)]
      BY <2>1
    <3>3. \A a \in S : Older(a, Window) \in S
      BY HealAssumption DEF Older
    <3> HIDE DEF s, S
    <3>4. DOMAIN s = 1..Len(s) /\ Len(s) \in Nat /\ \A k \in 1..Len(s) : s[k] \in S
      BY <3>1
    <3>5. [k \in DOMAIN s |-> Older(s[k], Window)] \in [1..Len(s) -> S]
      BY <3>3, <3>4
    <3> DEFINE s2 == events'[p]
    <3>6. s2 \in [1..Len(s) -> S]
      BY <3>2, <3>5
    <3> HIDE DEF s2
    <3>7. s2 \in Seq(S) /\ Len(s2) = Len(s)
      BY <3>4, <3>6
    <3> QED BY <3>1, <3>7 DEF S, s2
  <2> QED BY <2>2, <2>3 DEF WindowOk
<1>4. CASE events' = events
  BY <1>4 DEF WindowOk
<1>5. Triage \/ Tick \/ events' = events \/ events' = [p \in AllPatterns |-> <<>>]
  BY DEF Next, Dispatcher, vars, PushError, PushEvent, VacuumAbandoned, VacuumOld, Reconnect, Poll,
         FileLookup, FileReply, ExecuteAction, Resolve, TriageSkips, CutOff, ServeLate, DropLate,
         CloseHealWorkItem, NewDay, dispVars
<1> QED BY <1>1, <1>2, <1>3, <1>4, <1>5

LEMMA FaultsStep ==
  ASSUME faults \in 0..MaxFaults, vac \in BOOLEAN, [Next]_vars
  PROVE  faults' \in 0..MaxFaults /\ vac' \in BOOLEAN
<1>1. faults' = faults \/ \E f : Fault(f)
  BY DEF Next, Dispatcher, vars, PushError, PushEvent, VacuumAbandoned, VacuumOld, Reconnect, Poll,
         Triage, FileLookup, FileReply, FileServed, ExecuteAction, Resolve, TriageSkips, CutOff,
         ServeLate, DropLate, CloseHealWorkItem, NewDay, Tick
<1>2. faults' \in 0..MaxFaults
  BY <1>1, HealAssumption DEF Fault
<1>3. vac' \in {vac, TRUE, FALSE}
  BY DEF Next, Dispatcher, vars, PushError, PushEvent, VacuumAbandoned, VacuumOld, Reconnect, Poll,
         Triage, FileLookup, FileReply, ExecuteAction, Resolve, TriageSkips, CutOff,
         ServeLate, DropLate, CloseHealWorkItem, NewDay, Tick, storeVars
<1> QED BY <1>2, <1>3

LEMMA TypeNext ==
  ASSUME TypeInv, [Next]_vars
  PROVE  TypeInv' /\ ItemsGrow(items, items')
<1>1. HealInv'
  BY NextInv DEF TypeInv
<1>2. faults' \in 0..MaxFaults /\ vac' \in BOOLEAN
  BY FaultsStep DEF TypeInv
<1>3. LedgerOk' /\ ItemsGrow(items, items')
  BY LedgerStep DEF TypeInv
<1>4. CallsOk'
  BY <1>3, CallsStep DEF TypeInv
<1>5. WindowOk'
  BY WindowStep DEF TypeInv
<1> QED BY <1>1, <1>2, <1>3, <1>4, <1>5 DEF TypeInv

LEMMA TypeInit ==
  ASSUME Init
  PROVE  TypeInv
<1>1. /\ items = <<>> /\ audits = 0 /\ spent = 0 /\ call = NoCall /\ late = {} /\ faults = 0
      /\ vac = FALSE /\ events = [p \in AllPatterns |-> <<>>]
  BY DEF Init
<1>2. LedgerOk /\ items \in Seq(ItemSet)
  BY <1>1, HealAssumption DEF LedgerOk
<1>3. CallsOk
  BY <1>1, <1>2, NoCallFits DEF CallsOk
<1>4. WindowOk
  <2>1. <<>> \in Seq(0..(Window + 1)) /\ Len(<<>>) = 0 /\ 0 < Threshold
    BY HealAssumption
  <2> QED BY <1>1, <2>1 DEF WindowOk
<1>5. faults \in 0..MaxFaults
  BY <1>1, HealAssumption
<1>6. vac \in BOOLEAN
  BY <1>1
<1> QED BY <1>2, <1>3, <1>4, <1>5, <1>6, InitInv DEF TypeInv

\* The heal loop is well typed whatever fails or comes late: a batch and a
\* given-up request name rows that exist, a filing names an item that exists,
\* and the tracker never holds a full window (RecurrenceTracker::record clears
\* it on a breach).
THEOREM TypeCorrect == Spec => []TypeOK
<1>1. Init => TypeInv
  BY TypeInit
<1>2. TypeInv /\ [Next]_vars => TypeInv'
  BY TypeNext
<1>3. TypeInv => TypeOK
  <2> SUFFICES ASSUME TypeInv PROVE TypeOK
    OBVIOUS
  <2>0. rows \in Seq(RowSet) /\ DOMAIN rows = 1..Len(rows) /\ BatchOk(batch, pc, Len(rows))
    BY DEF TypeInv, HealInv
  <2>1. \A i \in DOMAIN rows :
          /\ rows[i].kind \in {"raw", "event", "filed", "notice"}
          /\ rows[i].pat \in AllPatterns
          /\ rows[i].status \in Statuses
          /\ rows[i].age \in 0..(Retention + 1)
          /\ rows[i].tagged \in BOOLEAN
          /\ rows[i].acted \in Nat /\ rows[i].refused \in Nat
    <3>1. \A i \in DOMAIN rows : rows[i] \in RowSet
      BY <2>0
    <3> QED BY <3>1 DEF RowSet, Kinds
  <2>2. \A k \in DOMAIN items : /\ items[k].pat \in AllPatterns
                                /\ items[k].count \in Nat
                                /\ items[k].open \in BOOLEAN
    <3>1. \A k \in DOMAIN items : items[k] \in ItemSet
      BY DEF TypeInv, LedgerOk
    <3> QED BY <3>1 DEF ItemSet
  <2>3. batch \in Seq(DOMAIN rows) /\ pc \in Points /\ ((batch = <<>>) <=> (pc \in {"down", "idle"}))
    BY <2>0 DEF BatchOk
  <2>4. CallOK(call) /\ \A q \in late : CallOK(q.call)
    BY DEF TypeInv, CallsOk, CallFits, CallOK
  <2>5. \A q \in late : q.row \in DOMAIN rows
    BY <2>0, LateParts DEF TypeInv
  <2> QED BY <2>1, <2>2, <2>3, <2>4, <2>5 DEF TypeOK, TypeInv, LedgerOk, WindowOk, Points
<1> QED BY <1>1, <1>2, <1>3, PTL DEF Spec

-----------------------------------------------------------------------------
(***************************************************************************)
(* Sums                                                                    *)
(***************************************************************************)

\* A function whose values can be added up.
Countable(f) == IsFiniteSet(DOMAIN f) /\ \A x \in DOMAIN f : f[x] \in Nat

\* Its value, 0 where it has none, and its pairs of an argument and a unit.
At(f, x) == IF x \in DOMAIN f THEN f[x] ELSE 0
Marks(f) == UNION {{x} \X (1..f[x]) : x \in DOMAIN f}

LEMMA AtNat ==
  ASSUME NEW f, Countable(f), NEW x
  PROVE  At(f, x) \in Nat
BY DEF Countable, At

LEMMA InMarks ==
  ASSUME NEW f, NEW y
  PROVE  y \in Marks(f) <=> \E x : \E n \in 1..At(f, x) : y = <<x, n>>
<1>1. ASSUME y \in Marks(f) PROVE \E x : \E n \in 1..At(f, x) : y = <<x, n>>
  <2>1. PICK x \in DOMAIN f : y \in {x} \X (1..f[x])
    BY <1>1 DEF Marks
  <2>2. PICK n \in 1..f[x] : y = <<x, n>>
    BY <2>1
  <2> QED BY <2>1, <2>2 DEF At
<1>2. ASSUME NEW x, NEW n \in 1..At(f, x), y = <<x, n>> PROVE y \in Marks(f)
  <2>1. x \in DOMAIN f /\ n \in 1..f[x]
    BY DEF At
  <2>2. y \in {x} \X (1..f[x])
    BY <1>2, <2>1
  <2> QED BY <2>1, <2>2 DEF Marks
<1> QED BY <1>1, <1>2

\* The units of one argument.
LEMMA UnitCount ==
  ASSUME NEW x, NEW n \in Nat
  PROVE  IsFiniteSet({x} \X (1..n)) /\ Cardinality({x} \X (1..n)) = n
<1>1. IsFiniteSet({x}) /\ Cardinality({x}) = 1
  BY FS_Singleton
<1>2. IsFiniteSet(1..n) /\ Cardinality(1..n) = n
  BY FS_Interval
<1> DEFINE S == {x}
           T == 1..n
<1>3. IsFiniteSet(S) /\ Cardinality(S) = 1 /\ IsFiniteSet(T) /\ Cardinality(T) = n
  BY <1>1, <1>2
<1> HIDE DEF S, T
<1>4. IsFiniteSet(S \X T) /\ Cardinality(S \X T) = Cardinality(S) * Cardinality(T)
  BY <1>3, FS_Product
<1>5. Cardinality(S \X T) = n
  BY <1>3, <1>4
<1> QED BY <1>4, <1>5 DEF S, T

LEMMA MarksFinite ==
  ASSUME NEW f, Countable(f)
  PROVE  IsFiniteSet(Marks(f)) /\ Total(f) = Cardinality(Marks(f)) /\ Total(f) \in Nat
<1> DEFINE D == DOMAIN f
           U(x) == {x} \X (1..f[x])
           T == {U(x) : x \in D}
           h == [x \in D |-> U(x)]
<1>1. IsFiniteSet(D) /\ \A x \in D : f[x] \in Nat
  BY DEF Countable
<1>2. \A x \in D : IsFiniteSet(U(x))
  BY <1>1, UnitCount
<1>3. h \in Surjection(D, T)
  <2> HIDE DEF U
  <2> QED BY DEF Surjection
<1>4. IsFiniteSet(T)
  <2> HIDE DEF h, T
  <2> QED BY <1>1, <1>3, FS_Surjection
<1>5. \A t \in T : IsFiniteSet(t)
  BY <1>2
<1>6. Marks(f) = UNION T
  BY DEF Marks
<1>7. IsFiniteSet(Marks(f))
  <2> HIDE DEF T
  <2> QED BY <1>4, <1>5, <1>6, FS_UNION
<1>8. Total(f) = Cardinality(Marks(f))
  BY DEF Total, Marks
<1> QED BY <1>7, <1>8, FS_CardinalityType

LEMMA TotalGrows ==
  ASSUME NEW f, NEW g, Countable(f), Countable(g), \A x : At(f, x) <= At(g, x)
  PROVE  Total(f) <= Total(g)
<1>1. Marks(f) \subseteq Marks(g)
  <2> SUFFICES ASSUME NEW y \in Marks(f) PROVE y \in Marks(g)
    OBVIOUS
  <2>1. PICK x : \E n \in 1..At(f, x) : y = <<x, n>>
    BY InMarks
  <2>2. PICK n \in 1..At(f, x) : y = <<x, n>>
    BY <2>1
  <2>3. At(f, x) \in Nat /\ At(g, x) \in Nat /\ At(f, x) <= At(g, x)
    BY AtNat
  <2>4. n \in 1..At(g, x)
    BY <2>3
  <2> QED BY <2>2, <2>4, InMarks
<1> QED BY <1>1, MarksFinite, FS_Subset

\* The sum without the units of one argument.
LEMMA TotalWithout ==
  ASSUME NEW f, Countable(f), NEW x
  PROVE  LET R == Marks(f) \ ({x} \X (1..At(f, x))) IN
         /\ Cardinality(R) \in Nat /\ Total(f) = Cardinality(R) + At(f, x)
<1> DEFINE n == At(f, x)
           U == {x} \X (1..n)
           M == Marks(f)
           R == M \ U
<1>1. n \in Nat /\ IsFiniteSet(M) /\ Total(f) = Cardinality(M)
  BY AtNat, MarksFinite
<1> HIDE DEF n, M
<1>2. IsFiniteSet(U) /\ Cardinality(U) = n
  BY <1>1, UnitCount
<1>3. U \subseteq M
  <2> SUFFICES ASSUME NEW y \in U PROVE y \in M
    OBVIOUS
  <2>1. PICK k \in 1..n : y = <<x, k>>
    OBVIOUS
  <2> QED BY <2>1, InMarks DEF n, M
<1> HIDE DEF U
<1>4. M \cap U = U
  BY <1>3
<1>5. IsFiniteSet(R) /\ Cardinality(R) = Cardinality(M) - n
  BY <1>1, <1>2, <1>4, FS_Difference
<1>6. Cardinality(R) \in Nat /\ Cardinality(M) \in Nat
  BY <1>1, <1>5, FS_CardinalityType
<1> HIDE DEF R
<1>7. Total(f) = Cardinality(R) + n
  BY <1>1, <1>5, <1>6
<1> QED BY <1>6, <1>7 DEF R, M, U, n

\* Two functions that differ in one argument.
LEMMA TotalChanged ==
  ASSUME NEW f, NEW g, Countable(f), Countable(g), NEW x, \A y : y # x => At(f, y) = At(g, y)
  PROVE  Total(g) + At(f, x) = Total(f) + At(g, x)
<1> DEFINE R(h) == Marks(h) \ ({x} \X (1..At(h, x)))
<1>1. ASSUME NEW h, NEW h2, \A y : y # x => At(h, y) = At(h2, y)
      PROVE  R(h) \subseteq R(h2)
  <2> SUFFICES ASSUME NEW z \in R(h) PROVE z \in R(h2)
    OBVIOUS
  <2>1. PICK y : \E n \in 1..At(h, y) : z = <<y, n>>
    BY InMarks
  <2>2. PICK n \in 1..At(h, y) : z = <<y, n>>
    BY <2>1
  <2>3. y # x
    BY <2>2
  <2>4. n \in 1..At(h2, y)
    BY <1>1, <2>3
  <2>5. z \in Marks(h2)
    BY <2>2, <2>4, InMarks
  <2> QED BY <2>2, <2>3, <2>5
<1>2. R(f) = R(g)
  <2>1. R(f) \subseteq R(g) /\ R(g) \subseteq R(f)
    BY <1>1
  <2> QED BY <2>1
<1>3. /\ Cardinality(R(f)) \in Nat /\ Total(f) = Cardinality(R(f)) + At(f, x)
      /\ Total(g) = Cardinality(R(g)) + At(g, x)
  BY TotalWithout
<1>4. At(f, x) \in Nat /\ At(g, x) \in Nat
  BY AtNat
<1> HIDE DEF R
<1> QED BY <1>2, <1>3, <1>4

-----------------------------------------------------------------------------
(***************************************************************************)
(* Where the evidence of a work item comes from                            *)
(***************************************************************************)

\* Row i is still to be recorded: the one occurrence of it that is not a
\* refusal.
Due(r, b, pt, i) == r[i].status = "pending" \/ Todo(b, pt, i)

\* The occurrences of pattern p that were recorded, row by row.
Handled(r, b, pt, p) ==
  [i \in {i \in 1..Len(r) : r[i].pat = p /\ r[i].kind # "filed"} |->
     r[i].refused + (IF Due(r, b, pt, i) THEN 0 ELSE 1)]

\* The occurrences that may have gone into each item of p, its lost bumps
\* included, into each request that was given up, and into a filing c.
Claims(b, its, p) == [k \in {k \in 1..Len(its) : its[k].pat = p} |-> b[k]]
Strays(la, p) == [q \in {q \in la : q.call.pat = p} |-> q.call.count]
Asks(c, p) == IF c.pat = p THEN c.count ELSE 0

\* What went into an item bounds its count and each count read from it.
Covers(b, its, c, la) ==
  /\ b \in Seq(Nat) /\ Len(b) = Len(its)
  /\ \A k \in 1..Len(its) : its[k].count <= b[k]
  /\ c.found # 0 => c.seen <= b[c.found]
  /\ \A q \in la : q.call.found # 0 => q.call.seen <= b[q.call.found]

Named(b, its, la, c, p) == Total(Claims(b, its, p)) + Total(Strays(la, p)) + Asks(c, p)

\* An occurrence goes one way only, and none is there that was not recorded.
\* A bump overwrites the count of its item from what it read, so it is not the
\* counts that add up but what went into them.
Accounted(b) ==
  /\ Covers(b, items, call, late)
  /\ \A p \in AllPatterns :
       Named(b, items, late, call, p) + Len(events[p]) <= Total(Handled(rows, batch, pc, p))

BackInv == TypeInv /\ \E b : Accounted(b)

\* No recorded occurrence of a row is undone.
RowsKeep(r, b, pt, r2, b2, pt2) ==
  /\ Len(r) <= Len(r2)
  /\ \A i \in 1..Len(r) : /\ r2[i].pat = r[i].pat /\ r2[i].kind = r[i].kind
                          /\ r[i].refused <= r2[i].refused
                          /\ Due(r2, b2, pt2, i) => Due(r, b, pt, i)

LEMMA HandledAt ==
  ASSUME NEW r \in Seq(RowSet), NEW b, NEW pt, NEW p
  PROVE  /\ Countable(Handled(r, b, pt, p)) /\ Total(Handled(r, b, pt, p)) \in Nat
         /\ \A i : At(Handled(r, b, pt, p), i) =
                     IF i \in 1..Len(r) /\ r[i].pat = p /\ r[i].kind # "filed"
                       THEN r[i].refused + (IF Due(r, b, pt, i) THEN 0 ELSE 1) ELSE 0
<1> DEFINE D == {i \in 1..Len(r) : r[i].pat = p /\ r[i].kind # "filed"}
           f == [i \in D |-> r[i].refused + (IF Due(r, b, pt, i) THEN 0 ELSE 1)]
<1>0. f = Handled(r, b, pt, p)
  BY DEF Handled
<1>1. IsFiniteSet(D)
  <2>1. IsFiniteSet(1..Len(r))
    BY FS_Interval
  <2> QED BY <2>1, FS_Subset
<1>2. ASSUME NEW i \in D PROVE r[i].refused + (IF Due(r, b, pt, i) THEN 0 ELSE 1) \in Nat
  <2>1. r[i] \in RowSet
    OBVIOUS
  <2>2. r[i].refused \in Nat
    BY <2>1 DEF RowSet
  <2> QED BY <2>2
<1>3. Countable(f)
  BY <1>1, <1>2 DEF Countable
<1>4. \A i : At(f, i) = IF i \in D THEN r[i].refused + (IF Due(r, b, pt, i) THEN 0 ELSE 1) ELSE 0
  BY DEF At
<1>5. \A i : i \in D <=> (i \in 1..Len(r) /\ r[i].pat = p /\ r[i].kind # "filed")
  OBVIOUS
<1> HIDE DEF f, D
<1> QED BY <1>0, <1>3, <1>4, <1>5, MarksFinite

LEMMA HandledGrows ==
  ASSUME NEW r \in Seq(RowSet), NEW r2 \in Seq(RowSet), NEW b, NEW pt, NEW b2, NEW pt2,
         RowsKeep(r, b, pt, r2, b2, pt2), NEW p
  PROVE  Total(Handled(r, b, pt, p)) <= Total(Handled(r2, b2, pt2, p))
<1>1. ASSUME NEW i
      PROVE  At(Handled(r, b, pt, p), i) <= At(Handled(r2, b2, pt2, p), i)
  <2> DEFINE x == At(Handled(r, b, pt, p), i)
             y == At(Handled(r2, b2, pt2, p), i)
  <2>1. x \in Nat /\ y \in Nat
    BY HandledAt, AtNat
  <2>2. CASE i \in 1..Len(r) /\ r[i].pat = p /\ r[i].kind # "filed"
    <3>1. /\ i \in 1..Len(r2) /\ r2[i].pat = p /\ r2[i].kind # "filed"
          /\ r[i].refused <= r2[i].refused /\ (Due(r2, b2, pt2, i) => Due(r, b, pt, i))
      BY <2>2 DEF RowsKeep
    <3>2. /\ x = r[i].refused + (IF Due(r, b, pt, i) THEN 0 ELSE 1)
          /\ y = r2[i].refused + (IF Due(r2, b2, pt2, i) THEN 0 ELSE 1)
      BY <2>2, <3>1, HandledAt
    <3>3. r[i] \in RowSet /\ r2[i] \in RowSet
      BY <2>2, <3>1
    <3>4. r[i].refused \in Nat /\ r2[i].refused \in Nat
      BY <3>3 DEF RowSet
    <3> HIDE DEF x, y
    <3>5. x <= y
      BY <3>1, <3>2, <3>4
    <3> QED BY <3>5 DEF x, y
  <2>3. CASE ~(i \in 1..Len(r) /\ r[i].pat = p /\ r[i].kind # "filed")
    <3>1. x = 0
      BY <2>3, HandledAt
    <3> HIDE DEF x, y
    <3>2. x <= y
      BY <2>1, <3>1
    <3> QED BY <3>2 DEF x, y
  <2> QED BY <2>2, <2>3
<1> QED BY <1>1, HandledAt, TotalGrows

\* Recording row i, or a refusal of its triage, is one occurrence more.
LEMMA HandledOnce ==
  ASSUME NEW r \in Seq(RowSet), NEW r2 \in Seq(RowSet), NEW b, NEW pt, NEW b2, NEW pt2,
         RowsKeep(r, b, pt, r2, b2, pt2), Len(r2) = Len(r),
         NEW i \in 1..Len(r), r[i].kind # "filed", Due(r, b, pt, i),
         r2[i].refused = r[i].refused + 1 \/ ~Due(r2, b2, pt2, i)
  PROVE  Total(Handled(r, b, pt, r[i].pat)) + 1 <= Total(Handled(r2, b2, pt2, r[i].pat))
<1> DEFINE p == r[i].pat
           f == Handled(r, b, pt, p)
           g == Handled(r2, b2, pt2, p)
           h == [g EXCEPT ![i] = r[i].refused]
<1>1. /\ r2[i].pat = p /\ r2[i].kind # "filed" /\ i \in 1..Len(r2) /\ r[i].refused <= r2[i].refused
  BY DEF RowsKeep
<1>2. r[i] \in RowSet /\ r2[i] \in RowSet
  BY <1>1
<1>3. r[i].refused \in Nat /\ r2[i].refused \in Nat
  BY <1>2 DEF RowSet
<1>4. Countable(f) /\ Countable(g)
  BY HandledAt
<1>5. At(f, i) = r[i].refused + 0
  BY HandledAt
<1>6. At(g, i) = r2[i].refused + (IF Due(r2, b2, pt2, i) THEN 0 ELSE 1)
  BY <1>1, HandledAt
<1>7. i \in DOMAIN g
  BY <1>1 DEF Handled
<1>8. \A j : At(f, j) <= At(g, j)
  <2> SUFFICES ASSUME NEW j PROVE At(f, j) <= At(g, j)
    OBVIOUS
  <2>1. CASE j \in 1..Len(r) /\ r[j].pat = p /\ r[j].kind # "filed"
    <3>1. /\ j \in 1..Len(r2) /\ r2[j].pat = p /\ r2[j].kind # "filed"
          /\ r[j].refused <= r2[j].refused /\ (Due(r2, b2, pt2, j) => Due(r, b, pt, j))
      BY <2>1 DEF RowsKeep
    <3>2. /\ At(f, j) = r[j].refused + (IF Due(r, b, pt, j) THEN 0 ELSE 1)
          /\ At(g, j) = r2[j].refused + (IF Due(r2, b2, pt2, j) THEN 0 ELSE 1)
      BY <2>1, <3>1, HandledAt
    <3>3. r[j] \in RowSet /\ r2[j] \in RowSet
      BY <2>1, <3>1
    <3>4. r[j].refused \in Nat /\ r2[j].refused \in Nat
      BY <3>3 DEF RowSet
    <3> HIDE DEF f, g, p
    <3> QED BY <3>1, <3>2, <3>4
  <2>2. CASE ~(j \in 1..Len(r) /\ r[j].pat = p /\ r[j].kind # "filed")
    <3>1. At(f, j) = 0 /\ At(g, j) \in Nat
      BY <1>4, <2>2, HandledAt, AtNat
    <3> HIDE DEF f, g
    <3> QED BY <3>1
  <2> QED BY <2>1, <2>2
<1> HIDE DEF f, g, p
<1>9. /\ DOMAIN h = DOMAIN g /\ h[i] = r[i].refused
      /\ \A j \in DOMAIN g : j # i => h[j] = g[j]
  BY <1>7
<1> HIDE DEF h
<1>10. Countable(h)
  BY <1>3, <1>4, <1>9 DEF Countable
<1>11. At(h, i) = r[i].refused /\ \A j : j # i => At(h, j) = At(g, j)
  BY <1>7, <1>9 DEF At
<1>12. \A j : At(f, j) <= At(h, j)
  <2>1. At(f, i) <= At(h, i)
    BY <1>3, <1>5, <1>11
  <2> QED BY <1>8, <1>11, <2>1
<1>13. Total(f) <= Total(h)
  BY <1>4, <1>10, <1>12, TotalGrows
<1>14. Total(g) + At(h, i) = Total(h) + At(g, i)
  BY <1>4, <1>10, <1>11, TotalChanged
<1>15. At(h, i) + 1 <= At(g, i) /\ At(g, i) \in Nat /\ At(h, i) \in Nat
  BY <1>1, <1>3, <1>6, <1>11
<1>16. Total(f) \in Nat /\ Total(g) \in Nat /\ Total(h) \in Nat
  BY <1>4, <1>10, MarksFinite
<1>17. Total(f) + 1 <= Total(g)
  BY <1>13, <1>14, <1>15, <1>16
<1> QED BY <1>17 DEF f, g, p

\* Given-up requests whose filings count.
StraysOk(la) == IsFiniteSet(la) /\ \A q \in la : q.call.count \in Nat

LEMMA StraysAt ==
  ASSUME NEW la, StraysOk(la), NEW p
  PROVE  /\ Countable(Strays(la, p)) /\ Total(Strays(la, p)) \in Nat
         /\ \A q : At(Strays(la, p), q) = IF q \in la THEN Asks(q.call, p) ELSE 0
<1> DEFINE D == {q \in la : q.call.pat = p}
<1>1. IsFiniteSet(D) /\ DOMAIN Strays(la, p) = D
  BY FS_Subset DEF StraysOk, Strays
<1>2. \A q \in D : Strays(la, p)[q] = q.call.count /\ q.call.count \in Nat
  BY DEF StraysOk, Strays
<1>3. Countable(Strays(la, p))
  BY <1>1, <1>2 DEF Countable
<1>4. \A q : At(Strays(la, p), q) = IF q \in la THEN Asks(q.call, p) ELSE 0
  BY <1>1, <1>2 DEF At, Asks
<1> QED BY <1>3, <1>4, MarksFinite

LEMMA StraysLess ==
  ASSUME NEW la, StraysOk(la), NEW la2, la2 \subseteq la, NEW p
  PROVE  StraysOk(la2) /\ Total(Strays(la2, p)) <= Total(Strays(la, p))
<1>1. StraysOk(la2)
  BY FS_Subset DEF StraysOk
<1>2. ASSUME NEW q PROVE At(Strays(la2, p), q) <= At(Strays(la, p), q)
  <2>1. /\ At(Strays(la2, p), q) = IF q \in la2 THEN Asks(q.call, p) ELSE 0
        /\ At(Strays(la, p), q) = IF q \in la THEN Asks(q.call, p) ELSE 0
    BY <1>1, StraysAt
  <2>2. q \in la => Asks(q.call, p) \in Nat
    BY DEF StraysOk, Asks
  <2> QED BY <2>1, <2>2
<1>3. Countable(Strays(la2, p)) /\ Countable(Strays(la, p))
  BY <1>1, StraysAt
<1> QED BY <1>1, <1>2, <1>3, TotalGrows

LEMMA StraysAdd ==
  ASSUME NEW la, StraysOk(la), NEW z, z.call.count \in Nat, NEW p
  PROVE  /\ StraysOk(la \cup {z})
         /\ Total(Strays(la \cup {z}, p)) <= Total(Strays(la, p)) + Asks(z.call, p)
<1> DEFINE lb == la \cup {z}
           f == Strays(la, p)
           g == Strays(lb, p)
<1>1. StraysOk(lb)
  BY FS_AddElement DEF StraysOk
<1>2. Asks(z.call, p) \in Nat
  BY DEF Asks
<1>3. Countable(f) /\ Countable(g) /\ Total(f) \in Nat /\ Total(g) \in Nat
  BY <1>1, StraysAt
<1>4. /\ \A q : At(f, q) = IF q \in la THEN Asks(q.call, p) ELSE 0
      /\ \A q : At(g, q) = IF q \in lb THEN Asks(q.call, p) ELSE 0
  BY <1>1, StraysAt
<1>5. CASE z \in la
  <2>1. lb = la
    BY <1>5
  <2> HIDE DEF lb
  <2>2. Total(g) = Total(f)
    BY <2>1
  <2> HIDE DEF f, g
  <2>3. Total(g) <= Total(f) + Asks(z.call, p)
    BY <1>2, <1>3, <2>2
  <2> QED BY <1>1, <2>3 DEF f, g, lb
<1>6. CASE z \notin la
  <2> HIDE DEF f, g
  <2>1. \A q : q # z => At(f, q) = At(g, q)
    BY <1>4
  <2>2. Total(g) + At(f, z) = Total(f) + At(g, z)
    BY <1>3, <2>1, TotalChanged
  <2>3. At(f, z) = 0 /\ At(g, z) = Asks(z.call, p)
    BY <1>4, <1>6
  <2>4. Total(g) <= Total(f) + Asks(z.call, p)
    BY <1>2, <1>3, <2>2, <2>3
  <2> QED BY <1>1, <2>4 DEF f, g
<1> QED BY <1>5, <1>6

LEMMA StraysRemove ==
  ASSUME NEW la, StraysOk(la), NEW z \in la, NEW p
  PROVE  Total(Strays(la \ {z}, p)) + Asks(z.call, p) = Total(Strays(la, p))
<1> DEFINE lb == la \ {z}
           f == Strays(la, p)
           g == Strays(lb, p)
<1>1. StraysOk(lb)
  BY StraysLess
<1>2. Asks(z.call, p) \in Nat
  BY DEF StraysOk, Asks
<1>3. Countable(f) /\ Countable(g) /\ Total(f) \in Nat /\ Total(g) \in Nat
  BY <1>1, StraysAt
<1>4. /\ \A q : At(f, q) = IF q \in la THEN Asks(q.call, p) ELSE 0
      /\ \A q : At(g, q) = IF q \in lb THEN Asks(q.call, p) ELSE 0
  BY <1>1, StraysAt
<1> HIDE DEF f, g
<1>5. \A q : q # z => At(f, q) = At(g, q)
  BY <1>4
<1>6. Total(g) + At(f, z) = Total(f) + At(g, z)
  BY <1>3, <1>5, TotalChanged
<1>7. At(f, z) = Asks(z.call, p) /\ At(g, z) = 0
  BY <1>4
<1>8. Total(g) + Asks(z.call, p) = Total(f)
  BY <1>2, <1>3, <1>6, <1>7
<1> QED BY <1>8 DEF f, g

LEMMA ClaimsAt ==
  ASSUME NEW its \in Seq(ItemSet), NEW b \in Seq(Nat), Len(b) = Len(its), NEW p
  PROVE  /\ Countable(Claims(b, its, p)) /\ Total(Claims(b, its, p)) \in Nat
         /\ \A k : At(Claims(b, its, p), k) =
                     IF k \in 1..Len(its) /\ its[k].pat = p THEN b[k] ELSE 0
<1> DEFINE D == {k \in 1..Len(its) : its[k].pat = p}
<1>1. IsFiniteSet(D) /\ DOMAIN Claims(b, its, p) = D
  <2>1. IsFiniteSet(1..Len(its))
    BY FS_Interval
  <2> QED BY <2>1, FS_Subset DEF Claims
<1>2. \A k \in D : Claims(b, its, p)[k] = b[k] /\ b[k] \in Nat
  BY DEF Claims
<1>3. Countable(Claims(b, its, p))
  BY <1>1, <1>2 DEF Countable
<1>4. \A k : At(Claims(b, its, p), k) = IF k \in 1..Len(its) /\ its[k].pat = p THEN b[k] ELSE 0
  BY <1>1, <1>2 DEF At
<1> QED BY <1>3, <1>4, MarksFinite

\* What is served of a filing q goes into the item that it found, or into a
\* new one, and only there.
LEMMA ServedClaims ==
  ASSUME TypeInv, ItemsGrow(items, items'), NEW b \in Seq(Nat), Len(b) = Len(items),
         \A k \in 1..Len(items) : items[k].count <= b[k],
         NEW q, CallFits(q, items), q.found # 0 => q.seen <= b[q.found], FileServed(q)
  PROVE  \E b2 \in Seq(Nat) :
           /\ Len(b2) = Len(items') /\ \A k \in 1..Len(items') : items'[k].count <= b2[k]
           /\ \A k \in 1..Len(items) : b[k] <= b2[k]
           /\ \A p : Total(Claims(b2, items', p)) <= Total(Claims(b, items, p)) + Asks(q, p)
<1>0. /\ items \in Seq(ItemSet) /\ items' \in Seq(ItemSet) /\ Len(items) \in Nat
      /\ q.count \in Nat /\ q.seen \in Nat /\ q.found \in 0..Len(items)
      /\ \A k \in 1..Len(items) : b[k] \in Nat
      /\ \A k \in 1..Len(items) : items[k] \in ItemSet
  BY DEF TypeInv, LedgerOk, ItemsGrow, CallFits
<1>1. \A p : Asks(q, p) \in Nat /\ Total(Claims(b, items, p)) \in Nat
  BY <1>0, ClaimsAt DEF Asks
<1>2. CASE items' = items
  <2>1. \A p : Total(Claims(b, items, p)) <= Total(Claims(b, items, p)) + Asks(q, p)
    BY <1>1
  <2>2. \A k \in 1..Len(items) : b[k] <= b[k]
    BY <1>0
  <2> QED BY <1>2, <2>1, <2>2
<1>3. CASE Bump(q)
  <2> DEFINE k0 == q.found
             x == [pat |-> q.pat, count |-> q.seen + q.count, open |-> TRUE]
             v == b[k0] + q.count
             b2 == [b EXCEPT ![k0] = v]
  <2>1. k0 \in 1..Len(items) /\ items' = [items EXCEPT ![k0] = x] /\ items[k0].pat = q.pat
    BY <1>0, <1>3 DEF Bump, CallFits
  <2>a. b[k0] \in Nat /\ q.seen <= b[k0]
    BY <1>0, <2>1
  <2>2. v \in Nat /\ q.seen + q.count <= v /\ b[k0] <= v
    <3> DEFINE y == b[k0]
    <3> HIDE DEF y, k0
    <3>1. y \in Nat /\ q.seen <= y /\ v = y + q.count
      BY <2>a DEF y
    <3>2. y + q.count \in Nat /\ q.seen + q.count <= y + q.count /\ y <= y + q.count
      BY <1>0, <3>1
    <3> QED BY <3>1, <3>2 DEF y
  <2>3. x.count = q.seen + q.count /\ x.pat = q.pat
    OBVIOUS
  <2> HIDE DEF x, v, k0
  <2>4. b2 \in Seq(Nat) /\ Len(b2) = Len(b) /\ \A k \in 1..Len(items) : b2[k] = IF k = k0 THEN v ELSE b[k]
    BY <2>1, <2>2
  <2>5. Len(items') = Len(items) /\ \A k \in 1..Len(items) : items'[k] = IF k = k0 THEN x ELSE items[k]
    BY <1>0, <2>1
  <2> HIDE DEF b2
  <2>6. \A k \in 1..Len(items') : items'[k].count <= b2[k]
    BY <2>2, <2>3, <2>4, <2>5
  <2>7. \A k \in 1..Len(items) : b[k] <= b2[k]
    <3>1. \A k \in 1..Len(items) : b[k] <= b[k]
      BY <1>0
    <3> QED BY <2>2, <2>4, <3>1
  <2>8. ASSUME NEW p PROVE Total(Claims(b2, items', p)) <= Total(Claims(b, items, p)) + Asks(q, p)
    <3> DEFINE f == Claims(b, items, p)
               g == Claims(b2, items', p)
    <3>1. /\ Countable(f) /\ Countable(g) /\ Total(f) \in Nat /\ Total(g) \in Nat
          /\ \A k : At(f, k) = IF k \in 1..Len(items) /\ items[k].pat = p THEN b[k] ELSE 0
          /\ \A k : At(g, k) = IF k \in 1..Len(items') /\ items'[k].pat = p THEN b2[k] ELSE 0
      BY <1>0, <2>4, <2>5, ClaimsAt
    <3> HIDE DEF f, g
    <3>2. \A k : k # k0 => At(f, k) = At(g, k)
      BY <2>4, <2>5, <3>1
    <3>3. Total(g) + At(f, k0) = Total(f) + At(g, k0)
      BY <3>1, <3>2, TotalChanged
    <3>4. /\ At(f, k0) = IF q.pat = p THEN b[k0] ELSE 0
          /\ At(g, k0) = IF q.pat = p THEN v ELSE 0
      BY <2>1, <2>3, <2>4, <2>5, <3>1
    <3>5. b[k0] \in Nat
      BY <1>0, <2>1
    <3>6. CASE q.pat = p
      <4>1. Asks(q, p) = q.count
        BY <3>6 DEF Asks
      <4>2. Total(g) + b[k0] = Total(f) + v /\ v = b[k0] + q.count
        BY <3>3, <3>4, <3>6 DEF v
      <4>3. Total(g) <= Total(f) + q.count
        BY <1>0, <3>1, <3>5, <4>2
      <4> QED BY <4>1, <4>3 DEF f, g
    <3>7. CASE q.pat # p
      <4>1. Asks(q, p) = 0
        BY <3>7 DEF Asks
      <4>2. Total(g) + 0 = Total(f) + 0
        BY <3>3, <3>4, <3>7
      <4>3. Total(g) <= Total(f) + 0
        BY <3>1, <4>2
      <4> QED BY <4>1, <4>3 DEF f, g
    <3> QED BY <3>6, <3>7
  <2> QED BY <2>4, <2>5, <2>6, <2>7, <2>8
<1>4. CASE items' = Append(items, [pat |-> q.pat, count |-> q.count, open |-> TRUE])
  <2> DEFINE x == [pat |-> q.pat, count |-> q.count, open |-> TRUE]
             n == Len(items) + 1
             b2 == Append(b, q.count)
  <2>1. x.count = q.count /\ x.pat = q.pat /\ items' = Append(items, x)
    BY <1>4
  <2> HIDE DEF x
  <2>2. /\ b2 \in Seq(Nat) /\ Len(b2) = n /\ b2[n] = q.count
        /\ \A k \in 1..Len(items) : b2[k] = b[k]
    BY <1>0
  <2>3. /\ Len(items') = n /\ items'[n] = x
        /\ \A k \in 1..Len(items) : items'[k] = items[k]
    BY <1>0, <2>1
  <2>4. 1..n = 1..Len(items) \cup {n} /\ n \notin 1..Len(items)
    BY <1>0
  <2> HIDE DEF b2, n
  <2>5. \A k \in 1..Len(items') : items'[k].count <= b2[k]
    <3>1. q.count <= q.count
      BY <1>0
    <3> QED BY <2>1, <2>2, <2>3, <2>4, <3>1
  <2>6. \A k \in 1..Len(items) : b[k] <= b2[k]
    <3>1. \A k \in 1..Len(items) : b[k] <= b[k]
      BY <1>0
    <3> QED BY <2>2, <3>1
  <2>7. ASSUME NEW p PROVE Total(Claims(b2, items', p)) <= Total(Claims(b, items, p)) + Asks(q, p)
    <3> DEFINE f == Claims(b, items, p)
               g == Claims(b2, items', p)
    <3>1. /\ Countable(f) /\ Countable(g) /\ Total(f) \in Nat /\ Total(g) \in Nat
          /\ \A k : At(f, k) = IF k \in 1..Len(items) /\ items[k].pat = p THEN b[k] ELSE 0
          /\ \A k : At(g, k) = IF k \in 1..Len(items') /\ items'[k].pat = p THEN b2[k] ELSE 0
      BY <1>0, <2>2, <2>3, ClaimsAt
    <3> HIDE DEF f, g
    <3>2. \A k : k # n => At(f, k) = At(g, k)
      BY <2>2, <2>3, <2>4, <3>1
    <3>3. Total(g) + At(f, n) = Total(f) + At(g, n)
      BY <3>1, <3>2, TotalChanged
    <3>4. At(f, n) = 0 /\ At(g, n) = Asks(q, p)
      BY <2>1, <2>2, <2>3, <2>4, <3>1 DEF Asks
    <3>5. Total(g) <= Total(f) + Asks(q, p)
      BY <1>1, <3>1, <3>3, <3>4
    <3> QED BY <3>5 DEF f, g
  <2> QED BY <2>2, <2>3, <2>5, <2>6, <2>7
<1> QED BY <1>2, <1>3, <1>4 DEF FileServed, File, FileRefused, FileFails

LEMMA LateStraysOk ==
  ASSUME TypeInv
  PROVE  StraysOk(late) /\ call.count \in Nat
BY DEF TypeInv, HealInv, CallsOk, CallFits, StraysOk

\* The sums of the accounting are numbers.
LEMMA NamedNat ==
  ASSUME TypeInv, NEW b, Covers(b, items, call, late), NEW p \in AllPatterns
  PROVE  /\ Total(Claims(b, items, p)) \in Nat /\ Total(Strays(late, p)) \in Nat
         /\ Asks(call, p) \in Nat /\ Len(events[p]) \in Nat
         /\ Total(Handled(rows, batch, pc, p)) \in Nat
<1>1. items \in Seq(ItemSet) /\ rows \in Seq(RowSet) /\ b \in Seq(Nat) /\ Len(b) = Len(items)
  BY DEF TypeInv, LedgerOk, HealInv, Covers
<1>2. events[p] \in Seq(0..(Window + 1))
  BY DEF TypeInv, WindowOk
<1>3. Len(events[p]) \in Nat
  BY <1>2
<1>4. Asks(call, p) \in Nat
  BY LateStraysOk DEF Asks
<1> QED BY <1>1, <1>3, <1>4, LateStraysOk, ClaimsAt, StraysAt, HandledAt

\* A step that names no more and records no less.
LEMMA BackStep ==
  ASSUME TypeInv, TypeInv', NEW b, Accounted(b), NEW b2, Covers(b2, items', call', late'),
         \A p \in AllPatterns :
           /\ Named(b2, items', late', call', p) <= Named(b, items, late, call, p)
           /\ Len(events'[p]) <= Len(events[p]),
         RowsKeep(rows, batch, pc, rows', batch', pc')
  PROVE  \E d : Accounted(d)'
<1>0. rows \in Seq(RowSet) /\ rows' \in Seq(RowSet) /\ Covers(b, items, call, late)
  BY DEF TypeInv, HealInv, Accounted
<1>1. ASSUME NEW p \in AllPatterns
      PROVE  Named(b2, items', late', call', p) + Len(events'[p]) <= Total(Handled(rows', batch', pc', p))
  <2> DEFINE n == Named(b, items, late, call, p)
             n2 == Named(b2, items', late', call', p)
             e == Len(events[p])
             e2 == Len(events'[p])
             h == Total(Handled(rows, batch, pc, p))
             h2 == Total(Handled(rows', batch', pc', p))
  <2>1. n \in Nat /\ e \in Nat /\ h \in Nat
    BY <1>0, NamedNat DEF Named
  <2>2. h <= h2
    BY <1>0, HandledGrows
  <2>3. h2 \in Nat
    BY <1>0, HandledAt
  <2>4. n2 \in Nat
    <3>1. items' \in Seq(ItemSet) /\ b2 \in Seq(Nat) /\ Len(b2) = Len(items')
      BY DEF TypeInv, LedgerOk, Covers
    <3>2. StraysOk(late') /\ call'.count \in Nat
      BY DEF TypeInv, HealInv, CallsOk, CallFits, StraysOk
    <3>3. Asks(call', p) \in Nat
      BY <3>2 DEF Asks
    <3> QED BY <3>1, <3>2, <3>3, ClaimsAt, StraysAt DEF Named
  <2>5. e2 \in Nat
    <3>1. events'[p] \in Seq(0..(Window + 1))
      BY DEF TypeInv, WindowOk
    <3> QED BY <3>1
  <2>6. n + e <= h
    BY DEF Accounted
  <2>7. n2 <= n /\ e2 <= e
    OBVIOUS
  <2> HIDE DEF n, n2, e, e2, h, h2
  <2>8. n2 + e2 <= h2
    BY <2>1, <2>2, <2>3, <2>4, <2>5, <2>6, <2>7
  <2> QED BY <2>8 DEF n2, e2, h2
<1>2. Accounted(b2)'
  BY <1>1 DEF Accounted
<1> QED BY <1>2

\* The rows of a calm step, with no triage put ahead of the dispatcher.
LEMMA CalmRowsKeep ==
  ASSUME NEW r \in Seq(RowSet), NEW r2, Calm(r, r2), NEW b, NEW pt, NEW b2, NEW pt2,
         \A i \in 1..Len(r) : Todo(b2, pt2, i) => Due(r, b, pt, i)
  PROVE  RowsKeep(r, b, pt, r2, b2, pt2)
<1>1. Len(r) <= Len(r2)
  BY DEF Calm
<1>2. ASSUME NEW i \in 1..Len(r)
      PROVE  /\ r2[i].pat = r[i].pat /\ r2[i].kind = r[i].kind
             /\ r[i].refused <= r2[i].refused
             /\ Due(r2, b2, pt2, i) => Due(r, b, pt, i)
  <2>1. Kept(r[i], r2[i])
    BY DEF Calm
  <2>2. r[i] \in RowSet
    OBVIOUS
  <2>3. r[i].refused \in Nat
    BY <2>2 DEF RowSet
  <2>4. r[i].refused <= r[i].refused
    BY <2>3
  <2> QED BY <2>1, <2>4 DEF Kept, Due
<1> QED BY <1>1, <1>2 DEF RowsKeep

\* A heal action changes nothing that counts.
LEMMA ActedRowsKeep ==
  ASSUME NEW r \in Seq(RowSet), NEW j \in 1..Len(r), NEW b, NEW pt, NEW b2, NEW pt2,
         \A i \in 1..Len(r) : Todo(b2, pt2, i) => Due(r, b, pt, i)
  PROVE  RowsKeep(r, b, pt, [r EXCEPT ![j].acted = @ + 1], b2, pt2)
<1> DEFINE x == [r[j] EXCEPT !.acted = @ + 1]
           r2 == [r EXCEPT ![j].acted = @ + 1]
<1>1. r[j] \in RowSet /\ Len(r) \in Nat
  OBVIOUS
<1>2. x.pat = r[j].pat /\ x.kind = r[j].kind /\ x.refused = r[j].refused /\ x.status = r[j].status
  BY <1>1 DEF RowSet
<1>3. r2 = [r EXCEPT ![j] = x]
  OBVIOUS
<1> HIDE DEF x
<1>4. Len(r2) = Len(r) /\ \A i \in 1..Len(r) : r2[i] = IF i = j THEN x ELSE r[i]
  BY <1>3
<1> HIDE DEF r2
<1>5. ASSUME NEW i \in 1..Len(r)
      PROVE  /\ r2[i].pat = r[i].pat /\ r2[i].kind = r[i].kind
             /\ r[i].refused <= r2[i].refused
             /\ Due(r2, b2, pt2, i) => Due(r, b, pt, i)
  <2>1. /\ r2[i].pat = r[i].pat /\ r2[i].kind = r[i].kind /\ r2[i].refused = r[i].refused
        /\ r2[i].status = r[i].status
    BY <1>2, <1>4
  <2>2. r[i] \in RowSet
    OBVIOUS
  <2>3. r[i].refused \in Nat
    BY <2>2 DEF RowSet
  <2>4. r[i].refused <= r[i].refused
    BY <2>3
  <2> QED BY <2>1, <2>4 DEF Due
<1>6. Len(r) <= Len(r2)
  BY <1>1, <1>4
<1> QED BY <1>5, <1>6 DEF RowsKeep, r2

\* No step but a triage records an occurrence, and none undoes one.
LEMMA RowsStep ==
  ASSUME TypeInv, [Next]_vars, ~Triage
  PROVE  RowsKeep(rows, batch, pc, rows', batch', pc')
<1>0. HealInv /\ rows \in Seq(RowSet) /\ Calm(rows, rows)
  BY CalmSame DEF TypeInv, HealInv
<1>1. CASE (\E p \in Patterns : PushError(p) \/ PushEvent(p)) \/ VacuumAbandoned \/ VacuumOld \/ Tick
  <2>1. Calm(rows, rows')
    BY <1>0, <1>1, PushInv, VacuumInv, TickInv
  <2>2. batch' = batch /\ pc' = pc
    BY <1>1 DEF PushError, PushEvent, VacuumAbandoned, VacuumOld, Tick, dispVars
  <2> QED BY <1>0, <2>1, <2>2, CalmRowsKeep DEF Due
<1>2. CASE TriageSkips \/ Resolve
  <2>1. Calm(rows, rows') /\ \A i : Todo(batch', pc', i) => Todo(batch, pc, i)
    BY <1>0, <1>2, SkipInv
  <2> QED BY <1>0, <2>1, CalmRowsKeep DEF Due
<1>3. CASE Reconnect \/ FileLookup \/ FileReply \/ \E crash \in BOOLEAN : CutOff(crash)
  <2>1. Calm(rows, rows')
    <3>1. CASE FileReply
      BY <1>0, <3>1, FileServedCalm DEF FileReply, HealInv
    <3>2. CASE ~FileReply
      <4>1. rows' = rows
        BY <1>3, <3>2 DEF Reconnect, FileLookup, CutOff, storeVars
      <4> QED BY <1>0, <4>1
    <3> QED BY <3>1, <3>2
  <2>2. batch' \in {batch, <<>>} /\ pc' # "triage"
    BY <1>3 DEF Reconnect, FileLookup, FileReply, CutOff
  <2>3. \A i : Todo(batch', pc', i) => Todo(batch, pc, i)
    BY <2>2 DEF Todo
  <2> QED BY <1>0, <2>1, <2>3, CalmRowsKeep DEF Due
<1>4. CASE Poll
  <2> DEFINE ids == {i \in DOMAIN rows : rows[i].status = "pending"}
  <2>1. rows' = rows /\ \E q \in Oldest(ids) : batch' = q
    BY <1>4 DEF Poll, PendingErrors, storeVars
  <2>2. PICK q \in Oldest(ids) : batch' = q
    BY <2>1
  <2>3. \E n \in 0..BatchLimit : q \in [1..n -> ids]
    BY DEF Oldest
  <2> HIDE DEF ids
  <2>4. PICK n \in 0..BatchLimit : q \in [1..n -> ids]
    BY <2>3
  <2>5. Len(q) = n
    <3>1. n \in Nat
      BY HealAssumption
    <3> QED BY <2>4, <3>1
  <2>6. \A k \in 1..Len(q) : q[k] \in ids
    BY <2>4, <2>5
  <2>7. \A i : Todo(batch', pc', i) => i \in ids
    BY <2>2, <2>6 DEF Todo
  <2>8. \A i : Todo(batch', pc', i) => Due(rows, batch, pc, i)
    BY <2>7 DEF ids, Due
  <2> QED BY <1>0, <2>1, <2>8, CalmRowsKeep
<1>5. CASE ExecuteAction
  <2>1. /\ rows' = [rows EXCEPT ![Row].acted = @ + 1] /\ pc = "act" /\ pc' = "resolve"
        /\ batch' = batch
    BY <1>5 DEF ExecuteAction
  <2>2. Row \in 1..Len(rows)
    BY <1>0, <2>1, RowIsThere
  <2>3. \A i : Todo(batch', pc', i) => Due(rows, batch, pc, i)
    BY <2>1 DEF Todo, Due
  <2> QED BY <1>0, <2>1, <2>2, <2>3, ActedRowsKeep
<1>6. ASSUME NEW q \in late, ServeLate(q) PROVE RowsKeep(rows, batch, pc, rows', batch', pc')
  <2>1. batch' = batch /\ pc' = pc
    BY <1>6 DEF ServeLate, dispVars
  <2>2. \A i : Todo(batch', pc', i) => Due(rows, batch, pc, i)
    BY <2>1 DEF Due
  <2>3. q.row \in 1..Len(rows) /\ CallShape(q.call)
    BY <1>0, LateParts
  <2>4. CASE rows' = [rows EXCEPT ![q.row].acted = @ + 1]
    BY <1>0, <2>2, <2>3, <2>4, ActedRowsKeep
  <2>5. CASE rows' \in {rows, UpdateTriage(rows, q.row), ResolveRow(rows, q.row)} \/ FileServed(q.call)
    <3>1. Calm(rows, rows')
      BY <1>0, <2>3, <2>5, CalmUpdate, FileServedCalm
    <3> QED BY <1>0, <2>2, <3>1, CalmRowsKeep
  <2> QED BY <1>6, <2>4, <2>5 DEF ServeLate
<1>7. CASE rows' = rows /\ batch' = batch /\ pc' = pc
  BY <1>0, <1>7, CalmRowsKeep DEF Due
<1> QED BY <1>1, <1>2, <1>3, <1>4, <1>5, <1>6, <1>7
        DEF Next, Dispatcher, DropLate, CloseHealWorkItem, NewDay, vars, storeVars, dispVars

LEMMA EventsStep ==
  ASSUME TypeInv, [Next]_vars, ~Triage, NEW p \in AllPatterns
  PROVE  Len(events'[p]) <= Len(events[p])
<1>0. events[p] \in Seq(0..(Window + 1))
  BY DEF TypeInv, WindowOk
<1>1. Len(events[p]) \in Nat /\ DOMAIN events[p] = 1..Len(events[p])
  BY <1>0
<1>2. CASE events' = events
  BY <1>1, <1>2
<1>3. CASE events' = [x \in AllPatterns |-> <<>>]
  <2>1. events'[p] = <<>>
    BY <1>3
  <2>2. Len(events'[p]) = 0
    BY <2>1
  <2> QED BY <1>1, <2>2
<1>4. CASE Tick
  <2> DEFINE s == events[p]
             t == events'[p]
  <2>1. t = [k \in 1..Len(s) |-> Older(s[k], Window)]
    BY <1>1, <1>4 DEF Tick
  <2>2. Len(s) \in Nat
    BY <1>1
  <2> HIDE DEF s, t
  <2>3. Len(t) = Len(s)
    BY <2>1, <2>2
  <2>4. Len(t) <= Len(s)
    BY <2>2, <2>3
  <2> QED BY <2>4 DEF s, t
<1>5. Tick \/ events' = events \/ events' = [x \in AllPatterns |-> <<>>]
  BY DEF Next, Dispatcher, vars, PushError, PushEvent, VacuumAbandoned, VacuumOld, Reconnect, Poll,
         FileLookup, FileReply, ExecuteAction, Resolve, TriageSkips, CutOff, ServeLate, DropLate,
         CloseHealWorkItem, NewDay, dispVars
<1> QED BY <1>2, <1>3, <1>4, <1>5

LEMMA NoCallAsks ==
  /\ \A p : Asks(NoCall, p) = 0
  /\ NoCall.found = 0 /\ NoCall.count = 0
BY DEF Asks, NoCall

\* A step that does nothing to the filings but forget some.
LEMMA QuietBack ==
  ASSUME TypeInv, TypeInv', [Next]_vars, ~Triage, NEW b, Accounted(b),
         Len(items') = Len(items),
         \A k \in 1..Len(items) : items'[k].pat = items[k].pat /\ items'[k].count = items[k].count,
         late' \subseteq late, call' \in {call, NoCall}
  PROVE  \E d : Accounted(d)'
<1>1. Covers(b, items, call, late)
  BY DEF Accounted
<1>2. Covers(b, items', call', late')
  BY <1>1, NoCallAsks DEF Covers
<1>3. ASSUME NEW p \in AllPatterns
      PROVE  Named(b, items', late', call', p) <= Named(b, items, late, call, p)
  <2>1. Claims(b, items', p) = Claims(b, items, p)
    BY DEF Claims
  <2> DEFINE c == Total(Claims(b, items, p))
             st == Total(Strays(late, p))
             st2 == Total(Strays(late', p))
             a == Asks(call, p)
             a2 == Asks(call', p)
  <2>2. c \in Nat /\ st \in Nat /\ a \in Nat
    BY <1>1, NamedNat
  <2>3. st2 \in Nat /\ st2 <= st
    BY LateStraysOk, StraysLess, StraysAt
  <2>4. a2 \in Nat /\ a2 <= a
    <3>1. a2 = a \/ a2 = 0
      BY NoCallAsks
    <3> HIDE DEF a, a2
    <3> QED BY <2>2, <3>1
  <2>5. Named(b, items', late', call', p) = c + st2 + a2 /\ Named(b, items, late, call, p) = c + st + a
    BY <2>1 DEF Named
  <2> HIDE DEF c, st, st2, a, a2
  <2> QED BY <2>2, <2>3, <2>4, <2>5
<1> QED BY <1>2, <1>3, RowsStep, EventsStep, BackStep

LEMMA LookupBack ==
  ASSUME TypeInv, TypeInv', [Next]_vars, FileLookup, NEW b, Accounted(b)
  PROVE  \E d : Accounted(d)'
<1>0. Covers(b, items, call, late) /\ items \in Seq(ItemSet) /\ CallShape(call) /\ CallFits(call, items)
  BY DEF Accounted, TypeInv, LedgerOk, HealInv, CallsOk
<1>1. call' = LookedUp(call) /\ late' = late /\ items' = items /\ ~Triage
  BY DEF FileLookup, filingVars, Triage
<1>2. /\ call'.pat = call.pat /\ call'.count = call.count /\ CallFits(call', items)
      /\ call'.found # 0 => call'.seen = items[call'.found].count
  BY <1>0, <1>1, LookupFits
<1>3. call'.found # 0 => call'.found \in 1..Len(items)
  BY <1>0, <1>2 DEF CallFits
<1>4. Covers(b, items', call', late')
  BY <1>0, <1>1, <1>2, <1>3 DEF Covers
<1>5. ASSUME NEW p \in AllPatterns
      PROVE  Named(b, items', late', call', p) <= Named(b, items, late, call, p)
  <2>1. Named(b, items', late', call', p) = Named(b, items, late, call, p)
    BY <1>1, <1>2 DEF Named, Asks
  <2>2. Named(b, items, late, call, p) \in Nat
    BY <1>0, NamedNat DEF Named
  <2> QED BY <2>1, <2>2
<1> QED BY <1>1, <1>4, <1>5, RowsStep, EventsStep, BackStep

\* A filing is served, for the dispatcher or late: what it named is now its
\* item's.
LEMMA ServedBack ==
  ASSUME TypeInv, TypeInv', [Next]_vars, ~Triage, NEW b, Accounted(b),
         ItemsGrow(items, items'), NEW q, FileServed(q),
         \/ q = call /\ call' = NoCall /\ late' = late
         \/ \E z \in late : q = z.call /\ call' = call /\ late' = late \ {z}
  PROVE  \E d : Accounted(d)'
<1>0. Covers(b, items, call, late) /\ StraysOk(late)
  BY LateStraysOk DEF Accounted
<1>1. CallFits(q, items) /\ (q.found # 0 => q.seen <= b[q.found])
  BY <1>0 DEF TypeInv, CallsOk, Covers
<1>2. PICK b2 \in Seq(Nat) :
        /\ Len(b2) = Len(items') /\ \A k \in 1..Len(items') : items'[k].count <= b2[k]
        /\ \A k \in 1..Len(items) : b[k] <= b2[k]
        /\ \A p : Total(Claims(b2, items', p)) <= Total(Claims(b, items, p)) + Asks(q, p)
  BY <1>0, <1>1, ServedClaims DEF Covers
<1>3. ASSUME NEW c, CallFits(c, items), c.found # 0 => c.seen <= b[c.found]
      PROVE  c.found # 0 => c.seen <= b2[c.found]
  <2> SUFFICES ASSUME c.found # 0 PROVE c.seen <= b2[c.found]
    OBVIOUS
  <2>1. c.found \in 1..Len(items) /\ c.found \in 1..Len(items') /\ c.seen \in Nat
    <3>1. Len(items) \in Nat /\ Len(items') \in Nat /\ Len(items) <= Len(items')
      BY DEF TypeInv, LedgerOk, ItemsGrow
    <3> QED BY <1>3, <3>1 DEF CallFits
  <2>2. b[c.found] <= b2[c.found]
    BY <1>2, <2>1
  <2>3. b2[c.found] \in Nat
    BY <1>2, <2>1
  <2>4. b[c.found] \in Nat
    BY <1>0, <2>1 DEF Covers
  <2> QED BY <1>3, <2>1, <2>2, <2>3, <2>4
<1>4. Covers(b2, items', call', late')
  <2>1. CallFits(call, items) /\ \A z \in late : CallFits(z.call, items)
    BY DEF TypeInv, CallsOk
  <2>2. call.found # 0 => call.seen <= b2[call.found]
    BY <1>0, <1>3, <2>1 DEF Covers
  <2>3. \A z \in late : z.call.found # 0 => z.call.seen <= b2[z.call.found]
    BY <1>0, <1>3, <2>1 DEF Covers
  <2> QED BY <1>2, <2>2, <2>3, NoCallAsks DEF Covers
<1>5. ASSUME NEW p \in AllPatterns
      PROVE  Named(b2, items', late', call', p) <= Named(b, items, late, call, p)
  <2> DEFINE c == Total(Claims(b, items, p))
             c2 == Total(Claims(b2, items', p))
             st == Total(Strays(late, p))
             st2 == Total(Strays(late', p))
             a == Asks(call, p)
             a2 == Asks(call', p)
             x == Asks(q, p)
  <2>1. c \in Nat /\ st \in Nat /\ a \in Nat
    BY <1>0, NamedNat
  <2>2. c2 \in Nat /\ c2 <= c + x
    <3>1. items' \in Seq(ItemSet)
      BY DEF ItemsGrow
    <3> QED BY <1>2, <3>1, ClaimsAt
  <2>3. x \in Nat
    BY <1>1 DEF CallFits, Asks
  <2>4. st2 \in Nat /\ a2 \in Nat /\ st2 + a2 + x = st + a
    <3>1. CASE q = call /\ call' = NoCall /\ late' = late
      <4>1. st2 = st /\ x = a /\ a2 = 0
        BY <3>1, NoCallAsks
      <4> HIDE DEF st, st2, a, a2, x
      <4> QED BY <2>1, <4>1
    <3>2. ASSUME NEW z \in late, q = z.call, call' = call, late' = late \ {z}
          PROVE  st2 \in Nat /\ a2 \in Nat /\ st2 + a2 + x = st + a
      <4>1. st2 + x = st
        BY <1>0, <3>2, StraysRemove
      <4>2. st2 \in Nat
        <5>1. late' \subseteq late
          BY <3>2
        <5> QED BY <1>0, <5>1, StraysLess, StraysAt
      <4>3. a2 = a
        BY <3>2
      <4> HIDE DEF st, st2, a, a2, x
      <4> QED BY <2>1, <2>3, <4>1, <4>2, <4>3
    <3> QED BY <3>1, <3>2
  <2>5. Named(b2, items', late', call', p) = c2 + st2 + a2 /\ Named(b, items, late, call, p) = c + st + a
    BY DEF Named
  <2> HIDE DEF c, c2, st, st2, a, a2, x
  <2>6. c2 + st2 + a2 <= c + st + a
    BY <2>1, <2>2, <2>3, <2>4
  <2> QED BY <2>5, <2>6
<1> QED BY <1>4, <1>5, RowsStep, EventsStep, BackStep

\* A filing given up is looked up.
LEMMA LateLookupBack ==
  ASSUME TypeInv, TypeInv', [Next]_vars, ~Triage, NEW b, Accounted(b), NEW q \in late,
         late' = (late \ {q}) \cup {[q EXCEPT !.op[1] = "filing", !.call = LookedUp(q.call)]},
         UNCHANGED <<items, call>>
  PROVE  \E d : Accounted(d)'
<1> DEFINE z == [q EXCEPT !.op[1] = "filing", !.call = LookedUp(q.call)]
           c == LookedUp(q.call)
<1>0. /\ Covers(b, items, call, late) /\ items \in Seq(ItemSet) /\ HealInv /\ StraysOk(late)
      /\ CallFits(q.call, items)
  BY LateStraysOk DEF Accounted, TypeInv, LedgerOk, CallsOk
<1>1. CallShape(q.call)
  BY <1>0, LateParts
<1>2. z.call = c
  <2> HIDE DEF c
  <2>1. PICK o \in Ops, n \in Nat : q = [op |-> <<o, n>>, row |-> q.row, call |-> q.call]
    BY <1>0, LateParts
  <2>2. [q EXCEPT !.op[1] = "filing", !.call = c].call = c
    BY <2>1
  <2> QED BY <2>2 DEF c
<1>3. /\ c.pat = q.call.pat /\ c.count = q.call.count /\ CallFits(c, items)
      /\ c.found # 0 => c.seen = items[c.found].count
  BY <1>0, <1>1, LookupFits
<1>4. late' = (late \ {q}) \cup {z}
  OBVIOUS
<1> HIDE DEF z, c
<1>5. c.found # 0 => c.found \in 1..Len(items)
  BY <1>0, <1>3 DEF CallFits
<1>6. Covers(b, items', call', late')
  BY <1>0, <1>2, <1>3, <1>4, <1>5 DEF Covers
<1>7. ASSUME NEW p \in AllPatterns
      PROVE  Named(b, items', late', call', p) <= Named(b, items, late, call, p)
  <2> DEFINE k == Total(Claims(b, items, p))
             st == Total(Strays(late, p))
             st1 == Total(Strays(late \ {q}, p))
             st2 == Total(Strays(late', p))
             a == Asks(call, p)
             x == Asks(q.call, p)
  <2>1. k \in Nat /\ st \in Nat /\ a \in Nat
    BY <1>0, NamedNat
  <2>2. st1 + x = st
    BY <1>0, StraysRemove
  <2>3. StraysOk(late \ {q}) /\ st1 \in Nat
    BY <1>0, StraysLess, StraysAt
  <2>4. z.call.count \in Nat /\ Asks(z.call, p) = x
    BY <1>0, <1>2, <1>3 DEF CallFits, Asks
  <2>5. st2 \in Nat /\ st2 <= st1 + x
    BY <1>4, <2>3, <2>4, StraysAdd, StraysAt
  <2>6. Named(b, items', late', call', p) = k + st2 + a /\ Named(b, items, late, call, p) = k + st + a
    BY DEF Named
  <2>7. x \in Nat
    BY <1>0 DEF CallFits, Asks
  <2> HIDE DEF k, st, st1, st2, a, x
  <2>8. k + st2 + a <= k + st + a
    BY <2>1, <2>2, <2>3, <2>5, <2>7
  <2> QED BY <2>6, <2>8
<1> QED BY <1>6, <1>7, RowsStep, EventsStep, BackStep

\* The filing the dispatcher waits for goes astray.
LEMMA CutBack ==
  ASSUME TypeInv, TypeInv', [Next]_vars, ~Triage, NEW b, Accounted(b),
         NEW crash \in BOOLEAN, CutOff(crash)
  PROVE  \E d : Accounted(d)'
<1>0. Covers(b, items, call, late) /\ HealInv /\ StraysOk(late) /\ call.count \in Nat
  BY LateStraysOk DEF Accounted, TypeInv
<1>1. /\ items' = items /\ call' = NoCall
      /\ late' = late \cup {[q EXCEPT !.op = <<@, faults>>] : q \in Asked}
  BY DEF CutOff, filingVars
<1>2. CASE Asked = {}
  <2>1. late' \subseteq late
    BY <1>1, <1>2
  <2> QED BY <1>1, <2>1, QuietBack
<1>3. CASE Asked # {}
  <2>1. PICK o \in Ops : \E c : Asked = {[op |-> o, row |-> Row, call |-> c]}
    BY <1>0, <1>3, AskedOne
  <2>2. PICK c : Asked = {[op |-> o, row |-> Row, call |-> c]}
    BY <2>1
  <2>3. c \in {NoCall, call}
    <3>1. \A q \in Asked : q.call \in {NoCall, call}
      BY DEF Asked
    <3>2. [op |-> o, row |-> Row, call |-> c].call \in {NoCall, call}
      BY <2>2, <3>1
    <3> QED BY <3>2
  <2> DEFINE z == [op |-> <<o, faults>>, row |-> Row, call |-> c]
  <2>4. late' = late \cup {z} /\ z.call = c
    BY <1>1, <2>2
  <2> HIDE DEF z
  <2>5. Covers(b, items', call', late')
    BY <1>0, <1>1, <2>3, <2>4, NoCallAsks DEF Covers
  <2>6. z.call.count \in Nat
    BY <1>0, <2>3, <2>4, NoCallAsks
  <2>7. ASSUME NEW p \in AllPatterns
        PROVE  Named(b, items', late', call', p) <= Named(b, items, late, call, p)
    <3> DEFINE k == Total(Claims(b, items, p))
               st == Total(Strays(late, p))
               st2 == Total(Strays(late', p))
               a == Asks(call, p)
               x == Asks(z.call, p)
    <3>1. k \in Nat /\ st \in Nat /\ a \in Nat
      BY <1>0, NamedNat
    <3>2. st2 \in Nat /\ st2 <= st + x
      BY <1>0, <2>4, <2>6, StraysAdd, StraysAt
    <3>3. x \in Nat /\ x <= a
      <4>1. x = a \/ x = 0
        BY <2>3, <2>4, NoCallAsks
      <4> HIDE DEF a, x
      <4> QED BY <3>1, <4>1
    <3>4. Named(b, items', late', call', p) = k + st2 + 0 /\ Named(b, items, late, call, p) = k + st + a
      BY <1>1, NoCallAsks DEF Named
    <3> HIDE DEF k, st, st2, a, x
    <3>5. k + st2 + 0 <= k + st + a
      BY <3>1, <3>2, <3>3
    <3> QED BY <3>4, <3>5
  <2> QED BY <2>5, <2>7, RowsStep, EventsStep, BackStep
<1> QED BY <1>2, <1>3

\* What a triage does to the rows: its row is recorded, or refused once more.
LEMMA TriageRows ==
  ASSUME TypeInv, TypeInv', Triage
  PROVE  /\ Row \in 1..Len(rows) /\ Len(rows') = Len(rows)
         /\ RowsKeep(rows, batch, pc, rows', batch', pc') /\ Due(rows, batch, pc, Row)
         /\ rows'[Row].refused = rows[Row].refused + 1 \/ ~Due(rows', batch', pc', Row)
<1>0. HealInv /\ rows \in Seq(RowSet) /\ BatchOk(batch, pc, Len(rows)) /\ pc = "triage"
  BY DEF TypeInv, HealInv, Triage
<1>1. Row \in 1..Len(rows) /\ batch # <<>> /\ batch[1] = Row /\ 1 \in 1..Len(batch)
  BY <1>0, RowIsThere
<1>2. batch' = batch /\ Record(Row)
  BY DEF Triage
<1>3. pc' \in {"file", "act"}
  BY <1>0, <1>1, <1>2, RecordOk
<1>4. \A i : Todo(batch', pc', i) => Todo(batch, pc, i)
  BY <1>0, <1>2, <1>3 DEF Todo
<1>5. Todo(batch, pc, Row) /\ ~Todo(batch', pc', Row)
  BY <1>0, <1>1, <1>2, <1>3 DEF Todo, BatchOk
<1>6. CASE rows' = UpdateTriage(rows, Row)
  <2>1. Calm(rows, rows')
    BY <1>0, <1>1, <1>6, CalmUpdate
  <2>2. RowsKeep(rows, batch, pc, rows', batch', pc')
    BY <1>0, <1>4, <2>1, CalmRowsKeep DEF Due
  <2>3. Len(rows') = Len(rows) /\ rows'[Row].status # "pending"
    <3>1. CASE rows[Row].status = "deleted"
      BY <1>6, <3>1 DEF UpdateTriage
    <3>2. CASE rows[Row].status # "deleted"
      <4> DEFINE y == [rows[Row] EXCEPT !.status = "assigned", !.tagged = TRUE]
      <4>1. rows' = [rows EXCEPT ![Row] = y]
        BY <1>6, <3>2 DEF UpdateTriage
      <4>2. rows[Row] \in RowSet
        BY <1>0, <1>1
      <4>3. y.status = "assigned" /\ y \in RowSet
        BY <4>2 DEF RowSet, Statuses
      <4> HIDE DEF y
      <4>4. rows'[Row] = y /\ Len(rows') = Len(rows)
        BY <1>0, <1>1, <4>1, <4>3, RowBumped
      <4> QED BY <4>3, <4>4
    <3> QED BY <3>1, <3>2
  <2> QED BY <1>1, <1>5, <2>2, <2>3 DEF Due
<1>7. CASE rows' = [rows EXCEPT ![Row].refused = @ + 1]
  <2> DEFINE x == [rows[Row] EXCEPT !.refused = @ + 1]
  <2>1. rows' = [rows EXCEPT ![Row] = x] /\ rows[Row] \in RowSet
    BY <1>0, <1>1, <1>7
  <2>2. rows[Row].refused \in Nat
    BY <2>1 DEF RowSet
  <2>3. /\ x.pat = rows[Row].pat /\ x.kind = rows[Row].kind /\ x.status = rows[Row].status
        /\ x.refused = rows[Row].refused + 1
    BY <2>1 DEF RowSet
  <2> HIDE DEF x
  <2>4. Len(rows') = Len(rows) /\ \A i \in 1..Len(rows) : rows'[i] = IF i = Row THEN x ELSE rows[i]
    BY <1>0, <2>1
  <2>5. ASSUME NEW i \in 1..Len(rows)
        PROVE  /\ rows'[i].pat = rows[i].pat /\ rows'[i].kind = rows[i].kind
               /\ rows[i].refused <= rows'[i].refused
               /\ Due(rows', batch', pc', i) => Due(rows, batch, pc, i)
    <3>1. /\ rows'[i].pat = rows[i].pat /\ rows'[i].kind = rows[i].kind
          /\ rows'[i].status = rows[i].status
          /\ rows'[i].refused \in {rows[i].refused, rows[i].refused + 1}
      BY <2>3, <2>4
    <3>2. rows[i] \in RowSet
      BY <1>0
    <3>3. rows[i].refused \in Nat
      BY <3>2 DEF RowSet
    <3>4. rows[i].refused <= rows'[i].refused
      BY <3>1, <3>3
    <3> QED BY <1>4, <3>1, <3>4 DEF Due
  <2>6. Len(rows) <= Len(rows')
    BY <1>0, <2>4
  <2>7. RowsKeep(rows, batch, pc, rows', batch', pc')
    BY <2>5, <2>6 DEF RowsKeep
  <2>8. rows'[Row].refused = rows[Row].refused + 1
    BY <1>1, <2>3, <2>4
  <2> QED BY <1>1, <1>5, <2>4, <2>7, <2>8 DEF Due
<1> QED BY <1>6, <1>7 DEF Triage

\* A breach hands the window over to a filing and empties it.
LEMMA RecordWaits ==
  ASSUME TypeInv, NEW i \in 1..Len(rows), rows[i].kind # "filed", Record(i), NEW p \in AllPatterns
  PROVE  /\ call'.found = 0
         /\ Asks(call', p) + Len(events'[p])
              <= Asks(call, p) + Len(events[p]) + (IF p = rows[i].pat THEN 1 ELSE 0)
<1> DEFINE w == rows[i].pat
           s == Recorded(w)
           n == Len(s)
<1>0. WindowOk /\ HealInv /\ call.count \in Nat
  BY LateStraysOk DEF TypeInv
<1>1. rows[i] \in RowSet
  BY <1>0, RowCounts
<1>2. w \in AllPatterns
  BY <1>1 DEF RowSet
<1>3. n \in 1..(Len(events[w]) + 1)
  BY <1>0, <1>2, RecordedFits
<1>4. /\ events' = [events EXCEPT ![w] = IF n >= Threshold THEN <<>> ELSE s]
      /\ call' = IF n >= Threshold THEN [NoCall EXCEPT !.pat = w, !.count = n] ELSE NoCall
  BY DEF Record
<1>5. Len(s) = n
  OBVIOUS
<1> HIDE DEF s, n
<1>6. events[p] \in Seq(0..(Window + 1)) /\ Asks(call, p) \in Nat
  BY <1>0 DEF WindowOk, Asks
<1>7. Len(events[p]) \in Nat
  BY <1>6
<1>8. events = [x \in AllPatterns |-> events[x]]
  BY <1>0 DEF WindowOk
<1> HIDE DEF w
<1>9. events'[p] = IF p = w THEN (IF n >= Threshold THEN <<>> ELSE s) ELSE events[p]
  BY <1>4, <1>8
<1>10. CASE n >= Threshold
  <2>1. /\ [NoCall EXCEPT !.pat = w, !.count = n].pat = w
        /\ [NoCall EXCEPT !.pat = w, !.count = n].count = n
        /\ [NoCall EXCEPT !.pat = w, !.count = n].found = 0
    BY DEF NoCall
  <2>2. call'.pat = w /\ call'.count = n /\ call'.found = 0
    BY <1>4, <1>10, <2>1
  <2>3. CASE p = w
    <3>1. Asks(call', p) = n /\ events'[p] = <<>>
      BY <1>9, <1>10, <2>2, <2>3 DEF Asks
    <3>2. Len(events'[p]) = 0
      BY <3>1
    <3>3. n + 0 <= Asks(call, p) + Len(events[p]) + 1
      BY <1>3, <1>6, <1>7, <2>3
    <3> QED BY <2>2, <2>3, <3>1, <3>2, <3>3 DEF w
  <2>4. CASE p # w
    <3>1. Asks(call', p) = 0 /\ events'[p] = events[p]
      BY <1>9, <2>2, <2>4 DEF Asks
    <3>2. 0 + Len(events[p]) <= Asks(call, p) + Len(events[p]) + 0
      BY <1>6, <1>7
    <3> QED BY <2>2, <2>4, <3>1, <3>2 DEF w
  <2> QED BY <2>3, <2>4
<1>11. CASE ~(n >= Threshold)
  <2>1. call' = NoCall
    BY <1>4, <1>11
  <2>2. Asks(call', p) = 0 /\ call'.found = 0
    BY <2>1, NoCallAsks
  <2>3. CASE p = w
    <3>1. Len(events'[p]) = n
      BY <1>5, <1>9, <1>11, <2>3
    <3>2. 0 + n <= Asks(call, p) + Len(events[p]) + 1
      BY <1>3, <1>6, <1>7, <2>3
    <3> QED BY <2>2, <2>3, <3>1, <3>2 DEF w
  <2>4. CASE p # w
    <3>1. events'[p] = events[p]
      BY <1>9, <2>4
    <3>2. 0 + Len(events[p]) <= Asks(call, p) + Len(events[p]) + 0
      BY <1>6, <1>7
    <3> QED BY <2>2, <2>4, <3>1, <3>2 DEF w
  <2> QED BY <2>3, <2>4
<1> QED BY <1>10, <1>11

LEMMA TriageBack ==
  ASSUME TypeInv, TypeInv', Triage, NEW b, Accounted(b)
  PROVE  \E d : Accounted(d)'
<1>0. Covers(b, items, call, late) /\ rows \in Seq(RowSet) /\ rows' \in Seq(RowSet)
  BY DEF Accounted, TypeInv, HealInv
<1>1. items' = items /\ late' = late /\ Record(Row)
  BY DEF Triage, filingVars
<1>2. /\ Row \in 1..Len(rows) /\ Len(rows') = Len(rows)
      /\ RowsKeep(rows, batch, pc, rows', batch', pc') /\ Due(rows, batch, pc, Row)
      /\ rows'[Row].refused = rows[Row].refused + 1 \/ ~Due(rows', batch', pc', Row)
  BY TriageRows
<1>3. CASE rows[Row].kind = "filed"
  <2>1. call' = call /\ events' = events
    BY <1>1, <1>3 DEF Record
  <2>2. Covers(b, items', call', late')
    BY <1>0, <1>1, <2>1
  <2>3. ASSUME NEW p \in AllPatterns
        PROVE  /\ Named(b, items', late', call', p) <= Named(b, items, late, call, p)
               /\ Len(events'[p]) <= Len(events[p])
    <3>1. Named(b, items, late, call, p) \in Nat /\ Len(events[p]) \in Nat
      BY <1>0, NamedNat DEF Named
    <3>2. Named(b, items', late', call', p) = Named(b, items, late, call, p)
      BY <1>1, <2>1
    <3> QED BY <2>1, <3>1, <3>2
  <2> QED BY <1>2, <2>2, <2>3, BackStep
<1>4. CASE rows[Row].kind # "filed"
  <2>1. ASSUME NEW p \in AllPatterns
        PROVE  /\ call'.found = 0
               /\ Asks(call', p) + Len(events'[p])
                    <= Asks(call, p) + Len(events[p]) + (IF p = rows[Row].pat THEN 1 ELSE 0)
    BY <1>1, <1>2, <1>4, RecordWaits
  <2>2. Covers(b, items', call', late')
    <3>1. call'.found = 0
      BY <2>1 DEF AllPatterns
    <3> QED BY <1>0, <1>1, <3>1 DEF Covers
  <2>3. ASSUME NEW p \in AllPatterns
        PROVE  Named(b, items', late', call', p) + Len(events'[p]) <= Total(Handled(rows', batch', pc', p))
    <3> DEFINE k == Total(Claims(b, items, p))
               st == Total(Strays(late, p))
               a == Asks(call, p)
               a2 == Asks(call', p)
               e == Len(events[p])
               e2 == Len(events'[p])
               h == Total(Handled(rows, batch, pc, p))
               h2 == Total(Handled(rows', batch', pc', p))
               m == IF p = rows[Row].pat THEN 1 ELSE 0
    <3>1. k \in Nat /\ st \in Nat /\ a \in Nat /\ e \in Nat /\ h \in Nat
      BY <1>0, NamedNat
    <3>2. a2 \in Nat /\ e2 \in Nat /\ h2 \in Nat
      <4>1. call'.count \in Nat /\ events'[p] \in Seq(0..(Window + 1))
        BY DEF TypeInv, CallsOk, CallFits, WindowOk
      <4>2. a2 \in Nat /\ e2 \in Nat
        BY <4>1 DEF Asks
      <4> QED BY <1>0, <4>2, HandledAt
    <3>3. a2 + e2 <= a + e + m
      BY <2>1
    <3>4. h + m <= h2
      <4>1. CASE p = rows[Row].pat
        <5>1. h + 1 <= h2
          BY <1>0, <1>2, <1>4, <4>1, HandledOnce
        <5> HIDE DEF h, h2
        <5> QED BY <4>1, <5>1
      <4>2. CASE p # rows[Row].pat
        <5>1. h <= h2
          BY <1>0, <1>2, HandledGrows
        <5> HIDE DEF h, h2
        <5>2. m = 0
          BY <4>2
        <5> QED BY <3>1, <5>1, <5>2
      <4> QED BY <4>1, <4>2
    <3>5. m \in Nat
      OBVIOUS
    <3>6. k + st + a + e <= h
      BY DEF Accounted, Named
    <3>7. Named(b, items', late', call', p) = k + st + a2
      BY <1>1 DEF Named
    <3> HIDE DEF k, st, a, a2, e, e2, h, h2, m
    <3>8. k + st + a2 + e2 <= h2
      BY <3>1, <3>2, <3>3, <3>4, <3>5, <3>6
    <3> QED BY <3>7, <3>8 DEF e2, h2
  <2>4. Accounted(b)'
    BY <2>2, <2>3 DEF Accounted
  <2> QED BY <2>4
<1> QED BY <1>3, <1>4

LEMMA BackNext ==
  ASSUME BackInv, [Next]_vars
  PROVE  BackInv'
<1>0. TypeInv /\ TypeInv' /\ ItemsGrow(items, items') /\ items \in Seq(ItemSet)
  BY TypeNext DEF BackInv, TypeInv, LedgerOk
<1>1. PICK b : Accounted(b)
  BY DEF BackInv
<1> SUFFICES \E d : Accounted(d)'
  BY <1>0 DEF BackInv
<1>2. CASE Triage
  BY <1>0, <1>1, <1>2, TriageBack
<1>3. CASE FileLookup
  BY <1>0, <1>1, <1>3, LookupBack
<1>4. CASE FileReply
  <2>1. FileServed(call) /\ call' = NoCall /\ late' = late /\ ~Triage
    BY <1>4 DEF FileReply, Triage
  <2> QED BY <1>0, <1>1, <2>1, ServedBack
<1>5. ASSUME NEW crash \in BOOLEAN, CutOff(crash), ~Triage PROVE \E d : Accounted(d)'
  BY <1>0, <1>1, <1>5, CutBack
<1>6. ASSUME NEW q \in late, ServeLate(q), ~Triage PROVE \E d : Accounted(d)'
  <2>1. call' = call
    BY <1>6 DEF ServeLate, dispVars
  <2>2. CASE items' = items /\ late' = late \ {q}
    BY <1>0, <1>1, <1>6, <2>1, <2>2, QuietBack
  <2>3. CASE /\ items' = items
             /\ late' = (late \ {q}) \cup
                        {[q EXCEPT !.op[1] = "filing", !.call = LookedUp(q.call)]}
    BY <1>0, <1>1, <1>6, <2>1, <2>3, LateLookupBack
  <2>4. CASE FileServed(q.call) /\ late' = late \ {q}
    BY <1>0, <1>1, <1>6, <2>1, <2>4, ServedBack
  <2> QED BY <1>6, <2>2, <2>3, <2>4 DEF ServeLate, filingVars
<1>7. ASSUME NEW k \in DOMAIN items, CloseHealWorkItem(k), ~Triage PROVE \E d : Accounted(d)'
  <2> DEFINE x == [items[k] EXCEPT !.open = FALSE]
  <2>1. items[k] \in ItemSet /\ k \in 1..Len(items)
    BY <1>0
  <2>2. x.pat = items[k].pat /\ x.count = items[k].count
    BY <2>1 DEF ItemSet
  <2>3. items' = [items EXCEPT ![k] = x] /\ late' = late /\ call' = call
    BY <1>7 DEF CloseHealWorkItem, dispVars
  <2> HIDE DEF x
  <2>4. Len(items') = Len(items) /\ \A j \in 1..Len(items) : items'[j] = IF j = k THEN x ELSE items[j]
    BY <1>0, <2>3
  <2>5. \A j \in 1..Len(items) : items'[j].pat = items[j].pat /\ items'[j].count = items[j].count
    BY <2>2, <2>4
  <2> QED BY <1>0, <1>1, <1>7, <2>3, <2>4, <2>5, QuietBack
<1>8. CASE items' = items /\ late' \subseteq late /\ call' = call /\ ~Triage
  BY <1>0, <1>1, <1>8, QuietBack
<1>9. \/ Triage \/ FileLookup \/ FileReply
      \/ \E crash \in BOOLEAN : CutOff(crash)
      \/ \E q \in late : ServeLate(q)
      \/ \E k \in DOMAIN items : CloseHealWorkItem(k)
      \/ (items' = items /\ late' \subseteq late /\ call' = call)
  BY DEF Next, Dispatcher, vars, PushError, PushEvent, VacuumAbandoned, VacuumOld, Reconnect, Poll,
         ExecuteAction, Resolve, TriageSkips, DropLate, NewDay, Tick, filingVars, dispVars
<1> QED BY <1>2, <1>3, <1>4, <1>5, <1>6, <1>7, <1>8, <1>9

LEMMA BackInit ==
  ASSUME Init
  PROVE  BackInv
<1>0. TypeInv
  BY TypeInit
<1>1. /\ items = <<>> /\ call = NoCall /\ late = {} /\ rows = <<>>
      /\ events = [p \in AllPatterns |-> <<>>]
  BY DEF Init
<1>2. <<>> \in Seq(Nat) /\ Len(<<>>) = 0
  OBVIOUS
<1>3. Covers(<<>>, items, call, late)
  BY <1>1, <1>2, NoCallAsks DEF Covers
<1>4. ASSUME NEW f, DOMAIN f = {} PROVE Total(f) = 0
  <2>1. Marks(f) = {}
    BY <1>4 DEF Marks
  <2>2. Total(f) = Cardinality({})
    BY <2>1 DEF Total, Marks
  <2> QED BY <2>2, FS_EmptySet
<1>5. ASSUME NEW p \in AllPatterns
      PROVE  Named(<<>>, items, late, call, p) + Len(events[p]) <= Total(Handled(rows, batch, pc, p))
  <2>1. DOMAIN Claims(<<>>, items, p) = {} /\ DOMAIN Strays(late, p) = {}
    BY <1>1 DEF Claims, Strays
  <2>2. Total(Claims(<<>>, items, p)) = 0 /\ Total(Strays(late, p)) = 0 /\ Asks(call, p) = 0
    BY <1>1, <1>4, <2>1, NoCallAsks
  <2>3. events[p] = <<>>
    BY <1>1
  <2>4. Len(events[p]) = 0
    BY <2>3
  <2>5. Total(Handled(rows, batch, pc, p)) \in Nat
    BY <1>0, HandledAt DEF TypeInv, HealInv
  <2> QED BY <2>2, <2>4, <2>5 DEF Named
<1>6. Accounted(<<>>)
  BY <1>3, <1>5 DEF Accounted
<1> QED BY <1>0, <1>6 DEF BackInv

\* The evidence of a work item is real: what RecurrenceTracker and the items
\* that handle_file_heal_work_item files count for a pattern never exceeds the
\* failures pushed for it, once more for each refused triage, whatever is
\* retried, served late or lost to a concurrent bump; and every item has its
\* audit record.
THEOREM EvidenceIsReal == Spec => []WorkItemsAreBacked
<1>1. Init => BackInv
  BY BackInit
<1>2. BackInv /\ [Next]_vars => BackInv'
  BY BackNext
<1>3. BackInv => WorkItemsAreBacked
  <2> SUFFICES ASSUME TypeInv, NEW b, Accounted(b) PROVE WorkItemsAreBacked
    BY DEF BackInv
  <2>0. /\ Covers(b, items, call, late) /\ items \in Seq(ItemSet) /\ rows \in Seq(RowSet)
        /\ Len(items) <= audits /\ b \in Seq(Nat) /\ Len(b) = Len(items)
        /\ DOMAIN items = 1..Len(items) /\ DOMAIN rows = 1..Len(rows)
    BY DEF Accounted, Covers, TypeInv, LedgerOk, HealInv
  <2>1. ASSUME NEW p \in AllPatterns PROVE Filed(p) + Astray(p) + Waiting(p) <= Pushed(p)
    <3> DEFINE f == [k \in {k \in DOMAIN items : items[k].pat = p} |-> items[k].count]
               g == [i \in {i \in DOMAIN rows : rows[i].pat = p /\ rows[i].kind # "filed"} |->
                       1 + rows[i].refused]
    <3>1. Filed(p) = Total(f) /\ Astray(p) = Total(Strays(late, p)) /\ Pushed(p) = Total(g)
      BY DEF Filed, Astray, Strays, Pushed
    <3>2. Countable(f) /\ Total(f) <= Total(Claims(b, items, p))
      <4>1. /\ IsFiniteSet(DOMAIN f) /\ \A k \in DOMAIN f : k \in 1..Len(items) /\ f[k] = items[k].count
        <5>1. IsFiniteSet(1..Len(items))
          BY <2>0, FS_Interval
        <5> QED BY <2>0, <5>1, FS_Subset
      <4>2. \A k \in 1..Len(items) : items[k] \in ItemSet
        BY <2>0
      <4>3. \A k \in 1..Len(items) : items[k].count \in Nat
        BY <4>2 DEF ItemSet
      <4>4. Countable(f)
        BY <4>1, <4>3 DEF Countable
      <4>5. ASSUME NEW k PROVE At(f, k) <= At(Claims(b, items, p), k)
        <5>1. At(f, k) = IF k \in 1..Len(items) /\ items[k].pat = p THEN items[k].count ELSE 0
          BY <2>0 DEF At
        <5>2. At(Claims(b, items, p), k) = IF k \in 1..Len(items) /\ items[k].pat = p THEN b[k] ELSE 0
          BY <2>0, ClaimsAt
        <5>3. k \in 1..Len(items) => items[k].count <= b[k]
          BY <2>0 DEF Covers
        <5> HIDE DEF f
        <5> QED BY <5>1, <5>2, <5>3
      <4> HIDE DEF f
      <4> QED BY <2>0, <4>4, <4>5, ClaimsAt, TotalGrows
    <3>3. Countable(g) /\ Total(Handled(rows, batch, pc, p)) <= Total(g)
      <4>1. /\ IsFiniteSet(DOMAIN g)
            /\ \A i \in DOMAIN g : i \in 1..Len(rows) /\ g[i] = 1 + rows[i].refused
        <5>1. IsFiniteSet(1..Len(rows))
          BY <2>0, FS_Interval
        <5> QED BY <2>0, <5>1, FS_Subset
      <4>2. \A i \in 1..Len(rows) : rows[i] \in RowSet
        BY <2>0
      <4>3. \A i \in 1..Len(rows) : rows[i].refused \in Nat
        BY <4>2 DEF RowSet
      <4>4. Countable(g)
        BY <4>1, <4>3 DEF Countable
      <4>5. ASSUME NEW i PROVE At(Handled(rows, batch, pc, p), i) <= At(g, i)
        <5>1. At(g, i) = IF i \in 1..Len(rows) /\ rows[i].pat = p /\ rows[i].kind # "filed"
                           THEN 1 + rows[i].refused ELSE 0
          BY <2>0 DEF At
        <5>2. At(Handled(rows, batch, pc, p), i) =
                IF i \in 1..Len(rows) /\ rows[i].pat = p /\ rows[i].kind # "filed"
                  THEN rows[i].refused + (IF Due(rows, batch, pc, i) THEN 0 ELSE 1) ELSE 0
          BY <2>0, HandledAt
        <5> HIDE DEF g
        <5> QED BY <4>3, <5>1, <5>2
      <4> HIDE DEF g
      <4> QED BY <2>0, <4>4, <4>5, HandledAt, TotalGrows
    <3> HIDE DEF f, g
    <3> DEFINE c == Total(Claims(b, items, p))
               st == Total(Strays(late, p))
               a == Asks(call, p)
               e == Len(events[p])
               h == Total(Handled(rows, batch, pc, p))
    <3>4. c \in Nat /\ st \in Nat /\ a \in Nat /\ e \in Nat /\ h \in Nat
      BY <2>0, NamedNat
    <3>5. c + st + a + e <= h
      BY DEF Accounted, Named
    <3>6. Waiting(p) = a + e
      BY DEF Waiting, Asks
    <3>7. Total(f) \in Nat /\ Total(g) \in Nat
      BY <3>2, <3>3, MarksFinite
    <3> HIDE DEF c, st, a, e, h
    <3>8. Total(f) <= c /\ h <= Total(g)
      BY <3>2, <3>3 DEF c, h
    <3>9. Total(f) + st + (a + e) <= Total(g)
      BY <3>4, <3>5, <3>7, <3>8
    <3> QED BY <3>1, <3>6, <3>9 DEF st
  <2> QED BY <2>0, <2>1 DEF WorkItemsAreBacked
<1> QED BY <1>1, <1>2, <1>3, PTL DEF Spec
=============================================================================
