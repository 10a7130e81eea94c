-------------------------- MODULE CronTickerProofs --------------------------
(***************************************************************************)
(* Proofs about CronTicker, for any hotels, offsets and schedule: its type *)
(* invariant, that no occurrence of a guaranteed job is skipped, and that  *)
(* in calm times none is fired twice and the replicas stay in step.        *)
(***************************************************************************)
EXTENDS CronTicker, TLAPS

-----------------------------------------------------------------------------
(***************************************************************************)
(* Records and events                                                      *)
(***************************************************************************)

\* The three kinds of events: what each carries.
LEMMA EventCases ==
  ASSUME NEW m \in Events
  PROVE  /\ m.op \in {"fired", "upsert", "remove"}
         /\ m.op = "fired" => m.epoch \in Schedule
         /\ m.op = "upsert" => m.job \in Jobs
BY DEF Events, CronFired, Upsert, Remove

\* Each of them is an event.
LEMMA EventMade ==
  /\ \A e \in Schedule : CronFired(e) \in Events
  /\ \A j \in Jobs : Upsert(j) \in Events
  /\ Remove \in Events
BY DEF Events

\* advance_schedule keeps a record a record.
LEMMA AdvancedType ==
  ASSUME NEW j \in Jobs
  PROVE  Advanced(j) \in Jobs
BY CronAssumption DEF Advanced, Jobs

\* So does an announcement, and so does any event a hotel applies.
LEMMA AnnouncedType ==
  ASSUME NEW j \in Jobs \cup {NoJob}, NEW e \in Schedule
  PROVE  Announced(j, e) \in Jobs \cup {NoJob}
BY CronAssumption DEF Announced, Jobs

LEMMA AppliedType ==
  ASSUME NEW j \in Jobs \cup {NoJob}, NEW m \in Events
  PROVE  Applied(j, m) \in Jobs \cup {NoJob}
<1>1. CASE m.op = "fired"
  BY <1>1, EventCases, AnnouncedType DEF Applied
<1>2. CASE m.op = "upsert"
  BY <1>2, EventCases DEF Applied
<1>3. CASE m.op = "remove"
  BY <1>3 DEF Applied
<1> QED BY <1>1, <1>2, <1>3, EventCases

\* A registered record is a record.
LEMMA NewJobType ==
  ASSUME NEW s \in Sorts, NEW e \in Schedule
  PROVE  NewJob(s, e) \in Jobs
BY DEF NewJob, Jobs

-----------------------------------------------------------------------------
(***************************************************************************)
(* Type invariant                                                          *)
(***************************************************************************)

LEMMA InitType == Init => TypeOK
<1> SUFFICES ASSUME Init PROVE TypeOK
  OBVIOUS
<1>1. PICK j \in {NoJob} \cup {NewJob(s, e) : s \in Sorts, e \in FirstAfter(1)} :
        job = [h \in Hotels |-> j]
  BY DEF Init
<1>2. j \in Jobs \cup {NoJob}
  BY <1>1, NewJobType DEF FirstAfter
<1>3. job \in [Hotels -> Jobs \cup {NoJob}]
  BY <1>1, <1>2
<1> QED BY <1>3 DEF Init, TypeOK

LEMMA TickerType ==
  ASSUME TypeOK, NEW h \in Hotels, Ticker(h)
  PROVE  TypeOK'
<1> USE DEF TypeOK
<1>1. CASE Skip(h)
  <2>1. job[h] \in Jobs
    BY <1>1 DEF Skip, Due
  <2>2. job' \in [Hotels -> Jobs \cup {NoJob}]
    BY <1>1, <2>1, AdvancedType DEF Skip
  <2>3. pc[h] \in {"idle", "scan"}
    BY <1>1 DEF Skip, Due
  <2> QED BY <1>1, <2>2, <2>3 DEF Skip
<1>2. CASE Fire(h)
  <2>1. job[h] \in Jobs
    BY <1>2 DEF Fire, Due
  <2>2. pc[h] \in {"idle", "scan"}
    BY <1>2 DEF Fire, Due
  <2>3. job[h] # NoJob
    BY <2>1, NoJobAssumption
  <2> QED BY <1>2, <2>1, <2>2, <2>3 DEF Fire
<1>3. CASE Deliver(h)
  <2>1. held[h] \in Jobs
    BY <1>3 DEF Deliver
  <2>2. held[h].next \in Schedule
    BY <2>1 DEF Jobs
  <2>3. fired' \in [Schedule -> 0..2]
    BY <1>3, <2>2 DEF Deliver
  <2>4. reached' \subseteq Schedule /\ faults' \in Nat
    BY <1>3, <2>2 DEF Deliver, Fault
  <2>5. /\ UNCHANGED <<now, up, job, held, out, mesh, calm, ops>>
        /\ pc[h] = "deliver"
        /\ pc' = [pc EXCEPT ![h] = IF held[h].sort = "guaranteed" THEN "announce" ELSE "advance"]
    BY <1>3 DEF Deliver
  <2> QED BY <2>3, <2>4, <2>5
<1>4. CASE Announce(h)
  <2>1. held[h] \in Jobs
    BY <1>4 DEF Announce
  <2>2. CronFired(held[h].next) \in Events
    BY <2>1, EventMade DEF Jobs
  <2>3. out' \in [Hotels -> SUBSET Events]
    BY <1>4, <2>2 DEF Announce, Put
  <2> QED BY <1>4, <2>3 DEF Announce
<1>5. CASE Advance(h)
  <2>1. held[h] \in Jobs
    BY <1>5 DEF Advance
  <2>2. job' \in [Hotels -> Jobs \cup {NoJob}]
    BY <1>5, <2>1, AdvancedType DEF Advance
  <2> QED BY <1>5, <2>2 DEF Advance
<1>6. CASE NothingDue(h)
  BY <1>6 DEF NothingDue
<1> QED BY <1>1, <1>2, <1>3, <1>4, <1>5, <1>6 DEF Ticker

\* What every request does to the history and the counter.
LEMMA RequestType ==
  ASSUME TypeOK, NEW k, NEW h \in Hotels, Request(k, h)
  PROVE  calm' \in BOOLEAN /\ ops' \in Nat
<1>1. calm' \in BOOLEAN
  BY Zenon DEF Request
<1>2. ops' \in Nat
  BY DEF Request, TypeOK
<1> QED BY <1>1, <1>2

LEMMA AskType ==
  ASSUME TypeOK, NEW h \in Hotels, Ask(h)
  PROVE  TypeOK'
<1> USE DEF TypeOK
<1>1. ASSUME NEW s \in Sorts, NEW e \in Schedule, Register(h, s, e)
      PROVE  TypeOK'
  <2>1. NewJob(s, e) \in Jobs /\ Upsert(NewJob(s, e)) \in Events
    BY NewJobType, EventMade
  <2>2. Request("register", h)
    BY <1>1 DEF Register
  <2>3. calm' \in BOOLEAN /\ ops' \in Nat
    BY <2>2, RequestType
  <2> QED BY <1>1, <2>1, <2>2, <2>3 DEF Register, Request, Put
<1>2. ASSUME NEW b \in BOOLEAN, SetEnabled(h, b)
      PROVE  TypeOK'
  <2> DEFINE j == [job[h] EXCEPT !.enabled = b]
  <2>1. job[h] \in Jobs
    BY <1>2 DEF SetEnabled
  <2>2. j \in Jobs
    BY <2>1 DEF Jobs
  <2>3. Upsert(j) \in Events
    BY <2>2, EventMade
  <2>4. job' \in [Hotels -> Jobs \cup {NoJob}]
    BY <1>2, <2>2 DEF SetEnabled
  <2>5. out' \in [Hotels -> SUBSET Events]
    BY <1>2, <2>3 DEF SetEnabled, Put
  <2>6. PICK k : Request(k, h)
    BY <1>2 DEF SetEnabled
  <2>7. calm' \in BOOLEAN /\ ops' \in Nat
    BY <2>6, RequestType
  <2> QED BY <2>4, <2>5, <2>6, <2>7 DEF Request
<1>3. CASE RemoveJob(h)
  <2>1. Request("remove", h)
    BY <1>3 DEF RemoveJob
  <2>2. calm' \in BOOLEAN /\ ops' \in Nat
    BY <2>1, RequestType
  <2> QED BY <1>3, <2>1, <2>2, EventMade DEF RemoveJob, Request, Put
<1> QED BY <1>1, <1>2, <1>3 DEF Ask

LEMMA EnvironmentType ==
  ASSUME TypeOK, NEW h \in Hotels, Crash(h) \/ Boot(h) \/ \E m \in out[h] : Publish(h, m)
  PROVE  TypeOK'
<1> USE DEF TypeOK
<1>1. CASE Crash(h)
  <2>1. UNCHANGED <<now, job, mesh, fired, reached, ops>>
    BY <1>1 DEF Crash
  <2>6. calm' \in BOOLEAN
    BY <1>1, Zenon DEF Crash
  <2>2. faults' \in Nat
    BY <1>1 DEF Crash, Fault
  <2>3. up' \subseteq Hotels /\ out' \in [Hotels -> SUBSET Events]
    BY <1>1 DEF Crash
  <2>4. \A g \in Hotels : /\ g \in up' <=> pc'[g] # "off"
                          /\ held'[g] = NoJob <=> pc'[g] \in {"idle", "scan", "off"}
    BY <1>1 DEF Crash
  <2>5. /\ held' \in [Hotels -> Jobs \cup {NoJob}]
        /\ pc' \in [Hotels -> {"idle", "scan", "deliver", "announce", "advance", "off"}]
    BY <1>1 DEF Crash
  <2> QED BY <2>1, <2>2, <2>3, <2>4, <2>5, <2>6
<1>2. CASE Boot(h)
  <2>1. job[h] # NoJob => Upsert(job[h]) \in Events
    BY EventMade
  <2>2. out' \in [Hotels -> SUBSET Events]
    BY <1>2, <2>1 DEF Boot, Put
  <2> QED BY <1>2, <2>2 DEF Boot
<1>3. ASSUME NEW m \in out[h], Publish(h, m)
      PROVE  TypeOK'
  <2>1. m \in Events
    OBVIOUS
  <2>2. mesh' \subseteq Hotels \X Hotels \X Events
    BY <1>3, <2>1 DEF Publish
  <2>3. out' \in [Hotels -> SUBSET Events]
    BY <1>3 DEF Publish
  <2> QED BY <1>3, <2>2, <2>3 DEF Publish
<1> QED BY <1>1, <1>2, <1>3

LEMMA MeshType ==
  ASSUME TypeOK, NEW x \in mesh, Lose(x) \/ \E again \in BOOLEAN : Receive(x, again)
  PROVE  TypeOK'
<1> USE DEF TypeOK
<1>0. x[2] \in Hotels /\ x[3] \in Events
  OBVIOUS
<1>1. CASE Lose(x)
  <2>1. mesh' \subseteq mesh
    BY <1>1 DEF Lose
  <2>2. faults' \in Nat
    BY <1>1 DEF Lose, Fault
  <2>3. calm' = FALSE /\ UNCHANGED <<now, up, job, pc, held, out, fired, reached, ops>>
    BY <1>1 DEF Lose
  <2> QED BY <2>1, <2>2, <2>3
<1>2. ASSUME NEW again \in BOOLEAN, Receive(x, again)
      PROVE  TypeOK'
  <2>1. Applied(job[x[2]], x[3]) \in Jobs \cup {NoJob}
    BY <1>0, AppliedType
  <2>2. job' \in [Hotels -> Jobs \cup {NoJob}]
    BY <1>0, <1>2, <2>1 DEF Receive
  <2>3. UNCHANGED <<now, up, pc, held, out, fired, reached, calm, ops>>
    BY <1>2 DEF Receive
  <2>4. CASE again = TRUE
    <3>1. UNCHANGED mesh
      BY <1>2, <2>4 DEF Receive
    <3>2. faults' \in Nat
      BY <1>2, <2>4 DEF Receive, Fault
    <3> QED BY <2>2, <2>3, <3>1, <3>2
  <2>5. CASE again = FALSE
    <3>1. mesh' = mesh \ {x} /\ UNCHANGED faults
      BY <1>2, <2>5 DEF Receive
    <3>2. mesh' \subseteq mesh
      BY <3>1
    <3> QED BY <2>2, <2>3, <3>1, <3>2
  <2> QED BY <2>4, <2>5
<1> QED BY <1>1, <1>2

LEMMA NextType == TypeOK /\ [Next]_vars => TypeOK'
<1> SUFFICES ASSUME TypeOK, [Next]_vars PROVE TypeOK'
  OBVIOUS
<1>1. ASSUME NEW h \in Hotels,
             Ticker(h) \/ Ask(h) \/ Crash(h) \/ Boot(h) \/ \E m \in out[h] : Publish(h, m)
      PROVE  TypeOK'
  BY <1>1, TickerType, AskType, EnvironmentType
<1>2. ASSUME NEW x \in mesh, Lose(x) \/ \E again \in BOOLEAN : Receive(x, again)
      PROVE  TypeOK'
  BY <1>2, MeshType
<1>3. CASE Clock
  BY <1>3 DEF TypeOK, Clock
<1>4. CASE UNCHANGED vars
  BY <1>4 DEF TypeOK, vars
<1> QED BY <1>1, <1>2, <1>3, <1>4 DEF Next

\* The state is well formed in every reachable state (TypeOK): in particular
\* fire holds a record exactly while it is under way.
THEOREM TypeCorrect == Spec => []TypeOK
BY InitType, NextType, PTL DEF Spec

-----------------------------------------------------------------------------
(***************************************************************************)
(* No occurrence of a guaranteed job is skipped                            *)
(*                                                                         *)
(* NoEpochSkipped says so of the records the hotels keep; it is inductive  *)
(* only together with the same of every copy of a record on its way: the   *)
(* one fire holds, and those in events not yet applied.  An announced      *)
(* occurrence, and the one a record notes as its last, were fired.         *)
(***************************************************************************)

\* The occurrences a record left behind, and the one it notes as the last,
\* were fired, where f counts the fires.
Sound(f, j) ==
  j # NoJob /\ j.sort = "guaranteed" =>
    /\ \A e \in Schedule : j.first <= e /\ e < j.next => f[e] > 0
    /\ j.last # 0 => f[j.last] > 0

\* What an event says is true of the fires f.
Backed(f, m) ==
  /\ m.op = "upsert" => Sound(f, m.job)
  /\ m.op = "fired" => f[m.epoch] > 0

CronInv ==
  /\ TypeOK
  /\ \A h \in Hotels :
       /\ Sound(fired, job[h]) /\ Sound(fired, held[h])
       /\ pc[h] \in {"announce", "advance"} => fired[held[h].next] > 0
       /\ \A m \in out[h] : Backed(fired, m)
  /\ \A x \in mesh : Backed(fired, x[3])

\* advance_schedule passes one occurrence, the one the record stood at.
LEMMA AdvancedSound ==
  ASSUME NEW f \in [Schedule -> 0..2], NEW j \in Jobs, Sound(f, j),
         j.sort = "guaranteed" => f[j.next] > 0
  PROVE  Sound(f, Advanced(j))
<1> SUFFICES ASSUME j.sort = "guaranteed"
             PROVE  Sound(f, Advanced(j))
  <2>1. Advanced(j).sort = j.sort
    BY DEF Advanced, Jobs
  <2> QED BY <2>1 DEF Sound
<1> DEFINE n == NextFire[j.next]
<1>1. /\ j.next \in Schedule /\ j.first \in Schedule /\ j # NoJob
      /\ \A e \in Schedule : j.first <= e /\ e < j.next => f[e] > 0
      /\ f[j.next] > 0
  BY NoJobAssumption DEF Jobs, Sound
<1>2. \A e \in Schedule : e \in Nat /\ j.next \in Nat
  BY <1>1, CronAssumption
<1>3. CASE n = 0
  <2>1. Advanced(j) = [j EXCEPT !.last = j.next, !.enabled = FALSE]
    BY <1>3 DEF Advanced
  <2>2. Advanced(j).last = j.next /\ Advanced(j).next = j.next /\ Advanced(j).first = j.first
    BY <2>1 DEF Jobs
  <2> QED BY <1>1, <2>2 DEF Sound
<1>4. CASE n # 0
  <2>1. Advanced(j) = [j EXCEPT !.last = j.next, !.next = n]
    BY <1>4 DEF Advanced
  <2>2. Advanced(j).last = j.next /\ Advanced(j).next = n /\ Advanced(j).first = j.first
    BY <2>1 DEF Jobs
  <2>3. \A e \in Schedule : e < n => e <= j.next
    BY <1>1, <1>4, NextFireAssumption
  <2>4. \A e \in Schedule : j.first <= e /\ e < n => f[e] > 0
    BY <1>1, <1>2, <2>3
  <2> QED BY <1>1, <2>2, <2>4 DEF Sound
<1> QED BY <1>3, <1>4

\* So does an announcement, and the announced occurrence was fired.
LEMMA AnnouncedSound ==
  ASSUME NEW f \in [Schedule -> 0..2], NEW j \in Jobs \cup {NoJob}, Sound(f, j),
         NEW e \in Schedule, f[e] > 0
  PROVE  Sound(f, Announced(j, e))
<1>1. CASE j = NoJob \/ j.last = e \/ j.next # e \/ NextFire[e] = 0
  BY <1>1 DEF Announced
<1>2. CASE ~(j = NoJob \/ j.last = e \/ j.next # e \/ NextFire[e] = 0)
  <2>1. j \in Jobs /\ j.next = e /\ NextFire[j.next] # 0
    BY <1>2
  <2>2. Announced(j, e) = Advanced(j)
    BY <1>2, <2>1 DEF Announced, Advanced
  <2> QED BY <2>1, <2>2, AdvancedSound
<1> QED BY <1>1, <1>2

LEMMA AppliedSound ==
  ASSUME NEW f \in [Schedule -> 0..2], NEW j \in Jobs \cup {NoJob}, Sound(f, j),
         NEW m \in Events, Backed(f, m)
  PROVE  Sound(f, Applied(j, m))
<1>1. CASE m.op = "fired"
  BY <1>1, EventCases, AnnouncedSound DEF Applied, Backed
<1>2. CASE m.op = "upsert"
  BY <1>2 DEF Applied, Backed
<1>3. CASE m.op = "remove"
  BY <1>3 DEF Applied, Sound
<1> QED BY <1>1, <1>2, <1>3, EventCases

\* A registered record has left nothing behind.
LEMMA NewJobSound ==
  ASSUME NEW f, NEW s \in Sorts, NEW e \in Schedule
  PROVE  Sound(f, NewJob(s, e)) /\ Backed(f, Upsert(NewJob(s, e)))
<1>1. Sound(f, NewJob(s, e))
  BY CronAssumption DEF Sound, NewJob
<1> QED BY <1>1 DEF Backed, Upsert

\* Fires are never taken back, so what is sound stays sound.
LEMMA SoundStays ==
  ASSUME NEW f \in [Schedule -> 0..2], NEW g \in [Schedule -> 0..2],
         \A e \in Schedule : f[e] > 0 => g[e] > 0
  PROVE  /\ \A j \in Jobs \cup {NoJob} : Sound(f, j) => Sound(g, j)
         /\ \A m \in Events : Backed(f, m) => Backed(g, m)
<1>1. ASSUME NEW j \in Jobs \cup {NoJob}, Sound(f, j)
      PROVE  Sound(g, j)
  BY <1>1 DEF Sound, Jobs
<1>2. ASSUME NEW m \in Events, Backed(f, m)
      PROVE  Backed(g, m)
  BY <1>1, <1>2, EventCases DEF Backed
<1> QED BY <1>1, <1>2

LEMMA InitSound == Init => CronInv
<1> SUFFICES ASSUME Init PROVE CronInv
  OBVIOUS
<1>1. TypeOK
  BY InitType
<1>2. ASSUME NEW j \in {NoJob} \cup {NewJob(s, e) : s \in Sorts, e \in FirstAfter(1)}
      PROVE  Sound(fired, j)
  <2>1. CASE j = NoJob
    BY <2>1 DEF Sound
  <2>2. ASSUME NEW s \in Sorts, NEW e \in FirstAfter(1), j = NewJob(s, e)
        PROVE  Sound(fired, j)
    BY <2>2, NewJobSound DEF FirstAfter
  <2> QED BY <2>1, <2>2
<1>3. PICK j : job = [h \in Hotels |-> j] /\ Sound(fired, j)
  BY <1>2 DEF Init
<1>4. /\ held = [h \in Hotels |-> NoJob] /\ pc = [h \in Hotels |-> "idle"]
      /\ out = [h \in Hotels |-> {}] /\ mesh = {}
  BY DEF Init
<1>5. Sound(fired, NoJob)
  BY DEF Sound
<1>6. \A h \in Hotels : Sound(fired, job[h]) /\ Sound(fired, held[h])
  BY <1>3, <1>4, <1>5
<1> QED BY <1>1, <1>4, <1>6 DEF CronInv

LEMMA TickerSound ==
  ASSUME CronInv, TypeOK', NEW h \in Hotels, Ticker(h)
  PROVE  CronInv'
<1> USE DEF CronInv
<1>0. fired \in [Schedule -> 0..2] /\ job \in [Hotels -> Jobs \cup {NoJob}]
      /\ held \in [Hotels -> Jobs \cup {NoJob}] /\ out \in [Hotels -> SUBSET Events]
      /\ pc \in [Hotels -> {"idle", "scan", "deliver", "announce", "advance", "off"}]
  BY DEF TypeOK
<1>1. CASE Skip(h)
  <2>1. job[h] \in Jobs
    BY <1>0, <1>1 DEF Skip, Due
  <2>2. job[h].sort = "guaranteed" => fired[job[h].next] > 0
    <3> SUFFICES ASSUME job[h].sort = "guaranteed"
                 PROVE  fired[job[h].next] > 0
      OBVIOUS
    <3>1. job[h].last = job[h].next
      BY <1>1 DEF Skip, Foreign, Heard
    <3>2. job[h].last # 0
      BY <2>1, <3>1, CronAssumption DEF Jobs
    <3>3. job[h] # NoJob /\ Sound(fired, job[h])
      BY <2>1, NoJobAssumption
    <3> QED BY <3>1, <3>2, <3>3 DEF Sound
  <2>3. Sound(fired, Advanced(job[h]))
    BY <1>0, <2>1, <2>2, AdvancedSound
  <2>4. UNCHANGED <<held, out, mesh, fired>> /\ pc' = [pc EXCEPT ![h] = "idle"]
        /\ job' = [job EXCEPT ![h] = Advanced(@)]
    BY <1>1 DEF Skip
  <2> QED BY <1>0, <2>3, <2>4
<1>2. CASE Fire(h)
  BY <1>0, <1>2 DEF Fire
<1>3. CASE Deliver(h)
  <2>1. held[h] \in Jobs
    BY <1>3 DEF Deliver, TypeOK
  <2>2. held[h].next \in Schedule
    BY <2>1 DEF Jobs
  <2>3. /\ fired' = [fired EXCEPT ![held[h].next] = IF @ < 2 THEN @ + 1 ELSE @]
        /\ UNCHANGED <<job, held, out, mesh>>
        /\ \A g \in Hotels : g # h => pc'[g] = pc[g]
    BY <1>0, <1>3 DEF Deliver
  <2>4. fired' \in [Schedule -> 0..2]
    BY DEF TypeOK
  <2>5. fired'[held[h].next] > 0 /\ \A e \in Schedule : fired[e] > 0 => fired'[e] > 0
    BY <1>0, <2>2, <2>3
  <2>6. /\ \A j \in Jobs \cup {NoJob} : Sound(fired, j) => Sound(fired', j)
        /\ \A m \in Events : Backed(fired, m) => Backed(fired', m)
    BY <1>0, <2>4, <2>5, SoundStays
  <2>7. \A g \in Hotels : Sound(fired', job'[g]) /\ Sound(fired', held'[g])
    BY <1>0, <2>3, <2>6
  <2>8. \A g \in Hotels : \A m \in out'[g] : Backed(fired', m)
    BY <1>0, <2>3, <2>6
  <2>9. \A x \in mesh' : Backed(fired', x[3])
    <3>1. \A x \in mesh : x[3] \in Events
      BY DEF TypeOK
    <3> QED BY <2>3, <2>6, <3>1
  <2>10. ASSUME NEW g \in Hotels, pc'[g] \in {"announce", "advance"}
         PROVE  fired'[held'[g].next] > 0
    <3>1. CASE g = h
      BY <2>3, <2>5, <3>1
    <3>2. CASE g # h
      <4>1. pc[g] \in {"announce", "advance"} /\ fired[held[g].next] > 0
        BY <2>3, <2>10, <3>2
      <4>2. held[g] \in Jobs
        BY <4>1 DEF TypeOK
      <4>3. held[g].next \in Schedule
        BY <4>2 DEF Jobs
      <4> QED BY <2>3, <2>5, <4>1, <4>3
    <3> QED BY <3>1, <3>2
  <2> QED BY <2>7, <2>8, <2>9, <2>10
<1>4. CASE Announce(h)
  <2>1. fired[held[h].next] > 0
    BY <1>4 DEF Announce
  <2>2. Backed(fired, CronFired(held[h].next))
    BY <2>1 DEF Backed, CronFired
  <2>3. UNCHANGED <<job, held, mesh, fired>> /\ pc' = [pc EXCEPT ![h] = "advance"]
        /\ out' = [out EXCEPT ![h] = @ \cup {CronFired(held[h].next)}]
    BY <1>4 DEF Announce, Put
  <2> QED BY <1>0, <2>1, <2>2, <2>3
<1>5. CASE Advance(h)
  <2>1. held[h] \in Jobs /\ fired[held[h].next] > 0
    BY <1>5 DEF Advance, TypeOK
  <2>2. Sound(fired, Advanced(held[h]))
    BY <1>0, <2>1, AdvancedSound
  <2>3. Sound(fired, NoJob)
    BY DEF Sound
  <2>4. UNCHANGED <<out, mesh, fired>> /\ pc' = [pc EXCEPT ![h] = "idle"]
        /\ job' = [job EXCEPT ![h] = Advanced(held[h])]
        /\ held' = [held EXCEPT ![h] = NoJob]
    BY <1>5 DEF Advance
  <2> QED BY <1>0, <2>2, <2>3, <2>4
<1>6. CASE NothingDue(h)
  BY <1>0, <1>6 DEF NothingDue
<1> QED BY <1>1, <1>2, <1>3, <1>4, <1>5, <1>6 DEF Ticker

LEMMA AskSound ==
  ASSUME CronInv, TypeOK', NEW h \in Hotels, Ask(h)
  PROVE  CronInv'
<1> USE DEF CronInv
<1>0. job \in [Hotels -> Jobs \cup {NoJob}] /\ out \in [Hotels -> SUBSET Events]
  BY DEF TypeOK
<1>1. ASSUME NEW s \in Sorts, NEW e \in Schedule, Register(h, s, e)
      PROVE  CronInv'
  <2>1. Sound(fired, NewJob(s, e)) /\ Backed(fired, Upsert(NewJob(s, e)))
    BY NewJobSound
  <2> QED BY <1>0, <1>1, <2>1 DEF Register, Request, Put
<1>2. ASSUME NEW b \in BOOLEAN, SetEnabled(h, b)
      PROVE  CronInv'
  <2> DEFINE j == [job[h] EXCEPT !.enabled = b]
  <2>1. job[h] \in Jobs /\ job[h] # NoJob
    BY <1>0, <1>2 DEF SetEnabled
  <2>2. j.sort = job[h].sort /\ j.first = job[h].first /\ j.next = job[h].next /\ j.last = job[h].last
    BY <2>1 DEF Jobs
  <2>3. Sound(fired, j)
    BY <2>1, <2>2 DEF Sound
  <2>4. Backed(fired, Upsert(j))
    BY <2>3 DEF Backed, Upsert
  <2>5. UNCHANGED <<pc, held, mesh, fired>>
    BY <1>2 DEF SetEnabled, Request
  <2>6. job' = [job EXCEPT ![h] = j] /\ out' = [out EXCEPT ![h] = @ \cup {Upsert(j)}]
    BY <1>2 DEF SetEnabled, Put
  <2> HIDE DEF j
  <2> QED BY <1>0, <2>3, <2>4, <2>5, <2>6
<1>3. CASE RemoveJob(h)
  <2>1. Sound(fired, NoJob) /\ Backed(fired, Remove)
    BY DEF Sound, Backed, Remove
  <2> QED BY <1>0, <1>3, <2>1 DEF RemoveJob, Request, Put
<1> QED BY <1>1, <1>2, <1>3 DEF Ask

LEMMA EnvironmentSound ==
  ASSUME CronInv, TypeOK', NEW h \in Hotels,
         Crash(h) \/ Boot(h) \/ \E m \in out[h] : Publish(h, m)
  PROVE  CronInv'
<1> USE DEF CronInv
<1>0. job \in [Hotels -> Jobs \cup {NoJob}] /\ out \in [Hotels -> SUBSET Events]
      /\ held \in [Hotels -> Jobs \cup {NoJob}]
      /\ pc \in [Hotels -> {"idle", "scan", "deliver", "announce", "advance", "off"}]
  BY DEF TypeOK
<1>1. CASE Crash(h)
  <2>1. Sound(fired, NoJob)
    BY DEF Sound
  <2>2. UNCHANGED <<job, mesh, fired>> /\ pc' = [pc EXCEPT ![h] = "off"]
        /\ held' = [held EXCEPT ![h] = NoJob] /\ out' = [out EXCEPT ![h] = {}]
    BY <1>1 DEF Crash
  <2> QED BY <1>0, <2>1, <2>2
<1>2. CASE Boot(h)
  <2>1. Backed(fired, Upsert(job[h]))
    BY DEF Backed, Upsert
  <2>2. UNCHANGED <<job, held, mesh, fired>> /\ pc' = [pc EXCEPT ![h] = "scan"]
    BY <1>2 DEF Boot
  <2>3. \A g \in Hotels : \A m \in out'[g] : m \in out[g] \/ m = Upsert(job[h])
    BY <1>0, <1>2 DEF Boot, Put
  <2> QED BY <1>0, <2>1, <2>2, <2>3
<1>3. ASSUME NEW m \in out[h], Publish(h, m)
      PROVE  CronInv'
  <2>1. Backed(fired, m)
    OBVIOUS
  <2>2. \A x \in mesh' : x \in mesh \/ x[3] = m
    BY <1>3 DEF Publish
  <2>3. UNCHANGED <<job, held, pc, fired>> /\ \A g \in Hotels : out'[g] \subseteq out[g]
    BY <1>0, <1>3 DEF Publish
  <2> QED BY <2>1, <2>2, <2>3
<1> QED BY <1>1, <1>2, <1>3

LEMMA MeshSound ==
  ASSUME CronInv, TypeOK', NEW x \in mesh, Lose(x) \/ \E again \in BOOLEAN : Receive(x, again)
  PROVE  CronInv'
<1> USE DEF CronInv
<1>0. x[2] \in Hotels /\ x[3] \in Events /\ Backed(fired, x[3])
      /\ job \in [Hotels -> Jobs \cup {NoJob}] /\ fired \in [Schedule -> 0..2]
  BY DEF TypeOK
<1>1. CASE Lose(x)
  <2>1. mesh' \subseteq mesh /\ UNCHANGED <<job, pc, held, out, fired>>
    BY <1>1 DEF Lose
  <2> QED BY <2>1
<1>2. ASSUME NEW again \in BOOLEAN, Receive(x, again)
      PROVE  CronInv'
  <2>1. Sound(fired, Applied(job[x[2]], x[3]))
    BY <1>0, AppliedSound
  <2>2. job' = [job EXCEPT ![x[2]] = Applied(@, x[3])] /\ UNCHANGED <<pc, held, out, fired>>
    BY <1>2 DEF Receive
  <2>3. mesh' \subseteq mesh
    BY <1>2 DEF Receive
  <2> QED BY <1>0, <2>1, <2>2, <2>3
<1> QED BY <1>1, <1>2

LEMMA NextSound == CronInv /\ [Next]_vars => CronInv'
<1> SUFFICES ASSUME CronInv, [Next]_vars PROVE CronInv'
  OBVIOUS
<1>0. TypeOK'
  BY NextType DEF CronInv
<1>1. ASSUME NEW h \in Hotels,
             Ticker(h) \/ Ask(h) \/ Crash(h) \/ Boot(h) \/ \E m \in out[h] : Publish(h, m)
      PROVE  CronInv'
  BY <1>0, <1>1, TickerSound, AskSound, EnvironmentSound
<1>2. ASSUME NEW x \in mesh, Lose(x) \/ \E again \in BOOLEAN : Receive(x, again)
      PROVE  CronInv'
  BY <1>0, <1>2, MeshSound
<1>3. CASE Clock
  BY <1>0, <1>3 DEF CronInv, Clock
<1>4. CASE UNCHANGED vars
  BY <1>0, <1>4 DEF CronInv, vars
<1> QED BY <1>1, <1>2, <1>3, <1>4 DEF Next

\* A guaranteed job is fired at least once (NoEpochSkipped): on any mesh, for
\* any offsets and any schedule, no record is moved past an occurrence that no
\* hotel fired, that is, stored and offered to its role, whatever crashes, is
\* lost, repeated or out of order.  Whether the role took it is another matter.
THEOREM FiredAtLeastOnce == Spec => []NoEpochSkipped
<1>1. CronInv => NoEpochSkipped
  BY DEF CronInv, Sound, NoEpochSkipped, Covered
<1> QED BY InitSound, NextSound, <1>1, PTL DEF Spec

-----------------------------------------------------------------------------
(***************************************************************************)
(* Calm times                                                              *)
(*                                                                         *)
(* In calm times, when nothing is late or lost and requests and crashes    *)
(* come while nothing is pending or due, the hotels have one record b      *)
(* between them, and at any moment one of five things goes on: nothing     *)
(* (Resting), a request replaces b everywhere or a hotel that restarts     *)
(* advertises it (Replacing), an occurrence of a job that is not           *)
(* guaranteed is run by each hotel for itself (Local), an occurrence of a  *)
(* guaranteed job is run and announced (Spreading), or its last one is     *)
(* run, which no hotel hears of (Ending).                                  *)
(***************************************************************************)

Silent == mesh = {} /\ \A h \in Hotels : out[h] = {}

\* Every event that is under way is m.
Only(m) == (\A h \in Hotels : out[h] \subseteq {m}) /\ \A x \in mesh : x[3] = m

\* Event m is under way to hotel h.
Coming(m, h) == \E g \in Hotels : g # h /\ (m \in out[g] \/ <<g, h, m>> \in mesh)

\* Hotel h and the occurrence record b stands at: before it, in it, past it.
Still(b, h) == job[h] = b /\ pc[h] = "idle"
Firing(b, h) ==
  /\ pc[h] \in {"deliver", "announce", "advance"}
  /\ held[h] = b /\ job[h] \in {b, Advanced(b)}
Done(b, h) == job[h] = Advanced(b) /\ pc[h] = "idle"

\* When hotel h finds it due.
Turn(b, h) == b.next + (IF b.sort = "guaranteed" THEN Offset[h] ELSE 0)

\* Only a record at the end of its schedule notes the occurrence it stands at.
Sane(b) == b.last # b.next \/ NextFire[b.next] = 0

\* The occurrences before b.next were fired once, those from n on not.
OnceUpTo(b, n) ==
  Staggered /\ b.sort = "guaranteed" =>
    \A e \in Schedule : /\ b.first <= e /\ e < b.next => fired[e] <= 1
                        /\ n <= e => fired[e] = 0

Ahead(b) == b # NoJob => now < b.next /\ Sane(b) /\ OnceUpTo(b, b.next)

Resting(b) ==
  /\ Silent /\ \A h \in Hotels : Still(b, h)
  /\ b # NoJob => Sane(b) /\ OnceUpTo(b, b.next)
  /\ b # NoJob /\ b.enabled => \A h \in Hotels : now <= Turn(b, h)

\* Event m puts record a in place of any other.
Carries(m, a) == (a # NoJob /\ m = Upsert(a)) \/ (a = NoJob /\ m = Remove)

\* A hotel is down, or starts, only while there is one record.
Replacing(b, a, m) ==
  /\ Carries(m, a) /\ Only(m) /\ Ahead(a) /\ Ahead(b)
  /\ \A h \in Hotels : /\ pc[h] = "idle" \/ (a = b /\ pc[h] \in {"scan", "off"})
                       /\ job[h] = a \/ (job[h] = b /\ Coming(m, h))

Local(b) ==
  /\ b # NoJob /\ b.sort # "guaranteed" /\ b.enabled /\ b.next = now /\ Sane(b) /\ Silent
  /\ \A h \in Hotels : /\ Still(b, h) \/ Firing(b, h) \/ Done(b, h)
                       /\ pc[h] # "announce"

Spreading(b) ==
  /\ b # NoJob /\ b.sort = "guaranteed" /\ b.enabled /\ b.next <= now
  /\ Sane(b) /\ NextFire[b.next] # 0 /\ Only(CronFired(b.next))
  /\ \A h \in Hotels : /\ now <= Turn(b, h)
                       /\ Still(b, h) \/ (Firing(b, h) /\ now = Turn(b, h)) \/ Done(b, h)
  /\ \/ \E h \in Hotels : pc[h] \in {"deliver", "announce"}
     \/ \A h \in Hotels : Still(b, h) => Coming(CronFired(b.next), h)
  /\ OnceUpTo(b, NextFire[b.next])
  /\ Staggered =>
       /\ fired[b.next] <= 1
       /\ fired[b.next] = 1 =>
            \E h \in Hotels : now = Turn(b, h) /\ ~Still(b, h) /\ pc[h] # "deliver"

Ending(b) ==
  /\ b # NoJob /\ b.sort = "guaranteed" /\ b.next <= now /\ NextFire[b.next] = 0
  /\ Only(CronFired(b.next))
  /\ \A h \in Hotels : Still(b, h) \/ Firing(b, h) \/ Done(b, h)
  /\ Staggered => \A e \in Schedule : b.first <= e /\ e < b.next => fired[e] <= 1

Mode ==
  \E b \in Jobs \cup {NoJob} :
    \/ Resting(b) \/ Local(b) \/ Spreading(b) \/ Ending(b)
    \/ \E a \in Jobs \cup {NoJob} : \E m : Replacing(b, a, m)

\* Nothing runs before its time.
Timely == \A e \in Schedule : now < e => fired[e] = 0

CalmInv == calm => Timely /\ Mode

LEMMA AdvancedFields ==
  ASSUME NEW b \in Jobs
  PROVE  /\ Advanced(b) \in Jobs /\ Advanced(b) # NoJob
         /\ Advanced(b).sort = b.sort /\ Advanced(b).first = b.first /\ Advanced(b).last = b.next
         /\ NextFire[b.next] = 0 => Advanced(b).next = b.next /\ ~Advanced(b).enabled
         /\ NextFire[b.next] # 0 => /\ Advanced(b).next = NextFire[b.next]
                                    /\ Advanced(b).enabled = b.enabled
<1>1. Advanced(b) \in Jobs /\ Advanced(b) # NoJob
  BY AdvancedType, NoJobAssumption
<1>2. CASE NextFire[b.next] = 0
  <2>1. Advanced(b) = [b EXCEPT !.last = b.next, !.enabled = FALSE]
    BY <1>2 DEF Advanced
  <2> QED BY <1>1, <1>2, <2>1 DEF Jobs
<1>3. CASE NextFire[b.next] # 0
  <2>1. Advanced(b) = [b EXCEPT !.last = b.next, !.next = NextFire[b.next]]
    BY <1>3 DEF Advanced
  <2> QED BY <1>1, <1>3, <2>1 DEF Jobs
<1> QED BY <1>2, <1>3

\* The occurrences of a record and the one after it are times in order.
LEMMA Times ==
  ASSUME NEW b \in Jobs
  PROVE  /\ b.next \in Nat /\ b.next # 0 /\ b.next \in Schedule /\ b.first \in Schedule
         /\ \A e \in Schedule : e \in Nat /\ e # 0
         /\ NextFire[b.next] # 0 => /\ NextFire[b.next] \in Schedule /\ b.next < NextFire[b.next]
                                    /\ \A e \in Schedule : e < NextFire[b.next] => e <= b.next
         /\ NextFire[b.next] = 0 => \A e \in Schedule : e <= b.next
         /\ \A h \in Hotels : Turn(b, h) \in Nat /\ b.next <= Turn(b, h)
<1>1. b.next \in Schedule /\ b.first \in Schedule
  BY DEF Jobs
<1>2. \A e \in Schedule : e \in Nat /\ e # 0
  BY CronAssumption
<1>3. /\ NextFire[b.next] # 0 => /\ NextFire[b.next] \in Schedule /\ b.next < NextFire[b.next]
                                 /\ \A e \in Schedule : e < NextFire[b.next] => e <= b.next
      /\ NextFire[b.next] = 0 => \A e \in Schedule : e <= b.next
  <2>1. NextFire[b.next] \in Schedule \cup {0}
    BY <1>1, CronAssumption
  <2>2. /\ NextFire[b.next] = 0 => \A f \in Schedule : f <= b.next
        /\ NextFire[b.next] # 0 => /\ b.next < NextFire[b.next]
                                   /\ \A f \in Schedule : f < NextFire[b.next] => f <= b.next
    BY <1>1, NextFireAssumption
  <2> QED BY <2>1, <2>2
<1>4. \A h \in Hotels : Turn(b, h) \in Nat /\ b.next <= Turn(b, h)
  <2> SUFFICES ASSUME NEW h \in Hotels PROVE Turn(b, h) \in Nat /\ b.next <= Turn(b, h)
    OBVIOUS
  <2>1. Offset[h] \in Nat /\ b.next \in Nat
    BY <1>1, <1>2, CronAssumption
  <2> QED BY <2>1 DEF Turn
<1> QED BY <1>1, <1>2, <1>3, <1>4

\* A record that is before its turn, or past it, is not due.
LEMMA DueMeans ==
  ASSUME TypeOK, NEW h \in Hotels, pc[h] = "idle", NEW b \in Jobs
  PROVE  /\ job[h] = b => (Due(h) <=> b.enabled /\ Turn(b, h) <= now)
         /\ Done(b, h) /\ now <= Turn(b, h) => ~Due(h)
<1>1. ASSUME NEW c \in Jobs, job[h] = c PROVE Due(h) <=> c.enabled /\ Turn(c, h) <= now
  <2>1. c # NoJob
    BY NoJobAssumption
  <2> QED BY <1>1, <2>1 DEF Due, Turn
<1>2. ASSUME Done(b, h), now <= Turn(b, h) PROVE ~Due(h)
  <2>1. job[h] = Advanced(b) /\ Advanced(b) \in Jobs
    BY <1>2, AdvancedFields DEF Done
  <2>2. Due(h) <=> Advanced(b).enabled /\ Turn(Advanced(b), h) <= now
    BY <1>1, <2>1
  <2>3. CASE NextFire[b.next] = 0
    BY <2>2, <2>3, AdvancedFields
  <2>4. CASE NextFire[b.next] # 0
    <3>1. Turn(b, h) < Turn(Advanced(b), h)
      <4>1. /\ Advanced(b).next = NextFire[b.next] /\ Advanced(b).sort = b.sort
            /\ b.next \in Nat /\ NextFire[b.next] \in Nat /\ b.next < NextFire[b.next]
        BY <2>4, AdvancedFields, Times
      <4>2. Offset[h] \in Nat
        BY CronAssumption
      <4> QED BY <4>1, <4>2 DEF Turn
    <3>2. now \in Nat /\ Turn(b, h) \in Nat /\ Turn(Advanced(b), h) \in Nat
      BY <2>1, Times DEF TypeOK
    <3> QED BY <1>2, <2>2, <3>1, <3>2
  <2> QED BY <2>3, <2>4
<1> QED BY <1>1, <1>2

\* What a step of its ticker does to a hotel that is before, in or past an
\* occurrence, and to the rest: nothing.
TickerDoes(b, h) ==
  \/ /\ Still(b, h) /\ Due(h) /\ (Foreign(h) \/ Heard(h))
     /\ Done(b, h)' /\ UNCHANGED <<fired, out>>
  \/ /\ Still(b, h) /\ Due(h) /\ ~Heard(h)
     /\ Firing(b, h)' /\ pc'[h] = "deliver" /\ UNCHANGED <<fired, out>>
  \/ /\ Firing(b, h) /\ pc[h] = "deliver"
     /\ Firing(b, h)' /\ pc'[h] = (IF b.sort = "guaranteed" THEN "announce" ELSE "advance")
     /\ fired' = [fired EXCEPT ![b.next] = IF @ < 2 THEN @ + 1 ELSE @]
     /\ UNCHANGED out
  \/ /\ Firing(b, h) /\ pc[h] = "announce"
     /\ Firing(b, h)' /\ pc'[h] = "advance"
     /\ out' = [out EXCEPT ![h] = @ \cup {CronFired(b.next)}] /\ UNCHANGED fired
  \/ /\ Firing(b, h) /\ pc[h] = "advance"
     /\ Done(b, h)' /\ UNCHANGED <<fired, out>>
  \/ UNCHANGED <<job, pc, held, fired, out>>

\* What does not change on any other hotel.
Frame(h) ==
  /\ UNCHANGED <<now, up, mesh, calm>>
  /\ \A g \in Hotels : g # h => job'[g] = job[g] /\ pc'[g] = pc[g] /\ held'[g] = held[g]

LEMMA TickerFrame ==
  ASSUME TypeOK, NEW h \in Hotels, Ticker(h)
  PROVE  Frame(h)
<1>1. UNCHANGED <<now, up, mesh, calm>>
  BY DEF Ticker, Skip, Fire, Deliver, Announce, Advance, NothingDue
<1>2. \A g \in Hotels : g # h => job'[g] = job[g] /\ pc'[g] = pc[g] /\ held'[g] = held[g]
  BY DEF TypeOK, Ticker, Skip, Fire, Deliver, Announce, Advance, NothingDue
<1> QED BY <1>1, <1>2 DEF Frame

LEMMA TickerMoves ==
  ASSUME TypeOK, NEW h \in Hotels, Ticker(h), NEW b \in Jobs,
         Still(b, h) \/ Firing(b, h) \/ Done(b, h), Done(b, h) => Still(b, h) \/ ~Due(h)
  PROVE  TickerDoes(b, h)
<1>0. /\ job \in [Hotels -> Jobs \cup {NoJob}] /\ held \in [Hotels -> Jobs \cup {NoJob}]
      /\ pc \in [Hotels -> {"idle", "scan", "deliver", "announce", "advance", "off"}]
  BY DEF TypeOK
<1>1. CASE Skip(h)
  <2>1. Due(h) /\ (Foreign(h) \/ Heard(h)) /\ UNCHANGED <<fired, out>>
        /\ job' = [job EXCEPT ![h] = Advanced(job[h])] /\ pc' = [pc EXCEPT ![h] = "idle"]
    BY <1>1 DEF Skip
  <2>2. Still(b, h)
    BY <2>1 DEF Due, Firing
  <2>3. Done(b, h)'
    BY <1>0, <2>1, <2>2 DEF Done, Still
  <2> QED BY <2>1, <2>2, <2>3 DEF TickerDoes
<1>2. CASE Fire(h)
  <2>1. /\ Due(h) /\ ~Heard(h) /\ UNCHANGED <<job, fired, out>>
        /\ held' = [held EXCEPT ![h] = job[h]] /\ pc' = [pc EXCEPT ![h] = "deliver"]
    BY <1>2 DEF Fire
  <2>2. Still(b, h)
    BY <2>1 DEF Due, Firing
  <2>3. Firing(b, h)' /\ pc'[h] = "deliver"
    BY <1>0, <2>1, <2>2 DEF Firing, Still
  <2> QED BY <2>1, <2>2, <2>3 DEF TickerDoes
<1>3. CASE Deliver(h)
  <2>1. /\ pc[h] = "deliver" /\ UNCHANGED <<job, held, out>>
        /\ fired' = [fired EXCEPT ![held[h].next] = IF @ < 2 THEN @ + 1 ELSE @]
        /\ pc' = [pc EXCEPT ![h] = IF held[h].sort = "guaranteed" THEN "announce" ELSE "advance"]
    BY <1>3 DEF Deliver
  <2>2. Firing(b, h) /\ held[h] = b
    BY <2>1 DEF Firing, Still, Done
  <2>3. pc'[h] = (IF b.sort = "guaranteed" THEN "announce" ELSE "advance")
    BY <1>0, <2>1, <2>2
  <2>4. Firing(b, h)'
    BY <2>1, <2>2, <2>3 DEF Firing
  <2> QED BY <2>1, <2>2, <2>3, <2>4 DEF TickerDoes
<1>4. CASE Announce(h)
  <2>1. /\ pc[h] = "announce" /\ UNCHANGED <<job, held, fired>>
        /\ out' = [out EXCEPT ![h] = @ \cup {CronFired(held[h].next)}]
        /\ pc' = [pc EXCEPT ![h] = "advance"]
    BY <1>4 DEF Announce, Put
  <2>2. Firing(b, h) /\ held[h] = b
    BY <2>1 DEF Firing, Still, Done
  <2>3. Firing(b, h)' /\ pc'[h] = "advance"
    BY <1>0, <2>1, <2>2 DEF Firing
  <2> QED BY <2>1, <2>2, <2>3 DEF TickerDoes
<1>5. CASE Advance(h)
  <2>1. /\ pc[h] = "advance" /\ UNCHANGED <<fired, out>>
        /\ job' = [job EXCEPT ![h] = Advanced(held[h])] /\ pc' = [pc EXCEPT ![h] = "idle"]
    BY <1>5 DEF Advance
  <2>2. Firing(b, h) /\ held[h] = b
    BY <2>1 DEF Firing, Still, Done
  <2>3. Done(b, h)'
    BY <1>0, <2>1, <2>2 DEF Done
  <2> QED BY <2>1, <2>2, <2>3 DEF TickerDoes
<1>6. CASE NothingDue(h)
  <2>1. /\ pc[h] \in {"idle", "scan"} /\ UNCHANGED <<job, held, fired, out>>
        /\ pc' = [pc EXCEPT ![h] = "idle"]
    BY <1>6 DEF NothingDue
  <2>2. pc[h] = "idle"
    BY <2>1 DEF Still, Firing, Done
  <2>3. pc' = pc
    BY <1>0, <2>1, <2>2
  <2> QED BY <2>1, <2>3 DEF TickerDoes
<1> QED BY <1>1, <1>2, <1>3, <1>4, <1>5, <1>6 DEF Ticker

\* Where the other hotels stand.
LEMMA FrameStands ==
  ASSUME NEW h, Frame(h), NEW g \in Hotels, g # h, NEW b
  PROVE  /\ Still(b, g)' = Still(b, g) /\ Firing(b, g)' = Firing(b, g) /\ Done(b, g)' = Done(b, g)
         /\ pc'[g] = pc[g]
BY DEF Frame, Still, Firing, Done

\* A fire counts for its own occurrence only.
LEMMA DeliveryCounts ==
  ASSUME TypeOK, TypeOK', NEW n \in Schedule,
         fired' = fired \/ fired' = [fired EXCEPT ![n] = IF @ < 2 THEN @ + 1 ELSE @]
  PROVE  /\ \A e \in Schedule : e # n => fired'[e] = fired[e]
         /\ \A e \in Schedule : fired[e] \in 0..2 /\ fired'[e] \in 0..2
         /\ fired' # fired => fired'[n] <= fired[n] + 1
BY DEF TypeOK

LEMMA OnlyMore ==
  ASSUME TypeOK, NEW m, Only(m), mesh' = mesh, NEW h \in Hotels,
         out' = out \/ out' = [out EXCEPT ![h] = @ \cup {m}]
  PROVE  Only(m)'
<1>1. \A g \in Hotels : out'[g] = out[g] \/ out'[g] = out[g] \cup {m}
  BY DEF TypeOK
<1> QED BY <1>1 DEF Only

LEMMA EndingTicker ==
  ASSUME TypeOK, TypeOK', NEW b \in Jobs, Ending(b), Timely, NEW h \in Hotels, Ticker(h)
  PROVE  Ending(b)' /\ Timely'
<1>1. /\ b # NoJob /\ b.sort = "guaranteed" /\ b.next <= now /\ NextFire[b.next] = 0
      /\ Only(CronFired(b.next))
      /\ \A g \in Hotels : Still(b, g) \/ Firing(b, g) \/ Done(b, g)
      /\ Staggered => \A e \in Schedule : b.first <= e /\ e < b.next => fired[e] <= 1
  BY DEF Ending
<1>2. ~Due(h) \/ ~Done(b, h) \/ Still(b, h)
  <2> SUFFICES ASSUME Done(b, h) PROVE ~Due(h)
    OBVIOUS
  <2>1. job[h] = Advanced(b) /\ ~Advanced(b).enabled
    BY <1>1, AdvancedFields DEF Done
  <2> QED BY <2>1 DEF Due
<1>3. TickerDoes(b, h) /\ Frame(h)
  BY <1>1, <1>2, TickerMoves, TickerFrame
<1>4. UNCHANGED <<now, mesh>>
  BY <1>3 DEF Frame
<1>5. (Still(b, h) \/ Firing(b, h) \/ Done(b, h))'
  <2>1. CASE UNCHANGED <<job, pc, held, fired, out>>
    BY <1>1, <2>1 DEF Still, Firing, Done
  <2> QED BY <1>3, <2>1 DEF TickerDoes
<1>6. \A g \in Hotels : (Still(b, g) \/ Firing(b, g) \/ Done(b, g))'
  BY <1>1, <1>3, <1>5, FrameStands
<1>7. /\ out' = out \/ out' = [out EXCEPT ![h] = @ \cup {CronFired(b.next)}]
      /\ fired' = fired \/ fired' = [fired EXCEPT ![b.next] = IF @ < 2 THEN @ + 1 ELSE @]
  BY <1>3 DEF TickerDoes
<1>8. Only(CronFired(b.next))'
  BY <1>1, <1>4, <1>7, OnlyMore
<1>9. b.next \in Schedule /\ b.next \in Nat /\ \A e \in Schedule : e \in Nat
  BY Times
<1>10. \A e \in Schedule : e # b.next => fired'[e] = fired[e]
  BY <1>7, <1>9, DeliveryCounts
<1>11. Timely'
  BY <1>1, <1>4, <1>9, <1>10 DEF Timely, TypeOK
<1>12. Staggered => \A e \in Schedule : b.first <= e /\ e < b.next => fired'[e] <= 1
  BY <1>1, <1>9, <1>10
<1> QED BY <1>1, <1>4, <1>6, <1>8, <1>11, <1>12 DEF Ending

LEMMA LocalTicker ==
  ASSUME TypeOK, TypeOK', NEW b \in Jobs, Local(b), Timely, NEW h \in Hotels, Ticker(h)
  PROVE  Local(b)' /\ Timely'
<1>1. /\ b # NoJob /\ b.sort # "guaranteed" /\ b.enabled /\ b.next = now /\ Sane(b) /\ Silent
      /\ \A g \in Hotels : Still(b, g) \/ Firing(b, g) \/ Done(b, g)
      /\ \A g \in Hotels : pc[g] # "announce"
  BY DEF Local
<1>2. ~Due(h) \/ ~Done(b, h) \/ Still(b, h)
  <2> SUFFICES ASSUME Done(b, h) PROVE ~Due(h)
    OBVIOUS
  <2>1. now <= Turn(b, h) /\ pc[h] = "idle"
    BY <1>1, Times DEF Done
  <2> QED BY <2>1, DueMeans
<1>3. TickerDoes(b, h) /\ Frame(h)
  BY <1>1, <1>2, TickerMoves, TickerFrame
<1>4. UNCHANGED <<now, mesh>>
  BY <1>3 DEF Frame
<1>5. (Still(b, h) \/ Firing(b, h) \/ Done(b, h))' /\ pc'[h] # "announce"
  <2>1. CASE UNCHANGED <<job, pc, held, fired, out>>
    BY <1>1, <2>1 DEF Still, Firing, Done
  <2>2. CASE ~UNCHANGED <<job, pc, held, fired, out>>
    BY <1>1, <1>3, <2>2 DEF TickerDoes, Done
  <2> QED BY <2>1, <2>2
<1>6. \A g \in Hotels : (Still(b, g) \/ Firing(b, g) \/ Done(b, g))' /\ pc'[g] # "announce"
  BY <1>1, <1>3, <1>5, FrameStands
<1>7. /\ out' = out
      /\ fired' = fired \/ fired' = [fired EXCEPT ![b.next] = IF @ < 2 THEN @ + 1 ELSE @]
  BY <1>1, <1>3 DEF TickerDoes
<1>9. b.next \in Schedule /\ b.next \in Nat /\ \A e \in Schedule : e \in Nat
  BY Times
<1>10. \A e \in Schedule : e # b.next => fired'[e] = fired[e]
  BY <1>7, <1>9, DeliveryCounts
<1>11. Timely'
  BY <1>1, <1>4, <1>9, <1>10 DEF Timely, TypeOK
<1>12. Silent'
  BY <1>1, <1>4, <1>7 DEF Silent
<1> QED BY <1>1, <1>4, <1>6, <1>11, <1>12 DEF Local

\* While a record is replaced nothing is due.
LEMMA ReplacingTicker ==
  ASSUME TypeOK, NEW b \in Jobs \cup {NoJob}, NEW a \in Jobs \cup {NoJob}, NEW m,
         Replacing(b, a, m), NEW h \in Hotels, Ticker(h)
  PROVE  UNCHANGED <<now, fired>> /\ Replacing(b, a, m)'
<1>1. pc[h] \in {"idle", "scan", "off"} /\ job[h] \in {a, b}
  BY DEF Replacing
<1>2. ~Due(h)
  <2> SUFFICES ASSUME Due(h) PROVE FALSE
    OBVIOUS
  <2>1. job[h] \in Jobs /\ now < job[h].next
    BY <1>1 DEF Due, Replacing, Ahead
  <2>2. now \in Nat /\ job[h].next \in Nat /\ Turn(job[h], h) \in Nat /\ job[h].next <= Turn(job[h], h)
    BY <2>1, Times DEF TypeOK
  <2>3. CASE pc[h] = "idle"
    <3>1. Turn(job[h], h) <= now
      BY <2>1, <2>3, DueMeans
    <3> QED BY <2>1, <2>2, <3>1
  <2>4. CASE pc[h] = "scan"
    <3>1. job[h].next < now
      BY <2>4 DEF Due
    <3> QED BY <2>1, <2>2, <3>1
  <2>5. CASE pc[h] = "off"
    BY <2>5 DEF Due
  <2> QED BY <1>1, <2>3, <2>4, <2>5
<1>3. NothingDue(h)
  BY <1>1, <1>2 DEF Ticker, Skip, Fire, Deliver, Announce, Advance
<1>4. UNCHANGED <<now, job, held, fired, out, mesh>>
  BY <1>3 DEF NothingDue
<1>5. \A g \in Hotels : pc'[g] = pc[g] \/ pc'[g] = "idle"
  BY <1>3 DEF NothingDue, TypeOK
<1>6. Ahead(a)' = Ahead(a) /\ Ahead(b)' = Ahead(b)
  BY <1>4 DEF Ahead, Sane, OnceUpTo
<1>7. Only(m)' = Only(m) /\ \A g \in Hotels : Coming(m, g)' = Coming(m, g)
  BY <1>4 DEF Only, Coming
<1>8. Replacing(b, a, m)'
  BY <1>4, <1>5, <1>6, <1>7 DEF Replacing
<1> QED BY <1>4, <1>8

\* What is under way stays under way when nothing is taken out.
LEMMA ComingStays ==
  ASSUME TypeOK, NEW m, NEW n, NEW h \in Hotels, mesh' = mesh,
         out' = out \/ out' = [out EXCEPT ![h] = @ \cup {n}], NEW g, Coming(m, g)
  PROVE  Coming(m, g)'
<1>1. \A f \in Hotels : out[f] \subseteq out'[f]
  BY DEF TypeOK
<1> QED BY <1>1 DEF Coming

LEMMA SpreadingTicker ==
  ASSUME TypeOK, TypeOK', NEW b \in Jobs, Spreading(b), Timely, NEW h \in Hotels, Ticker(h)
  PROVE  Spreading(b)' /\ Timely'
<1> DEFINE m == CronFired(b.next)
<1>1. /\ b # NoJob /\ b.sort = "guaranteed" /\ b.enabled /\ b.next <= now
      /\ Sane(b) /\ NextFire[b.next] # 0 /\ Only(m)
  BY DEF Spreading
<1>2. \A g \in Hotels : /\ now <= Turn(b, g)
                        /\ Still(b, g) \/ (Firing(b, g) /\ now = Turn(b, g)) \/ Done(b, g)
  BY DEF Spreading
<1>3. ~Due(h) \/ ~Done(b, h) \/ Still(b, h)
  <2> SUFFICES ASSUME Done(b, h) PROVE ~Due(h)
    OBVIOUS
  <2>1. pc[h] = "idle"
    BY DEF Done
  <2> QED BY <1>2, <2>1, DueMeans
<1>4. TickerDoes(b, h) /\ Frame(h)
  BY <1>2, <1>3, TickerMoves, TickerFrame
<1>5. UNCHANGED <<now, mesh>> /\ now \in Nat
  BY <1>4 DEF Frame, TypeOK
<1>6. /\ out' = out \/ out' = [out EXCEPT ![h] = @ \cup {m}]
      /\ fired' = fired \/ fired' = [fired EXCEPT ![b.next] = IF @ < 2 THEN @ + 1 ELSE @]
  BY <1>4 DEF TickerDoes
<1> HIDE DEF m
<1>7. Only(m)'
  BY <1>1, <1>5, <1>6, OnlyMore
<1>8. Still(b, h) /\ Due(h) => now = Turn(b, h) /\ ~Foreign(h) /\ ~Heard(h)
  <2> SUFFICES ASSUME Still(b, h), Due(h) PROVE now = Turn(b, h) /\ ~Foreign(h) /\ ~Heard(h)
    OBVIOUS
  <2>1. job[h] = b /\ pc[h] = "idle"
    BY DEF Still
  <2>2. Turn(b, h) <= now /\ Turn(b, h) \in Nat
    BY <2>1, DueMeans, Times
  <2>3. now = Turn(b, h)
    BY <1>2, <1>5, <2>2
  <2> QED BY <1>1, <2>1, <2>3 DEF Foreign, Heard, Sane
<1>9. /\ Still(b, h)' \/ (Firing(b, h)' /\ now = Turn(b, h)) \/ Done(b, h)'
      /\ ~Still(b, h) => ~Still(b, h)'
      /\ pc'[h] = "deliver" => pc[h] = "deliver" \/ Still(b, h)
      /\ Still(b, h)' => UNCHANGED <<job, pc, held, fired, out>>
  <2>1. CASE UNCHANGED <<job, pc, held, fired, out>>
    BY <1>2, <2>1 DEF Still, Firing, Done
  <2>2. CASE ~UNCHANGED <<job, pc, held, fired, out>>
    <3>1. Firing(b, h)' \/ Done(b, h)'
      BY <1>4, <2>2 DEF TickerDoes
    <3>2. Advanced(b) # b
      <4>1. b.next < NextFire[b.next] /\ b.next \in Nat /\ NextFire[b.next] \in Nat
        BY <1>1, Times
      <4>2. Advanced(b).next = NextFire[b.next]
        BY <1>1, AdvancedFields
      <4> QED BY <4>1, <4>2
    <3>3. ~Still(b, h)'
      BY <3>1, <3>2 DEF Still, Firing, Done
    <3>4. Firing(b, h)' => now = Turn(b, h)
      <4>1. Firing(b, h) => now = Turn(b, h)
        BY <1>2 DEF Firing, Still, Done
      <4>2. ~(Done(b, h)' /\ Firing(b, h)')
        BY DEF Firing, Done
      <4> QED BY <1>4, <1>8, <2>2, <4>1, <4>2 DEF TickerDoes
    <3>5. pc'[h] = "deliver" => pc[h] = "deliver" \/ Still(b, h)
      BY <1>1, <1>4, <2>2 DEF TickerDoes, Done
    <3> QED BY <3>1, <3>3, <3>4, <3>5
  <2> QED BY <2>1, <2>2
<1>10. \A g \in Hotels : /\ now <= Turn(b, g)
                         /\ Still(b, g)' \/ (Firing(b, g)' /\ now = Turn(b, g)) \/ Done(b, g)'
  BY <1>2, <1>4, <1>9, FrameStands
<1>11. \/ \E g \in Hotels : pc'[g] \in {"deliver", "announce"}
       \/ \A g \in Hotels : Still(b, g)' => Coming(m, g)'
  <2>1. CASE pc'[h] \in {"deliver", "announce"}
    BY <2>1
  <2>2. CASE pc'[h] \notin {"deliver", "announce"} /\ pc[h] = "announce"
    <3>1. out' = [out EXCEPT ![h] = @ \cup {m}]
      BY <1>4, <2>2 DEF TickerDoes, Still, m
    <3>2. m \in out'[h]
      BY <3>1 DEF TypeOK
    <3>3. ~Still(b, h)'
      BY <1>9, <2>2 DEF Still
    <3>4. \A g \in Hotels : g # h => Coming(m, g)'
      BY <3>2 DEF Coming
    <3> QED BY <3>3, <3>4
  <2>3. CASE pc'[h] \notin {"deliver", "announce"} /\ pc[h] # "announce"
    <3>1. pc[h] # "deliver"
      <4> SUFFICES ASSUME pc[h] = "deliver" PROVE FALSE
        OBVIOUS
      <4> QED BY <1>1, <1>4, <2>3 DEF TickerDoes, Still
    <3>2. CASE \E g \in Hotels : pc[g] \in {"deliver", "announce"}
      <4>1. PICK g \in Hotels : pc[g] \in {"deliver", "announce"}
        BY <3>2
      <4>2. g # h
        BY <2>3, <3>1, <4>1
      <4> QED BY <1>4, <4>1, <4>2, FrameStands
    <3>3. CASE \A g \in Hotels : Still(b, g) => Coming(m, g)
      <4>1. \A g \in Hotels : Still(b, g)' => Still(b, g)
        BY <1>4, <1>9, FrameStands
      <4>2. \A g \in Hotels : Coming(m, g) => Coming(m, g)'
        BY <1>5, <1>6, ComingStays
      <4> QED BY <3>3, <4>1, <4>2
    <3> QED BY <3>2, <3>3 DEF Spreading, m
  <2> QED BY <2>1, <2>2, <2>3
<1>12. /\ b.next \in Schedule /\ b.next \in Nat /\ \A e \in Schedule : e \in Nat
       /\ NextFire[b.next] \in Nat /\ b.next < NextFire[b.next]
  BY <1>1, Times
<1>13. /\ \A e \in Schedule : e # b.next => fired'[e] = fired[e]
       /\ \A e \in Schedule : fired[e] \in 0..2 /\ fired'[e] \in 0..2
       /\ fired' # fired => fired'[b.next] <= fired[b.next] + 1
  BY <1>6, <1>12, DeliveryCounts
<1>14. Timely'
  BY <1>1, <1>5, <1>12, <1>13 DEF Timely
<1>15. OnceUpTo(b, NextFire[b.next])'
  <2>1. OnceUpTo(b, NextFire[b.next])
    BY DEF Spreading
  <2> QED BY <1>12, <1>13, <2>1 DEF OnceUpTo
<1>16. ASSUME Staggered
       PROVE  /\ fired'[b.next] <= 1
              /\ fired'[b.next] = 1 =>
                   \E g \in Hotels : now = Turn(b, g) /\ ~Still(b, g)' /\ pc'[g] # "deliver"
  <2>1. /\ fired[b.next] <= 1
        /\ fired[b.next] = 1 =>
             \E g \in Hotels : now = Turn(b, g) /\ ~Still(b, g) /\ pc[g] # "deliver"
    BY <1>16 DEF Spreading
  <2>2. CASE fired' = fired
    <3> SUFFICES ASSUME fired[b.next] = 1
                 PROVE  \E g \in Hotels : now = Turn(b, g) /\ ~Still(b, g)' /\ pc'[g] # "deliver"
      BY <2>1, <2>2
    <3>1. PICK g \in Hotels : now = Turn(b, g) /\ ~Still(b, g) /\ pc[g] # "deliver"
      BY <2>1
    <3>2. ~Still(b, g)' /\ pc'[g] # "deliver"
      BY <1>4, <1>9, <3>1, FrameStands
    <3> QED BY <3>1, <3>2
  <2>3. CASE fired' # fired
    <3>1. Firing(b, h) /\ pc[h] = "deliver" /\ pc'[h] = "announce"
      BY <1>1, <1>4, <2>3 DEF TickerDoes
    <3>2. now = Turn(b, h)
      BY <1>2, <3>1 DEF Still, Done
    <3>3. fired[b.next] # 1
      <4> SUFFICES ASSUME fired[b.next] = 1 PROVE FALSE
        OBVIOUS
      <4>1. PICK g \in Hotels : now = Turn(b, g) /\ ~Still(b, g) /\ pc[g] # "deliver"
        BY <2>1
      <4>2. g # h
        BY <3>1, <4>1
      <4>3. Offset[g] \in Nat /\ Offset[h] \in Nat
        BY CronAssumption
      <4>4. Offset[g] = Offset[h]
        BY <1>1, <1>12, <3>2, <4>1, <4>3 DEF Turn
      <4> QED BY <1>16, <4>2, <4>4 DEF Staggered
    <3>4. fired'[b.next] <= 1
      BY <1>12, <1>13, <2>1, <2>3, <3>3
    <3>5. ~Still(b, h)' /\ pc'[h] # "deliver"
      BY <3>1 DEF Still
    <3> QED BY <3>2, <3>4, <3>5
  <2> QED BY <2>2, <2>3
<1>17. \A g \in Hotels : Turn(b, g)' = Turn(b, g)
  BY DEF Turn
<1> QED BY <1>1, <1>5, <1>7, <1>10, <1>11, <1>14, <1>15, <1>16, <1>17 DEF Spreading, m

\* The turn of the first hotel comes.
LEMMA RestingTicker ==
  ASSUME TypeOK, TypeOK', NEW b \in Jobs \cup {NoJob}, Resting(b), Timely,
         NEW h \in Hotels, Ticker(h)
  PROVE  (Resting(b) \/ Local(b) \/ Spreading(b) \/ Ending(b))' /\ Timely'
<1>1. /\ Silent /\ \A g \in Hotels : Still(b, g)
      /\ b # NoJob => Sane(b) /\ OnceUpTo(b, b.next)
      /\ b # NoJob /\ b.enabled => \A g \in Hotels : now <= Turn(b, g)
  BY DEF Resting
<1>a. pc[h] = "idle" /\ job[h] = b
  BY <1>1 DEF Still
<1>2. CASE NothingDue(h)
  <2>1. UNCHANGED <<now, job, held, out, mesh, fired>> /\ pc' = pc
    BY <1>2, <1>a DEF NothingDue, TypeOK
  <2>2. Resting(b)'
    BY <1>1, <2>1 DEF Resting, Silent, Still, Sane, OnceUpTo, Turn
  <2> QED BY <2>1, <2>2 DEF Timely
<1>3. CASE ~NothingDue(h)
  <2>1. Due(h)
    BY <1>3, <1>a DEF Ticker, Skip, Fire, Deliver, Announce, Advance
  <2>2. b \in Jobs /\ b # NoJob
    BY <1>a, <2>1 DEF Due
  <2>3. b.enabled /\ Turn(b, h) <= now
    BY <1>a, <2>1, <2>2, DueMeans
  <2>4. now = Turn(b, h) /\ b.next <= now
    <3>1. now \in Nat /\ Turn(b, h) \in Nat /\ b.next \in Nat /\ b.next <= Turn(b, h)
      BY <2>2, Times DEF TypeOK
    <3> QED BY <1>1, <2>2, <2>3, <3>1
  <2>5. Still(b, h) /\ TickerDoes(b, h) /\ Frame(h)
    BY <1>1, <2>2, TickerMoves, TickerFrame
  <2>6. UNCHANGED <<now, mesh, fired, out>>
    BY <1>3, <1>a, <2>1, <2>5 DEF TickerDoes, Frame, Firing, Ticker, Skip, Fire, Deliver, Announce, Advance
  <2>7. \/ (Foreign(h) \/ Heard(h)) /\ Done(b, h)'
        \/ ~Heard(h) /\ Firing(b, h)' /\ pc'[h] = "deliver"
    <3>1. ~Firing(b, h)
      BY <1>a DEF Firing
    <3>2. CASE Skip(h)
      BY <1>a, <3>2 DEF Skip, Done, TypeOK
    <3>3. CASE Fire(h)
      BY <1>a, <3>3 DEF Fire, Firing, TypeOK
    <3> QED BY <1>3, <1>a, <3>2, <3>3 DEF Ticker, Deliver, Announce, Advance
  <2>8. \A g \in Hotels : g # h => Still(b, g)'
    BY <1>1, <2>5, FrameStands
  <2>9. \A g \in Hotels : (Still(b, g) \/ Firing(b, g) \/ Done(b, g))'
    BY <2>7, <2>8
  <2>10. Silent' /\ Timely' /\ \A m : Only(m)'
    <3>1. Silent' /\ Timely'
      BY <1>1, <2>6 DEF Silent, Timely
    <3> QED BY <3>1 DEF Silent, Only
  <2>11. CASE b.sort # "guaranteed"
    <3>1. \A g \in Hotels : pc'[g] # "announce"
      BY <2>7, <2>8 DEF Still, Done
    <3>2. now = b.next
      BY <2>2, <2>4, <2>11, Times DEF Turn
    <3> QED BY <1>1, <2>2, <2>3, <2>6, <2>9, <2>10, <2>11, <3>1, <3>2 DEF Local
  <2>12. CASE b.sort = "guaranteed" /\ NextFire[b.next] = 0
    <3>1. Staggered => \A e \in Schedule : b.first <= e /\ e < b.next => fired'[e] <= 1
      BY <1>1, <2>2, <2>6, <2>12 DEF OnceUpTo
    <3> QED BY <2>2, <2>4, <2>6, <2>9, <2>10, <2>12, <3>1 DEF Ending
  <2>13. CASE b.sort = "guaranteed" /\ NextFire[b.next] # 0
    <3>1. ~Foreign(h) /\ ~Heard(h)
      BY <1>1, <1>a, <2>2, <2>13 DEF Foreign, Heard, Sane
    <3>2. Firing(b, h)' /\ pc'[h] = "deliver"
      BY <2>7, <3>1
    <3>3. \A g \in Hotels : /\ now <= Turn(b, g)
                            /\ Still(b, g)' \/ (Firing(b, g)' /\ now = Turn(b, g)) \/ Done(b, g)'
      BY <1>1, <2>2, <2>3, <2>4, <2>8, <3>2
    <3>4. OnceUpTo(b, NextFire[b.next])'
      <4>1. b.next \in Nat /\ b.next < NextFire[b.next] /\ \A e \in Schedule : e \in Nat
        BY <2>2, <2>13, Times
      <4>2. NextFire[b.next] \in Nat
        BY <2>2, <2>13, Times
      <4> QED BY <1>1, <2>2, <2>6, <4>1, <4>2 DEF OnceUpTo
    <3>5. Staggered => fired'[b.next] = 0
      <4>1. b.next \in Schedule /\ b.next <= b.next
        BY <2>2, Times
      <4> QED BY <1>1, <2>2, <2>6, <2>13, <4>1 DEF OnceUpTo
    <3>6. \A g \in Hotels : Turn(b, g)' = Turn(b, g)
      BY DEF Turn
    <3>7. (Sane(b) /\ b.next <= now)'
      BY <1>1, <2>2, <2>4, <2>6 DEF Sane
    <3> QED BY <2>2, <2>3, <2>6, <2>10, <2>13, <3>2, <3>3, <3>4, <3>5, <3>6, <3>7 DEF Spreading
  <2> QED BY <2>10, <2>11, <2>12, <2>13
<1> QED BY <1>2, <1>3

LEMMA ModeTicker ==
  ASSUME TypeOK, TypeOK', Mode, Timely, NEW h \in Hotels, Ticker(h)
  PROVE  Mode' /\ Timely'
<1>1. PICK b \in Jobs \cup {NoJob} :
        \/ Resting(b) \/ Local(b) \/ Spreading(b) \/ Ending(b)
        \/ \E a \in Jobs \cup {NoJob} : \E m : Replacing(b, a, m)
  BY DEF Mode
<1>2. CASE Resting(b)
  BY <1>2, RestingTicker DEF Mode
<1>3. CASE Local(b)
  <2>1. b \in Jobs
    BY <1>3 DEF Local
  <2> QED BY <1>3, <2>1, LocalTicker DEF Mode
<1>4. CASE Spreading(b)
  <2>1. b \in Jobs
    BY <1>4 DEF Spreading
  <2> QED BY <1>4, <2>1, SpreadingTicker DEF Mode
<1>5. CASE Ending(b)
  <2>1. b \in Jobs
    BY <1>5 DEF Ending
  <2> QED BY <1>5, <2>1, EndingTicker DEF Mode
<1>6. ASSUME NEW a \in Jobs \cup {NoJob}, NEW m, Replacing(b, a, m)
      PROVE  Mode' /\ Timely'
  <2>1. UNCHANGED <<now, fired>> /\ Replacing(b, a, m)'
    BY <1>6, ReplacingTicker
  <2> QED BY <2>1 DEF Mode, Timely
<1> QED BY <1>1, <1>2, <1>3, <1>4, <1>5, <1>6

\* An event is published: it is under way as before.
LEMMA PublishKeeps ==
  ASSUME TypeOK, NEW h \in Hotels, NEW n \in out[h], Publish(h, n)
  PROVE  /\ ~Silent
         /\ \A m : Only(m) => Only(m)'
         /\ \A m : \A g \in Hotels : Coming(m, g) => Coming(m, g)'
         /\ UNCHANGED <<now, up, job, pc, held, fired, calm>>
<1>1. /\ out' = [out EXCEPT ![h] = @ \ {n}] /\ mesh' = mesh \cup {<<h, g, n>> : g \in Hotels \ {h}}
      /\ UNCHANGED <<now, up, job, pc, held, fired, calm>>
  BY DEF Publish
<1>2. ~Silent
  BY DEF Silent
<1>3. /\ \A g \in Hotels : out'[g] \subseteq out[g] /\ (g # h => out'[g] = out[g])
      /\ out'[h] = out[h] \ {n}
  BY <1>1 DEF TypeOK
<1>4. ASSUME NEW m, Only(m) PROVE Only(m)'
  <2>1. n = m
    BY <1>4 DEF Only
  <2>2. \A x \in mesh' : x[3] = m
    BY <1>1, <1>4, <2>1 DEF Only
  <2> QED BY <1>3, <1>4, <2>2 DEF Only
<1>5. ASSUME NEW m, NEW g \in Hotels, Coming(m, g) PROVE Coming(m, g)'
  <2>1. PICK f \in Hotels : f # g /\ (m \in out[f] \/ <<f, g, m>> \in mesh)
    BY <1>5 DEF Coming
  <2>2. CASE <<f, g, m>> \in mesh
    BY <1>1, <2>1, <2>2 DEF Coming
  <2>3. CASE m \in out[f] /\ f = h /\ m = n
    <3>1. <<f, g, m>> \in mesh'
      BY <1>1, <2>1, <2>3
    <3> QED BY <2>1, <3>1 DEF Coming
  <2>4. CASE m \in out[f] /\ ~(f = h /\ m = n)
    <3>1. m \in out'[f]
      BY <1>3, <2>4
    <3> QED BY <2>1, <3>1 DEF Coming
  <2> QED BY <2>1, <2>2, <2>3, <2>4
<1> QED BY <1>1, <1>2, <1>4, <1>5

LEMMA ModePublish ==
  ASSUME TypeOK, Mode, Timely, NEW h \in Hotels, NEW n \in out[h], Publish(h, n)
  PROVE  Mode' /\ Timely'
<1>1. PICK b \in Jobs \cup {NoJob} :
        \/ Resting(b) \/ Local(b) \/ Spreading(b) \/ Ending(b)
        \/ \E a \in Jobs \cup {NoJob} : \E m : Replacing(b, a, m)
  BY DEF Mode
<1>2. /\ ~Silent /\ \A m : Only(m) => Only(m)'
      /\ \A m : \A g \in Hotels : Coming(m, g) => Coming(m, g)'
      /\ UNCHANGED <<now, up, job, pc, held, fired, calm>>
  BY PublishKeeps
<1>3. CASE Resting(b) \/ Local(b)
  BY <1>2, <1>3 DEF Resting, Local
<1>4. CASE Spreading(b)
  <2> DEFINE m == CronFired(b.next)
  <2>1. \A g \in Hotels : /\ Still(b, g)' = Still(b, g) /\ Firing(b, g)' = Firing(b, g)
                          /\ Done(b, g)' = Done(b, g) /\ Turn(b, g)' = Turn(b, g)
    BY <1>2 DEF Still, Firing, Done, Turn
  <2>2. OnceUpTo(b, NextFire[b.next])' = OnceUpTo(b, NextFire[b.next]) /\ Sane(b)' = Sane(b)
    BY <1>2 DEF OnceUpTo, Sane
  <2>3. Only(m)' /\ \A g \in Hotels : Coming(m, g) => Coming(m, g)'
    <3>1. Only(m)
      BY <1>4 DEF Spreading
    <3> HIDE DEF m
    <3>2. Only(m)'
      BY <1>2, <3>1
    <3>3. \A g \in Hotels : Coming(m, g) => Coming(m, g)'
      <4> SUFFICES ASSUME NEW g \in Hotels, Coming(m, g) PROVE Coming(m, g)'
        OBVIOUS
      <4> QED BY PublishKeeps
    <3> QED BY <3>2, <3>3
  <2>4. Spreading(b)'
    BY <1>2, <1>4, <2>1, <2>2, <2>3 DEF Spreading
  <2> QED BY <1>2, <2>4 DEF Mode, Timely
<1>5. CASE Ending(b)
  <2>1. \A g \in Hotels : /\ Still(b, g)' = Still(b, g) /\ Firing(b, g)' = Firing(b, g)
                          /\ Done(b, g)' = Done(b, g)
    BY <1>2 DEF Still, Firing, Done
  <2>2. Ending(b)'
    BY <1>2, <1>5, <2>1 DEF Ending
  <2> QED BY <1>2, <2>2 DEF Mode, Timely
<1>6. ASSUME NEW a \in Jobs \cup {NoJob}, NEW m, Replacing(b, a, m)
      PROVE  Mode' /\ Timely'
  <2>1. \A g \in Hotels : Coming(m, g) => Coming(m, g)'
    <3> SUFFICES ASSUME NEW g \in Hotels, Coming(m, g) PROVE Coming(m, g)'
      OBVIOUS
    <3> QED BY PublishKeeps
  <2>2. Ahead(a)' = Ahead(a) /\ Ahead(b)' = Ahead(b)
    BY <1>2 DEF Ahead, Sane, OnceUpTo
  <2>3. Replacing(b, a, m)'
    BY <1>2, <1>6, <2>1, <2>2 DEF Replacing
  <2> QED BY <1>2, <2>3 DEF Mode, Timely
<1> QED BY <1>1, <1>3, <1>4, <1>5, <1>6

\* What is under way to the other hotels stays under way when one event is
\* read, for good or to come again.
LEMMA ReceiveKeeps ==
  ASSUME TypeOK, NEW x \in mesh, NEW again \in BOOLEAN, Receive(x, again)
  PROVE  /\ x[2] \in Hotels /\ ~Silent
         /\ \A m : Only(m) => Only(m)' /\ x[3] = m
         /\ \A m : \A g \in Hotels : g # x[2] /\ Coming(m, g) => Coming(m, g)'
         /\ \A g \in Hotels : g # x[2] => job'[g] = job[g]
         /\ job'[x[2]] = Applied(job[x[2]], x[3])
         /\ UNCHANGED <<now, up, pc, held, fired, calm>>
<1>1. /\ mesh' = mesh \/ mesh' = mesh \ {x}
      /\ job' = [job EXCEPT ![x[2]] = Applied(@, x[3])]
      /\ UNCHANGED <<now, up, pc, held, out, fired, calm>>
  BY DEF Receive
<1>2. x[2] \in Hotels /\ job \in [Hotels -> Jobs \cup {NoJob}]
  BY DEF TypeOK
<1>3. ~Silent
  BY DEF Silent
<1>4. \A m : Only(m) => Only(m)' /\ x[3] = m
  BY <1>1 DEF Only
<1>5. ASSUME NEW m, NEW g \in Hotels, g # x[2], Coming(m, g) PROVE Coming(m, g)'
  <2>1. \A f : <<f, g, m>> # x
    BY <1>5
  <2> QED BY <1>1, <1>5, <2>1 DEF Coming
<1> QED BY <1>1, <1>2, <1>3, <1>4, <1>5

\* An announcement moves a record past the occurrence, once, unless it is the
\* last.
LEMMA HearsOnce ==
  ASSUME NEW b \in Jobs, NEW j \in {b, Advanced(b)}
  PROVE  /\ NextFire[b.next] = 0 => Applied(j, CronFired(b.next)) = j
         /\ NextFire[b.next] # 0 /\ Sane(b) => Applied(j, CronFired(b.next)) = Advanced(b)
<1>1. Applied(j, CronFired(b.next)) = Announced(j, b.next)
  BY DEF Applied, CronFired
<1>2. Advanced(b).last = b.next /\ b # NoJob
  BY AdvancedFields, NoJobAssumption
<1>3. NextFire[b.next] = 0 => Announced(j, b.next) = j
  BY DEF Announced
<1>4. Announced(Advanced(b), b.next) = Advanced(b)
  BY <1>2 DEF Announced
<1>5. ASSUME NextFire[b.next] # 0, Sane(b) PROVE Announced(b, b.next) = Advanced(b)
  BY <1>2, <1>5 DEF Announced, Advanced, Sane
<1> QED BY <1>1, <1>3, <1>4, <1>5

LEMMA ModeReceive ==
  ASSUME TypeOK, Mode, Timely, NEW x \in mesh, NEW again \in BOOLEAN, Receive(x, again)
  PROVE  Mode' /\ Timely'
<1> DEFINE h == x[2]
<1>1. PICK b \in Jobs \cup {NoJob} :
        \/ Resting(b) \/ Local(b) \/ Spreading(b) \/ Ending(b)
        \/ \E a \in Jobs \cup {NoJob} : \E m : Replacing(b, a, m)
  BY DEF Mode
<1>2. /\ h \in Hotels /\ ~Silent /\ \A m : Only(m) => Only(m)' /\ x[3] = m
      /\ \A g \in Hotels : g # h => job'[g] = job[g]
      /\ job'[h] = Applied(job[h], x[3])
      /\ UNCHANGED <<now, up, pc, held, fired, calm>>
  BY ReceiveKeeps
<1>a. ASSUME NEW m, NEW g \in Hotels, g # h, Coming(m, g) PROVE Coming(m, g)'
  BY <1>a, ReceiveKeeps
<1> HIDE DEF h
<1>b. ASSUME NEW g \in Hotels, g # h
      PROVE  /\ Still(b, g)' = Still(b, g) /\ Firing(b, g)' = Firing(b, g)
             /\ Done(b, g)' = Done(b, g)
  BY <1>2, <1>b DEF Still, Firing, Done
<1>3. CASE Resting(b) \/ Local(b)
  BY <1>2, <1>3 DEF Resting, Local
<1>4. CASE Spreading(b)
  <2> DEFINE m == CronFired(b.next)
  <2>1. b \in Jobs /\ Only(m) /\ Sane(b) /\ NextFire[b.next] # 0
    BY <1>4 DEF Spreading
  <2>2. Only(m)' /\ x[3] = m
    BY <1>2, <2>1
  <2>3. job[h] \in {b, Advanced(b)}
    BY <1>2, <1>4 DEF Spreading, Still, Firing, Done
  <2>4. job'[h] = Advanced(b)
    BY <1>2, <2>1, <2>2, <2>3, HearsOnce
  <2> HIDE DEF m
  <2>5. Advanced(b) # b
    <3>1. b.next < NextFire[b.next] /\ b.next \in Nat /\ NextFire[b.next] \in Nat
      BY <2>1, Times
    <3>2. Advanced(b).next = NextFire[b.next]
      BY <2>1, AdvancedFields
    <3> QED BY <3>1, <3>2
  <2>6. /\ ~Still(b, h)' /\ (Firing(b, h) => Firing(b, h)') /\ (Done(b, h) => Done(b, h)')
        /\ Still(b, h) => Done(b, h)'
    BY <1>2, <2>4, <2>5 DEF Still, Firing, Done
  <2>7. \A g \in Hotels : Turn(b, g)' = Turn(b, g)
    BY DEF Turn
  <2>8. OnceUpTo(b, NextFire[b.next])' = OnceUpTo(b, NextFire[b.next]) /\ Sane(b)' = Sane(b)
    BY <1>2 DEF OnceUpTo, Sane
  <2>9. \A g \in Hotels : /\ now' <= Turn(b, g)'
                          /\ Still(b, g)' \/ (Firing(b, g)' /\ now' = Turn(b, g)') \/ Done(b, g)'
    <3> SUFFICES ASSUME NEW g \in Hotels
                 PROVE  /\ now <= Turn(b, g)
                        /\ Still(b, g)' \/ (Firing(b, g)' /\ now = Turn(b, g)) \/ Done(b, g)'
      BY <1>2, <2>7
    <3>1. /\ now <= Turn(b, g)
          /\ Still(b, g) \/ (Firing(b, g) /\ now = Turn(b, g)) \/ Done(b, g)
      BY <1>4 DEF Spreading
    <3>2. CASE g = h
      BY <2>6, <3>1, <3>2
    <3>3. CASE g # h
      BY <1>b, <3>1, <3>3
    <3> QED BY <3>2, <3>3
  <2>10. \/ \E g \in Hotels : pc'[g] \in {"deliver", "announce"}
         \/ \A g \in Hotels : Still(b, g)' => Coming(m, g)'
    <3>1. CASE \E g \in Hotels : pc[g] \in {"deliver", "announce"}
      BY <1>2, <3>1
    <3>2. CASE \A g \in Hotels : Still(b, g) => Coming(m, g)
      <4>1. ASSUME NEW g \in Hotels, Still(b, g)' PROVE Coming(m, g)'
        <5>1. g # h
          BY <2>6, <4>1
        <5>2. Coming(m, g)
          BY <1>b, <3>2, <4>1, <5>1
        <5> QED BY <1>a, <5>1, <5>2
      <4> QED BY <4>1
    <3> QED BY <1>4, <3>1, <3>2 DEF Spreading, m
  <2>11. Staggered =>
           /\ fired'[b.next] <= 1
           /\ fired'[b.next] = 1 =>
                \E g \in Hotels : now' = Turn(b, g)' /\ ~Still(b, g)' /\ pc'[g] # "deliver"
    <3> SUFFICES ASSUME Staggered
                 PROVE  /\ fired[b.next] <= 1
                        /\ fired[b.next] = 1 =>
                             \E g \in Hotels : now = Turn(b, g) /\ ~Still(b, g)' /\ pc[g] # "deliver"
      BY <1>2, <2>7
    <3>1. \A g \in Hotels : ~Still(b, g) => ~Still(b, g)'
      BY <1>b, <2>6
    <3> QED BY <1>4, <3>1 DEF Spreading
  <2>12. Spreading(b)'
    BY <1>2, <1>4, <2>2, <2>8, <2>9, <2>10, <2>11 DEF Spreading, m
  <2> QED BY <1>2, <2>12 DEF Mode, Timely
<1>5. CASE Ending(b)
  <2>1. b \in Jobs /\ Only(CronFired(b.next)) /\ NextFire[b.next] = 0
    BY <1>5 DEF Ending
  <2>2. Only(CronFired(b.next))' /\ x[3] = CronFired(b.next)
    BY <1>2, <2>1
  <2>3. job[h] \in {b, Advanced(b)}
    BY <1>2, <1>5 DEF Ending, Still, Firing, Done
  <2>4. job'[h] = job[h]
    BY <1>2, <2>1, <2>2, <2>3, HearsOnce
  <2>5. \A g \in Hotels : /\ Still(b, g)' = Still(b, g) /\ Firing(b, g)' = Firing(b, g)
                          /\ Done(b, g)' = Done(b, g)
    BY <1>2, <2>4 DEF Still, Firing, Done
  <2>6. Ending(b)'
    BY <1>2, <1>5, <2>2, <2>5 DEF Ending
  <2> QED BY <1>2, <2>6 DEF Mode, Timely
<1>6. ASSUME NEW a \in Jobs \cup {NoJob}, NEW m, Replacing(b, a, m)
      PROVE  Mode' /\ Timely'
  <2>1. Only(m)' /\ x[3] = m
    BY <1>2, <1>6 DEF Replacing
  <2>2. job'[h] = a
    BY <1>2, <1>6, <2>1 DEF Replacing, Carries, Applied, Upsert, Remove
  <2>3. Ahead(a)' = Ahead(a) /\ Ahead(b)' = Ahead(b)
    BY <1>2 DEF Ahead, Sane, OnceUpTo
  <2>4. ASSUME NEW g \in Hotels
        PROVE  /\ pc'[g] = "idle" \/ (a = b /\ pc'[g] \in {"scan", "off"})
               /\ job'[g] = a \/ (job'[g] = b /\ Coming(m, g)')
    <3>1. /\ pc[g] = "idle" \/ (a = b /\ pc[g] \in {"scan", "off"})
          /\ job[g] = a \/ (job[g] = b /\ Coming(m, g))
      BY <1>6 DEF Replacing
    <3>2. CASE g = h
      BY <1>2, <2>2, <3>1, <3>2
    <3>3. CASE g # h
      BY <1>2, <1>a, <3>1, <3>3
    <3> QED BY <3>2, <3>3
  <2>5. Replacing(b, a, m)'
    BY <1>6, <2>1, <2>3, <2>4 DEF Replacing
  <2> QED BY <1>2, <2>5 DEF Mode, Timely
<1> QED BY <1>1, <1>3, <1>4, <1>5, <1>6

\* When nothing is left to do, every hotel has the same record, or the last
\* occurrence of the job has come.
LEMMA QuietRests ==
  ASSUME TypeOK, Mode, Quiet
  PROVE  \E c \in Jobs \cup {NoJob} : Resting(c) \/ (c # NoJob /\ Ending(c))
<1>1. PICK b \in Jobs \cup {NoJob} :
        \/ Resting(b) \/ Local(b) \/ Spreading(b) \/ Ending(b)
        \/ \E a \in Jobs \cup {NoJob} : \E m : Replacing(b, a, m)
  BY DEF Mode
<1>2. /\ Silent /\ now \in Nat
      /\ \A h \in Hotels : pc[h] = "idle" /\ ~Due(h)
  BY DEF Quiet, Silent, TypeOK
<1>a. \A m, h : h \in Hotels => ~Coming(m, h)
  BY <1>2 DEF Silent, Coming
<1>3. CASE Resting(b) \/ Ending(b)
  BY <1>3 DEF Ending
<1>4. CASE Local(b)
  <2>1. /\ b \in Jobs /\ b.sort # "guaranteed" /\ b.enabled /\ b.next = now
        /\ \A h \in Hotels : Still(b, h) \/ Firing(b, h) \/ Done(b, h)
    BY <1>4 DEF Local
  <2>2. \A h \in Hotels : ~Still(b, h) /\ ~Firing(b, h)
    <3> SUFFICES ASSUME NEW h \in Hotels PROVE ~Still(b, h) /\ ~Firing(b, h)
      OBVIOUS
    <3>1. ~Firing(b, h)
      BY <1>2 DEF Firing
    <3>2. Turn(b, h) = now
      BY <1>2, <2>1 DEF Turn
    <3>3. job[h] # b
      BY <1>2, <2>1, <3>2, DueMeans
    <3> QED BY <3>1, <3>3 DEF Still
  <2> DEFINE c == Advanced(b)
  <2>3. /\ c \in Jobs /\ c.sort = b.sort /\ c.last = b.next
        /\ NextFire[b.next] = 0 => c.next = b.next /\ ~c.enabled
        /\ NextFire[b.next] # 0 => c.next = NextFire[b.next]
    BY <2>1, AdvancedFields
  <2>4. NextFire[b.next] # 0 => NextFire[b.next] \in Nat /\ b.next < NextFire[b.next]
    BY <2>1, Times
  <2>5. \A h \in Hotels : Still(c, h)
    BY <2>1, <2>2 DEF Still, Done
  <2> HIDE DEF c
  <2>6. Sane(c) /\ OnceUpTo(c, c.next)
    BY <1>2, <2>1, <2>3, <2>4 DEF Sane, OnceUpTo
  <2>7. c.enabled => \A h \in Hotels : now <= Turn(c, h)
    <3>1. c.enabled => now <= c.next /\ c.sort # "guaranteed"
      BY <1>2, <2>1, <2>3, <2>4
    <3>2. c.next \in Nat
      BY <2>3, Times
    <3> SUFFICES ASSUME c.enabled, NEW h \in Hotels PROVE now <= Turn(c, h)
      OBVIOUS
    <3>3. c.next <= Turn(c, h) /\ Turn(c, h) \in Nat
      BY <2>3, Times
    <3> QED BY <1>2, <3>1, <3>2, <3>3
  <2>8. Resting(c)
    BY <1>2, <2>5, <2>6, <2>7 DEF Resting
  <2> QED BY <2>3, <2>8
<1>5. CASE Spreading(b)
  <2>1. /\ b \in Jobs /\ b.sort = "guaranteed" /\ NextFire[b.next] # 0 /\ Sane(b)
        /\ \A h \in Hotels : now <= Turn(b, h)
        /\ \A h \in Hotels : Still(b, h) \/ Firing(b, h) \/ Done(b, h)
        /\ OnceUpTo(b, NextFire[b.next])
        /\ Staggered => fired[b.next] <= 1
    BY <1>5 DEF Spreading
  <2>2. \A h \in Hotels : ~Still(b, h) /\ ~Firing(b, h)
    BY <1>2, <1>5, <1>a DEF Spreading, Firing
  <2> DEFINE c == Advanced(b)
  <2>3. /\ c \in Jobs /\ c.sort = b.sort /\ c.last = b.next /\ c.first = b.first
        /\ c.next = NextFire[b.next]
    BY <2>1, AdvancedFields
  <2>4. /\ NextFire[b.next] \in Nat /\ b.next \in Nat /\ b.next < NextFire[b.next]
        /\ \A e \in Schedule : e \in Nat /\ (e < NextFire[b.next] => e <= b.next)
    BY <2>1, Times
  <2>5. \A h \in Hotels : Still(c, h)
    BY <2>1, <2>2 DEF Still, Done
  <2>6. \A h \in Hotels : Turn(b, h) \in Nat
    BY <2>1, Times
  <2> HIDE DEF c
  <2>7. Sane(c)
    BY <2>3, <2>4 DEF Sane
  <2>8. OnceUpTo(c, c.next)
    <3> SUFFICES ASSUME Staggered, NEW e \in Schedule
                 PROVE  /\ b.first <= e /\ e < NextFire[b.next] => fired[e] <= 1
                        /\ NextFire[b.next] <= e => fired[e] = 0
      BY <2>3 DEF OnceUpTo
    <3>1. /\ b.first <= e /\ e < b.next => fired[e] <= 1
          /\ NextFire[b.next] <= e => fired[e] = 0
      BY <2>1 DEF OnceUpTo
    <3>2. e < NextFire[b.next] => e < b.next \/ e = b.next
      BY <2>4
    <3> QED BY <2>1, <3>1, <3>2
  <2>9. \A h \in Hotels : now <= Turn(c, h)
    <3> SUFFICES ASSUME NEW h \in Hotels PROVE now <= Turn(c, h)
      OBVIOUS
    <3>1. Offset[h] \in Nat
      BY CronAssumption
    <3>2. now <= b.next + Offset[h]
      BY <2>1 DEF Turn
    <3>3. now <= NextFire[b.next] + Offset[h]
      BY <1>2, <2>4, <3>1, <3>2
    <3> QED BY <2>1, <2>3, <3>3 DEF Turn
  <2>10. Resting(c)
    BY <1>2, <2>5, <2>7, <2>8, <2>9 DEF Resting
  <2> QED BY <2>3, <2>10
<1>6. ASSUME NEW a \in Jobs \cup {NoJob}, NEW m, Replacing(b, a, m)
      PROVE  \E c \in Jobs \cup {NoJob} : Resting(c)
  <2>1. \A h \in Hotels : Still(a, h)
    BY <1>2, <1>6, <1>a DEF Replacing, Still
  <2>2. a # NoJob => now < a.next /\ Sane(a) /\ OnceUpTo(a, a.next)
    BY <1>6 DEF Replacing, Ahead
  <2>3. a # NoJob => \A h \in Hotels : now <= Turn(a, h)
    <3> SUFFICES ASSUME a # NoJob, NEW h \in Hotels PROVE now <= Turn(a, h)
      OBVIOUS
    <3>1. Turn(a, h) \in Nat /\ a.next \in Nat /\ a.next <= Turn(a, h)
      BY Times
    <3> QED BY <1>2, <2>2, <3>1
  <2>4. Resting(a)
    BY <1>2, <2>1, <2>2, <2>3 DEF Resting
  <2> QED BY <2>4
<1> QED BY <1>1, <1>3, <1>4, <1>5, <1>6

\* A request or a crash comes when all hotels agree and no occurrence is behind.
LEMMA RequestRests ==
  ASSUME TypeOK, Mode, Quiet, ~Overdue, NEW h \in Hotels
  PROVE  \E c \in Jobs \cup {NoJob} : /\ Silent /\ Ahead(c)
                                      /\ \A g \in Hotels : job[g] = c /\ pc[g] = "idle"
<1>1. PICK c \in Jobs \cup {NoJob} : Resting(c) \/ (c # NoJob /\ Ending(c))
  BY QuietRests
<1>2. ~Ending(c) \/ c = NoJob
  <2> SUFFICES ASSUME Ending(c), c # NoJob PROVE FALSE
    OBVIOUS
  <2>1. c \in Jobs /\ c.next <= now /\ NextFire[c.next] = 0
    BY DEF Ending
  <2>2. job[h] \in {c, Advanced(c)}
    BY DEF Ending, Still, Firing, Done
  <2>3. job[h] # NoJob /\ job[h].next = c.next
    BY <2>1, <2>2, AdvancedFields
  <2> QED BY <2>1, <2>3 DEF Overdue
<1>3. Silent /\ \A g \in Hotels : job[g] = c /\ pc[g] = "idle"
  BY <1>1, <1>2 DEF Resting, Still
<1>4. Ahead(c)
  <2> SUFFICES ASSUME c # NoJob PROVE now < c.next /\ Sane(c) /\ OnceUpTo(c, c.next)
    BY DEF Ahead
  <2>1. Sane(c) /\ OnceUpTo(c, c.next)
    BY <1>1, <1>2 DEF Resting
  <2>2. ~(c.next <= now)
    BY <1>3 DEF Overdue
  <2>3. c.next \in Nat /\ now \in Nat
    BY Times DEF TypeOK
  <2> QED BY <2>1, <2>2, <2>3
<1> QED BY <1>3, <1>4

\* The new record takes the place of the old one.
LEMMA RequestReplaces ==
  ASSUME TypeOK, Timely, NEW h \in Hotels, NEW c \in Jobs \cup {NoJob},
         Silent, Ahead(c), \A g \in Hotels : job[g] = c /\ pc[g] = "idle",
         NEW a \in Jobs \cup {NoJob}, NEW m, Carries(m, a), Ahead(a)',
         job' = [job EXCEPT ![h] = a], out' = [out EXCEPT ![h] = @ \cup {m}],
         UNCHANGED <<now, pc, held, mesh, fired>>
  PROVE  Mode' /\ Timely'
<1>1. out \in [Hotels -> SUBSET Events] /\ job \in [Hotels -> Jobs \cup {NoJob}]
  BY DEF TypeOK
<1>2. \A g \in Hotels : (g = h => out'[g] = {m}) /\ (g # h => out'[g] = {}) /\ mesh' = {}
  BY <1>1 DEF Silent
<1>3. Only(m)'
  BY <1>2 DEF Only
<1>4. \A g \in Hotels : g # h => Coming(m, g)'
  BY <1>2 DEF Coming
<1>5. \A g \in Hotels : pc'[g] = "idle" /\ (job'[g] = a \/ (job'[g] = c /\ Coming(m, g)'))
  BY <1>1, <1>4
<1>6. Ahead(c)'
  BY DEF Ahead, Sane, OnceUpTo
<1>7. Replacing(c, a, m)'
  BY <1>3, <1>5, <1>6 DEF Replacing
<1> QED BY <1>7 DEF Mode, Timely

LEMMA ModeAsk ==
  ASSUME TypeOK, Mode, Timely, NEW h \in Hotels, Ask(h), calm'
  PROVE  Mode' /\ Timely'
<1>1. PICK k : Request(k, h)
  BY DEF Ask, Register, SetEnabled, RemoveJob
<1>2. Quiet /\ ~Overdue /\ UNCHANGED <<now, up, pc, held, mesh, fired>>
  BY <1>1 DEF Request, Untroubled
<1>3. PICK c \in Jobs \cup {NoJob} : /\ Silent /\ Ahead(c)
                                     /\ \A g \in Hotels : job[g] = c /\ pc[g] = "idle"
  BY <1>2, RequestRests
<1>4. ASSUME NEW s \in Sorts, NEW e \in Schedule, Register(h, s, e)
      PROVE  Mode' /\ Timely'
  <2> DEFINE a == NewJob(s, e)
  <2>1. a \in Jobs /\ a # NoJob
    BY NewJobType, NoJobAssumption
  <2>2. a.next = e /\ a.first = e /\ a.last = 0
    BY DEF NewJob
  <2>3. e > now /\ job' = [job EXCEPT ![h] = a] /\ out' = [out EXCEPT ![h] = @ \cup {Upsert(a)}]
    BY <1>4 DEF Register, FirstAfter, Put
  <2> HIDE DEF a
  <2>4. now \in Nat /\ \A f \in Schedule : f \in Nat /\ f # 0
    BY CronAssumption DEF TypeOK
  <2>5. OnceUpTo(a, a.next)'
    <3>1. \A f \in Schedule : /\ a.first <= f => ~(f < a.next)
                              /\ a.next <= f => fired'[f] = 0
      BY <1>2, <2>2, <2>3, <2>4 DEF Timely
    <3> QED BY <3>1 DEF OnceUpTo
  <2>6. Ahead(a)'
    BY <1>2, <2>2, <2>3, <2>4, <2>5 DEF Ahead, Sane
  <2>7. Carries(Upsert(a), a)
    BY <2>1 DEF Carries
  <2> QED BY <1>2, <1>3, <2>1, <2>3, <2>6, <2>7, RequestReplaces
<1>5. ASSUME NEW v \in BOOLEAN, SetEnabled(h, v)
      PROVE  Mode' /\ Timely'
  <2> DEFINE a == [c EXCEPT !.enabled = v]
  <2>1. job[h] = c /\ c \in Jobs /\ c # NoJob
    BY <1>3, <1>5 DEF SetEnabled
  <2>2. a \in Jobs /\ a.next = c.next /\ a.first = c.first /\ a.last = c.last /\ a.sort = c.sort
    BY <2>1 DEF Jobs
  <2>3. job' = [job EXCEPT ![h] = a] /\ out' = [out EXCEPT ![h] = @ \cup {Upsert(a)}]
    BY <1>5, <2>1 DEF SetEnabled, Put
  <2> HIDE DEF a
  <2>4. Ahead(a)'
    BY <1>2, <1>3, <2>1, <2>2 DEF Ahead, Sane, OnceUpTo
  <2>5. Carries(Upsert(a), a)
    BY <2>2, NoJobAssumption DEF Carries
  <2> QED BY <1>2, <1>3, <2>2, <2>3, <2>4, <2>5, RequestReplaces
<1>6. CASE RemoveJob(h)
  <2>1. job' = [job EXCEPT ![h] = NoJob] /\ out' = [out EXCEPT ![h] = @ \cup {Remove}]
    BY <1>6 DEF RemoveJob, Put
  <2>2. Ahead(NoJob)' /\ Carries(Remove, NoJob)
    BY DEF Ahead, Carries
  <2> QED BY <1>2, <1>3, <2>1, <2>2, RequestReplaces
<1> QED BY <1>2, <1>4, <1>5, <1>6 DEF Ask

\* A hotel that is down or starts has the record all hotels have.
LEMMA ModeCrash ==
  ASSUME TypeOK, Mode, Timely, NEW h \in Hotels, Crash(h), calm'
  PROVE  Mode' /\ Timely'
<1>1. Quiet /\ ~Overdue /\ UNCHANGED <<now, job, mesh, fired>>
      /\ pc' = [pc EXCEPT ![h] = "off"] /\ out' = [out EXCEPT ![h] = {}]
  BY DEF Crash, Untroubled
<1>2. PICK c \in Jobs \cup {NoJob} : /\ Silent /\ Ahead(c)
                                     /\ \A g \in Hotels : job[g] = c /\ pc[g] = "idle"
  BY <1>1, RequestRests
<1>3. \A m : Only(m)'
  <2>1. mesh' = {} /\ \A g \in Hotels : out'[g] = {}
    BY <1>1, <1>2 DEF Silent, TypeOK
  <2> QED BY <2>1 DEF Only
<1>4. Ahead(c)'
  BY <1>1, <1>2 DEF Ahead, Sane, OnceUpTo
<1>5. \A g \in Hotels : job'[g] = c /\ (pc'[g] = "idle" \/ pc'[g] \in {"scan", "off"})
  BY <1>1, <1>2 DEF TypeOK
<1>6. PICK m : Carries(m, c)
  BY DEF Carries
<1>7. Replacing(c, c, m)'
  BY <1>3, <1>4, <1>5, <1>6 DEF Replacing, Carries
<1> QED BY <1>1, <1>7 DEF Mode, Timely

LEMMA ModeBoot ==
  ASSUME TypeOK, Mode, Timely, NEW h \in Hotels, Boot(h)
  PROVE  Mode' /\ Timely'
<1>1. PICK b \in Jobs \cup {NoJob} :
        \/ Resting(b) \/ Local(b) \/ Spreading(b) \/ Ending(b)
        \/ \E a \in Jobs \cup {NoJob} : \E m : Replacing(b, a, m)
  BY DEF Mode
<1>2. /\ UNCHANGED <<now, job, held, mesh, fired>> /\ pc' = [pc EXCEPT ![h] = "scan"]
      /\ pc[h] = "off"
  BY DEF Boot, TypeOK
<1>a. PICK a \in Jobs \cup {NoJob} : \E m : Replacing(b, a, m)
  BY <1>1, <1>2 DEF Resting, Local, Spreading, Ending, Still, Firing, Done
<1>3. PICK m : Replacing(b, a, m)
  BY <1>a
<1>4. a = b /\ Carries(m, a) /\ Only(m) /\ Ahead(a) /\ job[h] = a
  BY <1>2, <1>3 DEF Replacing
<1>5. out' = out \/ out' = [out EXCEPT ![h] = @ \cup {m}]
  BY <1>4 DEF Boot, Put, Carries
<1>6. Only(m)'
  BY <1>2, <1>4, <1>5, OnlyMore
<1>7. Ahead(a)'
  BY <1>2, <1>4 DEF Ahead, Sane, OnceUpTo
<1>8. \A g \in Hotels : job'[g] = a /\ (pc'[g] = "idle" \/ pc'[g] \in {"scan", "off"})
  BY <1>2, <1>3, <1>4 DEF Replacing, TypeOK
<1>9. Replacing(b, a, m)'
  BY <1>4, <1>6, <1>7, <1>8 DEF Replacing, Carries
<1> QED BY <1>2, <1>9 DEF Mode, Timely

LEMMA ModeClock ==
  ASSUME TypeOK, Mode, Timely, Clock, calm'
  PROVE  Mode' /\ Timely'
<1>1. Quiet /\ now' = now + 1 /\ now \in Nat
      /\ UNCHANGED <<up, job, pc, held, out, mesh, fired>>
  BY DEF Clock, TypeOK
<1>2. PICK c \in Jobs \cup {NoJob} : Resting(c) \/ (c # NoJob /\ Ending(c))
  BY <1>1, QuietRests
<1>3. Timely'
  BY <1>1, CronAssumption DEF Timely
<1>4. CASE Resting(c)
  <2>1. c # NoJob /\ c.enabled => \A h \in Hotels : now' <= Turn(c, h)
    <3> SUFFICES ASSUME c # NoJob, c.enabled, NEW h \in Hotels PROVE now' <= Turn(c, h)
      OBVIOUS
    <3>1. job[h] = c /\ pc[h] = "idle" /\ ~Due(h) /\ c \in Jobs
      BY <1>1, <1>4 DEF Resting, Still, Quiet
    <3>2. ~(Turn(c, h) <= now) /\ Turn(c, h) \in Nat
      BY <3>1, DueMeans, Times
    <3> QED BY <1>1, <3>2
  <2>2. Resting(c)'
    BY <1>1, <1>4, <2>1 DEF Resting, Silent, Still, Sane, OnceUpTo, Turn
  <2> QED BY <1>1, <1>3, <2>2 DEF Mode
<1>5. CASE c # NoJob /\ Ending(c)
  <2>1. c.next \in Nat /\ c.next <= now
    BY <1>5, Times DEF Ending
  <2>2. c.next <= now'
    BY <1>1, <2>1
  <2>3. Ending(c)'
    BY <1>1, <1>5, <2>2 DEF Ending, Only, Still, Firing, Done
  <2> QED BY <1>1, <1>3, <2>3 DEF Mode
<1> QED BY <1>2, <1>4, <1>5

LEMMA NewJobTurn ==
  ASSUME NEW s \in Sorts, NEW e \in Schedule, e > 1, NEW h \in Hotels
  PROVE  1 <= Turn(NewJob(s, e), h)
<1>1. NewJob(s, e) \in Jobs /\ NewJob(s, e).next = e /\ e \in Nat
  BY NewJobType, CronAssumption DEF NewJob
<1>2. e <= Turn(NewJob(s, e), h) /\ Turn(NewJob(s, e), h) \in Nat
  BY <1>1, Times
<1> QED BY <1>1, <1>2

LEMMA InitRests ==
  ASSUME Init, NEW j, job = [h \in Hotels |-> j]
  PROVE  /\ now = 1 /\ Timely /\ Silent /\ \A h \in Hotels : Still(j, h)
         /\ fired = [e \in Schedule |-> 0]
<1>1. /\ now = 1 /\ pc = [h \in Hotels |-> "idle"] /\ out = [h \in Hotels |-> {}]
      /\ mesh = {} /\ fired = [e \in Schedule |-> 0]
  BY DEF Init
<1> QED BY <1>1 DEF Timely, Silent, Still

LEMMA InitWithJob ==
  ASSUME Init, NEW s \in Sorts, NEW e \in Schedule, e > 1, NEW j \in Jobs, j = NewJob(s, e),
         job = [h \in Hotels |-> j]
  PROVE  CalmInv
<1>1. /\ now = 1 /\ Timely /\ Silent /\ \A h \in Hotels : Still(j, h)
      /\ fired = [f \in Schedule |-> 0]
  BY InitRests
<1>2. j.next = e /\ j.first = e /\ j.last = 0
  BY DEF NewJob
<1>3. Sane(j) /\ OnceUpTo(j, j.next)
  <2>1. \A f \in Schedule : f \in Nat /\ f # 0 /\ fired[f] = 0 /\ fired[f] <= 1
    BY <1>1, CronAssumption
  <2> QED BY <1>2, <2>1 DEF Sane, OnceUpTo
<1>4. \A h \in Hotels : now <= Turn(j, h)
  BY <1>1, NewJobTurn
<1>5. Resting(j)
  BY <1>1, <1>3, <1>4 DEF Resting
<1> QED BY <1>1, <1>5 DEF CalmInv, Mode

LEMMA InitCalm ==
  ASSUME Init
  PROVE  CalmInv
<1>1. CASE job = [h \in Hotels |-> NoJob]
  <2>1. Timely /\ Silent /\ \A h \in Hotels : Still(NoJob, h)
    BY <1>1, InitRests
  <2>2. Resting(NoJob)
    BY <2>1 DEF Resting
  <2> QED BY <2>1, <2>2 DEF CalmInv, Mode
<1>2. ASSUME NEW s \in Sorts, NEW e \in FirstAfter(1), job = [h \in Hotels |-> NewJob(s, e)]
      PROVE  CalmInv
  <2>1. e \in Schedule /\ e > 1
    BY DEF FirstAfter
  <2> QED BY <1>2, <2>1, InitWithJob, NewJobType
<1> QED BY <1>1, <1>2 DEF Init

LEMMA NextCalm ==
  ASSUME TypeOK, TypeOK', CalmInv, [Next]_vars
  PROVE  CalmInv'
<1> SUFFICES ASSUME calm' PROVE (Timely /\ Mode)'
  BY DEF CalmInv
<1>0. ASSUME calm PROVE Timely /\ Mode
  BY <1>0 DEF CalmInv
<1>1. ASSUME NEW h \in Hotels, Ticker(h) PROVE (Timely /\ Mode)'
  <2>1. UNCHANGED calm
    BY <1>1, TickerFrame DEF Frame
  <2> QED BY <1>0, <1>1, <2>1, ModeTicker
<1>2. ASSUME NEW h \in Hotels, Ask(h) PROVE (Timely /\ Mode)'
  <2>1. calm
    BY <1>2 DEF Ask, Register, SetEnabled, RemoveJob, Request
  <2> QED BY <1>0, <1>2, <2>1, ModeAsk
<1>3. ASSUME NEW h \in Hotels, Crash(h) PROVE (Timely /\ Mode)'
  <2>1. calm
    BY <1>3 DEF Crash
  <2> QED BY <1>0, <1>3, <2>1, ModeCrash
<1>4. ASSUME NEW h \in Hotels, Boot(h) PROVE (Timely /\ Mode)'
  <2>1. UNCHANGED calm
    BY <1>4 DEF Boot
  <2> QED BY <1>0, <1>4, <2>1, ModeBoot
<1>5. ASSUME NEW h \in Hotels, NEW m \in out[h], Publish(h, m)
      PROVE  (Timely /\ Mode)'
  <2>1. UNCHANGED calm
    BY <1>5 DEF Publish
  <2> QED BY <1>0, <1>5, <2>1, ModePublish
<1>6. ASSUME NEW x \in mesh, Lose(x) PROVE FALSE
  BY <1>6 DEF Lose
<1>7. ASSUME NEW x \in mesh, NEW again \in BOOLEAN, Receive(x, again)
      PROVE  (Timely /\ Mode)'
  <2>1. UNCHANGED calm
    BY <1>7 DEF Receive
  <2> QED BY <1>0, <1>7, <2>1, ModeReceive
<1>8. CASE Clock
  <2>1. calm
    BY <1>8 DEF Clock
  <2> QED BY <1>0, <1>8, <2>1, ModeClock
<1>9. CASE UNCHANGED vars
  BY <1>9 DEF vars, CalmInv, Timely, Mode, Resting, Local, Spreading, Ending, Replacing, Silent,
              Only, Coming, Still, Firing, Done, Turn, Sane, OnceUpTo, Ahead
<1> QED BY <1>1, <1>2, <1>3, <1>4, <1>5, <1>6, <1>7, <1>8, <1>9 DEF Next

\* A guaranteed job is fired at most once in calm times (StaggerSuffices): on
\* any mesh whose offsets differ, for any schedule, an occurrence that is not
\* the last of its schedule is fired by one hotel, once, as long as every event
\* arrives, any number of times, before the next step of the clock, and requests
\* and crashes come while nothing is pending or due.
THEOREM AtMostOnceWhenCalm == Spec => []StaggerSuffices
<1>1. Init => TypeOK /\ CalmInv
  BY InitType, InitCalm
<1>2. TypeOK /\ CalmInv /\ [Next]_vars => TypeOK' /\ CalmInv'
  BY NextType, NextCalm
<1>3. TypeOK /\ CalmInv => StaggerSuffices
  <2> SUFFICES ASSUME TypeOK, Mode, Staggered, NEW h \in Hotels,
                      job[h] # NoJob, job[h].sort = "guaranteed",
                      NEW e \in Schedule, job[h].first <= e, NextFire[e] # 0
               PROVE  fired[e] <= 1
    BY DEF StaggerSuffices, CalmInv
  <2>1. PICK b \in Jobs \cup {NoJob} :
          \/ Resting(b) \/ Local(b) \/ Spreading(b) \/ Ending(b)
          \/ \E a \in Jobs \cup {NoJob} : \E m : Replacing(b, a, m)
    BY DEF Mode
  <2>2. ASSUME NEW c \in Jobs, c.sort = "guaranteed", OnceUpTo(c, c.next), c.first <= e
        PROVE  fired[e] <= 1
    <3>1. e \in Nat /\ c.next \in Nat
      BY Times
    <3>2. e < c.next \/ c.next <= e
      BY <3>1
    <3> QED BY <2>2, <3>2 DEF OnceUpTo
  <2>3. CASE Resting(b)
    <3>1. job[h] = b
      BY <2>3 DEF Resting, Still
    <3> QED BY <2>2, <2>3, <3>1 DEF Resting
  <2>4. CASE Local(b)
    <3>1. b \in Jobs /\ job[h] \in {b, Advanced(b)} /\ b.sort # "guaranteed"
      BY <2>4 DEF Local, Still, Firing, Done
    <3> QED BY <3>1, AdvancedFields
  <2>5. CASE Spreading(b)
    <3>1. /\ b \in Jobs /\ job[h] \in {b, Advanced(b)} /\ b.sort = "guaranteed"
          /\ OnceUpTo(b, NextFire[b.next]) /\ fired[b.next] <= 1 /\ NextFire[b.next] # 0
      BY <2>5 DEF Spreading, Still, Firing, Done
    <3>2. b.first <= e
      BY <3>1, AdvancedFields
    <3>3. /\ e \in Nat /\ b.next \in Nat /\ NextFire[b.next] \in Nat
          /\ e < NextFire[b.next] => e <= b.next
      BY <3>1, Times
    <3>4. e < b.next \/ e = b.next \/ NextFire[b.next] <= e
      BY <3>3
    <3> QED BY <3>1, <3>2, <3>4 DEF OnceUpTo
  <2>6. CASE Ending(b)
    <3>1. /\ b \in Jobs /\ job[h] \in {b, Advanced(b)} /\ NextFire[b.next] = 0
          /\ \A f \in Schedule : b.first <= f /\ f < b.next => fired[f] <= 1
      BY <2>6 DEF Ending, Still, Firing, Done
    <3>2. b.first <= e
      BY <3>1, AdvancedFields
    <3>3. e \in Nat /\ b.next \in Nat /\ e <= b.next /\ e # b.next
      BY <3>1, Times
    <3> QED BY <3>1, <3>2, <3>3
  <2>7. ASSUME NEW a \in Jobs \cup {NoJob}, NEW m, Replacing(b, a, m)
        PROVE  fired[e] <= 1
    <3>1. job[h] \in {a, b} /\ Ahead(a) /\ Ahead(b)
      BY <2>7 DEF Replacing
    <3> QED BY <2>2, <3>1 DEF Ahead
  <2> QED BY <2>1, <2>3, <2>4, <2>5, <2>6, <2>7
<1> QED BY <1>1, <1>2, <1>3, PTL DEF Spec

\* Replicas stay in step in calm times (ReplicasAgree), staggered or not: as
\* long as no event is late or lost and requests and crashes come while nothing
\* is pending or due, whenever all is done all hotels have the same record, or the job is
\* at the last occurrence of its schedule, which each hotel runs for itself.
THEOREM ReplicasStayInStep == Spec => []ReplicasAgree
<1>1. Init => TypeOK /\ CalmInv
  BY InitType, InitCalm
<1>2. TypeOK /\ CalmInv /\ [Next]_vars => TypeOK' /\ CalmInv'
  BY NextType, NextCalm
<1>3. TypeOK /\ CalmInv => ReplicasAgree
  <2> SUFFICES ASSUME TypeOK, Mode, Quiet, NEW g \in Hotels, NEW h \in Hotels, job[g] # job[h]
               PROVE  /\ job[g] # NoJob /\ job[h] # NoJob
                      /\ NextFire[job[g].next] = 0 /\ job[g].next = job[h].next
    BY DEF ReplicasAgree, CalmInv
  <2>1. PICK c \in Jobs \cup {NoJob} : Resting(c) \/ (c # NoJob /\ Ending(c))
    BY QuietRests
  <2>2. c # NoJob /\ Ending(c)
    BY <2>1 DEF Resting, Still
  <2>3. /\ c \in Jobs /\ NextFire[c.next] = 0
        /\ job[g] \in {c, Advanced(c)} /\ job[h] \in {c, Advanced(c)}
    BY <2>2 DEF Ending, Still, Firing, Done
  <2> QED BY <2>2, <2>3, AdvancedFields
<1> QED BY <1>1, <1>2, <1>3, PTL DEF Spec
=============================================================================
