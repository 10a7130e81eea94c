----------------------- MODULE GuestSupervisorProofs -----------------------
(***************************************************************************)
(* Proofs about GuestSupervisor, for any guests, handlers, budget, window, *)
(* requests and faults: the respawn budget, the mutex, and on-demand        *)
(* materialization.                                                        *)
(***************************************************************************)
EXTENDS GuestSupervisor, TLAPS, FiniteSetTheorems

-----------------------------------------------------------------------------
(***************************************************************************)
(* Who touches the budget                                                  *)
(***************************************************************************)

\* A step that has nothing to do with the budget.
Aside == UNCHANGED <<now, ledger, charged>>

\* A step that asks RespawnBudget::check for guest g.
Asks(g) == Draw(g) /\ UNCHANGED now

\* Every step of the supervisor, the watchdog, the handlers and the processes
\* either leaves the budget alone or asks it; time and a crash do the rest.
LEMMA BudgetStep ==
  ASSUME [Next]_vars
  PROVE  Aside \/ (\E g : Asks(g)) \/ Clock \/ Crash
<1> USE DEF Aside, graphVars, budgetVars
<1>1. CASE BootClear \/ BootSpawn \/ BootDone \/ Reconcile \/ ExpireClear \/ Respawn
           \/ ReconcileDone \/ Watch \/ Reap \/ ReapClear \/ Boot
  BY <1>1 DEF BootClear, BootSpawn, BootDone, Reconcile, ExpireClear, Respawn, ReconcileDone,
              Watch, Reap, ReapClear, Boot
<1>2. CASE Refresh
  <2>1. now' = now /\ (Draw(at[Sup]) \/ UNCHANGED budgetVars)
    BY <1>2 DEF Refresh
  <2> QED BY <2>1 DEF Asks
<1>3. CASE Judge
  <2>1. now' = now /\ (Draw(at[Sup]) \/ UNCHANGED budgetVars)
    BY <1>3 DEF Judge
  <2> QED BY <2>1 DEF Asks
<1>4. ASSUME NEW g \in Guests,
             BootReclaim(g) \/ BootMissing(g) \/ VisitExpired(g)
             \/ VisitSettled(g) \/ VisitDead(g) \/ VisitMissing(g) \/ VisitInactive(g)
      PROVE  Aside
  BY <1>4 DEF BootReclaim, BootMissing, VisitExpired, VisitSettled,
              VisitDead, VisitMissing, VisitInactive
<1>5. ASSUME NEW t \in Tasks, Ensure(t) \/ Handle(t)
      PROVE  Aside
  BY <1>5 DEF Ensure, EnsureSettled, EnsureMissing, EnsureSpawn, Handle, RestartKill,
              DeactivateKill, DeactivateRecord, RemoveKill, MarkExhausted, ClearMark
<1>13. CASE MarkExhausted(Sup) \/ ClearMark(Sup)
  BY <1>13 DEF MarkExhausted, ClearMark
<1>6. ASSUME NEW t \in Reqs, NEW g \in Guests, HealRestart(t, g)
      PROVE  Asks(g)
  BY <1>6 DEF HealRestart, Asks
<1>7. ASSUME NEW t \in Reqs, NEW g \in Guests,
             Demand(t, g) \/ RestartComponent(t, g) \/ Activate(t, g) \/ Deactivate(t, g)
             \/ RemoveComponent(t, g)
      PROVE  Aside
  BY <1>7 DEF Demand, RestartComponent, Activate, Deactivate, RemoveComponent
<1>8. ASSUME NEW q \in procs, Exit(q) \/ Beat(q) \/ WedgeDispatcher(q)
      PROVE  Aside
  BY <1>8 DEF Exit, Beat, WedgeDispatcher
<1>9. CASE UNCHANGED vars
  BY <1>9 DEF vars
<1>10. CASE Supervise
  BY <1>1, <1>2, <1>3, <1>4, <1>10, <1>13 DEF Supervise
<1>11. CASE Ask
  BY <1>6, <1>7, <1>11 DEF Ask
<1>12. Reqs \subseteq Tasks
  BY DEF Tasks
<1> QED BY <1>1, <1>5, <1>8, <1>9, <1>10, <1>11, <1>12 DEF Next, Process

-----------------------------------------------------------------------------
(***************************************************************************)
(* The ledger                                                              *)
(***************************************************************************)

Ledgers == [attempts : SUBSET (Nat \X Nat), exhausted : Nat]

LedgerType == now \in Nat \ {0} /\ ledger \in [Guests -> Ledgers]

\* The three verdicts.
LEMMA Verdicts ==
  ASSUME NEW g
  PROVE  /\ Verdict(g) \in {"still", "just", "allowed"}
         /\ Verdict(g) = "still" <=> (Exhausted(g) /\ ~Cooled(g))
         /\ Verdict(g) = "allowed" => ~(Cardinality(Retained(g)) >= BudgetMax)
BY DEF Verdict

\* And what a caller makes of them.
LEMMA Rulings ==
  ASSUME NEW g
  PROVE  Ruling(g) \in {"go", "resume", "pause", "deny"}
BY Verdicts DEF Ruling

\* What check leaves of the ledger of the guest it was asked about.
LEMMA DrawLedger ==
  ASSUME LedgerType, NEW g \in Guests, Draw(g)
  PROVE  /\ Verdict(g) = "still" => ledger'[g] = ledger[g]
         /\ Verdict(g) = "just" => ledger'[g] = [attempts |-> Retained(g), exhausted |-> now]
         /\ Verdict(g) = "allowed" =>
              ledger'[g] = [attempts |-> Retained(g) \cup {Attempt(g)}, exhausted |-> 0]
BY DEF LedgerType, Draw

\* And of the others.
LEMMA DrawOthers ==
  ASSUME LedgerType, charged \in [Guests -> SUBSET (Nat \X Nat)], NEW g, Draw(g),
         NEW h \in Guests, h # g
  PROVE  ledger'[h] = ledger[h] /\ charged'[h] = charged[h]
BY DEF LedgerType, Draw

-----------------------------------------------------------------------------
(***************************************************************************)
(* The budget                                                              *)
(*                                                                         *)
(* WindowBudget counts the respawns of the last window.  The ledger knows  *)
(* all of them as long as no breach is on record; a breach is never older  *)
(* than the respawns before it, so that none is left when it has cooled.   *)
(***************************************************************************)

\* The ledger of guest g against its respawns in the window.
Accounted(g) ==
  /\ IsFiniteSet(ledger[g].attempts) /\ IsFiniteSet(charged[g])
  /\ Cardinality(charged[g]) <= BudgetMax
  /\ \A x \in charged[g] : x[1] <= now /\ now - x[1] < Window
  /\ ~Exhausted(g) => charged[g] \subseteq ledger[g].attempts
  /\ Exhausted(g) => \A x \in charged[g] : x[1] <= ledger[g].exhausted

BudgetInv ==
  /\ LedgerType
  /\ charged \in [Guests -> SUBSET (Nat \X Nat)]
  /\ \A g \in Guests : Accounted(g)

LEMMA BudgetInit == Init => BudgetInv
<1> SUFFICES ASSUME Init PROVE BudgetInv
  OBVIOUS
<1>1. /\ now = 1 /\ ledger = [g \in Guests |-> NoLedger] /\ charged = [g \in Guests |-> {}]
  BY DEF Init
<1>2. IsFiniteSet({}) /\ Cardinality({}) = 0
  BY FS_EmptySet
<1>3. \A g \in Guests : ledger[g] = NoLedger /\ charged[g] = {}
  BY <1>1
<1>4. NoLedger \in Ledgers /\ NoLedger.attempts = {} /\ NoLedger.exhausted = 0
  BY DEF NoLedger, Ledgers
<1>5. LedgerType /\ charged \in [Guests -> SUBSET (Nat \X Nat)]
  BY <1>1, <1>4 DEF LedgerType
<1>6. 0 <= BudgetMax
  BY SupervisorAssumption
<1>7. ASSUME NEW g \in Guests
      PROVE  Accounted(g)
  <2>1. ledger[g].attempts = {} /\ ledger[g].exhausted = 0 /\ charged[g] = {}
    BY <1>3, <1>4
  <2> QED BY <1>2, <1>6, <2>1 DEF Accounted, Exhausted
<1> QED BY <1>5, <1>7 DEF BudgetInv

\* The respawns of the window are among the attempts check retains, unless
\* the breach still stands.
LEMMA ChargedRetained ==
  ASSUME BudgetInv, NEW g \in Guests, ~(Exhausted(g) /\ ~Cooled(g))
  PROVE  charged[g] \subseteq Retained(g)
<1> USE DEF BudgetInv, LedgerType, Ledgers, Accounted
<1>1. CASE ~Exhausted(g)
  BY <1>1 DEF Retained, Cooled
<1>2. CASE Exhausted(g)
  <2>1. now - ledger[g].exhausted >= Window
    BY <1>2 DEF Cooled
  <2>2. ASSUME NEW x \in charged[g] PROVE FALSE
    <3>1. x[1] \in Nat /\ ledger[g].exhausted \in Nat /\ now \in Nat
      OBVIOUS
    <3>2. x[1] <= ledger[g].exhausted /\ now - x[1] < Window
      BY <1>2
    <3> QED BY <2>1, <3>1, <3>2, SupervisorAssumption
  <2> QED BY <2>2
<1> QED BY <1>1, <1>2

\* check keeps the account of the guest it is asked about.
LEMMA DrawAccounted ==
  ASSUME BudgetInv, NEW g \in Guests, Asks(g)
  PROVE  ledger'[g] \in Ledgers /\ charged'[g] \subseteq Nat \X Nat /\ Accounted(g)'
<1>1. now' = now /\ now \in Nat /\ Draw(g) /\ LedgerType
  BY DEF Asks, BudgetInv, LedgerType
<1>2. Accounted(g) /\ ledger[g] \in Ledgers /\ charged[g] \subseteq Nat \X Nat
  BY DEF BudgetInv, LedgerType
<1>3. Retained(g) \subseteq ledger[g].attempts
  BY DEF Retained
<1>4. IsFiniteSet(Retained(g)) /\ Retained(g) \subseteq Nat \X Nat
  BY <1>2, <1>3, FS_Subset DEF Accounted, Ledgers
<1>5. CASE Verdict(g) = "still"
  <2>1. ledger'[g] = ledger[g] /\ charged'[g] = charged[g]
    BY <1>1, <1>5, DrawLedger DEF Draw
  <2> QED BY <1>1, <1>2, <2>1 DEF Accounted, Exhausted
<1>6. CASE Verdict(g) = "just"
  <2>1. ledger'[g] = [attempts |-> Retained(g), exhausted |-> now] /\ charged'[g] = charged[g]
    BY <1>1, <1>6, DrawLedger DEF Draw
  <2>2. now # 0
    BY DEF BudgetInv, LedgerType
  <2> QED BY <1>1, <1>2, <1>4, <2>1, <2>2 DEF Accounted, Exhausted, Ledgers
<1>7. CASE Verdict(g) = "allowed"
  <2> DEFINE a == Attempt(g)
  <2>1. Cardinality(charged[g]) \in Nat
    BY <1>2, FS_CardinalityType DEF Accounted
  <2>2. a \in Nat \X Nat /\ a[1] = now
    BY <1>1, <2>1 DEF Attempt
  <2>3. ledger'[g] = [attempts |-> Retained(g) \cup {a}, exhausted |-> 0]
    BY <1>1, <1>7, DrawLedger
  <2>4. charged'[g] = charged[g] \cup {a}
    BY <1>1, <1>7 DEF Draw, BudgetInv
  <2>5. charged[g] \subseteq Retained(g)
    BY <1>7, Verdicts, ChargedRetained
  <2>6. IsFiniteSet(charged[g]) /\ Cardinality(charged[g]) <= Cardinality(Retained(g))
    BY <1>4, <2>5, FS_Subset
  <2>7. Cardinality(Retained(g)) < BudgetMax
    <3>1. Cardinality(Retained(g)) \in Nat
      BY <1>4, FS_CardinalityType
    <3> QED BY <1>7, <3>1, Verdicts, SupervisorAssumption
  <2>8. IsFiniteSet(charged[g] \cup {a}) /\ Cardinality(charged[g] \cup {a}) <= Cardinality(charged[g]) + 1
    BY <2>1, <2>6, FS_AddElement
  <2>9. Cardinality(charged[g] \cup {a}) <= BudgetMax
    <3>1. Cardinality(Retained(g)) \in Nat /\ Cardinality(charged[g] \cup {a}) \in Nat
      BY <1>4, <2>8, FS_CardinalityType
    <3> QED BY <2>1, <2>6, <2>7, <2>8, <3>1, SupervisorAssumption
  <2>10. IsFiniteSet(Retained(g) \cup {a})
    BY <1>4, FS_AddElement
  <2>11. \A x \in charged'[g] : x[1] <= now' /\ now' - x[1] < Window
    <3>1. now - now < Window
      BY <1>1, SupervisorAssumption
    <3>2. \A x \in charged[g] : x[1] <= now /\ now - x[1] < Window
      BY <1>2 DEF Accounted
    <3>3. a[1] <= now /\ now - a[1] < Window
      BY <1>1, <2>2, <3>1
    <3> HIDE DEF a
    <3> QED BY <1>1, <2>4, <3>2, <3>3
  <2> HIDE DEF a
  <2>12. ledger'[g] \in Ledgers /\ charged'[g] \subseteq Nat \X Nat
    BY <1>2, <1>4, <2>2, <2>3, <2>4 DEF Ledgers
  <2>13. ledger'[g].exhausted = 0 /\ ledger'[g].attempts = Retained(g) \cup {a}
    BY <2>3
  <2> QED
    BY <2>4, <2>5, <2>8, <2>9, <2>10, <2>11, <2>12, <2>13 DEF Accounted, Exhausted
<1> QED BY <1>5, <1>6, <1>7, Verdicts

LEMMA BudgetNext == BudgetInv /\ [Next]_vars => BudgetInv'
<1> SUFFICES ASSUME BudgetInv, [Next]_vars PROVE BudgetInv'
  OBVIOUS
<1>1. CASE Aside
  BY <1>1 DEF Aside, BudgetInv, LedgerType, Accounted, Exhausted
<1>2. ASSUME NEW g, Asks(g)
      PROVE  BudgetInv'
  <2>1. \A h \in Guests : h # g =>
          ledger'[h] = ledger[h] /\ charged'[h] = charged[h]
    BY <1>2, DrawOthers DEF Asks, BudgetInv
  <2>2. DOMAIN ledger' = Guests /\ DOMAIN charged' = Guests
        /\ ledger' = [h \in Guests |-> ledger'[h]] /\ charged' = [h \in Guests |-> charged'[h]]
    <3>1. \E v : ledger' = [ledger EXCEPT ![g] = v]
      BY <1>2 DEF Asks, Draw
    <3>2. charged' = charged \/ \E v : charged' = [charged EXCEPT ![g] = v]
      BY <1>2 DEF Asks, Draw
    <3> QED BY <3>1, <3>2 DEF BudgetInv, LedgerType
  <2>3. ASSUME NEW h \in Guests
        PROVE  ledger'[h] \in Ledgers /\ charged'[h] \subseteq Nat \X Nat /\ Accounted(h)'
    <3>1. CASE h = g
      BY <1>2, <3>1, DrawAccounted
    <3>2. CASE h # g
      <4>1. ledger'[h] = ledger[h] /\ charged'[h] = charged[h]
        BY <2>1, <3>2
      <4>2. ledger[h] \in Ledgers /\ charged[h] \subseteq Nat \X Nat /\ Accounted(h) /\ now' = now
        BY <1>2 DEF BudgetInv, LedgerType, Asks
      <4> QED BY <4>1, <4>2 DEF Accounted, Exhausted
    <3> QED BY <3>1, <3>2
  <2>4. now' \in Nat \ {0}
    BY <1>2 DEF Asks, BudgetInv, LedgerType
  <2>5. ledger' \in [Guests -> Ledgers] /\ charged' \in [Guests -> SUBSET (Nat \X Nat)]
    BY <2>2, <2>3
  <2> QED BY <2>3, <2>4, <2>5 DEF BudgetInv, LedgerType
<1>3. CASE Clock
  <2>1. now' = now + 1 /\ ledger' = ledger /\ now \in Nat
    BY <1>3 DEF Clock, BudgetInv, LedgerType
  <2>2. charged' = [g \in Guests |-> {x \in charged[g] : now + 1 - x[1] < Window}]
    BY <1>3 DEF Clock
  <2>3. charged' \in [Guests -> SUBSET (Nat \X Nat)] /\ LedgerType'
    BY <2>1, <2>2 DEF BudgetInv, LedgerType
  <2>4. ASSUME NEW g \in Guests
        PROVE  Accounted(g)'
    <3>1. Accounted(g) /\ charged[g] \subseteq Nat \X Nat
      BY DEF BudgetInv
    <3>2. charged'[g] \subseteq charged[g]
      BY <2>2
    <3>3. IsFiniteSet(charged'[g]) /\ Cardinality(charged'[g]) <= Cardinality(charged[g])
      BY <3>1, <3>2, FS_Subset DEF Accounted
    <3>4. Cardinality(charged'[g]) <= BudgetMax
      BY <3>1, <3>3, FS_CardinalityType, SupervisorAssumption DEF Accounted
    <3>5. \A x \in charged'[g] : x[1] <= now' /\ now' - x[1] < Window
      BY <2>1, <2>2, <3>1 DEF Accounted
    <3> QED BY <2>1, <3>1, <3>2, <3>3, <3>4, <3>5 DEF Accounted, Exhausted
  <2> QED BY <2>3, <2>4 DEF BudgetInv
<1>4. CASE Crash
  <2>1. ledger' = [g \in Guests |-> NoLedger] /\ charged' = [g \in Guests |-> {}] /\ now' = now
    BY <1>4 DEF Crash
  <2>2. IsFiniteSet({}) /\ Cardinality({}) = 0
    BY FS_EmptySet
  <2>3. \A g \in Guests : ledger'[g] = NoLedger /\ charged'[g] = {}
    BY <2>1
  <2>4. NoLedger \in Ledgers /\ NoLedger.attempts = {} /\ NoLedger.exhausted = 0
    BY DEF NoLedger, Ledgers
  <2>5. LedgerType' /\ charged' \in [Guests -> SUBSET (Nat \X Nat)]
    BY <2>1, <2>4 DEF LedgerType, BudgetInv
  <2>6. 0 <= BudgetMax
    BY SupervisorAssumption
  <2>7. ASSUME NEW g \in Guests
        PROVE  Accounted(g)'
    <3>1. ledger'[g].attempts = {} /\ ledger'[g].exhausted = 0 /\ charged'[g] = {}
      BY <2>3, <2>4
    <3> QED BY <2>2, <2>6, <3>1 DEF Accounted, Exhausted
  <2> QED BY <2>5, <2>7 DEF BudgetInv
<1> QED BY <1>1, <1>2, <1>3, <1>4, BudgetStep

LEMMA BudgetSafe == Spec => []BudgetInv
BY BudgetInit, BudgetNext, PTL DEF Spec

\* However the supervisor, the watchdog and the heal restarts interleave, no
\* window holds more respawns of a guest than RESPAWN_BUDGET_MAX, for any
\* maximum and any window (WindowBudget).
THEOREM WindowRespected == Spec => []WindowBudget
<1>1. BudgetInv => WindowBudget
  BY DEF BudgetInv, Accounted, WindowBudget
<1> QED BY BudgetSafe, <1>1, PTL

-----------------------------------------------------------------------------
(***************************************************************************)
(* Type invariant                                                          *)
(***************************************************************************)

Labels == {"off", "boot", "bclear", "bspawn", "idle", "walk", "relock", "expire", "respawn",
           "lpause", "lresume", "spawn", "watch", "judge", "pause", "resume", "reap", "rclear",
           "ensure", "espawn", "kill", "stop", "disable", "remove"}

\* Where a task has no guest.
Between == {"off", "boot", "idle", "walk", "watch"}

\* The context graph and the processes.
WorldOK ==
  /\ rec \in [Guests -> Records] /\ mark \subseteq Guests /\ beat \in Nat
  /\ spawns \in Nat /\ procs \subseteq (1..spawns) \X Guests
  /\ term \subseteq 1..spawns /\ wedged \subseteq 1..spawns
  /\ children \in [Guests -> 0..spawns]

\* The tasks; one that is under way has a guest.
TasksOK ==
  /\ pc \in [Tasks -> Labels]
  /\ at \in [Tasks -> Guests \cup {NoGuest}] /\ held \in [Tasks -> Nat]
  /\ \A t \in Tasks : pc[t] \notin Between => at[t] \in Guests
  /\ \A t \in Tasks : lock = t <=> pc[t] \in Locking
  /\ \A t \in Tasks : ~up => pc[t] = "off"

MemoryOK ==
  /\ DOMAIN snap \subseteq Guests /\ \A g \in DOMAIN snap : snap[g] \in Records
  /\ track \in [pid : Nat, first : Nat]

CountsOK == now \in Nat /\ up \in BOOLEAN /\ ops \in Nat /\ faults \in Nat

TypeInv == WorldOK /\ TasksOK /\ MemoryOK /\ CountsOK

LEMMA TypeInvOK == TypeInv => TypeOK
BY DEF TypeInv, WorldOK, TasksOK, MemoryOK, CountsOK, TypeOK, Locking

LEMMA TypeInit == Init => TypeInv
<1> SUFFICES ASSUME Init PROVE TypeInv
  OBVIOUS
<1>1. WorldOK
  BY DEF Init, WorldOK, Records
<1>2. TasksOK
  BY SupervisorAssumption DEF Init, TasksOK, Labels, Between, Locking, Tasks
<1>3. MemoryOK /\ CountsOK
  BY DEF Init, MemoryOK, CountsOK
<1> QED BY <1>1, <1>2, <1>3 DEF TypeInv

\* What the calls of the context graph make of the records.
LEMMA RecordTypes ==
  ASSUME WorldOK, NEW g
  PROVE  /\ \A p \in Nat : SetPid(g, p) \in [Guests -> Records]
         /\ ClearPid(g) \in [Guests -> Records]
         /\ \A b \in BOOLEAN : SetActive(g, b) \in [Guests -> Records]
         /\ [rec EXCEPT ![g].kept = FALSE] \in [Guests -> Records]
<1> USE DEF WorldOK, Records
<1>1. \A p \in Nat : SetPid(g, p) \in [Guests -> Records]
  BY DEF SetPid
<1>a. ClearPid(g) \in [Guests -> Records]
  BY <1>1 DEF ClearPid
<1>2. \A b \in BOOLEAN : SetActive(g, b) \in [Guests -> Records]
  BY DEF SetActive
<1>3. [rec EXCEPT ![g].kept = FALSE] \in [Guests -> Records]
  OBVIOUS
<1> QED BY <1>1, <1>a, <1>2, <1>3

\* A new process.
LEMMA SpawnTypes ==
  ASSUME WorldOK, NEW g \in Guests, NEW r \in [Guests -> Records], Spawn(g, r),
         UNCHANGED <<mark, beat>>
  PROVE  WorldOK' /\ UNCHANGED faults
<1>1. spawns' = spawns + 1 /\ spawns' \in Nat /\ 1..spawns \subseteq 1..spawns' /\ spawns' \in 1..spawns'
      /\ 0..spawns \subseteq 0..spawns'
  BY DEF Spawn, WorldOK
<1>2. procs' \subseteq (1..spawns') \X Guests
  BY <1>1 DEF Spawn, WorldOK
<1>3. children' \in [Guests -> 0..spawns']
  BY <1>1 DEF Spawn, WorldOK
<1>4. term' \subseteq 1..spawns' /\ wedged' \subseteq 1..spawns' /\ rec' = r /\ UNCHANGED faults
  BY <1>1 DEF Spawn, WorldOK
<1> QED BY <1>1, <1>2, <1>3, <1>4 DEF WorldOK

LEMMA SpawnFailsTypes ==
  ASSUME WorldOK, CountsOK, NEW r \in [Guests -> Records], SpawnFails(r), UNCHANGED <<mark, beat>>
  PROVE  WorldOK' /\ faults' \in Nat
BY DEF SpawnFails, WorldOK, CountsOK, procVars, Fault

\* The end of processes.
LEMMA KillTypes ==
  ASSUME WorldOK, NEW g, NEW p
  PROVE  /\ Reclaim(g) => procs' \subseteq procs /\ children' \in [Guests -> 0..spawns]
         /\ ReclaimAndKill(g, p) => procs' \subseteq procs /\ children' \in [Guests -> 0..spawns]
         /\ Without(p) \subseteq procs
         /\ Forgotten(g) \in [Guests -> 0..spawns]
         /\ Signal(p) \subseteq 1..spawns
<1>b. children \in [Guests -> 0..spawns] /\ 0 \in 0..spawns
  BY DEF WorldOK
<1>0. [children EXCEPT ![g] = 0] \in [Guests -> 0..spawns]
  BY <1>b
<1>a. \A q : Without(q) \subseteq procs
  BY DEF Without
<1>1. Reclaim(g) => procs' \subseteq procs /\ children' \in [Guests -> 0..spawns]
  BY <1>0, <1>a DEF Reclaim
<1>2. ReclaimAndKill(g, p) => procs' \subseteq procs /\ children' \in [Guests -> 0..spawns]
  <2>1. Without(children[g]) \ ({p} \X Guests) \subseteq procs
    BY <1>a
  <2> QED BY <1>0, <2>1 DEF ReclaimAndKill
<1>3. Without(p) \subseteq procs
  BY <1>a
<1>4. Forgotten(g) \in [Guests -> 0..spawns]
  BY <1>0, <1>b DEF Forgotten
<1>5. Signal(p) \subseteq 1..spawns
  BY DEF Signal, Runs, WorldOK
<1> QED BY <1>1, <1>2, <1>3, <1>4, <1>5

\* A task moves on: the mutex is as its label says.
LEMMA MoveTypes ==
  ASSUME TasksOK, NEW t \in Tasks, NEW l \in Labels, Goto(t, l),
         pc[t] # "off", up' = up,
         at' \in [Tasks -> Guests \cup {NoGuest}], held' \in [Tasks -> Nat],
         \A u \in Tasks : u # t => at'[u] = at[u],
         l \notin Between => at'[t] \in Guests,
         \/ lock' = lock /\ (l \in Locking <=> pc[t] \in Locking)
         \/ lock' = t /\ l \in Locking /\ lock = Free
         \/ lock' = Free /\ l \notin Locking /\ pc[t] \in Locking
  PROVE  TasksOK'
<1>1. pc' \in [Tasks -> Labels] /\ pc'[t] = l /\ \A u \in Tasks : u # t => pc'[u] = pc[u]
  BY DEF Goto, TasksOK
<1>2. \A u \in Tasks : pc'[u] \notin Between => at'[u] \in Guests
  BY <1>1 DEF TasksOK
<1>3. \A u \in Tasks : u # Free
  BY SupervisorAssumption DEF Tasks
<1>4. \A u \in Tasks : lock' = u <=> pc'[u] \in Locking
  BY <1>1, <1>3 DEF TasksOK
<1>5. \A u \in Tasks : ~up' => pc'[u] = "off"
  BY <1>1 DEF TasksOK
<1> QED BY <1>1, <1>2, <1>4, <1>5 DEF TasksOK

LEMMA BeginTypes ==
  ASSUME TasksOK, NEW t \in Tasks, NEW l \in Labels, NEW g \in Guests \cup {NoGuest}, NEW p \in Nat,
         Begin(t, g, p, l), pc[t] # "off", up' = up, l \notin Between => g \in Guests,
         \/ lock' = lock /\ (l \in Locking <=> pc[t] \in Locking)
         \/ lock' = t /\ l \in Locking /\ lock = Free
         \/ lock' = Free /\ l \notin Locking /\ pc[t] \in Locking
  PROVE  TasksOK'
<1>1. Goto(t, l) /\ at' \in [Tasks -> Guests \cup {NoGuest}] /\ held' \in [Tasks -> Nat]
      /\ at'[t] = g /\ \A u \in Tasks : u # t => at'[u] = at[u]
  BY DEF Begin, TasksOK
<1> QED BY <1>1, MoveTypes

\* A task stays with its guest.
LEMMA GotoTypes ==
  ASSUME TasksOK, NEW t \in Tasks, NEW l \in Labels, Goto(t, l), UNCHANGED <<at, held>>,
         pc[t] # "off", up' = up,
         l \notin Between => at[t] \in Guests,
         \/ lock' = lock /\ (l \in Locking <=> pc[t] \in Locking)
         \/ lock' = t /\ l \in Locking /\ lock = Free
         \/ lock' = Free /\ l \notin Locking /\ pc[t] \in Locking
  PROVE  TasksOK'
<1>1. at' \in [Tasks -> Guests \cup {NoGuest}] /\ held' \in [Tasks -> Nat]
      /\ at'[t] = at[t] /\ \A u \in Tasks : u # t => at'[u] = at[u]
  BY DEF TasksOK
<1> QED BY <1>1, MoveTypes

LEMMA BootTypes ==
  ASSUME TypeInv,
         \/ Boot \/ BootClear \/ BootSpawn \/ BootDone
         \/ \E g \in Guests : BootReclaim(g) \/ BootMissing(g)
  PROVE  TypeInv'
<1> USE DEF TypeInv
<1>0. Sup \in Tasks
  BY DEF Tasks
<1>a. TasksOK => held[Sup] \in Nat /\ at[Sup] \in Guests \cup {NoGuest}
                 /\ (pc[Sup] \notin Between => at[Sup] \in Guests)
  BY <1>0 DEF TasksOK
<1>1. CASE Boot
  <2>1. WorldOK' /\ CountsOK'
    BY <1>1 DEF Boot, WorldOK, CountsOK, graphVars, procVars
  <2>2. MemoryOK'
    BY <1>1 DEF Boot, Listed, WorldOK, MemoryOK
  <2>3. TasksOK'
    BY <1>1 DEF Boot, TasksOK, Labels, Between, Locking
  <2> QED BY <2>1, <2>2, <2>3
<1>2. CASE BootClear
  <2>1. procs' \subseteq procs
    BY <1>2, KillTypes DEF BootClear
  <2>2. rec' \in [Guests -> Records]
    BY <1>2, RecordTypes DEF BootClear
  <2>3. WorldOK' /\ CountsOK' /\ MemoryOK'
    BY <1>2, <2>1, <2>2 DEF BootClear, WorldOK, CountsOK, MemoryOK
  <2>4. TasksOK'
    <3>1. Goto(Sup, "bspawn") /\ UNCHANGED <<at, held, up, lock>> /\ pc[Sup] = "bclear"
      BY <1>2 DEF BootClear
    <3> QED BY <1>0, <1>a, <3>1, GotoTypes DEF Labels, Between, Locking
  <2> QED BY <2>3, <2>4
<1>3. CASE BootSpawn
  <2>1. pc[Sup] = "bspawn" /\ at[Sup] \in Guests
    BY <1>3, <1>a DEF BootSpawn, Between
  <2>2. /\ SetPid(at[Sup], spawns + 1) \in [Guests -> Records]
        /\ ClearPid(at[Sup]) \in [Guests -> Records]
    <3>1. spawns + 1 \in Nat
      BY DEF WorldOK
    <3> QED BY <3>1, RecordTypes
  <2>a. /\ UNCHANGED <<mark, beat>>
        /\ \/ Spawn(at[Sup], SetPid(at[Sup], spawns + 1))
           \/ SpawnFails(ClearPid(at[Sup]))
    BY <1>3 DEF BootSpawn
  <2>b. Spawn(at[Sup], SetPid(at[Sup], spawns + 1)) => WorldOK' /\ UNCHANGED faults
    BY <2>a, <2>1, <2>2, SpawnTypes
  <2>c. SpawnFails(ClearPid(at[Sup])) => WorldOK' /\ faults' \in Nat
    BY <2>a, <2>2, SpawnFailsTypes
  <2>3. WorldOK' /\ faults' \in Nat
    BY <2>a, <2>b, <2>c DEF CountsOK
  <2>4. TasksOK'
    <3>1. Begin(Sup, NoGuest, 0, "boot") /\ UNCHANGED <<up, lock>>
      BY <1>3 DEF BootSpawn, Finish
    <3> QED BY <1>0, <2>1, <3>1, BeginTypes DEF Labels, Between, Locking
  <2>5. MemoryOK' /\ CountsOK'
    BY <1>3, <2>3 DEF BootSpawn, Drop, MemoryOK, CountsOK
  <2> QED BY <2>3, <2>4, <2>5
<1>4. CASE BootDone
  <2>1. WorldOK' /\ CountsOK' /\ MemoryOK'
    BY <1>4 DEF BootDone, WorldOK, CountsOK, MemoryOK, graphVars, procVars
  <2>2. TasksOK'
    <3>1. Goto(Sup, "idle") /\ UNCHANGED <<at, held, up, lock>> /\ pc[Sup] = "boot"
      BY <1>4 DEF BootDone
    <3> QED BY <1>0, <1>a, <3>1, GotoTypes DEF Labels, Between, Locking
  <2> QED BY <2>1, <2>2
<1>5. ASSUME NEW g \in Guests, BootReclaim(g)
      PROVE  TypeInv'
  <2>1. procs' \subseteq procs /\ children' \in [Guests -> 0..spawns]
    BY <1>5, KillTypes DEF BootReclaim
  <2>2. WorldOK' /\ CountsOK' /\ MemoryOK'
    BY <1>5, <2>1 DEF BootReclaim, WorldOK, CountsOK, MemoryOK, graphVars
  <2>3. TasksOK'
    <3>1. Begin(Sup, g, snap[g].pid, "bclear") /\ UNCHANGED <<up, lock>> /\ pc[Sup] = "boot"
      BY <1>5 DEF BootReclaim
    <3>2. snap[g].pid \in Nat
      BY <1>5 DEF BootReclaim, MemoryOK, Records
    <3> QED BY <1>0, <3>1, <3>2, BeginTypes DEF Labels, Between, Locking
  <2> QED BY <2>2, <2>3
<1>6. ASSUME NEW g \in Guests, BootMissing(g)
      PROVE  TypeInv'
  <2>1. WorldOK' /\ CountsOK' /\ MemoryOK'
    BY <1>6 DEF BootMissing, WorldOK, CountsOK, MemoryOK, graphVars, procVars
  <2>2. TasksOK'
    <3>1. Begin(Sup, g, 0, "bspawn") /\ UNCHANGED <<up, lock>> /\ pc[Sup] = "boot"
      BY <1>6 DEF BootMissing
    <3> QED BY <1>0, <3>1, BeginTypes DEF Labels, Between, Locking
  <2> QED BY <2>1, <2>2
<1> QED BY <1>1, <1>2, <1>3, <1>4, <1>5, <1>6

LEMMA ReconcileTypes ==
  ASSUME TypeInv, Reconcile \/ ExpireClear \/ Refresh \/ Respawn \/ ReconcileDone
  PROVE  TypeInv'
<1> USE DEF TypeInv
<1>0. Sup \in Tasks
  BY DEF Tasks
<1>a. TasksOK => held[Sup] \in Nat /\ at[Sup] \in Guests \cup {NoGuest}
                 /\ (pc[Sup] \notin Between => at[Sup] \in Guests)
  BY <1>0 DEF TasksOK
<1>b. DOMAIN Drop(at[Sup]) \subseteq DOMAIN snap
      /\ \A g \in DOMAIN Drop(at[Sup]) : Drop(at[Sup])[g] = snap[g]
  BY DEF Drop
<1>1. CASE Reconcile
  <2>1. WorldOK' /\ CountsOK'
    BY <1>1 DEF Reconcile, WorldOK, CountsOK, graphVars, procVars
  <2>2. MemoryOK'
    BY <1>1 DEF Reconcile, Listed, WorldOK, MemoryOK
  <2>3. TasksOK'
    <3>1. Goto(Sup, "walk") /\ UNCHANGED <<at, held, up, lock>> /\ pc[Sup] = "idle"
      BY <1>1 DEF Reconcile
    <3> QED BY <1>0, <1>a, <3>1, GotoTypes DEF Labels, Between, Locking
  <2> QED BY <2>1, <2>2, <2>3
<1>2. CASE Refresh
  <2>1. pc[Sup] = "respawn" /\ at[Sup] \in Guests
    BY <1>2, <1>a DEF Refresh, Between
  <2>2. WorldOK' /\ CountsOK' /\ UNCHANGED <<up, track>>
    BY <1>2 DEF Refresh, WorldOK, CountsOK, graphVars, procVars
  <2>3. \/ /\ \E l \in {"spawn", "lpause", "lresume"} : Goto(Sup, l)
           /\ UNCHANGED <<at, held, snap, lock>>
        \/ Begin(Sup, NoGuest, 0, "walk") /\ snap' = Drop(at[Sup]) /\ lock' = Free
    BY <1>2, Rulings DEF Refresh, Leave, Finish
  <2>4. MemoryOK'
    BY <1>b, <2>2, <2>3 DEF MemoryOK
  <2>5. TasksOK'
    <3>1. ASSUME NEW l \in {"spawn", "lpause", "lresume"}, Goto(Sup, l), UNCHANGED <<at, held, lock>>
          PROVE  TasksOK'
      BY <1>0, <2>1, <2>2, <3>1, GotoTypes DEF Labels, Between, Locking
    <3>2. CASE Begin(Sup, NoGuest, 0, "walk") /\ snap' = Drop(at[Sup]) /\ lock' = Free
      BY <1>0, <2>1, <2>2, <3>2, BeginTypes DEF Labels, Between, Locking
    <3> QED BY <2>3, <3>1, <3>2
  <2> QED BY <2>2, <2>4, <2>5
<1>5. CASE ExpireClear
  <2>1. pc[Sup] = "expire" /\ up' = up
    BY <1>5 DEF ExpireClear
  <2>2. rec' \in [Guests -> Records]
    BY <1>5, RecordTypes DEF ExpireClear
  <2>3. WorldOK' /\ CountsOK'
    BY <1>5, <2>2 DEF ExpireClear, WorldOK, CountsOK, procVars
  <2>4. Begin(Sup, NoGuest, 0, "walk") /\ snap' = Drop(at[Sup]) /\ lock' = Free /\ track' = track
    BY <1>5 DEF ExpireClear, Leave, Finish
  <2>5. MemoryOK'
    BY <1>b, <2>4 DEF MemoryOK
  <2>6. TasksOK'
    BY <1>0, <2>1, <2>4, BeginTypes DEF Labels, Between, Locking
  <2> QED BY <2>3, <2>5, <2>6
<1>3. CASE Respawn
  <2> DEFINE r == [SetPid(at[Sup], spawns + 1) EXCEPT
                     ![at[Sup]].seen = IF rec[at[Sup]].kept THEN now ELSE @]
  <2>1. pc[Sup] = "spawn" /\ at[Sup] \in Guests
    BY <1>3, <1>a DEF Respawn, Between
  <2>2. r \in [Guests -> Records]
    <3>1. spawns + 1 \in Nat /\ now \in Nat
      BY DEF WorldOK, CountsOK
    <3>2. SetPid(at[Sup], spawns + 1) \in [Guests -> Records]
      BY <3>1, RecordTypes
    <3> QED BY <3>1, <3>2 DEF Records
  <2>3. UNCHANGED <<mark, beat>> /\ (Spawn(at[Sup], r) \/ SpawnFails(rec))
    BY <1>3 DEF Respawn
  <2>4. rec \in [Guests -> Records]
    BY DEF WorldOK
  <2> HIDE DEF r
  <2>5. Spawn(at[Sup], r) => WorldOK' /\ UNCHANGED faults
    BY <2>1, <2>2, <2>3, SpawnTypes
  <2>6. SpawnFails(rec) => WorldOK' /\ faults' \in Nat
    BY <2>3, <2>4, SpawnFailsTypes
  <2>7. WorldOK' /\ faults' \in Nat
    BY <2>3, <2>5, <2>6 DEF CountsOK
  <2>8. TasksOK'
    <3>1. Begin(Sup, NoGuest, 0, "walk") /\ up' = up /\ lock' = Free
      BY <1>3 DEF Respawn, Leave, Finish
    <3> QED BY <1>0, <2>1, <3>1, BeginTypes DEF Labels, Between, Locking
  <2>9. MemoryOK' /\ CountsOK'
    BY <1>3, <1>b, <2>7 DEF Respawn, Leave, MemoryOK, CountsOK
  <2> QED BY <2>7, <2>8, <2>9
<1>4. CASE ReconcileDone
  <2>1. WorldOK' /\ CountsOK' /\ MemoryOK'
    BY <1>4 DEF ReconcileDone, WorldOK, CountsOK, MemoryOK, graphVars, procVars
  <2>2. TasksOK'
    <3>1. Goto(Sup, "watch") /\ UNCHANGED <<at, held, up, lock>> /\ pc[Sup] = "walk"
      BY <1>4 DEF ReconcileDone
    <3> QED BY <1>0, <1>a, <3>1, GotoTypes DEF Labels, Between, Locking
  <2> QED BY <2>1, <2>2
<1> QED BY <1>1, <1>2, <1>3, <1>4, <1>5

LEMMA VisitTypes ==
  ASSUME TypeInv, NEW g \in Guests,
         \/ VisitExpired(g) \/ VisitSettled(g)
         \/ VisitDead(g) \/ VisitMissing(g) \/ VisitInactive(g)
  PROVE  TypeInv'
<1> USE DEF TypeInv
<1>0. Sup \in Tasks
  BY DEF Tasks
<1>1. /\ ClearPid(g) \in [Guests -> Records]
      /\ SetActive(g, FALSE) \in [Guests -> Records]
  BY RecordTypes
<1>2. DOMAIN Drop(g) \subseteq DOMAIN snap /\ \A h \in DOMAIN Drop(g) : Drop(g)[h] = snap[h]
  BY DEF Drop
<1>3. /\ Reclaim(g) => procs' \subseteq procs /\ children' \in [Guests -> 0..spawns]
      /\ ReclaimAndKill(g, snap[g].pid) =>
           procs' \subseteq procs /\ children' \in [Guests -> 0..spawns]
  BY KillTypes
<1>4. pc[Sup] = "walk" /\ g \in DOMAIN snap /\ lock = Free
  BY DEF Visit, VisitExpired, VisitSettled, VisitDead, VisitMissing, VisitInactive
<1>5. snap[g].pid \in Nat
  BY <1>4 DEF MemoryOK, Records
<1>6. CountsOK' /\ up' = up
  BY DEF CountsOK, VisitExpired, VisitSettled, VisitDead, VisitMissing, VisitInactive
<1>7. MemoryOK'
  BY <1>2 DEF MemoryOK, VisitExpired, VisitSettled, VisitDead, VisitMissing, VisitInactive
<1>8. CASE VisitSettled(g) \/ VisitInactive(g)
  <2>1. TasksOK'
    BY <1>6, <1>8 DEF TasksOK, VisitSettled, VisitInactive
  <2>2. WorldOK'
    BY <1>1, <1>3, <1>8 DEF WorldOK, VisitSettled, VisitInactive, graphVars, procVars
  <2> QED BY <1>6, <1>7, <2>1, <2>2
<1>9. CASE VisitExpired(g) \/ VisitDead(g) \/ VisitMissing(g)
  <2>1. PICK l \in {"relock", "expire", "respawn"}, p \in Nat : Begin(Sup, g, p, l) /\ lock' = Sup
    BY <1>5, <1>9 DEF VisitExpired, VisitDead, VisitMissing
  <2>2. l \in Labels /\ l \in Locking
    BY DEF Labels, Locking
  <2>3. TasksOK'
    BY <1>0, <1>4, <1>6, <2>1, <2>2, BeginTypes
  <2>4. WorldOK'
    BY <1>1, <1>3, <1>9 DEF WorldOK, VisitExpired, VisitDead, VisitMissing, graphVars, procVars
  <2> QED BY <1>6, <1>7, <2>3, <2>4
<1> QED BY <1>8, <1>9

LEMMA WatchTypes ==
  ASSUME TypeInv, Watch \/ Judge \/ Reap \/ ReapClear
  PROVE  TypeInv'
<1> USE DEF TypeInv
<1>0. Sup \in Tasks
  BY DEF Tasks
<1>a. TasksOK => held[Sup] \in Nat /\ at[Sup] \in Guests \cup {NoGuest}
                 /\ (pc[Sup] \notin Between => at[Sup] \in Guests)
  BY <1>0 DEF TasksOK
<1>1. CASE Watch
  <2>1. WorldOK' /\ CountsOK' /\ up' = up /\ lock' = lock /\ pc[Sup] = "watch"
    BY <1>1 DEF Watch, WorldOK, CountsOK, graphVars, procVars
  <2>2. CASE Watched /\ rec[Dispatcher].kept /\ rec[Dispatcher].active /\ rec[Dispatcher].pid # 0
    <3>1. Dispatcher \in Guests
      BY <2>2, SupervisorAssumption DEF Watched
    <3>2. rec[Dispatcher].pid \in Nat /\ now \in Nat
      BY <3>1 DEF WorldOK, Records, CountsOK
    <3>3. /\ Begin(Sup, Dispatcher, rec[Dispatcher].pid, "judge")
          /\ track' \in {track, [pid |-> rec[Dispatcher].pid, first |-> now]} /\ snap' = snap
      BY <1>1, <2>2 DEF Watch
    <3>4. MemoryOK'
      BY <3>2, <3>3 DEF MemoryOK
    <3>5. TasksOK'
      BY <1>0, <2>1, <3>1, <3>2, <3>3, BeginTypes DEF Labels, Between, Locking
    <3> QED BY <2>1, <3>4, <3>5
  <2>3. CASE ~(Watched /\ rec[Dispatcher].kept /\ rec[Dispatcher].active /\ rec[Dispatcher].pid # 0)
    <3>1. Begin(Sup, NoGuest, 0, "idle") /\ UNCHANGED <<track, snap>>
      BY <1>1, <2>3 DEF Watch, Finish
    <3>2. TasksOK'
      BY <1>0, <2>1, <3>1, BeginTypes DEF Labels, Between, Locking
    <3> QED BY <2>1, <3>1, <3>2 DEF MemoryOK
  <2> QED BY <2>2, <2>3
<1>2. CASE Judge
  <2>1. pc[Sup] = "judge" /\ at[Sup] \in Guests
    BY <1>2, <1>a DEF Judge, Between
  <2>3. children' \in [Guests -> 0..spawns]
    BY <1>2, KillTypes DEF Judge
  <2>4. WorldOK' /\ CountsOK' /\ MemoryOK' /\ up' = up /\ lock' = lock
    BY <1>2, <2>1, <2>3 DEF Judge, WorldOK, CountsOK, MemoryOK, graphVars
  <2>5. \/ \E l \in {"reap", "pause", "resume"} : Goto(Sup, l) /\ UNCHANGED <<at, held>>
        \/ Begin(Sup, NoGuest, 0, "idle")
    BY <1>2, Rulings DEF Judge, Finish
  <2>6. ASSUME NEW l \in {"reap", "pause", "resume"}, Goto(Sup, l), UNCHANGED <<at, held>>
        PROVE  TasksOK'
    BY <1>0, <2>1, <2>4, <2>6, GotoTypes DEF Labels, Between, Locking
  <2>7. CASE Begin(Sup, NoGuest, 0, "idle")
    BY <1>0, <2>1, <2>4, <2>7, BeginTypes DEF Labels, Between, Locking
  <2> QED BY <2>4, <2>5, <2>6, <2>7
<1>3. CASE Reap
  <2>1. pc[Sup] = "reap" /\ at[Sup] \in Guests
    BY <1>3, <1>a DEF Reap, Between
  <2>2. procs' \subseteq procs /\ children' \in [Guests -> 0..spawns]
    BY <1>3, KillTypes DEF Reap
  <2>3. WorldOK' /\ CountsOK' /\ MemoryOK' /\ Goto(Sup, "rclear") /\ UNCHANGED <<at, held, up, lock>>
    BY <1>3, <2>2 DEF Reap, WorldOK, CountsOK, MemoryOK, graphVars
  <2> QED BY <1>0, <2>1, <2>3, GotoTypes DEF Labels, Between, Locking
<1>4. CASE ReapClear
  <2>1. pc[Sup] = "rclear" /\ at[Sup] \in Guests
    BY <1>4, <1>a DEF ReapClear, Between
  <2>2. procs' \subseteq procs /\ rec' \in [Guests -> Records]
    BY <1>4, KillTypes, RecordTypes DEF ReapClear
  <2>3. WorldOK' /\ CountsOK' /\ MemoryOK' /\ Goto(Sup, "ensure") /\ UNCHANGED <<at, held, up, lock>>
    BY <1>4, <2>2 DEF ReapClear, WorldOK, CountsOK, MemoryOK
  <2> QED BY <1>0, <2>1, <2>3, GotoTypes DEF Labels, Between, Locking
<1> QED BY <1>1, <1>2, <1>3, <1>4

LEMMA EnsureTypes ==
  ASSUME TypeInv, NEW t \in Tasks, Ensure(t)
  PROVE  TypeInv'
<1> USE DEF TypeInv
<1>a. TasksOK => held[t] \in Nat /\ (pc[t] \notin Between => at[t] \in Guests)
  BY DEF TasksOK
<1>1. CASE EnsureSettled(t)
  <2>1. /\ WorldOK' /\ CountsOK' /\ MemoryOK' /\ UNCHANGED <<up, lock>>
        /\ Begin(t, NoGuest, 0, "idle") /\ pc[t] = "ensure"
    BY <1>1 DEF EnsureSettled, Finish, WorldOK, CountsOK, MemoryOK, graphVars, procVars
  <2> QED BY <2>1, BeginTypes DEF Labels, Between, Locking
<1>2. CASE EnsureMissing(t)
  <2>1. pc[t] = "ensure" /\ at[t] \in Guests /\ lock = Free
    BY <1>2, <1>a DEF EnsureMissing, Between
  <2>2. \/ Reclaim(at[t]) /\ rec' = ClearPid(at[t])
        \/ UNCHANGED <<procs, children, rec>>
    BY <1>2 DEF EnsureMissing
  <2>3. procs' \subseteq procs /\ children' \in [Guests -> 0..spawns] /\ rec' \in [Guests -> Records]
    <3>1. CASE Reclaim(at[t]) /\ rec' = ClearPid(at[t])
      BY <3>1, KillTypes, RecordTypes
    <3>2. CASE UNCHANGED <<procs, children, rec>>
      BY <3>2 DEF WorldOK
    <3> QED BY <2>2, <3>1, <3>2
  <2>4. WorldOK' /\ CountsOK' /\ MemoryOK'
    BY <1>2, <2>3 DEF EnsureMissing, WorldOK, CountsOK, MemoryOK
  <2>5. Goto(t, "espawn") /\ UNCHANGED <<at, held, up>> /\ lock' = t
    BY <1>2 DEF EnsureMissing
  <2> QED BY <2>1, <2>4, <2>5, GotoTypes DEF Labels, Between, Locking
<1>3. CASE EnsureSpawn(t)
  <2>1. pc[t] = "espawn" /\ at[t] \in Guests
    BY <1>3, <1>a DEF EnsureSpawn, Between
  <2>2. SetPid(at[t], spawns + 1) \in [Guests -> Records] /\ rec \in [Guests -> Records]
    <3>1. spawns + 1 \in Nat /\ rec \in [Guests -> Records]
      BY DEF WorldOK
    <3> QED BY <3>1, RecordTypes
  <2>3. UNCHANGED <<mark, beat>> /\ (Spawn(at[t], SetPid(at[t], spawns + 1)) \/ SpawnFails(rec))
    BY <1>3 DEF EnsureSpawn
  <2>4. Spawn(at[t], SetPid(at[t], spawns + 1)) => WorldOK' /\ UNCHANGED faults
    BY <2>1, <2>2, <2>3, SpawnTypes
  <2>5. SpawnFails(rec) => WorldOK' /\ faults' \in Nat
    BY <2>2, <2>3, SpawnFailsTypes
  <2>6. WorldOK' /\ faults' \in Nat
    BY <2>3, <2>4, <2>5 DEF CountsOK
  <2>7. /\ MemoryOK' /\ CountsOK'
        /\ Begin(t, NoGuest, 0, "idle") /\ up' = up /\ lock' = Free
    BY <1>3, <2>6 DEF EnsureSpawn, Finish, MemoryOK, CountsOK
  <2> QED BY <2>1, <2>6, <2>7, BeginTypes DEF Labels, Between, Locking
<1> QED BY <1>1, <1>2, <1>3 DEF Ensure

\* The write of the mark, of any task.
LEMMA MarkTypes ==
  ASSUME TypeInv, NEW t \in Tasks, MarkExhausted(t) \/ ClearMark(t)
  PROVE  TypeInv'
<1> USE DEF TypeInv
<1>1. pc[t] \in {"pause", "lpause", "resume", "lresume"} /\ up' = up /\ track' = track
  BY DEF MarkExhausted, ClearMark
<1>2. at[t] \in Guests
  BY <1>1 DEF TasksOK, Between
<1>3. mark' \subseteq Guests /\ faults' \in Nat
  BY <1>2 DEF MarkExhausted, ClearMark, WriteMark, Fault, WorldOK, CountsOK
<1>4. WorldOK' /\ CountsOK'
  BY <1>3 DEF MarkExhausted, ClearMark, WorldOK, CountsOK, procVars
<1>5. snap' = snap \/ snap' = Drop(at[t])
  BY DEF MarkExhausted, ClearMark
<1>6. MemoryOK'
  BY <1>1, <1>5 DEF MemoryOK, Drop
<1>7. CASE MarkExhausted(t)
  <2>1. CASE pc[t] = "lpause"
    <3>1. Begin(t, NoGuest, 0, "walk") /\ lock' = Free
      BY <1>7, <2>1 DEF MarkExhausted, Finish
    <3>2. TasksOK'
      BY <1>1, <2>1, <3>1, BeginTypes DEF Labels, Between, Locking
    <3> QED BY <1>4, <1>6, <3>2
  <2>2. CASE pc[t] = "pause"
    <3>1. Begin(t, NoGuest, 0, "idle") /\ lock' = lock
      BY <1>7, <2>2 DEF MarkExhausted, Finish
    <3>2. TasksOK'
      BY <1>1, <2>2, <3>1, BeginTypes DEF Labels, Between, Locking
    <3> QED BY <1>4, <1>6, <3>2
  <2> QED BY <1>7, <2>1, <2>2 DEF MarkExhausted
<1>8. CASE ClearMark(t)
  <2>1. CASE pc[t] = "lresume"
    <3>1. Goto(t, "spawn") /\ UNCHANGED <<at, held, lock>>
      BY <1>8, <2>1 DEF ClearMark
    <3>2. TasksOK'
      BY <1>1, <1>2, <2>1, <3>1, GotoTypes DEF Labels, Between, Locking
    <3> QED BY <1>4, <1>6, <3>2
  <2>2. CASE pc[t] = "resume"
    <3>1. PICK l \in {"reap", "kill"} : Goto(t, l)
      BY <1>8, <2>2 DEF ClearMark
    <3>2. UNCHANGED <<at, held, lock>>
      BY <1>8 DEF ClearMark
    <3>3. TasksOK'
      BY <1>1, <1>2, <2>2, <3>1, <3>2, GotoTypes DEF Labels, Between, Locking
    <3> QED BY <1>4, <1>6, <3>3
  <2> QED BY <1>8, <2>1, <2>2 DEF ClearMark
<1> QED BY <1>7, <1>8

LEMMA HandleTypes ==
  ASSUME TypeInv, NEW t \in Tasks, Handle(t)
  PROVE  TypeInv'
<1> USE DEF TypeInv
<1>0. CASE MarkExhausted(t) \/ ClearMark(t)
  BY <1>0, MarkTypes
<1>1. CASE RestartKill(t) \/ DeactivateKill(t) \/ DeactivateRecord(t) \/ RemoveKill(t)
  <2>1. pc[t] \in {"kill", "stop", "disable", "remove"}
    BY <1>1 DEF RestartKill, DeactivateKill, DeactivateRecord, RemoveKill
  <2>2. at[t] \in Guests
    BY <2>1 DEF TasksOK, Between
  <2>3. term' \subseteq 1..spawns
    <3>1. Signal(held[t]) \subseteq 1..spawns
      BY KillTypes
    <3>2. term' = Signal(held[t]) \/ term' = term
      BY <1>1 DEF RestartKill, DeactivateKill, DeactivateRecord, RemoveKill, procVars
    <3> QED BY <3>1, <3>2 DEF WorldOK
  <2>4. rec' \in [Guests -> Records]
    <3>1. /\ ClearPid(at[t]) \in [Guests -> Records]
          /\ SetActive(at[t], FALSE) \in [Guests -> Records]
          /\ [rec EXCEPT ![at[t]].kept = FALSE] \in [Guests -> Records]
      BY RecordTypes
    <3>2. \/ rec' = ClearPid(at[t])
          \/ rec' = SetActive(at[t], FALSE)
          \/ rec' = [rec EXCEPT ![at[t]].kept = FALSE]
      BY <1>1 DEF RestartKill, DeactivateKill, DeactivateRecord, RemoveKill
    <3> QED BY <3>1, <3>2
  <2>5. WorldOK' /\ CountsOK' /\ MemoryOK' /\ UNCHANGED <<up, lock>>
    BY <1>1, <2>3, <2>4 DEF RestartKill, DeactivateKill, DeactivateRecord, RemoveKill, WorldOK,
                            CountsOK, MemoryOK, procVars
  <2>a. (RestartKill(t) \/ DeactivateKill(t)) =>
          (Goto(t, "ensure") \/ Goto(t, "disable")) /\ UNCHANGED <<at, held>>
    BY DEF RestartKill, DeactivateKill
  <2>b. (DeactivateRecord(t) \/ RemoveKill(t)) => Begin(t, NoGuest, 0, "idle")
    BY DEF DeactivateRecord, RemoveKill, Finish
  <2>6. \/ \E l \in {"ensure", "disable"} : Goto(t, l) /\ UNCHANGED <<at, held>>
        \/ Begin(t, NoGuest, 0, "idle")
    BY <1>1, <2>a, <2>b
  <2>7. ASSUME NEW l \in {"ensure", "disable"}, Goto(t, l), UNCHANGED <<at, held>>
        PROVE  TasksOK'
    BY <2>1, <2>2, <2>5, <2>7, GotoTypes DEF Labels, Between, Locking
  <2>8. CASE Begin(t, NoGuest, 0, "idle")
    BY <2>1, <2>5, <2>8, BeginTypes DEF Labels, Between, Locking
  <2> QED BY <2>5, <2>6, <2>7, <2>8
<1> QED BY <1>0, <1>1 DEF Handle

LEMMA AskTypes ==
  ASSUME TypeInv, Ask
  PROVE  TypeInv'
<1> USE DEF TypeInv
<1>1. PICK t \in Reqs, g \in Guests :
        \/ Demand(t, g) \/ RestartComponent(t, g) \/ HealRestart(t, g)
        \/ Activate(t, g) \/ Deactivate(t, g) \/ RemoveComponent(t, g)
  BY DEF Ask
<1>2. t \in Tasks /\ pc[t] = "idle" /\ ops' = ops + 1
  BY <1>1 DEF Tasks, Demand, RestartComponent, HealRestart, Activate, Deactivate,
              RemoveComponent, Request
<1>3. mark' = mark
  BY <1>1 DEF Demand, RestartComponent, HealRestart, Activate, Deactivate,
              RemoveComponent, graphVars
<1>4. rec' \in [Guests -> Records]
  <2>1. rec' \in {rec, SetActive(g, TRUE)}
    BY <1>1 DEF Demand, RestartComponent, HealRestart, Activate, Deactivate,
                RemoveComponent, graphVars
  <2>2. rec \in [Guests -> Records]
    BY DEF WorldOK
  <2> QED BY <2>1, <2>2, RecordTypes
<1>5. UNCHANGED <<now, up, beat, procs, term, wedged, spawns, children, snap, track, lock, faults>>
  BY <1>1 DEF Demand, RestartComponent, HealRestart, Activate, Deactivate,
              RemoveComponent, graphVars, procVars
<1>6. WorldOK' /\ CountsOK' /\ MemoryOK'
  BY <1>2, <1>3, <1>4, <1>5 DEF WorldOK, CountsOK, MemoryOK
<1>7. rec[g].pid \in Nat
  BY DEF WorldOK, Records
<1>8. \/ \E p \in Nat, l \in {"ensure", "kill", "pause", "resume", "stop", "remove"} : Begin(t, g, p, l)
      \/ UNCHANGED <<pc, at, held>>
  BY <1>1, <1>7, Rulings DEF Demand, RestartComponent, HealRestart, Activate, Deactivate, RemoveComponent
<1>9. ASSUME NEW p \in Nat, NEW l \in {"ensure", "kill", "pause", "resume", "stop", "remove"}, Begin(t, g, p, l)
      PROVE  TasksOK'
  BY <1>2, <1>5, <1>9, BeginTypes DEF Labels, Between, Locking
<1>10. CASE UNCHANGED <<pc, at, held>>
  BY <1>5, <1>6, <1>10 DEF TasksOK
<1> QED BY <1>6, <1>8, <1>9, <1>10

LEMMA ProcessTypes ==
  ASSUME TypeInv, Process
  PROVE  TypeInv'
<1> USE DEF TypeInv
<1>1. PICK q \in procs : Exit(q) \/ Beat(q) \/ WedgeDispatcher(q)
  BY DEF Process
<1>2. UNCHANGED <<now, up, rec, mark, spawns, children, pc, at, held, snap, track, lock, ops>>
  BY <1>1 DEF Exit, Beat, WedgeDispatcher, graphVars, procVars, taskVars
<1>3. procs' \subseteq procs /\ beat' \in Nat
  BY <1>1 DEF Exit, Beat, WedgeDispatcher, graphVars, procVars, WorldOK, CountsOK
<1>4. term' \subseteq 1..spawns /\ wedged' \subseteq 1..spawns
  BY <1>1 DEF Exit, Beat, WedgeDispatcher, graphVars, procVars, WorldOK
<1>5. faults' \in Nat
  BY <1>1 DEF Exit, Beat, WedgeDispatcher, Fault, CountsOK
<1> QED BY <1>2, <1>3, <1>4, <1>5 DEF WorldOK, TasksOK, MemoryOK, CountsOK

LEMMA RestTypes ==
  ASSUME TypeInv, Clock \/ Crash \/ UNCHANGED vars
  PROVE  TypeInv'
<1> USE DEF TypeInv
<1>1. CASE Clock
  BY <1>1 DEF Clock, WorldOK, TasksOK, MemoryOK, CountsOK, graphVars, procVars, taskVars
<1>2. CASE Crash
  <2>1. WorldOK' /\ MemoryOK'
    BY <1>2 DEF Crash, WorldOK, MemoryOK, graphVars
  <2>a. up' = FALSE /\ UNCHANGED <<now, ops>>
    BY <1>2 DEF Crash
  <2>b. faults' \in Nat
    BY <1>2 DEF Crash, CountsOK, Fault
  <2>2. CountsOK'
    BY <2>a, <2>b DEF CountsOK
  <2>3. TasksOK'
    BY <1>2, SupervisorAssumption DEF Crash, TasksOK, Labels, Between, Locking, Tasks
  <2> QED BY <2>1, <2>2, <2>3
<1>3. CASE UNCHANGED vars
  BY <1>3 DEF vars, WorldOK, TasksOK, MemoryOK, CountsOK, graphVars, procVars, taskVars
<1> QED BY <1>1, <1>2, <1>3

LEMMA TypeNext == TypeInv /\ [Next]_vars => TypeInv'
<1> SUFFICES ASSUME TypeInv, [Next]_vars PROVE TypeInv'
  OBVIOUS
<1>1. Reqs \subseteq Tasks /\ Sup \in Tasks
  BY DEF Tasks
<1> QED
  BY <1>1, BootTypes, ReconcileTypes, VisitTypes, WatchTypes, MarkTypes, EnsureTypes, HandleTypes,
     AskTypes, ProcessTypes, RestTypes DEF Next, Supervise

LEMMA TypeSafe == Spec => []TypeInv
BY TypeInit, TypeNext, PTL DEF Spec

\* The state is well formed, and the mutex is held by the one task that
\* stands in a step under it (TypeOK).
THEOREM TypeCorrect == Spec => []TypeOK
BY TypeSafe, TypeInvOK, PTL

-----------------------------------------------------------------------------
(***************************************************************************)
(* On-demand materialization                                               *)
(*                                                                         *)
(* Between the moment ensure_guest_active finds no live process and the    *)
(* moment it spawns one it holds the mutex, and nobody who does not hold   *)
(* it writes a pid into a record.                                          *)
(***************************************************************************)

\* The record of a guest that is being started on demand has no pid.
Vacant == \A t \in Tasks : pc[t] = "espawn" => rec[at[t]].pid = 0

\* Pids of records are only cleared.
PidsCleared == \A g \in Guests : rec'[g].pid \in {rec[g].pid, 0}

\* No task comes to stand before its spawn.
NoneEnters == \A t \in Tasks : pc'[t] = "espawn" => pc[t] = "espawn" /\ at'[t] = at[t]

\* What the calls of the context graph make of the pids.
LEMMA RecordPids ==
  ASSUME WorldOK, NEW g
  PROVE  /\ \A h \in Guests : ClearPid(g)[h].pid \in {rec[h].pid, 0}
         /\ g \in Guests => ClearPid(g)[g].pid = 0 \/ ~rec[g].kept
         /\ \A h \in Guests : SetActive(g, TRUE)[h].pid = rec[h].pid
         /\ \A h \in Guests : SetActive(g, FALSE)[h].pid = rec[h].pid
         /\ \A h \in Guests : [rec EXCEPT ![g].kept = FALSE][h].pid = rec[h].pid
<1> USE DEF WorldOK, Records
<1>1. /\ \A h \in Guests : ClearPid(g)[h].pid \in {rec[h].pid, 0}
      /\ g \in Guests => ClearPid(g)[g].pid = 0 \/ ~rec[g].kept
  BY DEF ClearPid, SetPid
<1>2. /\ \A h \in Guests : SetActive(g, TRUE)[h].pid = rec[h].pid
      /\ \A h \in Guests : SetActive(g, FALSE)[h].pid = rec[h].pid
  BY DEF SetActive
<1>3. \A h \in Guests : [rec EXCEPT ![g].kept = FALSE][h].pid = rec[h].pid
  OBVIOUS
<1> QED BY <1>1, <1>2, <1>3

\* A task that moves to another label leaves the others where they are.
LEMMA MoveEnters ==
  ASSUME TasksOK, NEW t \in Tasks, NEW l, l # "espawn",
         (Goto(t, l) /\ UNCHANGED at) \/ (\E g, p : Begin(t, g, p, l))
  PROVE  NoneEnters
BY DEF TasksOK, Goto, Begin, NoneEnters

\* Nobody stands before an on-demand spawn while the mutex is free, or while
\* the supervisor has it.
LEMMA SpawnAlone ==
  ASSUME TypeInv
  PROVE  /\ lock = Free => \A t \in Tasks : pc[t] # "espawn"
         /\ \A t, u \in Tasks : pc[t] = "espawn" /\ pc[u] \in Locking => t = u
<1>1. \A t \in Tasks : t # Free
  BY SupervisorAssumption DEF Tasks
<1> QED BY <1>1 DEF TypeInv, TasksOK, Locking

LEMMA VacantNext ==
  ASSUME TypeInv, TypeInv', Vacant, [Next]_vars
  PROVE  Vacant'
<1> USE DEF TypeInv
<1>0. Sup \in Tasks /\ Reqs \subseteq Tasks
  BY DEF Tasks
<1>q. PidsCleared /\ NoneEnters => Vacant'
  <2> SUFFICES ASSUME PidsCleared, NoneEnters, NEW t \in Tasks, pc'[t] = "espawn"
               PROVE  rec'[at'[t]].pid = 0
    BY DEF Vacant
  <2>1. pc[t] = "espawn" /\ at'[t] = at[t]
    BY DEF NoneEnters
  <2>2. at[t] \in Guests
    BY <2>1 DEF TasksOK, Between
  <2> QED BY <2>1, <2>2 DEF Vacant, PidsCleared
<1>r. UNCHANGED rec => PidsCleared
  BY DEF PidsCleared
<1>p. ASSUME NEW g,
             \/ rec' = rec \/ rec' = ClearPid(g)
             \/ rec' = SetActive(g, TRUE) \/ rec' = SetActive(g, FALSE)
             \/ rec' = [rec EXCEPT ![g].kept = FALSE]
      PROVE  PidsCleared
  <2>1. CASE rec' = rec
    BY <1>r, <2>1
  <2>2. CASE rec' = ClearPid(g)
    BY <2>2, RecordPids DEF PidsCleared
  <2>4. CASE rec' = SetActive(g, TRUE)
    BY <2>4, RecordPids DEF PidsCleared
  <2>5. CASE rec' = SetActive(g, FALSE)
    BY <2>5, RecordPids DEF PidsCleared
  <2>6. CASE rec' = [rec EXCEPT ![g].kept = FALSE]
    BY <2>6, RecordPids DEF PidsCleared
  <2> QED BY <1>p, <2>1, <2>2, <2>4, <2>5, <2>6
<1>s. UNCHANGED <<pc, at>> => NoneEnters
  BY DEF NoneEnters
<1>t. (\A t \in Tasks : pc'[t] # "espawn") => Vacant'
  BY DEF Vacant
<1>1. CASE Boot \/ Crash
  <2>1. \A t \in Tasks : pc'[t] # "espawn"
    BY <1>1 DEF Boot, Crash
  <2> QED BY <1>t, <2>1
<1>2. CASE BootSpawn \/ Respawn
  <2>1. pc[Sup] \in {"bspawn", "spawn"} /\ (lock = Free \/ pc[Sup] \in Locking)
    BY <1>2 DEF BootSpawn, Respawn, Locking
  <2>2. \A t \in Tasks : pc[t] # "espawn"
    BY <1>0, <2>1, SpawnAlone
  <2>3. \E l \in {"boot", "walk"} : Begin(Sup, NoGuest, 0, l)
    BY <1>2 DEF BootSpawn, Respawn, Leave, Finish
  <2>4. NoneEnters
    BY <1>0, <2>3, MoveEnters
  <2> QED BY <1>t, <2>2, <2>4 DEF NoneEnters
<1>3. CASE BootClear \/ BootDone \/ Reconcile \/ ExpireClear \/ Refresh \/ ReconcileDone
           \/ Watch \/ Judge \/ Reap \/ ReapClear
  <2>1. rec' = rec \/ rec' = ClearPid(at[Sup])
    BY <1>3 DEF BootClear, BootDone, Reconcile, ExpireClear, Refresh, ReconcileDone, Watch, Judge,
                Reap, ReapClear, graphVars
  <2>2. PidsCleared
    BY <1>p, <2>1
  <2>3. \E l \in Labels \ {"espawn"} :
          (Goto(Sup, l) /\ UNCHANGED at) \/ (\E g, p : Begin(Sup, g, p, l))
    BY <1>3, Rulings DEF BootClear, BootDone, Reconcile, ExpireClear, Refresh, ReconcileDone, Watch,
                Judge, Reap, ReapClear, Leave, Finish, Labels
  <2>4. NoneEnters
    BY <1>0, <2>3, MoveEnters
  <2> QED BY <1>q, <2>2, <2>4
<1>4. ASSUME NEW g \in Guests,
             \/ BootReclaim(g) \/ BootMissing(g)
             \/ VisitExpired(g)
             \/ VisitSettled(g) \/ VisitDead(g) \/ VisitMissing(g) \/ VisitInactive(g)
      PROVE  Vacant'
  <2>1. rec' = rec \/ rec' = ClearPid(g) \/ rec' = SetActive(g, FALSE)
    BY <1>4 DEF BootReclaim, BootMissing, VisitExpired, VisitSettled,
                VisitDead, VisitMissing, VisitInactive, graphVars
  <2>2. PidsCleared
    BY <1>p, <2>1
  <2>3. \/ UNCHANGED <<pc, at>>
        \/ \E l \in Labels \ {"espawn"} : \E p : Begin(Sup, g, p, l)
    BY <1>4 DEF BootReclaim, BootMissing, VisitExpired, VisitSettled,
                VisitDead, VisitMissing, VisitInactive, Labels
  <2>4. NoneEnters
    BY <1>0, <1>s, <2>3, MoveEnters
  <2> QED BY <1>q, <2>2, <2>4
<1>5. ASSUME NEW t \in Tasks, EnsureSettled(t) \/ Handle(t) \/ MarkExhausted(t) \/ ClearMark(t)
      PROVE  Vacant'
  <2>1. \/ rec' = rec \/ rec' = ClearPid(at[t]) \/ rec' = SetActive(at[t], FALSE)
        \/ rec' = [rec EXCEPT ![at[t]].kept = FALSE]
    BY <1>5 DEF EnsureSettled, Handle, RestartKill, DeactivateKill, DeactivateRecord, RemoveKill,
                MarkExhausted, ClearMark, graphVars
  <2>2. PidsCleared
    BY <1>p, <2>1
  <2>3. \E l \in {"idle", "ensure", "disable", "walk", "spawn", "reap", "kill"} :
          (Goto(t, l) /\ UNCHANGED at) \/ (\E g, p : Begin(t, g, p, l))
    BY <1>5 DEF EnsureSettled, Handle, RestartKill, DeactivateKill, DeactivateRecord, RemoveKill,
                MarkExhausted, ClearMark, Finish
  <2>4. NoneEnters
    BY <2>3, MoveEnters
  <2> QED BY <1>q, <2>2, <2>4
<1>6. ASSUME NEW t \in Tasks, EnsureMissing(t)
      PROVE  Vacant'
  <2>1. lock = Free /\ at[t] \in Guests /\ rec[at[t]].kept
    <3>1. pc[t] = "ensure" /\ lock = Free /\ rec[at[t]].kept
      BY <1>6 DEF EnsureMissing
    <3> QED BY <3>1 DEF TasksOK, Between
  <2>2. at' = at /\ pc' = [pc EXCEPT ![t] = "espawn"]
    BY <1>6 DEF EnsureMissing, Goto
  <2>3. \A u \in Tasks : pc[u] # "espawn"
    BY <2>1, SpawnAlone
  <2>4. \A u \in Tasks : pc'[u] = "espawn" => u = t
    BY <2>2, <2>3 DEF TasksOK
  <2>5. rec' = ClearPid(at[t]) \/ (rec' = rec /\ rec[at[t]].pid = 0)
    BY <1>6 DEF EnsureMissing
  <2>6. rec'[at[t]].pid = 0
    <3>1. ClearPid(at[t])[at[t]].pid = 0
      BY <2>1, RecordPids
    <3> QED BY <2>5, <3>1
  <2> QED BY <2>2, <2>4, <2>6 DEF Vacant
<1>7. ASSUME NEW t \in Tasks, EnsureSpawn(t)
      PROVE  Vacant'
  <2>1. pc[t] = "espawn" /\ Begin(t, NoGuest, 0, "idle")
    BY <1>7 DEF EnsureSpawn, Finish
  <2>2. \A u \in Tasks : pc[u] = "espawn" => u = t
    BY <2>1, SpawnAlone DEF Locking
  <2>3. \A u \in Tasks : pc'[u] # "espawn"
    BY <2>1, <2>2 DEF Begin, Goto, TasksOK
  <2> QED BY <1>t, <2>3
<1>8. CASE Ask
  <2>1. PICK t \in Reqs, g \in Guests :
          \/ Demand(t, g) \/ RestartComponent(t, g) \/ HealRestart(t, g)
          \/ Activate(t, g) \/ Deactivate(t, g) \/ RemoveComponent(t, g)
    BY <1>8 DEF Ask
  <2>2. rec' = rec \/ rec' = SetActive(g, TRUE)
    BY <2>1 DEF Demand, RestartComponent, HealRestart, Activate, Deactivate,
                RemoveComponent, graphVars
  <2>3. PidsCleared
    BY <1>p, <2>2
  <2>4. \/ UNCHANGED <<pc, at>>
        \/ \E l \in {"ensure", "kill", "pause", "resume", "stop", "remove"} : \E p : Begin(t, g, p, l)
    BY <2>1, Rulings DEF Demand, RestartComponent, HealRestart, Activate, Deactivate, RemoveComponent
  <2>5. NoneEnters
    BY <1>0, <1>s, <2>4, MoveEnters
  <2> QED BY <1>q, <2>3, <2>5
<1>9. CASE Process \/ Clock \/ UNCHANGED vars
  <2>1. UNCHANGED <<rec, pc, at>>
    BY <1>9 DEF Process, Exit, Beat, WedgeDispatcher, Clock, vars, graphVars, taskVars
  <2> QED BY <1>q, <1>r, <1>s, <2>1
<1> QED
  BY <1>0, <1>1, <1>2, <1>3, <1>4, <1>5, <1>6, <1>7, <1>8, <1>9 DEF Next, Supervise, Ensure

LEMMA VacantSafe == Spec => []Vacant
<1>1. Init => Vacant
  BY DEF Init, Vacant
<1>2. TypeInv /\ TypeInv' /\ Vacant /\ [Next]_vars => Vacant'
  BY VacantNext
<1> QED BY <1>1, <1>2, TypeSafe, PTL DEF Spec

\* ensure_guest_active never starts a process beside the one the graph records
\* as running, however many callers, handlers and supervisor passes there are
\* (OnDemandSpawnsOnce).
THEOREM NoSecondSpawn == Spec => OnDemandSpawnsOnce
<1>1. TypeInv /\ Vacant /\ [Next]_vars =>
        [\A t \in Tasks : pc[t] = "espawn" /\ pc'[t] = "idle" => ~Runs(rec[at[t]].pid)]_vars
  <2> SUFFICES ASSUME TypeInv, Vacant, NEW t \in Tasks, pc[t] = "espawn"
               PROVE  ~Runs(rec[at[t]].pid)
    OBVIOUS
  <2>1. rec[at[t]].pid = 0
    BY DEF Vacant
  <2>2. \A q \in procs : q[1] # 0
    BY DEF TypeInv, WorldOK
  <2> QED BY <2>1, <2>2 DEF Runs
<1> QED BY <1>1, TypeSafe, VacantSafe, PTL DEF Spec, OnDemandSpawnsOnce

=============================================================================
