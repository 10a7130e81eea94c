--------------------------- MODULE GuestSupervisor ---------------------------
(***************************************************************************)
(* The guest manager of one hotel: the processes of its guests, the pids   *)
(* the context graph records for them, the mutex around the materializer,  *)
(* the reconciliation loop, on-demand materialization, the respawn budget, *)
(* the heartbeat watchdog of the heal dispatcher and the component         *)
(* requests of the IPC server, which work on the same records without      *)
(* taking the mutex.                                                       *)
(*                                                                         *)
(* Every task reads a record, waits for the mutex and acts on what it      *)
(* read, so each of these is a step of its own.  A call of the context     *)
(* graph is one step.  A unit of time is longer than a wait for the mutex  *)
(* between the watchdog's reading of the clock and its judgement.          *)
(***************************************************************************)
EXTENDS Integers, FiniteSets

CONSTANTS
  Guests,     \* guest records of the hotel
  Dispatcher, \* the guest whose role is heal-dispatcher, or NoGuest
  Reqs,       \* IPC handlers that can run at the same time
  Sup,        \* the task of materialize_all and supervise_guests
  Ttl,        \* inactive_ttl_seconds of a guest's role, 0 for none
  BudgetMax,  \* RESPAWN_BUDGET_MAX
  Window,     \* RESPAWN_BUDGET_WINDOW_SECS
  StaleAfter, \* HEAL_DISPATCHER_STALE_SECS
  Ops,        \* kinds of requests that may come
  MaxOps,     \* how many of them
  Faults,     \* kinds of faults that may happen
  MaxFaults,  \* how many of them
  MaxSpawns,  \* processes ever started
  MaxTime,    \* end of the clock
  NoGuest,    \* no guest
  Free        \* the mutex is not held

ASSUME SupervisorAssumption ==
  /\ Dispatcher \in Guests \cup {NoGuest} /\ NoGuest \notin Guests
  /\ Sup \notin Reqs /\ Free \notin Reqs \cup {Sup}
  /\ Ttl \in [Guests -> Nat]
  /\ BudgetMax \in Nat /\ Window \in Nat \ {0} /\ StaleAfter \in Nat
  /\ MaxOps \in Nat /\ MaxFaults \in Nat
  /\ MaxSpawns \in Nat /\ MaxTime \in Nat

VARIABLES
  now,        \* epoch seconds, from 1: 0 stands for no time
  up,         \* the hotel process runs
  rec,        \* GuestRecord of a guest, in the context graph
  mark,       \* guests with a supervision_state in the context graph
  beat,       \* heal_dispatcher.last_cycle_at, 0 when absent
  procs,      \* running processes, <<pid, guest>>
  term,       \* pids sent SIGTERM
  wedged,     \* pids of dispatchers that no longer complete a cycle
  spawns,     \* last pid
  children,   \* LocalProcessMaterializer.children: pid by guest, 0 for none
  lock,       \* holder of the materializer's mutex
  ledger,     \* RespawnBudget.ledgers
  track,      \* dispatcher_pid_tracking: last pid seen and when first
  pc,         \* what a task does next
  at,         \* the guest it is about
  held,       \* the pid it read
  snap,       \* records the supervisor listed and has not dealt with
  charged,    \* history: respawns drawn from the budget in the last Window
  ops,        \* requests so far
  faults      \* faults so far

graphVars == <<rec, mark, beat>>
procVars == <<procs, term, wedged, spawns, children>>
budgetVars == <<ledger, charged>>
taskVars == <<pc, at, held, snap, track>>
vars == <<now, up, graphVars, procVars, budgetVars, taskVars, lock, ops, faults>>

Tasks == Reqs \cup {Sup}
Pids == 1..MaxSpawns

NoLedger == [attempts |-> {}, exhausted |-> 0]

Init ==
  /\ now = 1
  /\ up = FALSE
  /\ rec = [g \in Guests |-> [kept |-> TRUE, active |-> TRUE, pid |-> 0, seen |-> 0]]
  /\ mark = {} /\ beat = 0
  /\ procs = {} /\ term = {} /\ wedged = {} /\ spawns = 0
  /\ children = [g \in Guests |-> 0]
  /\ lock = Free
  /\ ledger = [g \in Guests |-> NoLedger]
  /\ track = [pid |-> 0, first |-> 0]
  /\ pc = [t \in Tasks |-> "off"]
  /\ at = [t \in Tasks |-> NoGuest]
  /\ held = [t \in Tasks |-> 0]
  /\ snap = [g \in {} |-> rec[g]]
  /\ charged = [g \in Guests |-> {}]
  /\ ops = 0 /\ faults = 0

Fault(f) == f \in Faults /\ faults < MaxFaults /\ faults' = faults + 1

-----------------------------------------------------------------------------
(***************************************************************************)
(* Context graph and materializer                                          *)
(***************************************************************************)

\* set_guest_pid, set_guest_active and set_guest_last_active: no-ops on a
\* record that is gone.
SetPid(g, p) == [rec EXCEPT ![g].pid = IF rec[g].kept THEN p ELSE @]

SetActive(g, b) == [rec EXCEPT ![g].active = IF rec[g].kept THEN b ELSE @]

ClearPid(g) == SetPid(g, 0)

Runs(p) == \E g \in Guests : <<p, g>> \in procs

Without(p) == {q \in procs : q[1] # p}

\* check_status: the tracked child decides, whatever pid was asked about.
Live(g, p) == IF children[g] # 0 THEN Runs(children[g]) ELSE Runs(p)

\* Its effect: a tracked child that has exited is forgotten.
Forgotten(g) ==
  IF children[g] # 0 /\ ~Runs(children[g]) THEN [children EXCEPT ![g] = 0] ELSE children

\* reclaim_guest: kill and wait for the tracked child.  The table it consults
\* for a guest without one is no longer written.
Reclaim(g) ==
  /\ procs' = Without(children[g])
  /\ children' = [children EXCEPT ![g] = 0]

\* reclaim_guest followed by SIGKILL to pid p.
ReclaimAndKill(g, p) ==
  /\ procs' = Without(children[g]) \ ({p} \X Guests)
  /\ children' = [children EXCEPT ![g] = 0]

\* spawn_guest followed by set_guest_pid; the record becomes r.
Spawn(g, r) ==
  /\ spawns < MaxSpawns
  /\ spawns' = spawns + 1
  /\ procs' = procs \cup {<<spawns + 1, g>>}
  /\ children' = [children EXCEPT ![g] = spawns + 1]
  /\ rec' = r
  /\ UNCHANGED <<term, wedged, faults>>

\* spawn_guest fails.
SpawnFails(r) ==
  /\ Fault("spawn")
  /\ rec' = r
  /\ UNCHANGED procVars

Signal(p) == IF Runs(p) THEN term \cup {p} ELSE term

-----------------------------------------------------------------------------
(***************************************************************************)
(* Respawn budget                                                          *)
(***************************************************************************)

\* An attempt now, told apart from those of the same second.
Attempt(g) == <<now, Cardinality(charged[g]) + 1>>

Exhausted(g) == ledger[g].exhausted # 0

\* Mutant: the pause after a breach is a second short.
CooledEarly(g) == Exhausted(g) /\ now - ledger[g].exhausted >= Window - 1

\* Mutant: a breach is not forgiven.
CooledNever(g) == FALSE

\* A clean window has passed since the breach.
Cooled(g) == Exhausted(g) /\ now - ledger[g].exhausted >= Window

\* The attempts still inside the window.
Retained(g) == {x \in ledger[g].attempts : ~Cooled(g) /\ now - x[1] < Window}

\* RespawnBudget::check.
Verdict(g) ==
  IF Exhausted(g) /\ ~Cooled(g) THEN "still"
  ELSE IF Cardinality(Retained(g)) >= BudgetMax THEN "just"
  ELSE "allowed"

\* What a caller makes of the verdict: it goes ahead, records the breach or
\* lifts the mark of the last one before it goes on, or gives up.
Ruling(g) ==
  CASE Verdict(g) = "allowed" -> IF Exhausted(g) THEN "resume" ELSE "go"
    [] Verdict(g) = "just" -> "pause"
    [] Verdict(g) = "still" -> "deny"

\* What check leaves in the ledger.
Draw(g) ==
  /\ ledger' = [ledger EXCEPT ![g] =
       CASE Verdict(g) = "still" -> @
         [] Verdict(g) = "just" -> [attempts |-> Retained(g), exhausted |-> now]
         [] Verdict(g) = "allowed" ->
              [attempts |-> Retained(g) \cup {Attempt(g)}, exhausted |-> 0]]
  /\ IF Verdict(g) = "allowed"
       THEN charged' = [charged EXCEPT ![g] = @ \cup {Attempt(g)}]
       ELSE UNCHANGED charged

-----------------------------------------------------------------------------
(***************************************************************************)
(* materialize_all, when the hotel starts                                  *)
(***************************************************************************)

Goto(t, l) == pc' = [pc EXCEPT ![t] = l]

\* Task t goes on with guest g, having read pid p.
Begin(t, g, p, l) ==
  /\ Goto(t, l)
  /\ at' = [at EXCEPT ![t] = g]
  /\ held' = [held EXCEPT ![t] = p]

\* Task t is done with its guest.
Finish(t, l) == Begin(t, NoGuest, 0, l)

\* list_guests, for the guests in G; and the list without g.
Listed(G) == [g \in G |-> rec[g]]
Drop(g) == [h \in DOMAIN snap \ {g} |-> snap[h]]

Boot ==
  /\ ~up
  /\ up' = TRUE
  /\ pc' = [t \in Tasks |-> IF t = Sup THEN "boot" ELSE "idle"]
  /\ snap' = Listed({g \in Guests : rec[g].kept /\ rec[g].active})
  /\ UNCHANGED <<now, graphVars, procVars, budgetVars, at, held, track, lock, ops, faults>>

\* Ghost reclamation: the child first, under the mutex,
BootReclaim(g) ==
  /\ pc[Sup] = "boot" /\ g \in DOMAIN snap /\ snap[g].pid # 0
  /\ lock = Free
  /\ Reclaim(g)
  /\ Begin(Sup, g, snap[g].pid, "bclear")
  /\ UNCHANGED <<now, up, graphVars, term, wedged, spawns, budgetVars, snap, track, lock, ops, faults>>

\* then the recorded pid, without it.
BootClear ==
  /\ pc[Sup] = "bclear"
  /\ procs' = Without(held[Sup])
  /\ rec' = ClearPid(at[Sup])
  /\ Goto(Sup, "bspawn")
  /\ UNCHANGED <<now, up, mark, beat, term, wedged, spawns, children, budgetVars, at, held, snap, track, lock, ops, faults>>

BootMissing(g) ==
  /\ pc[Sup] = "boot" /\ g \in DOMAIN snap /\ snap[g].pid = 0
  /\ Begin(Sup, g, 0, "bspawn")
  /\ UNCHANGED <<now, up, graphVars, procVars, budgetVars, snap, track, lock, ops, faults>>

\* The record is not read again.
BootSpawn ==
  /\ pc[Sup] = "bspawn"
  /\ lock = Free
  /\ LET g == at[Sup]
     IN  /\ Spawn(g, SetPid(g, spawns + 1)) \/ SpawnFails(ClearPid(g))
         /\ snap' = Drop(g)
  /\ Finish(Sup, "boot")
  /\ UNCHANGED <<now, up, mark, beat, budgetVars, track, lock, ops>>

BootDone ==
  /\ pc[Sup] = "boot" /\ DOMAIN snap = {}
  /\ Goto(Sup, "idle")
  /\ UNCHANGED <<now, up, graphVars, procVars, budgetVars, at, held, snap, track, lock, ops, faults>>

-----------------------------------------------------------------------------
(***************************************************************************)
(* reconcile_all                                                           *)
(***************************************************************************)

\* A tick of supervise_guests: the records are listed before the mutex.
Reconcile ==
  /\ pc[Sup] = "idle"
  /\ snap' = Listed({g \in Guests : rec[g].kept})
  /\ Goto(Sup, "walk")
  /\ UNCHANGED <<now, up, graphVars, procVars, budgetVars, at, held, track, lock, ops, faults>>

Expired(g) == Ttl[g] # 0 /\ snap[g].seen # 0 /\ now - snap[g].seen > Ttl[g]

\* The mutex is free and guest g is next.
Visit(g) == pc[Sup] = "walk" /\ g \in DOMAIN snap /\ lock = Free

\* A role past its TTL is deactivated.  With a pid recorded the mutex is then
\* locked a second time, by the task that holds it and will not release it
\* before: no step follows "relock", and the reclaim after it is never reached.
VisitExpired(g) ==
  /\ Visit(g) /\ snap[g].active /\ Expired(g)
  /\ rec' = SetActive(g, FALSE)
  /\ lock' = Sup
  /\ Begin(Sup, g, snap[g].pid, IF snap[g].pid # 0 THEN "relock" ELSE "expire")
  /\ UNCHANGED <<now, up, mark, beat, procVars, budgetVars, snap, track, ops, faults>>

\* The supervisor is done with guest g of the walk.
Leave(g) == Finish(Sup, "walk") /\ snap' = Drop(g) /\ lock' = Free

\* Without one the pid is cleared and the walk goes on.
ExpireClear ==
  /\ pc[Sup] = "expire"
  /\ rec' = ClearPid(at[Sup])
  /\ Leave(at[Sup])
  /\ UNCHANGED <<now, up, mark, beat, procVars, budgetVars, track, ops, faults>>

\* A guest that runs, or is inactive and without a pid, is left alone.
VisitSettled(g) ==
  /\ Visit(g)
  /\ \/ snap[g].active /\ ~Expired(g) /\ snap[g].pid # 0 /\ Live(g, snap[g].pid)
     \/ ~snap[g].active /\ snap[g].pid = 0
  /\ snap' = Drop(g)
  /\ UNCHANGED <<now, up, graphVars, procVars, budgetVars, pc, at, held, track, lock, ops, faults>>

VisitDead(g) ==
  /\ Visit(g) /\ snap[g].active /\ ~Expired(g)
  /\ snap[g].pid # 0 /\ ~Live(g, snap[g].pid)
  /\ ReclaimAndKill(g, snap[g].pid)
  /\ rec' = ClearPid(g)
  /\ lock' = Sup /\ Begin(Sup, g, 0, "respawn")
  /\ UNCHANGED <<now, up, mark, beat, term, wedged, spawns, budgetVars, snap, track, ops, faults>>

VisitMissing(g) ==
  /\ Visit(g) /\ snap[g].active /\ ~Expired(g) /\ snap[g].pid = 0
  /\ lock' = Sup /\ Begin(Sup, g, 0, "respawn")
  /\ UNCHANGED <<now, up, graphVars, procVars, budgetVars, snap, track, ops, faults>>

VisitInactive(g) ==
  /\ Visit(g) /\ ~snap[g].active /\ snap[g].pid # 0
  /\ Reclaim(g)
  /\ rec' = ClearPid(g)
  /\ snap' = Drop(g)
  /\ UNCHANGED <<now, up, mark, beat, term, wedged, spawns, budgetVars, pc, at, held, track, lock, ops, faults>>

\* Mutant: the mutex is not released when the budget says no.
RefreshKeepsLock ==
  /\ pc[Sup] = "respawn"
  /\ LET g == at[Sup]
         asked == rec[g].kept /\ rec[g].active
     IN  /\ IF asked THEN Draw(g) ELSE UNCHANGED budgetVars
         /\ IF asked /\ Ruling(g) # "deny"
              THEN /\ Goto(Sup, CASE Ruling(g) = "go" -> "spawn"
                                [] Ruling(g) = "pause" -> "lpause"
                                [] Ruling(g) = "resume" -> "lresume")
                   /\ UNCHANGED <<at, held, snap, lock>>
              ELSE Finish(Sup, "walk") /\ snap' = Drop(g) /\ UNCHANGED lock
  /\ UNCHANGED <<now, up, graphVars, procVars, track, ops, faults>>

\* The record is read again, for its presence and is_active only, and the
\* budget is asked.
Refresh ==
  /\ pc[Sup] = "respawn"
  /\ LET g == at[Sup]
         asked == rec[g].kept /\ rec[g].active
     IN  /\ IF asked THEN Draw(g) ELSE UNCHANGED budgetVars
         /\ IF asked /\ Ruling(g) # "deny"
              THEN /\ Goto(Sup, CASE Ruling(g) = "go" -> "spawn"
                                [] Ruling(g) = "pause" -> "lpause"
                                [] Ruling(g) = "resume" -> "lresume")
                   /\ UNCHANGED <<at, held, snap, lock>>
              ELSE Leave(g)
  /\ UNCHANGED <<now, up, graphVars, procVars, track, ops, faults>>

\* A write of the mark, or a warning that it failed.
WriteMark(m) == (mark' = m /\ UNCHANGED faults) \/ (mark' = mark /\ Fault("mark"))

\* mark_respawn_budget_exhausted, under the mutex in reconcile_all and without
\* it elsewhere.
MarkExhausted(t) ==
  /\ pc[t] \in {"pause", "lpause"}
  /\ WriteMark(mark \cup {at[t]})
  /\ IF pc[t] = "lpause"
       THEN Finish(t, "walk") /\ snap' = Drop(at[t]) /\ lock' = Free
       ELSE Finish(t, "idle") /\ UNCHANGED <<snap, lock>>
  /\ UNCHANGED <<now, up, rec, beat, procVars, budgetVars, track, ops>>

\* clear_respawn_budget_mark, likewise; the respawn or the kill comes next.
ClearMark(t) ==
  /\ pc[t] \in {"resume", "lresume"}
  /\ WriteMark(mark \ {at[t]})
  /\ Goto(t, IF pc[t] = "lresume" THEN "spawn" ELSE IF t = Sup THEN "reap" ELSE "kill")
  /\ UNCHANGED <<now, up, rec, beat, procVars, budgetVars, at, held, snap, track, lock, ops>>

Respawn ==
  /\ pc[Sup] = "spawn"
  /\ LET g == at[Sup]
     IN  \/ Spawn(g, [SetPid(g, spawns + 1) EXCEPT ![g].seen = IF rec[g].kept THEN now ELSE @])
         \/ SpawnFails(rec)
  /\ Leave(at[Sup])
  /\ UNCHANGED <<now, up, mark, beat, budgetVars, track, ops>>

ReconcileDone ==
  /\ pc[Sup] = "walk" /\ DOMAIN snap = {}
  /\ Goto(Sup, "watch")
  /\ UNCHANGED <<now, up, graphVars, procVars, budgetVars, at, held, snap, track, lock, ops, faults>>

-----------------------------------------------------------------------------
(***************************************************************************)
(* check_heal_dispatcher_heartbeat_at                                      *)
(***************************************************************************)

Watched == Dispatcher # NoGuest

\* The dispatcher's pid is read and a new pid gets a new first-seen time.
Watch ==
  /\ pc[Sup] = "watch"
  /\ IF Watched /\ rec[Dispatcher].kept /\ rec[Dispatcher].active /\ rec[Dispatcher].pid # 0
       THEN /\ Begin(Sup, Dispatcher, rec[Dispatcher].pid, "judge")
            /\ track' = IF track.pid = rec[Dispatcher].pid
                          THEN track ELSE [pid |-> rec[Dispatcher].pid, first |-> now]
       ELSE Finish(Sup, "idle") /\ UNCHANGED track
  /\ UNCHANGED <<now, up, graphVars, procVars, budgetVars, snap, lock, ops, faults>>

\* dispatcher_heartbeat_is_stale.
BeatStale ==
  IF beat # 0 THEN now - beat > StaleAfter ELSE now - track.first > StaleAfter

\* The mutex is taken for check_status alone.
Judge ==
  /\ pc[Sup] = "judge"
  /\ lock = Free
  /\ children' = Forgotten(at[Sup])
  /\ LET stale == Live(at[Sup], held[Sup]) /\ BeatStale
     IN  /\ IF stale THEN Draw(at[Sup]) ELSE UNCHANGED budgetVars
         /\ IF stale /\ Ruling(at[Sup]) # "deny"
              THEN /\ Goto(Sup, IF Ruling(at[Sup]) = "go" THEN "reap" ELSE Ruling(at[Sup]))
                   /\ UNCHANGED <<at, held>>
              ELSE Finish(Sup, "idle")
  /\ UNCHANGED <<now, up, graphVars, procs, term, wedged, spawns, snap, track, lock, ops, faults>>

Reap ==
  /\ pc[Sup] = "reap"
  /\ lock = Free
  /\ Reclaim(at[Sup])
  /\ Goto(Sup, "rclear")
  /\ UNCHANGED <<now, up, graphVars, term, wedged, spawns, budgetVars, at, held, snap, track, lock, ops, faults>>

ReapClear ==
  /\ pc[Sup] = "rclear"
  /\ procs' = Without(held[Sup])
  /\ rec' = ClearPid(at[Sup])
  /\ Goto(Sup, "ensure")
  /\ UNCHANGED <<now, up, mark, beat, term, wedged, spawns, children, budgetVars, at, held, snap, track, lock, ops, faults>>

-----------------------------------------------------------------------------
(***************************************************************************)
(* ensure_guest_active, of any task                                        *)
(***************************************************************************)

\* Under the mutex: nothing to do for a guest that is gone, inactive or live.
EnsureSettled(t) ==
  /\ pc[t] = "ensure" /\ lock = Free
  /\ LET r == rec[at[t]]
     IN  ~r.kept \/ ~r.active \/ (r.pid # 0 /\ Live(at[t], r.pid))
  /\ Finish(t, "idle")
  /\ UNCHANGED <<now, up, graphVars, procVars, budgetVars, snap, track, lock, ops, faults>>

\* Mutant: a record without a pid is taken as it was before the mutex.
EnsureMissingRacy(t) ==
  /\ pc[t] = "ensure" /\ lock = Free
  /\ LET r == rec[at[t]]
     IN  /\ r.kept /\ r.active /\ (r.pid # 0 => ~Live(at[t], r.pid) \/ held[t] = 0)
         /\ IF r.pid # 0 /\ ~Live(at[t], r.pid)
              THEN Reclaim(at[t]) /\ rec' = ClearPid(at[t])
              ELSE UNCHANGED <<procs, children, rec>>
  /\ lock' = t /\ Goto(t, "espawn")
  /\ UNCHANGED <<now, up, mark, beat, term, wedged, spawns, budgetVars, at, held, snap, track, ops, faults>>

\* A stale pid is reclaimed first.
EnsureMissing(t) ==
  /\ pc[t] = "ensure" /\ lock = Free
  /\ LET r == rec[at[t]]
     IN  /\ r.kept /\ r.active /\ (r.pid # 0 => ~Live(at[t], r.pid))
         /\ IF r.pid # 0
              THEN Reclaim(at[t]) /\ rec' = ClearPid(at[t])
              ELSE UNCHANGED <<procs, children, rec>>
  /\ lock' = t /\ Goto(t, "espawn")
  /\ UNCHANGED <<now, up, mark, beat, term, wedged, spawns, budgetVars, at, held, snap, track, ops, faults>>

EnsureSpawn(t) ==
  /\ pc[t] = "espawn"
  /\ Spawn(at[t], SetPid(at[t], spawns + 1)) \/ SpawnFails(rec)
  /\ lock' = Free /\ Finish(t, "idle")
  /\ UNCHANGED <<now, up, mark, beat, budgetVars, snap, track, ops>>

-----------------------------------------------------------------------------
(***************************************************************************)
(* Requests of the IPC server                                              *)
(***************************************************************************)

\* Handler t takes a request of kind k about a guest with a record.
Request(k, t, g) ==
  /\ up /\ pc[t] = "idle"
  /\ k \in Ops /\ ops < MaxOps /\ ops' = ops + 1
  /\ rec[g].kept

\* A task for the guest arrives: ensure_guest_active.
Demand(t, g) ==
  /\ Request("demand", t, g)
  /\ Begin(t, g, 0, "ensure")
  /\ UNCHANGED <<now, up, graphVars, procVars, budgetVars, snap, track, lock, faults>>

\* handle_restart_component: the record is read, and a restart asked for by
\* the heal dispatcher is drawn from the budget,
RestartComponent(t, g) ==
  /\ Request("restart", t, g) /\ rec[g].active
  /\ Begin(t, g, rec[g].pid, "kill")
  /\ UNCHANGED <<now, up, graphVars, procVars, budgetVars, snap, track, lock, faults>>

HealRestart(t, g) ==
  /\ Request("heal", t, g) /\ rec[g].active
  /\ Draw(g)
  /\ IF Ruling(g) # "deny"
       THEN Begin(t, g, rec[g].pid, IF Ruling(g) = "go" THEN "kill" ELSE Ruling(g))
       ELSE UNCHANGED <<pc, at, held>>
  /\ UNCHANGED <<now, up, graphVars, procVars, snap, track, lock, faults>>

\* then the pid that was read is sent SIGTERM and the recorded one cleared.
RestartKill(t) ==
  /\ pc[t] = "kill"
  /\ term' = Signal(held[t])
  /\ rec' = ClearPid(at[t])
  /\ Goto(t, "ensure")
  /\ UNCHANGED <<now, up, mark, beat, procs, wedged, spawns, children, budgetVars, at, held, snap, track, lock, ops, faults>>

\* handle_set_component_active.
Activate(t, g) ==
  /\ Request("activate", t, g)
  /\ rec' = SetActive(g, TRUE)
  /\ Begin(t, g, 0, "ensure")
  /\ UNCHANGED <<now, up, mark, beat, procVars, budgetVars, snap, track, lock, faults>>

Deactivate(t, g) ==
  /\ Request("deactivate", t, g)
  /\ Begin(t, g, rec[g].pid, "stop")
  /\ UNCHANGED <<now, up, graphVars, procVars, budgetVars, snap, track, lock, faults>>

\* The pid that was read is signalled and the recorded one cleared,
DeactivateKill(t) ==
  /\ pc[t] = "stop"
  /\ term' = Signal(held[t])
  /\ rec' = ClearPid(at[t])
  /\ Goto(t, "disable")
  /\ UNCHANGED <<now, up, mark, beat, procs, wedged, spawns, children, budgetVars, at, held, snap, track, lock, ops, faults>>

\* and only then is the record inactive.
DeactivateRecord(t) ==
  /\ pc[t] = "disable"
  /\ rec' = SetActive(at[t], FALSE)
  /\ Finish(t, "idle")
  /\ UNCHANGED <<now, up, mark, beat, procVars, budgetVars, snap, track, lock, ops, faults>>

\* handle_remove_component.
RemoveComponent(t, g) ==
  /\ Request("remove", t, g)
  /\ Begin(t, g, rec[g].pid, "remove")
  /\ UNCHANGED <<now, up, graphVars, procVars, budgetVars, snap, track, lock, faults>>

RemoveKill(t) ==
  /\ pc[t] = "remove"
  /\ term' = Signal(held[t])
  /\ rec' = [rec EXCEPT ![at[t]].kept = FALSE]
  /\ Finish(t, "idle")
  /\ UNCHANGED <<now, up, mark, beat, procs, wedged, spawns, children, budgetVars, snap, track, lock, ops, faults>>

-----------------------------------------------------------------------------
(***************************************************************************)
(* Processes, time and the hotel itself                                    *)
(***************************************************************************)

\* A process exits: by itself, or some time after SIGTERM.
Exit(q) ==
  /\ q \in procs
  /\ procs' = procs \ {q}
  /\ term' = term \ {q[1]} /\ wedged' = wedged \ {q[1]}
  /\ IF q[1] \in term THEN UNCHANGED faults ELSE Fault("exit")
  /\ UNCHANGED <<now, up, graphVars, spawns, children, budgetVars, taskVars, lock, ops>>

\* A dispatcher completes a poll and stamps its heartbeat, or wedges.
Beat(q) ==
  /\ up /\ q \in procs /\ q[2] = Dispatcher /\ q[1] \notin wedged
  /\ beat' = now
  /\ UNCHANGED <<now, up, rec, mark, procVars, budgetVars, taskVars, lock, ops, faults>>

WedgeDispatcher(q) ==
  /\ q \in procs /\ q[2] = Dispatcher /\ q[1] \notin wedged
  /\ Fault("wedge")
  /\ wedged' = wedged \cup {q[1]}
  /\ UNCHANGED <<now, up, graphVars, procs, term, spawns, children, budgetVars, taskVars, lock, ops>>

Clock ==
  /\ now < MaxTime /\ pc[Sup] # "judge"
  /\ now' = now + 1
  /\ charged' = [g \in Guests |-> {x \in charged[g] : now + 1 - x[1] < Window}]
  /\ UNCHANGED <<up, graphVars, procVars, ledger, taskVars, lock, ops, faults>>

\* The hotel dies: its tasks, the mutex, the children it tracked, the budget
\* and the watchdog's memory are gone, the guests' processes are not.
Crash ==
  /\ up /\ Fault("crash")
  /\ up' = FALSE
  /\ children' = [g \in Guests |-> 0]
  /\ lock' = Free
  /\ ledger' = [g \in Guests |-> NoLedger]
  /\ track' = [pid |-> 0, first |-> 0]
  /\ pc' = [t \in Tasks |-> "off"]
  /\ at' = [t \in Tasks |-> NoGuest]
  /\ held' = [t \in Tasks |-> 0]
  /\ snap' = [g \in {} |-> rec[g]]
  /\ charged' = [g \in Guests |-> {}]
  /\ UNCHANGED <<now, graphVars, procs, term, wedged, spawns, ops>>

-----------------------------------------------------------------------------
(***************************************************************************)
(* Specification                                                           *)
(***************************************************************************)

Supervise ==
  \/ BootClear \/ BootSpawn \/ BootDone
  \/ Reconcile \/ ExpireClear \/ Refresh \/ Respawn \/ ReconcileDone
  \/ Watch \/ Judge \/ Reap \/ ReapClear
  \/ MarkExhausted(Sup) \/ ClearMark(Sup)
  \/ \E g \in Guests :
       \/ BootReclaim(g) \/ BootMissing(g)
       \/ VisitExpired(g) \/ VisitSettled(g) \/ VisitDead(g)
       \/ VisitMissing(g) \/ VisitInactive(g)

Ensure(t) == EnsureSettled(t) \/ EnsureMissing(t) \/ EnsureSpawn(t)

Handle(t) ==
  \/ RestartKill(t) \/ DeactivateKill(t) \/ DeactivateRecord(t) \/ RemoveKill(t)
  \/ MarkExhausted(t) \/ ClearMark(t)

Ask ==
  \E t \in Reqs, g \in Guests :
    \/ Demand(t, g) \/ RestartComponent(t, g) \/ HealRestart(t, g)
    \/ Activate(t, g) \/ Deactivate(t, g) \/ RemoveComponent(t, g)

Process == \E q \in procs : Exit(q) \/ Beat(q) \/ WedgeDispatcher(q)

Next ==
  \/ Boot \/ Supervise
  \/ \E t \in Tasks : Ensure(t)
  \/ \E t \in Reqs : Handle(t)
  \/ Ask \/ Process
  \/ Clock \/ Crash

Spec == Init /\ [][Next]_vars

\* The hotel is restarted, its tasks run, a waiting task gets the mutex in
\* turn (tokio's Mutex is fair) and a process that was sent SIGTERM exits.
FairSpec ==
  /\ Spec
  /\ WF_vars(Boot) /\ SF_vars(Supervise)
  /\ \A t \in Tasks : SF_vars(Ensure(t))
  /\ \A t \in Reqs : WF_vars(Handle(t))
  /\ WF_vars(Clock)
  /\ WF_vars(\E q \in procs : q[1] \in term /\ Exit(q))

-----------------------------------------------------------------------------
(***************************************************************************)
(* Properties                                                              *)
(***************************************************************************)

Records == [kept : BOOLEAN, active : BOOLEAN, pid : Nat, seen : Nat]

\* Steps under the mutex.
Locking == {"relock", "expire", "respawn", "lpause", "lresume", "spawn", "espawn"}

\* The state is well formed: pids that were handed out, one running process
\* per pid, times that have passed, and the mutex held exactly by the task
\* that stands in a step under it.
TypeOK ==
  /\ now \in Nat /\ up \in BOOLEAN
  /\ rec \in [Guests -> Records]
  /\ DOMAIN snap \subseteq Guests /\ \A g \in DOMAIN snap : snap[g] \in Records
  /\ mark \subseteq Guests /\ beat \in Nat
  /\ spawns \in Nat
  /\ procs \subseteq (1..spawns) \X Guests
  /\ term \subseteq 1..spawns /\ wedged \subseteq 1..spawns
  /\ children \in [Guests -> 0..spawns]
  /\ track \in [pid : Nat, first : Nat]
  /\ at \in [Tasks -> Guests \cup {NoGuest}] /\ held \in [Tasks -> Nat]
  /\ ops \in Nat /\ faults \in Nat
  /\ \A t \in Tasks : (lock = t) <=> pc[t] \in Locking

\* RespawnBudget promises at most RESPAWN_BUDGET_MAX respawns of a guest in
\* any window, whichever of the supervisor, the watchdog and the heal
\* restarts asked for them, across the breach and the reset after it.
WindowBudget ==
  \A g \in Guests : Cardinality(charged[g]) <= BudgetMax

\* ensure_guest_active takes the mutex before it reads active_pid, so that
\* concurrent callers do not each spawn: it never starts a process beside the
\* one the graph records as running.
OnDemandSpawnsOnce ==
  [][\A t \in Tasks : pc[t] = "espawn" /\ pc'[t] = "idle" => ~Runs(rec[at[t]].pid)]_vars

\* The supervisor waits for the mutex it holds itself.
SelfLocked == pc[Sup] = "relock"

\* The pause after a breach of the budget reaches to the end of the clock.
PausedToTheEnd(g) == Exhausted(g) /\ ledger[g].exhausted + Window > MaxTime

\* A guest that should run and has no process gets one, unless the operator
\* stops or removes it, whatever requests and crashes of the hotel come in
\* between.  A breach of its budget only delays that: the pause ends a clean
\* window after the breach.  The one way out is the supervisor that waits for
\* itself over the TTL of a role.
Recovers ==
  \A g \in Guests :
    (rec[g].kept /\ rec[g].active /\ ~\E p \in Pids : <<p, g>> \in procs)
      ~> \/ ~rec[g].kept \/ ~rec[g].active \/ PausedToTheEnd(g) \/ SelfLocked
         \/ \E p \in Pids : <<p, g>> \in procs

\* guest_manager.rs says of a role idle for longer than its TTL: "deactivate
\* it rather than respawning", and goes on to reclaim its process.
ExpiredRoleStops ==
  \A g \in Guests :
    (rec[g].kept /\ ~rec[g].active /\ rec[g].pid # 0)
      ~> (rec[g].active \/ ~rec[g].kept \/ rec[g].pid = 0)

\* guest_manager.rs says of the watchdog's grace window: "a just-spawned
\* dispatcher is never judged against a heartbeat left over from its
\* predecessor".  A dispatcher is restarted only once its own pid has been
\* watched for longer than the threshold.
FreshDispatcherIsSpared ==
  [][pc[Sup] = "judge" /\ pc'[Sup] \in {"reap", "resume"} => now - track.first > StaleAfter]_vars

\* The supervisor skips "stale snapshot respawn"s: it does not start a process
\* beside the one the graph records as running.
SupervisorSpawnsOnce ==
  [][pc[Sup] = "spawn" /\ pc'[Sup] = "walk" => ~Runs(rec[at[Sup]].pid)]_vars

\* handle_set_component_active: "Kill the process if running, then mark
\* inactive."  A deactivated guest ends up without a running process.
InactiveStops ==
  \A g \in Guests :
    (rec[g].kept /\ ~rec[g].active) ~> (rec[g].active \/ ~rec[g].kept \/ ~\E p \in Pids : <<p, g>> \in procs)

=============================================================================
