----------------------------- MODULE CronTicker -----------------------------
(***************************************************************************)
(* One cron job on the hotels of a mesh: the record each hotel keeps of    *)
(* it, the ticker that fires it, the CronFired announcements by which a    *)
(* hotel that fired a guaranteed job keeps the others from firing it, and  *)
(* the CronJobSync events that replicate the record when it is registered, *)
(* changed, removed or a hotel starts.                                     *)
(*                                                                         *)
(* fire works on the record it read and awaits several calls before it     *)
(* writes that record back, so its parts are steps of their own.  An event *)
(* waits in memory until the ledger has it (Publish) and is then sent      *)
(* until it is acknowledged: it arrives in any order, sometimes twice, and *)
(* is lost when the ack of a later event covers it (MeshDelivery).         *)
(***************************************************************************)
EXTENDS Integers

CONSTANTS
  Hotels,    \* hotels of the mesh
  Offset,    \* PHILOTIC_CRON_OFFSET_SECS of a hotel
  OptedIn,   \* hotels that act on a job of sort "local"
  Schedule,  \* occurrences of the schedule: times, from 1
  NextFire,  \* next_fire_after: the occurrence after one, 0 for none
  Ops,       \* kinds of requests that may come
  MaxOps,    \* how many of them
  Faults,    \* kinds of faults that may happen
  MaxFaults, \* how many of them
  MaxTime,   \* end of the clock
  NoJob      \* the hotel has no record of the job

ASSUME CronAssumption ==
  /\ Offset \in [Hotels -> Nat]
  /\ Schedule \subseteq Nat \ {0}
  /\ NextFire \in [Schedule -> Schedule \cup {0}]
  /\ MaxOps \in Nat /\ MaxFaults \in Nat /\ MaxTime \in Nat

\* What next_fire_after computes: the least occurrence after the given one.
ASSUME NextFireAssumption ==
  \A e \in Schedule :
    /\ NextFire[e] = 0 => \A f \in Schedule : f <= e
    /\ NextFire[e] # 0 => /\ e < NextFire[e]
                          /\ \A f \in Schedule : f < NextFire[e] => f <= e

VARIABLES
  now,    \* the clock
  up,     \* hotels that run
  job,    \* record of the job on a hotel, in its context graph
  pc,     \* what the ticker of a hotel does next
  held,   \* the record its fire works on
  out,    \* events a hotel has not written to its ledger yet
  mesh,   \* events of a ledger that a hotel has not read: <<from, to, event>>
  fired,  \* history: times an occurrence was fired, on any hotel, at most 2
  reached,\* history: occurrences whose task got to an inbox or was parked
  calm,   \* history: no clock step while anything was pending, no event lost,
          \* no request and no crash while anything was pending or due
  ops,    \* requests so far
  faults  \* faults so far

vars == <<now, up, job, pc, held, out, mesh, fired, reached, calm, ops, faults>>

\* Sorts of jobs: guaranteed, not guaranteed, and the in-process sweeps and
\* charters that only the hotels they are meant for act on.
Sorts == {"guaranteed", "plain", "local"}

\* A record; first is its next_fire_at when it was registered (history).
Jobs ==
  [sort : Sorts, enabled : BOOLEAN, last : Schedule \cup {0}, next : Schedule, first : Schedule]

ASSUME NoJobAssumption == NoJob \notin Jobs

\* Events.  A field an event does not have is 0 or NoJob.
CronFired(e) == [op |-> "fired", job |-> NoJob, epoch |-> e]
Upsert(j) == [op |-> "upsert", job |-> j, epoch |-> 0]
Remove == [op |-> "remove", job |-> NoJob, epoch |-> 0]

\* A job of sort s as it is registered for occurrence e.
NewJob(s, e) == [sort |-> s, enabled |-> TRUE, last |-> 0, next |-> e, first |-> e]

\* The occurrence a client finds when it registers the job at time t.
FirstAfter(t) == {e \in Schedule : e > t /\ \A f \in Schedule : f > t => e <= f}

\* The job is on no hotel, or was registered and replicated to all.
Init ==
  /\ now = 1
  /\ up = Hotels
  /\ \E j \in {NoJob} \cup {NewJob(s, e) : s \in Sorts, e \in FirstAfter(1)} :
       job = [h \in Hotels |-> j]
  /\ pc = [h \in Hotels |-> "idle"]
  /\ held = [h \in Hotels |-> NoJob]
  /\ out = [h \in Hotels |-> {}]
  /\ mesh = {}
  /\ fired = [e \in Schedule |-> 0] /\ reached = {}
  /\ calm = TRUE
  /\ ops = 0 /\ faults = 0

Fault(f) == f \in Faults /\ faults < MaxFaults /\ faults' = faults + 1

Put(h, m) == out' = [out EXCEPT ![h] = @ \cup {m}]

-----------------------------------------------------------------------------
(***************************************************************************)
(* The ticker                                                              *)
(***************************************************************************)

\* Mutant: the guaranteed jobs are not staggered.
DueAtOnce(h) ==
  /\ job[h] # NoJob /\ job[h].enabled
  /\ CASE pc[h] = "idle" -> job[h].next <= now
       [] pc[h] = "scan" -> job[h].sort = "guaranteed" /\ job[h].next < now
       [] OTHER -> FALSE

\* Mutant: a tick only finds what is due at that very time.
DueExactly(h) ==
  /\ job[h] # NoJob /\ job[h].enabled
  /\ CASE pc[h] = "idle" ->
            job[h].next + (IF job[h].sort = "guaranteed" THEN Offset[h] ELSE 0) = now
       [] pc[h] = "scan" -> job[h].sort = "guaranteed" /\ job[h].next < now
       [] OTHER -> FALSE

\* list_due_cron_jobs of a tick; recovery_scan ignores the offset and looks at
\* guaranteed jobs only.
Due(h) ==
  /\ job[h] # NoJob /\ job[h].enabled
  /\ CASE pc[h] = "idle" ->
            job[h].next + (IF job[h].sort = "guaranteed" THEN Offset[h] ELSE 0) <= now
       [] pc[h] = "scan" -> job[h].sort = "guaranteed" /\ job[h].next < now
       [] OTHER -> FALSE

\* advance_schedule: what it makes of the record it is given.
Advanced(j) ==
  IF NextFire[j.next] = 0 THEN [j EXCEPT !.last = j.next, !.enabled = FALSE]
  ELSE [j EXCEPT !.last = j.next, !.next = NextFire[j.next]]

\* This hotel does not act on the job: fire, or the sweep it starts, returns.
Foreign(h) == job[h].sort = "local" /\ h \notin OptedIn

\* The occurrence was announced by another hotel.
Heard(h) == job[h].sort = "guaranteed" /\ job[h].last = job[h].next

\* fire has nothing to do but to advance the schedule.
Skip(h) ==
  /\ h \in up /\ Due(h) /\ (Foreign(h) \/ Heard(h))
  /\ job' = [job EXCEPT ![h] = Advanced(@)]
  /\ pc' = [pc EXCEPT ![h] = "idle"]
  /\ UNCHANGED <<now, up, held, out, mesh, fired, reached, calm, ops, faults>>

\* Mutant: the schedule is advanced before the task is delivered.
FireAdvancesFirst(h) ==
  /\ h \in up /\ Due(h) /\ ~Foreign(h) /\ ~Heard(h)
  /\ held' = [held EXCEPT ![h] = job[h]]
  /\ job' = [job EXCEPT ![h] = Advanced(@)]
  /\ pc' = [pc EXCEPT ![h] = "deliver"]
  /\ UNCHANGED <<now, up, out, mesh, fired, reached, calm, ops, faults>>

\* fire claims the task's id and hands the task to the ledger,
Fire(h) ==
  /\ h \in up /\ Due(h) /\ ~Foreign(h) /\ ~Heard(h)
  /\ held' = [held EXCEPT ![h] = job[h]]
  /\ pc' = [pc EXCEPT ![h] = "deliver"]
  /\ UNCHANGED <<now, up, job, out, mesh, fired, reached, calm, ops, faults>>

\* delivers it to the role's inbox, parks it, or runs the sweep; a task for a
\* role that has neither a record nor a subscriber "stays ledger-only",
Deliver(h) ==
  /\ pc[h] = "deliver"
  /\ fired' = [fired EXCEPT ![held[h].next] = IF @ < 2 THEN @ + 1 ELSE @]
  /\ \/ reached' = reached \cup {held[h].next} /\ UNCHANGED faults
     \/ Fault("deserted") /\ UNCHANGED reached
  /\ pc' = [pc EXCEPT ![h] = IF held[h].sort = "guaranteed" THEN "announce" ELSE "advance"]
  /\ UNCHANGED <<now, up, job, held, out, mesh, calm, ops>>

\* announces a guaranteed one,
Announce(h) ==
  /\ pc[h] = "announce"
  /\ Put(h, CronFired(held[h].next))
  /\ pc' = [pc EXCEPT ![h] = "advance"]
  /\ UNCHANGED <<now, up, job, held, mesh, fired, reached, calm, ops, faults>>

\* and writes the record it read at the start, advanced.
Advance(h) ==
  /\ pc[h] = "advance"
  /\ job' = [job EXCEPT ![h] = Advanced(held[h])]
  /\ held' = [held EXCEPT ![h] = NoJob]
  /\ pc' = [pc EXCEPT ![h] = "idle"]
  /\ UNCHANGED <<now, up, out, mesh, fired, reached, calm, ops, faults>>

\* A tick, or the recovery scan, finds nothing due.
NothingDue(h) ==
  /\ pc[h] \in {"idle", "scan"} /\ ~Due(h)
  /\ pc' = [pc EXCEPT ![h] = "idle"]
  /\ UNCHANGED <<now, up, job, held, out, mesh, fired, reached, calm, ops, faults>>

-----------------------------------------------------------------------------
(***************************************************************************)
(* Events between hotels                                                   *)
(***************************************************************************)

\* The ledger writer stores an event, and the dispatcher sends it to every
\* other hotel.
Publish(h, m) ==
  /\ h \in up /\ m \in out[h]
  /\ out' = [out EXCEPT ![h] = @ \ {m}]
  /\ mesh' = mesh \cup {<<h, g, m>> : g \in Hotels \ {h}}
  /\ UNCHANGED <<now, up, job, pc, held, fired, reached, calm, ops, faults>>

\* Mutant: the announced occurrence is noted and the schedule left behind.
AnnouncedMarksOnly(j, e) ==
  IF j = NoJob \/ j.last = e \/ j.next # e \/ NextFire[e] = 0 THEN j
  ELSE [j EXCEPT !.last = e]

\* handle_cron_fired_broadcast: what it makes of the record.  The last
\* occurrence of a schedule is left alone.
Announced(j, e) ==
  IF j = NoJob \/ j.last = e \/ j.next # e \/ NextFire[e] = 0 THEN j
  ELSE [j EXCEPT !.last = e, !.next = NextFire[e]]

\* handle_cron_fired_broadcast and handle_cron_job_sync.
Applied(j, m) ==
  CASE m.op = "fired" -> Announced(j, m.epoch)
    [] m.op = "upsert" -> m.job
    [] m.op = "remove" -> NoJob

\* An event is read.  It comes again when it is resent before its ack.
Receive(x, again) ==
  /\ x \in mesh /\ x[1] \in up /\ x[2] \in up
  /\ job' = [job EXCEPT ![x[2]] = Applied(@, x[3])]
  /\ IF again
       THEN Fault("again") /\ UNCHANGED mesh
       ELSE mesh' = mesh \ {x} /\ UNCHANGED faults
  /\ UNCHANGED <<now, up, pc, held, out, fired, reached, calm, ops>>

\* The ack of a later event covers one that was never read.
Lose(x) ==
  /\ x \in mesh /\ Fault("lose")
  /\ mesh' = mesh \ {x}
  /\ calm' = FALSE
  /\ UNCHANGED <<now, up, job, pc, held, out, fired, reached, ops>>

-----------------------------------------------------------------------------
(***************************************************************************)
(* Requests, the clock and restarts                                        *)
(***************************************************************************)

\* Nothing is left to do at the present time.
Quiet ==
  /\ up = Hotels /\ mesh = {}
  /\ \A h \in Hotels : pc[h] = "idle" /\ out[h] = {} /\ ~Due(h)

\* An occurrence of the job has come and is not behind every hotel.
Overdue == \E h \in Hotels : job[h] # NoJob /\ job[h].next <= now

\* Nothing is pending or due.
Untroubled == Quiet /\ ~Overdue

\* A request of kind k is handled on hotel h.
Request(k, h) ==
  /\ h \in up /\ k \in Ops
  /\ ops < MaxOps /\ ops' = ops + 1
  /\ calm' = (calm /\ Untroubled)
  /\ UNCHANGED <<now, up, pc, held, mesh, fired, reached, faults>>

\* RegisterCronJob: a client makes a new id, and the first occurrence to come.
Register(h, s, e) ==
  /\ Request("register", h)
  /\ ops = 0 /\ \A g \in Hotels : job[g] = NoJob
  /\ e \in FirstAfter(now)
  /\ job' = [job EXCEPT ![h] = NewJob(s, e)]
  /\ Put(h, Upsert(NewJob(s, e)))

\* EnableCronJob and DisableCronJob.
SetEnabled(h, b) ==
  /\ Request(IF b THEN "enable" ELSE "disable", h)
  /\ job[h] # NoJob
  /\ LET j == [job[h] EXCEPT !.enabled = b]
     IN  job' = [job EXCEPT ![h] = j] /\ Put(h, Upsert(j))

\* RemoveCronJob.
RemoveJob(h) ==
  /\ Request("remove", h)
  /\ job' = [job EXCEPT ![h] = NoJob]
  /\ Put(h, Remove)

Clock ==
  /\ now < MaxTime
  /\ now' = now + 1
  /\ calm' = (calm /\ Quiet)
  /\ UNCHANGED <<up, job, pc, held, out, mesh, fired, reached, ops, faults>>

\* Mutant: the interrupted fire is still there after the restart.
CrashKeepsHeld(h) ==
  /\ h \in up /\ Fault("crash")
  /\ up' = up \ {h}
  /\ pc' = [pc EXCEPT ![h] = "off"]
  /\ out' = [out EXCEPT ![h] = {}]
  /\ calm' = (calm /\ Untroubled)
  /\ UNCHANGED <<now, job, held, mesh, fired, reached, ops>>

\* The hotel dies; what it had not stored is gone.
Crash(h) ==
  /\ h \in up /\ Fault("crash")
  /\ up' = up \ {h}
  /\ pc' = [pc EXCEPT ![h] = "off"]
  /\ held' = [held EXCEPT ![h] = NoJob]
  /\ out' = [out EXCEPT ![h] = {}]
  /\ calm' = (calm /\ Untroubled)
  /\ UNCHANGED <<now, job, mesh, fired, reached, ops>>

\* run: startup_sync advertises the record, then comes recovery_scan.
Boot(h) ==
  /\ h \notin up
  /\ up' = up \cup {h}
  /\ pc' = [pc EXCEPT ![h] = "scan"]
  /\ IF job[h] # NoJob THEN Put(h, Upsert(job[h])) ELSE UNCHANGED out
  /\ UNCHANGED <<now, job, held, mesh, fired, reached, calm, ops, faults>>

-----------------------------------------------------------------------------
(***************************************************************************)
(* Specification                                                           *)
(***************************************************************************)

Ticker(h) == Skip(h) \/ Fire(h) \/ Deliver(h) \/ Announce(h) \/ Advance(h) \/ NothingDue(h)

Ask(h) ==
  \/ \E s \in Sorts, e \in Schedule : Register(h, s, e)
  \/ \E b \in BOOLEAN : SetEnabled(h, b)
  \/ RemoveJob(h)

Next ==
  \/ \E h \in Hotels :
       \/ Ticker(h) \/ Ask(h) \/ Crash(h) \/ Boot(h)
       \/ \E m \in out[h] : Publish(h, m)
  \/ \E x \in mesh : Lose(x) \/ \E again \in BOOLEAN : Receive(x, again)
  \/ Clock

Spec == Init /\ [][Next]_vars

\* Tickers run, hotels are restarted, the ledger and the dispatcher work, an
\* event in the ledger is resent until it is read, and time goes on.
FairSpec ==
  /\ Spec
  /\ \A h \in Hotels :
       /\ WF_vars(Ticker(h)) /\ WF_vars(Boot(h))
       /\ WF_vars(\E m \in out[h] : Publish(h, m))
  /\ WF_vars(\E x \in mesh : Receive(x, FALSE))
  /\ WF_vars(Clock)

-----------------------------------------------------------------------------
(***************************************************************************)
(* Properties                                                              *)
(***************************************************************************)

Events == {CronFired(e) : e \in Schedule} \cup {Upsert(j) : j \in Jobs} \cup {Remove}

\* The state is well formed, and fire has a record exactly from the time it
\* starts to the time it writes it back.
TypeOK ==
  /\ now \in Nat /\ up \subseteq Hotels
  /\ job \in [Hotels -> Jobs \cup {NoJob}]
  /\ held \in [Hotels -> Jobs \cup {NoJob}]
  /\ pc \in [Hotels -> {"idle", "scan", "deliver", "announce", "advance", "off"}]
  /\ out \in [Hotels -> SUBSET Events]
  /\ mesh \subseteq Hotels \X Hotels \X Events
  /\ fired \in [Schedule -> 0..2] /\ reached \subseteq Schedule /\ calm \in BOOLEAN
  /\ ops \in Nat /\ faults \in Nat
  /\ \A h \in Hotels :
       /\ h \in up <=> pc[h] # "off"
       /\ held[h] = NoJob <=> pc[h] \in {"idle", "scan", "off"}

\* Every occurrence a record has left behind since it was registered was fired
\* by some hotel.
Covered(j) ==
  j # NoJob /\ j.sort = "guaranteed" =>
    \A e \in Schedule : j.first <= e /\ e < j.next => fired[e] > 0

\* A guaranteed job is fired at least once: no hotel's schedule passes an
\* occurrence that no hotel fired, whatever crashes between the parts of fire,
\* and in whatever order announcements and replicated records arrive, are lost
\* or arrive again.  To fire is to store the task and offer it to its role:
\* the promise ends where deliver_inbound_task finds no subscriber, see
\* DeliveredAtLeastOnce.
NoEpochSkipped == \A h \in Hotels : Covered(job[h])

Staggered == \A g, h \in Hotels : g # h => Offset[g] # Offset[h]

\* A guaranteed job is fired at most once in calm times when offsets differ: an
\* occurrence that is not the last of its schedule is fired by one hotel, once,
\* although events are repeated, and hotels crash and jobs change in between.
\* Nothing is said once an event was late for a turn or lost, nor when a hotel
\* crashed or a request came while something was pending or due: the record the
\* request replicates may undo an announcement, and the occurrence fires again.
StaggerSuffices ==
  calm /\ Staggered =>
    \A h \in Hotels :
      job[h] # NoJob /\ job[h].sort = "guaranteed" =>
        \A e \in Schedule : job[h].first <= e /\ NextFire[e] # 0 => fired[e] <= 1

\* Replicas stay in step in calm times: when nothing is pending, all hotels have
\* the same record of a job whose schedule goes on.  Of an event that was late
\* or lost, and of a request or crash in the middle of an occurrence, which may
\* leave the records different for good, it says nothing.
ReplicasAgree ==
  calm /\ Quiet =>
    \A g, h \in Hotels :
      job[g] # job[h] =>
        /\ job[g] # NoJob /\ job[h] # NoJob
        /\ NextFire[job[g].next] = 0 /\ job[g].next = job[h].next

\* Every occurrence of a guaranteed job that is enabled on a hotel is fired, by
\* that hotel or another, unless the job is disabled, removed or registered anew
\* there, in spite of crashes and of lost and repeated events.
EpochsFire ==
  \A h \in Hotels, e \in Schedule :
    (job[h] # NoJob /\ job[h].sort = "guaranteed" /\ job[h].enabled
       /\ job[h].first <= e /\ e <= job[h].next /\ e <= MaxTime - Offset[h])
      ~> \/ fired[e] > 0
         \/ job[h] = NoJob \/ ~job[h].enabled \/ job[h].sort # "guaranteed" \/ job[h].first > e

\* The distributed cron proposal says of guaranteed jobs: "At-least-once
\* delivery."  An occurrence that a hotel has left behind got to its role.
DeliveredAtLeastOnce ==
  \A h \in Hotels :
    job[h] # NoJob /\ job[h].sort = "guaranteed" =>
      \A e \in Schedule : job[h].first <= e /\ e < job[h].next => e \in reached

\* main.rs says of the CronFired handler: it updates the record "so that this
\* hotel's CronTicker suppresses its staggered-offset fire for the same epoch".
AnnouncedFiresOnce ==
  calm /\ Staggered =>
    \A h \in Hotels :
      job[h] # NoJob /\ job[h].sort = "guaranteed" =>
        \A e \in Schedule : job[h].first <= e => fired[e] <= 1

\* main.rs says of cron.remove: "Permanently remove a cron job from the hotel.
\* This cannot be undone."  Only a registration brings a removed job back.
RemovedStaysRemoved ==
  [][\A h \in Hotels : job[h] = NoJob /\ job'[h] # NoJob => ops' # ops \/ mesh' # mesh \/ faults' # faults]_vars

\* cron_ticker.rs calls jobs that are not guaranteed "fire-or-skip": an
\* occurrence the next one has overtaken is not fired any more.
MissedIsSkipped ==
  [][\A h \in Hotels :
       pc[h] # "deliver" /\ pc'[h] = "deliver" /\ job[h].sort = "plain"
         => NextFire[job[h].next] = 0 \/ now < NextFire[job[h].next]]_vars

=============================================================================
