# A verification of the Philotic stack's delivery, scheduling and turn core

The Philotic stack runs *hotels* (the `aiua` daemon), one per machine. A hotel
hosts *guests*: agent processes (philotes), protocol gateways (membranes),
model controllers, and tools. Guests talk to their hotel over a Unix socket;
hotels talk to each other over a mesh. This directory models the parts of the
stack where processes, connections and databases meet and where a failure
loses or repeats work: the path of an event between hotels, the path of a task
into a guest, the lease that keeps two gateways from polling one bot token, the
IPC stream itself, the queue that repairs what broke, the supervisor that keeps
guests running, the cron job that several hotels share, and the turn loop of an
agent with its approvals and its watchdog.

Paths below are relative to `src/`; `aiua/` stands for `crates/aiua/src/` and
`core/` for `crates/ansible-mesh-core/src/`, `philote/` for
`crates/philote/src/`.

## 1. Inventory

### Components that are modelled

| Component | State | Operations | Talks to | Must hold |
|---|---|---|---|---|
| Event ledger (`core/sqlite_storage.rs`, writer thread in `aiua/main.rs`) | tables `mesh_events`, `mesh_cursors`; a bounded command channel | `AppendLocal`, `ProcessAck`, `CommitInboundBatch`, one at a time | IPC handlers (append), dispatcher (query), inbound loop (ack, commit) | no row is dropped before its own target acknowledged it; a cursor never goes back |
| Outbound dispatcher (`aiua/service/mesh_dispatcher.rs`) | the batch it is sending | every tick: query the unacked rows of each target, send in order, stop at the first failure | ledger, transport | no gap below a sent event; what is unacked is sent again |
| Execution transport and inbound loop (`aiua/service/execution_transport.rs`, `mesh_runtime.rs`) | `DeliveryClaims` | read a message from its own connection; claim, deliver or park, queue the commit, acknowledge | peers, inbox delivery, ledger | an event is handed over once; an ack means what it says |
| Guest inbox delivery (`aiua/service/ipc.rs`, `role_materialization.rs`) | subscriber registry, a counted channel per connection, parked tasks | deliver, confirm, repark, flush on `Register` | cron, mesh, other guests; heal queue | a task is not lost without a trace and not repeated without cause |
| Runtime leases (`aiua/service/lease.rs`, `lease_handlers.rs`) | `RuntimeLeaseRegistry`: owner, connection, epoch, expiry; in memory | acquire, renew, inspect, release, release on disconnect | membranes | one owner; an epoch names one grant |
| Membrane runtime and Telegram seat (`crates/membrane/src/lease.rs`, `runtime.rs`, `crates/membrane-telegram/src/lib.rs`) | `LeaseDriver` phase and epoch, stand-down, poll task | connect, setup, renew, re-probe, teardown | lease handlers, Telegram | the owner polls; somebody polls |
| IPC client (`crates/philotic-client/src/lib.rs`) | `pending_push`, `pending_stale_responses` | `send_request`, `send_request_with_timeout`, `recv_task` | every guest's calls | a reply goes to the request it answers; tasks keep their order |
| Heal queue (`core/heal_queue.rs`) | table `heal_queue` | push, triage, resolve, two vacuums | everything that fails | rows end |
| Heal dispatcher (`crates/heal-dispatcher/src/`) | recurrence windows, in memory | poll, triage, file, act, resolve | heal queue and work items over IPC | an action is not repeated without cause |
| Work items (`aiua/service/ipc.rs` `handle_file_heal_work_item`, `core/autonomy.rs`) | work item nodes, audit records, a daily budget | file or bump, close | heal dispatcher, operator | the evidence of an item is real |
| Guest supervisor (`aiua/service/guest_manager.rs`) | guest records and pids in the graph, the materializer's mutex and children, the respawn budget and its mark, the dispatcher's heartbeat | `materialize_all`, `reconcile_all`, `ensure_guest_active`, the watchdog, the component requests | every guest, heal queue | a guest that should run runs, within its budget; nobody waits for a lock it holds |
| Cron ticker (`aiua/service/cron_ticker.rs`, `core/cron.rs`, handlers in `aiua/main.rs`) | one record of the job per hotel: next occurrence, last fired, enabled | tick, `fire`, `advance_schedule`, `recovery_scan`, `startup_sync`, `CronFired`, `CronJobSync`, four requests | mesh ledger, inbox delivery | an occurrence of a guaranteed job is fired, and once if nothing disturbs the stagger |
| Philote turn loop (`philote/runtime.rs`, `turn_loop.rs`, `tool_exec.rs`, `session/mod.rs`) | active and parked turns, queue, drains, policy; a checkpoint in the hotel | user message, approval commands, model and tool answers, watchdog, drain, restart | models, tool runners, task ledger | a message is in one place; a closed turn stays closed; every turn ends |

### What is hard here

Nothing in this code runs alone. Each mesh message has a connection and a task
of its own, so a later event can be acknowledged first. A frame is pushed into
a channel and counted in two steps. A lease renewal that needs a re-acquire is
two requests. The IPC stream has no correlation ids, so a reply that is given
up must be accounted for by counting. A request that timed out is still served.
SQLite survives a restart; claims, leases, windows, watchers and channels do
not. The supervisor decides from a snapshot and acts after waiting for a mutex;
a ticker writes back a record it read before three awaits; a turn is parked in
two places of a session and evicted from them by a timer. `PROJECT.json` lists the hazards one by one, each at its line, with the
properties that would catch it.

### Components that are not modelled

`PROJECT.json` names every one with its reason. In short:

- *planned* (section 9): membership, registry and heartbeat, autonomy postures,
  the credential pool of the model router;
- *single statements against the graph*: most IPC requests, operator surface,
  session activity, resource registry, agent route lookup, domain storage;
- *data rather than control*: memory and retrieval crates, graph intelligence,
  catalogues, ranking, validation, codecs, inference runners, execution guard;
- *the outside world*: provider APIs, MuninnDB, Discord and MCP services,
  WebRTC negotiation, cryptography, the web front end, Apple clients,
  deployment.

## 2. Modules

| Module | What it is |
|---|---|
| `MeshDelivery` | ledger, dispatcher, transport, inbound loop: one sending hotel, any set of targets |
| `InboxDelivery` | tasks into one guest over its connections |
| `PollLease` | one bot token, its lease, its seats |
| `IpcStream` | one connection between a guest and its hotel |
| `HealDispatch` | heal queue, dispatcher, recurrence tracker, filing |
| `GuestSupervisor` | the guest manager of one hotel, its watchdog and the requests that touch the same records |
| `CronTicker` | one job on the hotels of a mesh |
| `TurnLoop` | one session of a philote |
| `LeaseAuthority` | abstract: a lock with a fence, which `PollLease` implements |
| `MC*` | constants, symmetry sets and constraints for TLC; a model that needs none is run as it is |
| `MeshDeliveryProofs`, `InboxDeliveryProofs`, `PollLeaseProofs`, `IpcStreamProofs`, `HealDispatchProofs`, `GuestSupervisorProofs`, `CronTickerProofs`, `TurnLoopProofs` | theorems and proofs, one module for each model |

The modules meet at their edges. What `MeshDelivery` hands over in
`ReceiveEvent` is the environment's new task in `InboxDelivery`. `IpcStream` is
the channel that `PollLease` and `HealDispatch` use: there a request is one
atomic step or a fault, and `IpcStream` shows which uses of the client justify
treating its reply as the request's own. `InboxDelivery` and the exhausted
budget of `GuestSupervisor` file the heal entries that enter `HealDispatch` as
pushes. The mesh of `CronTicker` is what `MeshDelivery` shows it to be: a set of
events that arrive in any order, perhaps twice, and may be lost to the ack of a
later one. The messages of `TurnLoop` are the tasks that `InboxDelivery` hands
over, and its requests to the hotel, which may fail, go over `IpcStream`.

Operators that start as `\* Mutant:` are faulty variants of the definition
below them. They belong to no specification; each shows that some property
depends on that definition.

### MeshDelivery

An event envelope is a model value with a target. `Emit` is the IPC handler
that sends `AppendLocal` into the bounded channel. `AppendLocal`, `ProcessAck`
and `CommitInbound` are the writer's commands (`aiua/main.rs`); `AdvanceCursor`
and `DeleteDelivered` are the two statements of `ProcessAck`, and
`ProcessAckVacuumFails` the case in which the second one fails.
`DispatchForTarget` reads a batch (`QueryUnacked`: `ORDER BY seq LIMIT 50`),
`SendEvent` and `SendFails` are one round of its loop. A message in `wire` has
been written to a connection; `DropMessage` loses it after the sender saw a
success. `ReceiveEvent` claims, delivers and queues the commit; `SendAck` comes
after it and does not wait for the commit, as in the code. `RestartSender` and
`RestartTarget` keep what SQLite holds.

Abstractions: an event for the local hotel is skipped by the writer; what
happens to a delivered event is `InboxDelivery`'s; several copies of a message
are told apart by `msg_id` up to `MaxCopies`; peers that cannot be resolved are
a failed send.

### InboxDelivery

Every task has its own delivery (`pc`): check for a subscriber, park or take a
snapshot of the subscribers, and for each connection push, count, spawn a
watcher. `CountedSender::send` is two steps for a delivery (`PushFrame`,
`CountFrame`) and for the handler of a connection (`HandlerPush` in
`TakeParked` and `FlushParked`, then `CountHandled`, before it sends again);
so is a write by the write task (`WriteFrame`, `CountDrained`), and so is one look of a watcher
(`WatchReadGauge`, then `WatchClosed` / `WatchAgain` / `WatchCapped`).
`Subscribe`, `TakeParked`, `FlushParked` follow the `Register` handler.
`WriteFrame` has an alternative in which the guest dies with the frame in its
socket buffer. `writtenOff` records the tasks that the code gives up knowingly.

Abstractions: one guest, and every task addressed to it; the lock of the
registry makes snapshot and removal atomic; the parked list is taken in the
step that pushes the reply to `Register`.

### PollLease

`lease` is the entry of the token in the registry; `Current` is
`drop_if_stale`, which every handler calls first. `Granted`, `Renewable` and
`HotelEof` are acquire, renew and release on disconnect. A seat's `mode` says
where its runtime loop stands; `WantsRenew`, `RenewCall`, `AcquireCall`,
`RenewErr`, `AcquireErr` are `LeaseDriver::tick`, cut where a request goes out.
`Probe` is the re-probe of a seat that stood down, with the setup that it runs
inside the renewal tick (`resetup`). `poll` is the poll task, which `Connect`
aborts only when setup runs again. `Seeded` seats have an active guest record;
`pidless` are those whose record names no process, which `Stale` treats as gone
whatever still runs: `RestartComponent` is the hotel that signals the process and
clears its pid while it may run on (`doomed`), `Terminate` is SIGTERM taking
effect, `Respawn` the successor with a fresh pid. The runtime handles Ctrl-C only, though the
comment at `crates/membrane/src/runtime.rs:85` speaks of SIGTERM too, so a
terminated seat releases nothing.

Abstractions: one process for each seat, whose successor takes its first step
after it has exited; a signalled process is gone within the time unit unless
the seat is stalled; an inactive record counts as no record. Time is relative (remaining life of the lease, age of the last
success, time to the next attempt), one unit at a time; `Tick` waits for seats
whose time has come unless `Stall` holds one up; the hotel's wall clock and the
drivers' monotonic clocks advance together; backoff delays are any value up to
`MaxBackoff`.

### IpcStream

A request is a kind and a way of waiting. The kind decides the frame that
answers it: `plain`, `lease` (frames that `is_ignorable_push` would also skip)
or `memory` (`RefreshMemoryConfig`, answered with a `MuninnStatus` that is also
a broadcast). The wait is `forever` (`send_request`), `timed`
(`send_request_with_timeout`) or `dropped` (a caller that drops the future of
`send_request` under its own timeout and keeps the connection).
`ReadMatchingResponse` and `RecvTask` are one round of the client's two read
loops. `SafeUses` are the uses that the client's discipline covers: plain
requests bounded by the client or not at all, and lease requests that are never
bounded. Not among them are `RefreshMemoryConfig` and requests that a caller
bounds from outside while it keeps the connection: every cycle of
heal-dispatcher, and the loads of configuration and keys in model-router
(`model-router/src/runtime.rs:322-399`, `1157`). `MCIpcStream_memory` and
`MCIpcStream_dropped` show what those uses cost.

Abstractions: one life of a connection; the hotel's handler answers requests in
order, one reply each.

### HealDispatch

`rows` is the table; a deleted row keeps its index. A pattern stands for a tag
and a guest. `Poll`, `Triage`, `FileLookup`, `FileReply`, `ExecuteAction`,
`Resolve` are `dispatch_cycle` and `process_row`, one IPC request per step.
`CutOff` is a timeout, a broken connection or (with `crash`) the death of the
dispatcher; the request under way moves to `late`, where `ServeLate` may still
serve it at any time and `DropLate` may lose it. `FileLookup` and `FileReply`
split `handle_file_heal_work_item` where its lookup ends, because two handlers
may interleave there. `VacuumAbandoned` and `VacuumOld` are the two statements
of the hourly task.

Abstractions: the text classifiers are data (a row's pattern is its class); the
read-modify-write of the grant is atomic, and so is the close of an item;
pushes by the environment succeed; the scan limit of `push_error` is left out,
as a collapsed line and an inserted one are both behaviours.

### GuestSupervisor

`rec` is the guest record of the context graph, `procs` the processes that
really run, `children` those the materializer tracks. Tasks (`Sup` and the IPC
handlers `Reqs`) have a label, a guest and the pid they read. Each reads a
record, waits for the mutex and acts on what it read, so these are separate
steps: `Boot*` is `materialize_all`; `Reconcile`, `Visit*`, `Refresh` and
`Respawn` are one round of `reconcile_all`; `Ensure*` is `ensure_guest_active`; `Watch`,
`Judge`, `Reap` and `ReapClear` are the watchdog of the heal dispatcher;
`Demand`, `RestartComponent`, `HealRestart`, `Activate`, `Deactivate` and
`RemoveComponent` are the requests. `charged` is a history of the budget.
What the code does and the model keeps: the time a role was last active is
stamped by a respawn only, so a TTL counts from there; `ensure_guest_active`
does not ask the budget; the mark of an exhausted budget is a write of its own
after the verdict (`MarkExhausted`, `ClearMark`), which may fail with a warning,
and survives the hotel, so no property promises it;
an inactive guest whose pid the materializer does not track is not killed.

Abstractions: `set_guest_*` reads and writes a record in one step; pids are not
reused; an orderly shutdown, which reaps the children, is left out.

### CronTicker

`job` is each hotel's record; `pc` and `held` are the ticker of a hotel and the
record it works on. The parts of `fire` are steps: `Fire` takes the record,
`Deliver`, `Announce` and `Advance` deliver the task, queue the announcement
and write the advanced record back. `out` holds events that are not in the ledger
yet and die with the hotel; `Publish` moves them to `mesh`. `Receive` is
`handle_cron_fired_broadcast` or `handle_cron_job_sync`. `Register`,
`SetEnabled` and `RemoveJob` are the job requests, each with its sync event. A
registration always makes a new id, so a second registration of the same id is
not a behaviour.

Abstractions: an occurrence is a number and `NextFire` what `next_fire_after`
computes; the offset is 0 unless configured, and hotels that share one both
fire; the web form that registers a job for the present moment is left out.
`fired` counts the fires of an occurrence: the task is in the ledger and was
offered to its role. `reached` records the ones that got to an inbox or were
parked: a role with neither a record nor a subscriber (fault `deserted`) leaves
the task in the ledger, where `fire` has claimed it and nobody else takes it, and
the announcement and the advance follow all the same. The properties of the runs
are about fires; that a fire is no delivery is section 8, `MCCronTicker_ledger`.

`calm` is the condition of `StaggerSuffices` and `ReplicasAgree`. Four things end
it: a clock step while anything is pending (an event on its way, a fire under
way, a hotel down), the loss of an event, and a request or a crash while anything
is pending or an occurrence is due. Repeated events, and requests and crashes at
other times, do not. Without it both fail: an `EnableCronJob` while a
`CronFired` is in flight replicates a record that undoes the announcement, the
occurrence fires again, and the records may differ for good.

### LeaseAuthority

Grant, confirm, lapse, expire, release, restart. A claim is what a seat has
while it may act without asking. `ImplementsAuthority` maps the registry entry
of `PollLease` to owner and fence and the fresh holders that were not told to
terminate (`Claims`) to the claims. A seat on whose record the hotel has cleared
the pid has lost its claim at that moment, for the next acquire evicts it.

### TurnLoop

`session` mirrors `SessionState`: the active turn, `parkedA` (approval),
`parkedP` (plan discussion), the queue, the policy. The philote is one task, so
a handler is one step; inside it the requests to the hotel fail independently,
and a *cut* says after which one the handler returned with an error (`none`,
`sync`: the checkpoint was not written, `close`: the ledger was not told,
`reply`: nothing was emitted). `disk` is what `from_checkpoint` would restore:
of an active turn only one that waits for a tool, and no queue. `wire` holds
requests to models and tool runners; a request says whose message it carries
and, to a model, with which note its plan was confirmed. A model's answer is any
of its actions.
`ReceiveMessage` is `handle_user_message` with the approval commands. Its first
fork is `ObserveDirectly`: a message that is a `life.observe` command starts a
turn of its own over whatever turn is active, without a look at
`requires_approval`, emits its one call and completes the turn, all in one
handler. `ApplyObservation` is the short way of a `life.observe` result: a reply
at once, or one repair by the model.
`ReceiveAnswer` the model and tool answers, `Evict*`, `EscalateModel` and
`CatchAll` are `evict_timed_out_turns`, `DropQueued` is the pruning of the queue.
`told` is what the task ledger was told, `ruled` a history of the operator's
decisions.

Left out: voice, paracrine requests (which also start a turn over an active
one), scripted loops, plan carry-over and
continuation, fallback overrides and probes, the routing oracle, inline tools,
the queue arbiter. Reasons to stop iterating (streaks, plan extensions of the
cap) are a choice; of the approval policy only `auto_approve_all` is kept; an
unbound tool is a failed answer; `DropQueued` drops any message, as ages are not
modelled.

## 3. Runs that pass

| Run | Bounds | What it shows |
|---|---|---|
| `mesh_delivery` | 2 events to one hotel, batch and channel of 2, 1 fault | `NoUnackedDeletion`, `CursorIsReceipt`, `NoGapOnWire`: what a cursor settles was sent, processed and reclaimed in order; `SingleDeliveryPerLife`; `CursorNeverRegresses`; `EventuallyAcked` |
| `inbox` | 2 tasks, 2 connections, at most three of these four taking part; wedge threshold 2 | `NoTaskVanishes`: a task is in one of the places the code keeps it, or was given up by a path that says so; `GaugeMatchesChannel`: `enqueued - drained` is the channel, but for the two-step senders; `DuplicatesAreRequeues`; `ParkedOnce` |
| `lease` | 2 seats (one with a guest record), TTL 2, any 2 faults of 9 kinds | `FreshHolderOwns`: a seat stamped on its present connection less than a TTL ago, and not told to terminate since, is the registered owner; `EpochsAreUnique`; `SomeonePolls`; `ImplementsAuthority` |
| `ipc_replies` | 3 requests, 2 tasks, 1 broadcast, safe and unsafe uses mixed | `OwnReply`, `StaleIsOwed` while the guest keeps to the safe uses; `TasksInOrder` and `Answered` |
| `heal_dispatch` | 2 failures, threshold 2, 1 item, 1 fault of 4 kinds | `RepeatNeedsRefusal`: the heal action of a row runs again only for a triage that the store refused; `WorkItemsAreBacked`: no occurrence is counted twice; `Settles` |
| `guest_supervisor` | the dispatcher with a TTL, 1 handler, budget 1 in a window of 2, 1 request of 6 kinds, 1 fault of 5 kinds | `WindowBudget`: no more respawns are charged to a window than the budget; `OnDemandSpawnsOnce`: no on-demand spawn beside a pid on record; `Recovers`: a guest that should run comes back, after a breach of its budget once a clean window has passed |
| `cron` | 2 hotels staggered by 1, occurrences 2 and 3, 1 request of 4 kinds, 1 fault of 4 kinds | `NoEpochSkipped`: nobody moves a guaranteed job past an occurrence nobody fired; `StaggerSuffices`, `ReplicasAgree`: in calm times (section 2) an occurrence is fired once, and the records are equal when all is done |
| `cron_fires` | the same without requests | `EpochsFire`: every occurrence of an enabled guaranteed job is fired in the end |
| `turns` | 2 messages of 4 kinds (one gated, one with a turn id of its own), 2 tool calls (one gated, one always), queue 1, cap 2, one fallback tier, 1 command, 1 fault, 1 restart | `OneHome`: a message is active, parked or queued in one place; `FinalIsFinal`: a turn reported as ended is in no slot of the session nor of the checkpoint; `NothingRunsUnasked`: a call of the unconditional gate, and every request of a turn whose message is gated, wait for the operator's ruling, unless the message is a `life.observe` command; `TurnsEndTold`: a turn does not leave the session unreported unless a request failed, the process ended, the watchdog took it along with a parked one or a `life.observe` command overwrote it; `TurnsEnd`: the active slot and the one for approvals are empty again and again |

Why these bounds. The interesting cases need two of something: two events to
overtake each other, two frames for a gauge to be off by one, two seats to
compete, two requests for a reply to go astray. One fault breaks a protocol
step, a second one breaks its recovery, which `lease` has. `mesh_delivery`,
`guest_supervisor` and `cron` have one fault, as their retries, their watchdog
and their events already interleave with it, and their theorems cover any
number; `heal_dispatch` has one because it also checks liveness, and
`HealDispatch_faults.cfg` checks its invariants with two. `turns` has one
fault next to a restart and a command. Bounds
on retransmitted copies (`MaxCopies`), queued commands (`ChanCap`), faults
(`MaxFaults`), requests, tasks, rows and items are constants that appear in the
guards they bound. Several targets and local events are covered by the
theorems of `MeshDeliveryProofs`, which hold for any `TargetOf`, and so is the
eviction of claims, which the run's two events never force. Deadlock is
checked where the system runs for ever (`PollLease`, `HealDispatch`, and
`CronTicker`, whose idle tickers go on ticking) and not where the
inputs are finite and the rest may be quiet, nor in `GuestSupervisor`, whose
supervisor really stops (finding 3).

`FewParties` bounds `inbox`: a state in which both connections and both tasks
have taken part is not explored further. Two tasks over one connection, and one
task over two, each with a wedged or dying guest, are; the fourth party adds
states and no new pair of steps, and the theorems of `InboxDeliveryProofs` have
no such bound. `HealDispatch_faults.cfg` checks the type invariant of
`HealDispatch` as well.

## 4. Fairness

- Mesh: the writer thread, the inbound loops and the dispatcher are loops that
  never return, so weak fairness for their steps. One tick serves the targets
  one after the other and the dispatcher returns to each, so strong fairness
  for `DispatchForTarget`; likewise for the reading of a message, whose
  connection has a task of its own but whose turn the loop's queue decides.
  None for faults, which are bounded, and none for `Emit`.
- Lease: the runtime loops, the connection handlers, the delivery of a signal
  that was sent, the respawn by the guest supervisor and the clock. None for `Probe` alone: it is part of the loop.
- IPC: the handler serves what it reads, a waiting client reads. None for
  `Timeout`, tasks or broadcasts.
- Heal: the dispatcher's loop, the clock, the hourly vacuum. None for
  `ServeLate`: a request given up may stay unserved for ever.
- Guests: the supervisor's loop and the handlers never return, and the mutex is
  fair (tokio queues its waiters), so strong fairness for the steps that wait
  for it; a process that was signalled exits; the clock.
- Cron: the ticker of each hotel, its start, the publishing of its events, the
  inbound loops, the clock. Weak fairness is enough as faults are bounded.
- Turns: only the watchdog, which runs on every pass of the loop and every 5 s
  when idle. Nothing is assumed of models, tools or the user. A turn parked for
  an approval is promised its end only while no turn is active, because its
  clock is read in that case. The assumption behind it is that no IPC call of
  a handler hangs, as the philote is one task.

## 5. Proofs

Every theorem holds for all values of the constants that satisfy the module's
named assumptions: any number of events, hotels, seats, requests, and faults.
Every safety invariant, action property and refinement of the passing runs is
stated by one. The inductive invariants were checked with TLC as invariants of
instances like those of the runs (`ClaimInv` with two faults and 9.5 million
states) before they were proved.

**MeshDelivery** (`ConstantsAssumption`). `IndInv` is `TypeOK` and

- `SeqInv`: sequence numbers are positive in the ledger, distinct, at most
  `lastSeq`;
- `AppendOnceInv`: an event waits in the channel at most once and has no row
  while it does; without it an append could give an event a second number;
- `FlightInv`: everything on the wire, in an inbound loop or in an ack command
  stems from a sent event, and every ack from an event its target processed;
- `BatchInv`: below an event of the batch at hand every event of the same
  target is sent or in the batch. It carries `NoGapOnWire` through the loop;
- `NoGapOnWire` and `NoUnackedDeletion` themselves. They need each other: the
  query can skip an event only if it left the ledger, so only if a cursor
  covers it, so (by `FlightInv`) only if a later event was sent, and then
  (`NoGapOnWire`) it was sent as well.

From it: `TypeCorrect`, `LedgerSafety`, `NoGap`, `CumulativeAckCoversSent`,
`CursorSafety`, and `CursorMonotone` for the action property.
`OneDeliveryPerLife` has an invariant of its own, `ClaimInv`: while the claims
of all events fit, a claim queue has an event once, and an event handed over in
this life is still claimed. The step that could break it is an eviction. Distinct
claims that all differ from the arriving event are fewer than the events
(`RoomForOneMore`, the pigeonhole principle), so nothing is evicted.

**InboxDelivery** (`InboxAssumption`). Four invariants beside `TypeInv`:

- `GaugeInv`, with `OpenedInv` (a connection that was not opened has no frame,
  no counter and no sender, and a handler has something to count only while it
  flushes): the counters differ from the channel by exactly the deliveries and
  handlers between push and count. From it: `GaugeExact`.
- `ParkedInv`: the parked list has a task once, and nobody else parks or watches
  a task that its caller still has. Without the second part a caller could park
  what a watcher parked already. From it: `ParkedAtMostOnce`.
- `TakenInv` and `AccountInv`: a caller lets go of a task only when somebody
  answers for it, where a frame sent under watch does not count but its watcher
  does; a frame known to be written was read or died in its socket. From them:
  `TasksDoNotVanish`.
- `HomeInv`: a task that was neither parked again nor sent to two connections
  can reach the guest, or has reached it, from one place only (its caller, the
  parked list, a flush, a connection yet to be served, a channel, the guest).
  From it: `DuplicatesExplained`.

**PollLease** (`LeaseAssumption`). `IndInv` is `TypeOK` with `ConnInv`
(the connection of a seat and that of its last grant are among those it has
dialed, a grant is not of a future life, a seat that is down has none, and a
record is without a pid only while the process is gone or told to go),
`FreshHolderOwns`, `EpochInv` (no epoch of the present life exceeds
`nextEpoch`, and a holder of the registered epoch is its owner) and
`EpochsAreUnique`. `ConnInv` makes the number of a new connection
differ from every earlier one, so a grant over an old connection never looks
fresh, and a late end-of-file never hits a new grant. From it: `TypeCorrect`, `Ownership`,
`EpochFencing`, and `MutualExclusion` (of the fresh holders that were not told to
terminate, two are one seat). `DoomedExit` says that a seat told to terminate
does so before it holds anything again.

**IpcStream** (`StreamAssumption`). `IndInv` is `BaseInv /\ (Safe => SafeInv)`.
`BaseInv` holds whatever the guest does: `TypeOK`, every reply on the stream is
of a served request (`RepliesAreServed`), replies are in order
(`RepliesInOrder`), none is missing between the read and the served ones
(`NoReplyMissing`), frames without a number are pushes (`OthersArePushes`), and
`StaleBound`. `SafeInv` is the part that counts: requests that wait for ever
are not given up (`ForeverWaits`), `OwedExactly`, and `AllOwn`. The argument: the
next reply on the stream answers request `read + 1`; with the counter exact,
`stale = 0` says that this is the request that waits. From it: `TypeCorrect`,
`RepliesMatch`, `OwedRepliesCounted`. `TasksArriveInOrder` needs `BaseInv` only,
so it holds for unsafe uses too: the tasks in `pending_push` followed by the
stream are those after the last one handed out, ascending and without a gap, and
reading a frame either drops something that is no task or moves a task from the
head of the stream to the end of `pending_push`. `Safe` excludes a lease request bounded
by `send_request_with_timeout`, which no caller issues: its owed reply is
skipped without being counted, so the counter would stay one too high.

**LeaseAuthority** (in `PollLeaseProofs`, `LeaseAssumption`). `Refinement` is
`Spec => ImplementsAuthority`: `RegistryStep` says what a step of `PollLease`
can do to the registry entry, `ClaimsOfOwner` that the
claims are at most the owner's (by `IndInv`, before and after the step),
and `AuthorityNext` puts them together action by action.

**HealDispatch** (`HealAssumption`).

- `HealInv` bounds the *uses* of a row: how often its action ran, the actions
  among the requests given up that the hotel may still serve, and the one the
  dispatcher is about to send, together at most one more than its refused
  triages. It needs that a batch has a row once, and that a request given up is
  told from all others by the number of its fault. A row that is in a batch and
  not triaged yet, or still pending, has no more uses than refusals. From it:
  `RepeatsAreRefusals`.
- `TypeInv` adds the ledgers, the windows, and that the item a filing found has
  its pattern. From it: `TypeCorrect`.
- `BackInv`: the counts of the items are no measure of what was filed, because
  a bump writes the count it read earlier plus its own, and so loses the bumps
  in between. `BackInv` says that there is a sequence `b`, for each item what
  went into it, lost bumps included, that bounds the item's count and every
  count read from it; and that `b`, the counts of the requests under way or
  given up, and the window add up to no more than the occurrences recorded so
  far (one for every row that is past its triage and one for each refusal). TLC
  checked it with the largest count read for `b`. From it: `EvidenceIsReal`.

Both rest on lemmas about `Total`, the sum of a function over a finite set
(`Total` of a part, of a function changed at one argument, of a larger one).

**GuestSupervisor** (`SupervisorAssumption`). The type invariant includes the
correspondence between the mutex and the labels of the steps that hold it.
`Accounted` relates budget and history: while the budget is not exhausted every
charged respawn of the window is in the ledger's list, once it is exhausted
none was charged after the breach. `Vacant`: a task about
to spawn on demand has cleared the recorded pid and holds the mutex. From them:
`TypeCorrect`, `WindowRespected`, `NoSecondSpawn`.

**CronTicker** (`CronAssumption`, `NextFireAssumption`, `NoJobAssumption`). `CronInv` is `TypeOK`
with `Sound` for every copy of the record (at a hotel, held by a ticker, in an
event that is queued or on the mesh): no occurrence below its next one is
unfired; an event says only what was fired; a ticker that announces or
advances has fired. The copies need it all at once, because a sync event
overwrites a record with an old copy. From it: `TypeCorrect`, `FiredAtLeastOnce`.
`CalmInv` is about calm times: nothing ran before its time, and the mesh is in one of five modes around a record `b`. *Resting*: all have
`b` and nothing is under way. *Replacing*: a request puts another record in its
place, and whoever still has `b` has the event coming; a hotel that is down, or
has restarted and advertises `b` again, is the case of `b` in its own place. *Local*: each hotel runs
an occurrence of a job that is not guaranteed. *Spreading*: the occurrence is
run and announced, and each hotel is before, in or past it; one that is before
it has the announcement coming, unless somebody has yet to make it, and its turn
has not passed. *Ending*: the last occurrence, whose announcement no hotel
heeds. A request or a crash finds the mesh resting before the next occurrence;
the clock moves only when nothing is pending, so the mesh leaves `Spreading`
before the next hotel's turn. An event that comes twice changes nothing the
second time. From it: `AtMostOnceWhenCalm`,
`ReplicasStayInStep`. Neither speaks of the last occurrence, where hotels do
fire twice and part ways (section 8, `MCCronTicker_last`).

**TurnLoop** (`TurnAssumption`, `NoneIsNoTurn`). `TurnInv` is `InOrder` with the
bounds of the counters and the emptiness of a philote that has not loaded its
session. `InOrder` is one predicate, `StateOk`, of session, drained messages,
checkpoint, requests, ledger, rulings and known messages:

- a message is in one slot, or once in the queue, or once among the drained
  ones; the checkpoint has it in one slot and only if it does not wait. Without
  the checkpoint a restart could bring back a message that waits as well;
- one that the ledger was told has ended is in none of these places, and a
  message nobody has sent yet is nowhere;
- a turn whose call or message needs a ruling has it, or asks for it and is
  parked, or (for its message) is the turn of a `life.observe` command, in the
  session and in the checkpoint; an open request carries the same mark.

A handler is cut into the stages it has in the code (the message is taken, a
turn goes on, parks or ends, the checkpoint is written), each with a lemma that
`StateOk` survives it under each cut, so that the steps share them. From
`TurnInv`: `TypeCorrect`, `MessageInOnePlace`, `ClosedStaysClosed`,
`OperatorAskedFirst`, and, with what each step tells the ledger,
`NoTurnVanishes` for the action property; there a `life.observe` command is
recognised by its call on the wire and by its own task, of which the ledger
hears in the very step that overwrites the active turn. `NoneIsNoTurn` says of the model value
`None` that it is not a turn record.

## 6. What is only model-checked

Liveness: `EventuallyAcked`, `SomeonePolls`, `Answered`, `Settles`, `Recovers`,
`EpochsFire` and `TurnsEnd` are checked under the fairness of section 4 on the
instances of section 3; proofs from fairness, and of `ENABLED`, are out of the
prover's reach. Nothing is proved about the disagreements of sections 7 and 8,
which are counterexamples.

## 7. Findings

Each has a run that TLC ends with a counterexample.

1. `mesh_ack_loses_event` (`aiua/service/mesh_runtime.rs:369`). The ack names
   the highest seq of a one-event batch and settles every lower seq. Events
   travel on separate connections: the message of seq 1 is dropped after a
   successful write, that of seq 2 is read, and event 1 is deleted undelivered.
   `crates/philotic-primitives-mesh/src/beacon.rs:248` calls the message "An
   acknowledgment of durably received execution-plane events".
2. `ipc_memory_refresh_hangs` (`crates/philotic-client/src/lib.rs:3128`). The
   reply of `RefreshMemoryConfig` is a `MuninnStatus`, which is classified as a
   push and set aside, so `send_request` never returns. Line 1430: "Responds
   with [`IpcResponse::MuninnStatus`]."
3. `guest_ttl_deadlock` (`aiua/service/guest_manager.rs:927`). `reconcile_all`
   takes the materializer's mutex at line 889 and locks it again before it
   reclaims the process of a role past its TTL. The task waits for itself, the
   process keeps running and no guest is supervised any more. Line 893:
   "deactivate it rather than respawning".

## 8. Further disagreements

These configurations are kept beside the runs; TLC refutes each one.

| Configuration | Definition | Code | What is said |
|---|---|---|---|
| `MCMeshDelivery_acked_committed` | `AckedWasCommitted` | `mesh_runtime.rs:452` acknowledges without waiting for the commit (the open defect DEF-059) | `beacon.rs:248` "durably received" |
| `MCInboxDelivery_repark` | `ReparkNeverDuplicates` | `ipc.rs:3584`: the watcher's target counts frames sent by others meanwhile; a guest that read the task and died before those gets it again | `ipc.rs:111-114` "re-parking cannot duplicate" |
| `MCInboxDelivery_confirm` | `ConfirmedIsFlushed` | `ipc.rs:180` pushes, then counts; a watcher may read a target that is too low | `ipc.rs:3579-3580` "every frame enqueued so far (ours included)" |
| `MCInboxDelivery_stranded` | `ParkedReachesLiveGuest` | `role_materialization.rs:1064`: a guest registers between the check and the parking | `role_materialization.rs:31`, parked tasks are flushed on registration |
| `PollLease_silent` | `OwnerPolls` | `crates/membrane-telegram/src/lib.rs:3016`: the re-probe clears the stand-down before a setup that fails; the next tick acquires the lease and nobody polls | line 3015 "Full seat rebuild: token fetch, lease acquire, poll loop." |
| `PollLease_pollers` | `OnePoller` | `crates/membrane/src/runtime.rs:214`: a poll task outlives its connection | `TELEGRAM_POLL_LEASE_PROPOSAL.md:89`, one poller at a time |
| `MCIpcStream_dropped` | `NoForeignReply` | `heal-dispatcher/src/main.rs:232` drops a request's future and goes on, as `model-router/src/runtime.rs:322` does | `main.rs:55-58`, a late reply would desynchronize the stream |
| `HealDispatch_inflight` | `InFlightIsReprocessed` | `heal_queue.rs:675`: a row whose request timed out after its triage stays `assigned`, and no poll returns it | `crates/heal-dispatcher/src/main.rs:458-460` "it is reprocessed next cycle" |
| `HealDispatch_terminal` | `TerminalStays` | `heal_queue.rs:706`: `UPDATE ... WHERE id`, whatever the status | `heal_queue.rs:728-729`, both statuses are terminal |
| `HealDispatch_open` | `OneOpenItem` | `ipc.rs:10126`: lookup and upsert are separate, and a bump reopens | `heal_queue.rs:39-40`, at most one open item |
| `HealDispatch_notice` | `NoticeAwaitsReview` | `ipc.rs:10264` pushes a notice that the dispatcher polls and resolves | `ipc.rs:10249-10252`, unresolved, awaiting review |
| `MCGuestSupervisor_watch` | `FreshDispatcherIsSpared` | `dispatcher_heartbeat_is_stale` looks at the time a pid was first seen only while no heartbeat was ever written, so an old heartbeat condemns a new process | `guest_manager.rs:1094-1096`, "a just-spawned dispatcher is never judged against a heartbeat left over from its predecessor" |
| `MCGuestSupervisor_double` | `SupervisorSpawnsOnce` | `guest_manager.rs:935`: the decision to spawn comes from the snapshot, and the re-read under the mutex tests `is_active` only | the supervisor skips a "stale snapshot respawn" |
| `MCGuestSupervisor_inactive` | `InactiveStops` | `handle_set_component_active` kills the pid it read; a process spawned since then stays, and the record that named it is cleared | `handle_set_component_active`, "Kill the process if running, then mark inactive." |
| `MCCronTicker_last` | `AnnouncedFiresOnce` | `aiua/main.rs:868-873`: without a next occurrence the announcement is dropped and the peer fires too | `aiua/main.rs:837-840`, the peer "suppresses its staggered-offset fire for the same epoch" |
| `MCCronTicker_removed` | `RemovedStaysRemoved` | a ticker writes back the record it read before the removal | `aiua/main.rs:3851` "This cannot be undone." |
| `MCCronTicker_missed` | `MissedIsSkipped` | `cron_ticker.rs:296`: an overdue job that is not guaranteed is fired whatever its age | `DISTRIBUTED_CRON_PROPOSAL.md:116` "missed intervals are silently skipped" |
| `MCCronTicker_ledger` | `DeliveredAtLeastOnce` | `ipc.rs:3475-3486`: a task whose role has no subscriber "stays ledger-only", and `cron_ticker.rs:577-582` announces and advances it as fired | `DISTRIBUTED_CRON_PROPOSAL.md:46` "At-least-once delivery." |
| `TurnLoop_evicted` | `EvictedStaysEvicted` | `philote/turn_loop.rs:346-349` clears the active turn and the parked approval, not the parked plan, which a later message resumes | lines 40-41, the user is told "the session is unblocked" |
| `TurnLoop_idle` | `ParkedMeansIdle` | a message that arrives while a turn is parked becomes active | `turn_loop.rs:159` "active_turn is None when parked" |
| `TurnLoop_locked` | `LockedNeedsApproval` | a denial with a note keeps the pending call, and a later request by the model under `auto_approve_all` runs it | `philote/tool_exec.rs:469` "This cannot be preapproved or bypassed by policy." |
| `TurnLoop_overwritten` | `NotOverwritten` | `philote/runtime.rs:2708-2722`: a `life.observe` command reaches `start_turn` (`memory_integration.rs:1871`) with no look at the active turn | `runtime.rs:2899-2901`, a message is queued "rather than overwriting the active turn" |
| `TurnLoop_gate` | `GatedTextWaits` | the same fork emits the call of a gated message at once; a gated message that confirms a plan goes to the model as its note (`runtime.rs:2752-2760`, `session/mod.rs:3499-3500`) | `runtime.rs:3198-3199`, "if the inbound task requires operator approval before model invocation, park the turn" |

Read in the turn loop while modelling it, kept in the model, and without a
configuration of their own: a denial without a note, and an approval of a turn
without a call, leave the turn active until the 600 s catch-all; a second
parking for approval overwrites the first turn; `handle_tool_result` looks at
neither turn id nor phase; a resumed plan asks under `turn_id = task_id` while
its membrane may have supplied another one, so the answer is dropped as stale
and the watchdog ends the turn; evictions, parkings and local commands do not
drain the queue, and a message that waits for 120 s is dropped with a log line.

## 9. Plan

Order of the work, the most important first. Stages 1 to 10 are done.

1. `MeshDelivery` with its proofs: the durable path between hotels.
2. `InboxDelivery`: the volatile path into a guest.
3. `PollLease` with its proofs.
4. `IpcStream` with its proofs: what the other models take for granted.
5. `HealDispatch`.
6. `GuestSupervisor` with its proofs.
7. `CronTicker` with its proofs.
8. `LeaseAuthority`, implemented by `PollLease`, with its proof.
9. `TurnLoop`: turns, approvals, watchdog.
10. Proofs for `InboxDelivery`, `HealDispatch` and `TurnLoop`, and for the
    properties of the other modules that had none.
11. An abstract at-least-once queue for the ledger and dispatcher of
    `MeshDelivery`.
12. Membership, registry and heartbeat; the credential pool's cooldown and
    rotation; autonomy postures.

## 10. Running

In this directory:

    tlc -workers 2 -config PollLease_lease.cfg PollLease
    tlapm PollLeaseProofs.tla

`PROJECT.json` maps every definition that models code to its source lines, and
lists runs, mutants, findings, hazards and theorems.
