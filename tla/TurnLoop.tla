------------------------------ MODULE TurnLoop ------------------------------
(***************************************************************************)
(* The turn loop of a philote, for one session: the active turn, the turns *)
(* parked for an approval or for the discussion of a plan, the queue of    *)
(* messages behind them, the watchdog, the checkpoint the hotel keeps, and *)
(* the requests to models and tool runners that are not answered yet.      *)
(*                                                                         *)
(* The philote is one task: a handler runs to its end before the next one  *)
(* starts, so a handler is one step.  Inside it the requests to the hotel  *)
(* may fail one after the other: a handler writes the checkpoint, then     *)
(* reports to the task ledger, then emits, and returns at the first error. *)
(* A cut says where it stopped.                                            *)
(***************************************************************************)
EXTENDS Naturals, Sequences, FiniteSets

CONSTANTS
  Tasks,        \* messages of the user that can start a turn
  GatedTasks,   \* those with requires_approval
  Named,        \* those whose membrane supplied a turn_id of its own
  Tools,        \* tool calls, a name with its arguments
  Gated,        \* those with approval_required in their policy annotation
  Locked,       \* those of unconditional_approval_gate
  Observes,     \* those of life.observe that state a claim
  Direct,       \* the life.observe call of a message that is such a command
  QueueCap,     \* QUEUE_DEPTH_CAP
  IterationCap, \* settings.execution.iteration_cap
  MaxTier,      \* last fallback tier
  MaxCommands,  \* approval commands the user may send
  MaxFaults,    \* failed requests, lost and repeated answers
  MaxRestarts,  \* restarts of the process
  None

ASSUME TurnAssumption ==
  /\ GatedTasks \subseteq Tasks /\ Named \subseteq Tasks
  /\ Gated \subseteq Tools /\ Locked \subseteq Tools /\ Observes \subseteq Tools
  /\ None \notin Tasks \cup Tools \cup {Direct} /\ Direct \notin Tools
  /\ QueueCap \in Nat /\ IterationCap \in Nat /\ MaxTier \in Nat
  /\ MaxCommands \in Nat /\ MaxFaults \in Nat /\ MaxRestarts \in Nat

VARIABLES
  session,  \* SessionState: active, parked turns, pending_user_tasks, policy
  loaded,   \* the process has the session in its map
  drains,   \* pending_drains
  disk,     \* the session's checkpoint in the hotel
  wire,     \* requests to models and tool runners, until they are answered
  told,     \* what the ledger was told of a task
  ruled,    \* history: what the operator decided on which request
  seen,     \* tasks that have come
  commands, \* approval commands so far
  faults,   \* faults so far
  restarts  \* restarts so far

budgets == <<seen, commands, restarts>>
vars == <<session, loaded, drains, disk, wire, told, ruled, budgets, faults>>

(* A command is answered by its handler and needs no identity.             *)
Commands == {"approve", "approveNote", "trust", "deny", "denyNote", "clear"}
Starters == {"text", "local", "abandon", "observe"}
Messages == [kind : Starters, task : Tasks] \cup [kind : Commands, task : {None}]

Cuts == {"none", "sync", "close", "reply"}

NoSession == [active |-> None, parkedA |-> None, parkedP |-> None,
              queue |-> <<>>, trusted |-> FALSE]

Init ==
  /\ session = NoSession /\ loaded = TRUE /\ drains = <<>>
  /\ disk = NoSession
  /\ wire = {}
  /\ told = [t \in Tasks |-> {}]
  /\ ruled = {}
  /\ seen = {} /\ commands = 0 /\ faults = 0 /\ restarts = 0
-----------------------------------------------------------------------------
(* What a handler does to the hotel.  e holds the requests, the drained    *)
(* messages and the ledger as the handler has made them so far.            *)

(* from_checkpoint keeps an active turn only in WaitingTool; the queue is  *)
(* not part of the checkpoint.                                             *)
Checkpoint(s) ==
  [s EXCEPT !.active = IF @ # None /\ @.phase = "WaitingTool" THEN @ ELSE None,
            !.queue = <<>>]

Finish(s, e, c) ==
  /\ session' = s
  /\ disk' = IF c = "sync" THEN disk ELSE Checkpoint(s)
  /\ wire' = e.wire /\ drains' = e.drains /\ told' = e.told

Effects(w, rest) == [wire |-> w, drains |-> rest, told |-> told]

Tell(e, t, word, c) ==
  IF c \in {"sync", "close"} THEN e ELSE [e EXCEPT !.told[t] = @ \cup {word}]

Emit(e, x, c) == IF c = "none" THEN [e EXCEPT !.wire = @ \cup {x}] ELSE e

Cut(c) ==
  /\ c # "none" => faults < MaxFaults
  /\ faults' = IF c = "none" THEN faults ELSE faults + 1

TurnId(t) == <<IF t \in Named THEN "turn" ELSE "task", t>>

(* A request goes under a turn id; what it says comes from turn t: its     *)
(* message and, to a model, the note with which its plan was confirmed.    *)
Request(to, id, t, tool, note) ==
  [to |-> to, id |-> id, n |-> t.iter, tool |-> tool,
   task |-> t.task, direct |-> t.direct, note |-> note]
ModelRequest(id, t) == Request("model", id, t, None, t.note)
ToolRequest(t) == Request("tool", TurnId(t.task), t, t.tool, None)

(* Mutant: the session is not checkpointed at the end of a turn.           *)
EndTurnUnsaved(s, word, e, c) ==
  /\ session' = [s EXCEPT !.active = None]
  /\ told' = Tell(e, s.active.task, word, c).told
  /\ wire' = e.wire /\ drains' = e.drains /\ UNCHANGED disk

(* The end of a turn, and drain_next_user_task if nothing failed.          *)
EndTurn(s, word, e, c) ==
  LET idle == [s EXCEPT !.active = None]
      told_ == Tell(e, s.active.task, word, c) IN
  IF c = "none" /\ s.queue # <<>>
    THEN Finish([idle EXCEPT !.queue = Tail(@)],
                [told_ EXCEPT !.drains = Append(@, Head(s.queue))], c)
    ELSE Finish(idle, told_, c)

DeliverTextReply(s, e, c) == EndTurn(s, "delivered", e, c)
FailActiveTurn(s, e, c) == EndTurn(s, "failed", e, c)

(* The turn goes on as t and waits for a model's answer under this turn id. *)
AskModel(s, t, id, e, c) ==
  Finish([s EXCEPT !.active = t], Emit(e, ModelRequest(id, t), c), c)
-----------------------------------------------------------------------------
(* Tools, approvals, plans and providers.                                  *)

(* handle_tool_result once a turn is active: the result goes to that turn, *)
(* and the request that follows carries the turn id of the result.         *)
ApplyToolResult(s, id, tool, failed, e, c) ==
  LET t == s.active
      call == IF t.tool = None THEN tool ELSE t.tool
      u == [t EXCEPT !.done = IF failed THEN @ ELSE @ \cup {call}, !.tool = None,
                     !.iter = @ + 1, !.phase = "WaitingModel"] IN
  \/ failed /\ FailActiveTurn(s, e, c)
  \/ u.iter > IterationCap /\ DeliverTextReply(s, e, c)
  \/ AskModel(s, u, id, e, c)

(* The part of route_tool_call_execution behind the gate.  A call that     *)
(* already succeeded in this turn is answered on the spot.  A checkpoint   *)
(* that fails does not stop the dispatch.                                  *)
RunTool(s, tool, e, c) ==
  LET t == [s.active EXCEPT !.tool = tool, !.phase = "WaitingTool"] IN
  IF tool \in t.done
    THEN ApplyToolResult(s, TurnId(t.task), tool, FALSE, e, c)
    ELSE Finish([s EXCEPT !.active = t],
                Emit(e, ToolRequest(t), IF c = "sync" THEN "none" ELSE c), c)

(* Mutant: the turn is copied to its parking place.                        *)
ParkCopies(s, subject, e, c) ==
  Finish([s EXCEPT !.parkedA = [s.active EXCEPT !.phase = "WaitingApproval",
                                                !.ask = subject]], e, c)

(* A gated call, a request of the model or the gate of a task parks the    *)
(* turn; a turn already parked is overwritten.                             *)
ParkForApproval(s, subject, e, c) ==
  Finish([s EXCEPT !.active = None,
                   !.parkedA = [s.active EXCEPT !.phase = "WaitingApproval",
                                                !.ask = subject]], e, c)

(* Mutant: the session's policy preapproves every call.                    *)
TrustedNeedsNone(s, tool) == tool \in Locked \cup Gated /\ ~s.trusted

(* unconditional_approval_gate, then approval_policy_allows.               *)
NeedsApproval(s, tool) == tool \in Locked \/ (tool \in Gated /\ ~s.trusted)

HandleToolCall(s, tool, e, c) ==
  IF NeedsApproval(s, tool)
    THEN ParkForApproval([s EXCEPT !.active.tool = tool], tool, e, c)
    ELSE RunTool(s, tool, e, c)

(* handle_approval_request, for a request the model makes of its own.  One *)
(* that the policy allows goes on with the pending tool call.              *)
HandleApprovalRequest(s, e, c) ==
  LET u == [s EXCEPT !.active.phase = "Thinking"] IN
  CASE ~s.trusted -> ParkForApproval(s, "request", e, c)
    [] s.trusted /\ c \in {"sync", "close"} -> Finish(u, e, c)
    [] OTHER -> IF u.active.tool = None THEN DeliverTextReply(u, e, c)
                                        ELSE RunTool(u, u.active.tool, e, c)

HandlePlanProposal(s, e, c) ==
  Finish([s EXCEPT !.active = None,
                   !.parkedP = [s.active EXCEPT !.phase = "PlanningDiscussion"]], e, c)

(* retry_active_turn_after_provider_failure.                               *)
RetryTurn(s, t, id, e, c) ==
  AskModel(s, [t EXCEPT !.iter = @ + 1, !.phase = "WaitingModel", !.repaired = TRUE],
           id, e, c)

(* handle_tool_result when life.observe answers a turn that waits for it:  *)
(* the reply is delivered at once, or the model gets one chance to repair  *)
(* its call.                                                               *)
ApplyObservation(s, id, failed, e, c) ==
  \/ /\ failed /\ s.active.tool # Direct /\ ~s.active.repaired
     /\ RetryTurn(s, [s.active EXCEPT !.tool = None], id, e, c)
  \/ DeliverTextReply(s, e, c)

(* Mutant: the ladder has no end.                                          *)
NextTierAlways(s, e, c) ==
  AskModel(s, [s.active EXCEPT !.tier = @ + 1, !.iter = @ + 1, !.phase = "WaitingModel"],
           TurnId(s.active.task), e, c)

(* advance_turn_to_next_fallback_tier.  A turn whose tier the operator     *)
(* pinned fails at once.                                                   *)
NextTier(s, e, c) ==
  LET t == s.active IN
  \/ /\ t.tier < MaxTier
     /\ AskModel(s, [t EXCEPT !.tier = @ + 1, !.iter = @ + 1, !.phase = "WaitingModel"],
                 TurnId(t.task), e, c)
  \/ FailActiveTurn(s, e, c)
-----------------------------------------------------------------------------
(* Messages of the user: handle_user_message.                              *)

NewTurn(t, phase) ==
  [task |-> t, phase |-> phase, iter |-> 0, tool |-> None, ask |-> None,
   tier |-> 0, repaired |-> FALSE, restreamed |-> FALSE, done |-> {},
   note |-> None, direct |-> FALSE]

(* The gate of a task with requires_approval parks its turn before any     *)
(* model sees it.                                                          *)
GateTask(t, e, c) ==
  ParkForApproval([session EXCEPT !.active = NewTurn(t, "LoadingContext")], "task", e, c)

(* The turn becomes WaitingModel only after the first checkpoint and the   *)
(* ledger's update.                                                        *)
StartTurn(t, e, c) ==
  LET u == NewTurn(t, "LoadingContext") IN
  AskModel(session, IF c \in {"sync", "close"} THEN u
                    ELSE [u EXCEPT !.phase = "WaitingModel", !.iter = 1],
           TurnId(t), e, c)

(* A session command runs as a turn and ends it with complete_local_command, *)
(* which does not drain the queue.                                           *)
LocalTurn(t, e, c) ==
  Finish([session EXCEPT !.active =
            IF c = "sync" THEN NewTurn(t, "LoadingContext") ELSE None],
         Tell(e, t, "delivered", c), c)

(* handle_direct_life_observe_command.  It looks neither for an active     *)
(* turn, which it overwrites, nor at requires_approval.  The turn ends     *)
(* with complete_local_command as soon as the call is out, between two     *)
(* checkpoints; when the tool is not enabled there is no turn.             *)
ObserveDirectly(t, e, c) ==
  LET u == [NewTurn(t, "WaitingTool") EXCEPT !.tool = Direct, !.direct = TRUE]
      begun == [session EXCEPT !.active = u]
      ended == [session EXCEPT !.active = None]
      out == Emit(e, ToolRequest(u), "none") IN
  \/ /\ c # "sync" /\ UNCHANGED <<session, disk>>
     /\ wire' = e.wire /\ drains' = e.drains /\ told' = Tell(e, t, "failed", c).told
  \/ c \in {"sync", "close"} /\ Finish(begun, e, c)
  \/ /\ c = "sync" /\ session' = ended /\ disk' = Checkpoint(begun)
     /\ wire' = out.wire /\ drains' = e.drains /\ told' = e.told
  \/ c # "sync" /\ Finish(ended, Tell(out, t, "delivered", c), c)

(* The plan gate: the next message confirms the parked plan, whatever it   *)
(* says, unless it is /abandon.  Unless it just says yes it becomes a note *)
(* that the model reads.  The request carries the task id.                 *)
ConfirmPlan(t, e, c) ==
  \E note \in {t, None} :
    AskModel([session EXCEPT !.parkedP = None],
             [session.parkedP EXCEPT !.phase = "WaitingModel", !.note = note],
             <<"task", session.parkedP.task>>, e, c)

CancelPlan(e, c) ==
  FailActiveTurn([session EXCEPT !.active = session.parkedP, !.parkedP = None], e, c)

Enqueue(m, e) ==
  /\ IF Len(session.queue) >= QueueCap
       THEN UNCHANGED session /\ told' = Tell(e, m.task, "busy", "none").told
       ELSE UNCHANGED told /\ session' = [session EXCEPT !.queue = Append(@, m)]
  /\ wire' = e.wire /\ drains' = e.drains /\ UNCHANGED disk

HandleStarter(m, e, c) ==
  /\ UNCHANGED ruled
  /\ CASE m.kind = "observe" -> ObserveDirectly(m.task, e, c)
       [] m.kind # "observe" /\ session.active # None -> c = "none" /\ Enqueue(m, e)
       [] m.kind # "observe" /\ session.active = None /\ session.parkedP # None ->
            IF m.kind = "abandon" THEN CancelPlan(e, c) ELSE ConfirmPlan(m.task, e, c)
       [] OTHER -> CASE m.task \in GatedTasks -> GateTask(m.task, e, c)
                     [] m.task \notin GatedTasks /\ m.kind = "text" -> StartTurn(m.task, e, c)
                     [] OTHER -> LocalTurn(m.task, e, c)

(* resume_turn_with_steering: with a note the turn goes back to the model, *)
(* and its pending tool call stays where it is.                            *)
ResumeWithSteering(s, e, c) ==
  IF c \in {"sync", "close"} THEN Finish(s, e, c)
  ELSE AskModel(s, [s.active EXCEPT !.iter = @ + 1, !.phase = "WaitingModel"],
                TurnId(s.active.task), e, c)

(* An approved turn goes on with its pending tool call, past the gate.     *)
Approve(s, e, c) ==
  LET told_ == Tell(e, s.active.task, "approved", c)
      tool == s.active.tool IN
  \/ (c # "none" \/ tool = None) /\ Finish(s, told_, c)
  \/ c \in {"none", "reply"} /\ tool # None /\ RunTool(s, tool, told_, c)

(* A denied turn stays active, with nothing to wait for.                   *)
Deny(s, e, c) ==
  Finish([s EXCEPT !.active.phase = "Failed"], Tell(e, s.active.task, "denied", c), c)

(* handle_approval_command restores the parked turn.  The policy that the  *)
(* trust button sets was checkpointed before, with the turn still parked.  *)
ResolveApproval(kind, e, c) ==
  LET t == session.parkedA
      s == [session EXCEPT !.parkedA = None, !.trusted = @ \/ kind = "trust",
                           !.active = [t EXCEPT !.ask = None, !.phase = "Thinking"]]
      yes == kind \in {"approve", "approveNote", "trust"} IN
  /\ ruled' = ruled \cup {[task |-> t.task, ask |-> t.ask, yes |-> yes]}
  /\ \/ kind = "trust" /\ c = "sync"
        /\ session' = s /\ disk' = Checkpoint([session EXCEPT !.trusted = TRUE])
        /\ wire' = e.wire /\ drains' = e.drains /\ told' = e.told
     \/ kind \in {"approve", "trust"} /\ Approve(s, e, c)
     \/ kind = "deny" /\ Deny(s, e, c)
     \/ kind \in {"approveNote", "denyNote"} /\ ResumeWithSteering(s, e, c)

(* No approval is pending.  The trust button still sets the policy, whose  *)
(* checkpoint may fail unnoticed.                                          *)
NothingPending(kind, e, c) ==
  /\ c \in {"none", "sync"}
  /\ UNCHANGED ruled
  /\ IF kind = "trust" THEN Finish([session EXCEPT !.trusted = TRUE], e, c)
     ELSE /\ c = "none"
          /\ wire' = e.wire /\ drains' = e.drains /\ UNCHANGED <<session, disk, told>>

HandleApproval(m, e, c) ==
  CASE session.parkedA # None /\ session.active # None ->
         /\ c = "none"
         /\ session' = [session EXCEPT !.queue = <<m>> \o @]
         /\ wire' = e.wire /\ drains' = e.drains /\ UNCHANGED <<disk, told, ruled>>
    [] session.parkedA # None /\ session.active = None -> ResolveApproval(m.kind, e, c)
    [] OTHER -> NothingPending(m.kind, e, c)

(* handle_approval_clear.                                                  *)
HandleClear(e, c) ==
  /\ UNCHANGED ruled
  /\ IF session.parkedA = None
       THEN NothingPending("clear", e, c)
       ELSE Finish([session EXCEPT !.parkedA = None],
                   Tell(e, session.parkedA.task, "failed", c), c)

HandleUserMessage(m, e) ==
  \E c \in Cuts :
    /\ Cut(c)
    /\ CASE m.kind \in Starters -> HandleStarter(m, e, c)
         [] m.kind = "clear" -> HandleClear(e, c)
         [] OTHER -> HandleApproval(m, e, c)

(* The loop takes what was drained before it receives anything else.       *)
ReceiveMessage(m) ==
  /\ loaded /\ drains = <<>>
  /\ IF m.kind \in Starters
       THEN m.task \notin seen /\ seen' = seen \cup {m.task} /\ UNCHANGED commands
       ELSE commands < MaxCommands /\ commands' = commands + 1 /\ UNCHANGED seen
  /\ HandleUserMessage(m, Effects(wire, <<>>))
  /\ UNCHANGED <<loaded, restarts>>

ReceiveDrained ==
  /\ drains # <<>>
  /\ HandleUserMessage(Head(drains), Effects(wire, Tail(drains)))
  /\ UNCHANGED <<loaded, budgets>>
-----------------------------------------------------------------------------
(* Answers.                                                                *)

Ignored(e, c) ==
  c = "none" /\ wire' = e.wire /\ UNCHANGED <<session, disk, drains, told>>

(* An answer that names another turn is dropped.                           *)
StaleAnswer(x) == session.active # None => x.id # TurnId(session.active.task)

(* What the model asks for.  The turn is Thinking meanwhile.               *)
ModelAction(s, e, c) ==
  \/ DeliverTextReply(s, e, c)
  \/ FailActiveTurn(s, e, c)
  \/ HandlePlanProposal(s, e, c)
  \/ HandleApprovalRequest(s, e, c)
  \/ \E tool \in Tools : s.active.iter < IterationCap /\ HandleToolCall(s, tool, e, c)

(* The provider failed: one corrective retry, one more for a stream that   *)
(* stalled, the next tier, or the end.                                     *)
ProviderError(t, e, c) ==
  \/ ~t.repaired /\ RetryTurn(session, t, TurnId(t.task), e, c)
  \/ ~t.restreamed /\ RetryTurn(session, [t EXCEPT !.restreamed = TRUE], TurnId(t.task), e, c)
  \/ NextTier(session, e, c)
  \/ FailActiveTurn(session, e, c)

(* handle_model_response.                                                  *)
ModelAnswer(x, e, c) ==
  \/ StaleAnswer(x) /\ Ignored(e, c)
  \/ /\ ~StaleAnswer(x)
     /\ \/ ModelAction([session EXCEPT !.active.phase = "Thinking"], e, c)
        \/ ProviderError(session.active, e, c)

(* The result is one of life.observe and the active turn waits for one.  A *)
(* result without a tool name passes for that of the pending call.         *)
Observed(x, named) ==
  {session.active.tool} \cup (IF named THEN {x.tool} ELSE {}) \subseteq Observes \cup {Direct}

(* handle_tool_result.  It looks at neither the turn id nor the phase.     *)
ToolAnswer(x, e, c) ==
  \/ session.active = None /\ Ignored(e, c)
  \/ /\ session.active # None
     /\ \E failed, named \in BOOLEAN :
          IF Observed(x, named)
            THEN ApplyObservation(session, x.id, failed, e, c)
            ELSE ApplyToolResult(session, x.id, x.tool, failed, e, c)

(* A second controller on the same role answers too: the request stays.    *)
ReceiveAnswer(x) ==
  /\ drains = <<>>
  /\ x \in wire
  /\ \E c \in Cuts, again \in BOOLEAN :
       LET e == Effects(IF again THEN wire ELSE wire \ {x}, <<>>) IN
       /\ again => c = "none" /\ faults < MaxFaults
       /\ IF again THEN faults' = faults + 1 ELSE Cut(c)
       /\ \/ x.to = "model" /\ loaded /\ ModelAnswer(x, e, c)
          \/ x.to = "tool" /\ ToolAnswer(x, e, c)
  /\ UNCHANGED <<loaded, ruled, budgets>>

LoseAnswer(x) ==
  /\ x \in wire /\ faults < MaxFaults
  /\ wire' = wire \ {x} /\ faults' = faults + 1
  /\ UNCHANGED <<session, loaded, drains, disk, told, ruled, budgets>>
-----------------------------------------------------------------------------
(* The watchdog: evict_timed_out_turns.  Its own requests may fail without *)
(* stopping it.                                                            *)

(* Mutant: the ledger is not told.                                         *)
EvictSilently(t, s) ==
  /\ session' = s /\ disk' = Checkpoint(s)
  /\ UNCHANGED <<loaded, drains, wire, told, ruled, budgets, faults>>

Evict(t, s) ==
  \E c \in {"none", "sync", "close"} :
    /\ Cut(c)
    /\ session' = s
    /\ disk' = IF c = "sync" THEN disk ELSE Checkpoint(s)
    /\ told' = IF c = "close" THEN told ELSE [told EXCEPT ![t.task] = @ \cup {"evicted"}]
    /\ UNCHANGED <<loaded, drains, wire, ruled, budgets>>

Cleared == [session EXCEPT !.active = None, !.parkedA = None]

(* A parked approval is looked at before anything else, then a parked      *)
(* plan; the active turn goes with either.                                 *)
EvictParked ==
  LET t == IF session.parkedA # None THEN session.parkedA ELSE session.parkedP IN
  loaded /\ t # None /\ Evict(t, Cleared)

EvictActive ==
  /\ loaded /\ session.active # None
  /\ session.parkedA = None /\ session.parkedP = None
  /\ session.active.phase \in {"Thinking", "WaitingTool"}
  /\ Evict(session.active, Cleared)

EscalateModel ==
  /\ loaded /\ session.active # None
  /\ session.parkedA = None /\ session.parkedP = None
  /\ session.active.phase = "WaitingModel"
  /\ \E c \in Cuts : Cut(c) /\ NextTier(session, Effects(wire, drains), c)
  /\ UNCHANGED <<loaded, ruled, budgets>>

(* Mutant: the catch-all looks only at turns that wait for an answer.      *)
CatchAllWaiting ==
  /\ loaded /\ session.active # None
  /\ session.active.phase \in {"WaitingModel", "WaitingTool", "Thinking"}
  /\ Evict(session.active, Cleared)

(* MAX_TOTAL_ACTIVE_SECS, in any phase.                                    *)
CatchAll ==
  loaded /\ session.active # None /\ Evict(session.active, Cleared)

(* evict_stale_queued_tasks.                                               *)
DropQueued(i) ==
  /\ loaded /\ i \in 1..Len(session.queue)
  /\ session' = [session EXCEPT !.queue =
                   SubSeq(@, 1, i - 1) \o SubSeq(@, i + 1, Len(@))]
  /\ UNCHANGED <<loaded, drains, disk, wire, told, ruled, budgets, faults>>
-----------------------------------------------------------------------------
(* The process dies and comes back.  The sweep of sweep_stale_session_turns *)
(* drops the active turn of the checkpoint, unless the hotel is late.       *)
Restart ==
  /\ restarts < MaxRestarts
  /\ restarts' = restarts + 1
  /\ session' = NoSession /\ loaded' = FALSE /\ drains' = <<>>
  /\ \/ disk' = [disk EXCEPT !.active = None] /\ UNCHANGED faults
     \/ UNCHANGED disk /\ faults < MaxFaults /\ faults' = faults + 1
  /\ UNCHANGED <<wire, told, ruled, seen, commands>>

(* ensure_session_loaded, with which a message or a model's answer begins. *)
(* If the hotel is late the session starts empty.                          *)
LoadSession ==
  /\ ~loaded
  /\ loaded' = TRUE
  /\ \/ session' = disk /\ UNCHANGED faults
     \/ session' = NoSession /\ faults < MaxFaults /\ faults' = faults + 1
  /\ UNCHANGED <<drains, disk, wire, told, ruled, budgets>>

Next ==
  \/ \E m \in Messages : ReceiveMessage(m)
  \/ ReceiveDrained
  \/ \E x \in wire : ReceiveAnswer(x) \/ LoseAnswer(x)
  \/ EvictParked \/ EvictActive \/ EscalateModel \/ CatchAll
  \/ \E i \in 1..Len(session.queue) : DropQueued(i)
  \/ Restart \/ LoadSession

Spec == Init /\ [][Next]_vars

(* Every pass of the loop, and every five seconds without a message, runs  *)
(* the watchdog, and its deadlines pass.  The clock of a parked turn starts *)
(* over whenever the active turn moves, so only a parked turn with no      *)
(* active one beside it is sure to be evicted.                             *)
FairSpec ==
  /\ Spec
  /\ WF_vars(CatchAll)
  /\ WF_vars(session.active = None /\ EvictParked)
-----------------------------------------------------------------------------
Phases == {"LoadingContext", "WaitingModel", "Thinking", "WaitingTool",
           "WaitingApproval", "PlanningDiscussion", "Failed"}
Calls == Tools \cup {Direct}
Turns ==
  [task : Tasks, phase : Phases, iter : Nat, tool : Calls \cup {None},
   ask : Tools \cup {"task", "request", None}, tier : 0..MaxTier,
   repaired : BOOLEAN, restreamed : BOOLEAN, done : SUBSET Calls,
   note : Tasks \cup {None}, direct : BOOLEAN]
(* The place holder for no turn is not one.                                *)
ASSUME NoneIsNoTurn == None \notin Turns

Sessions ==
  [active : Turns \cup {None}, parkedA : Turns \cup {None}, parkedP : Turns \cup {None},
   queue : Seq(Messages), trusted : BOOLEAN]
Ids == {"turn", "task"} \X Tasks
Requests ==
  [to : {"model", "tool"}, id : Ids, n : Nat, tool : Calls \cup {None},
   task : Tasks, direct : BOOLEAN, note : Tasks \cup {None}]
Rulings == [task : Tasks, ask : Tools \cup {"task", "request"}, yes : BOOLEAN]
Words == {"delivered", "failed", "evicted", "busy", "approved", "denied"}

(* The philote's session and its checkpoint are session states: a parked   *)
(* turn has the phase its park gives it.                                   *)
TypeOK ==
  /\ session \in Sessions /\ disk \in Sessions
  /\ loaded \in BOOLEAN /\ drains \in Seq(Messages)
  /\ wire \subseteq Requests
  /\ told \in [Tasks -> SUBSET Words]
  /\ ruled \subseteq Rulings
  /\ seen \subseteq Tasks
  /\ commands \in 0..MaxCommands /\ faults \in 0..MaxFaults
  /\ restarts \in 0..MaxRestarts

Slots == {"active", "parkedA", "parkedP"}
Holds(s, t) == {p \in Slots : s[p] # None /\ s[p].task = t}
Waits(q, t) == {i \in 1..Len(q) : q[i].task = t}

(* A message is in one place: it is the active turn, or a parked one, or   *)
(* it waits in the queue, or it was drained, and never two of these, over  *)
(* parking, restoring, deferring, eviction and restart.                    *)
OneHome ==
  \A t \in Tasks :
    Cardinality(Holds(session, t)) + Cardinality(Waits(session.queue, t))
      + Cardinality(Waits(drains, t)) <= 1

(* Once deliver_text_reply, fail_active_turn, complete_local_command or    *)
(* handle_approval_clear closed a task in the ledger, its turn is gone     *)
(* from memory and from the checkpoint: no restart, late answer or         *)
(* approval brings it back.                                                *)
FinalIsFinal ==
  \A t \in Tasks :
    told[t] \cap {"delivered", "failed", "busy"} # {} =>
      /\ Holds(session, t) = {} /\ Holds(disk, t) = {}
      /\ Waits(session.queue, t) = {} /\ Waits(drains, t) = {}

(* A call of unconditional_approval_gate reaches no tool runner, and the   *)
(* turn of a message with requires_approval asks no model and no tool      *)
(* runner, before the operator has ruled on the request that was made for  *)
(* it.  The gate does not see a message that is a life.observe command,    *)
(* nor one that confirms a plan: see GatedTextWaits.                       *)
NothingRunsUnasked ==
  \A x \in wire :
    /\ x.tool \in Locked =>
         \E r \in ruled : r.task = x.task /\ r.ask = x.tool
    /\ x.task \in GatedTasks /\ ~x.direct =>
         \E r \in ruled : r.task = x.task /\ r.ask = "task"

(* An active turn does not vanish: if no request failed and the process    *)
(* lives on, the step that ends it without parking it tells the ledger     *)
(* about its task, except when the watchdog takes it along with the parked *)
(* turn it evicts, and when a life.observe command overwrites it: see      *)
(* NotOverwritten.                                                         *)
Told(t) == told'[t.task] \cap {"delivered", "failed", "evicted"} # {}
Overwrites ==
  \E x \in wire' : x.tool = Direct /\ "delivered" \in told'[x.task] \ told[x.task]
EndsTold ==
  \/ session.active = None \/ faults' # faults \/ restarts' # restarts
  \/ Holds(session', session.active.task) # {}
  \/ Told(session.active)
  \/ \E p \in {"parkedA", "parkedP"} : session[p] # None /\ Told(session[p])
  \/ Overwrites
TurnsEndTold == [][EndsTold]_vars

(* The session is free again and again: no turn stays active or parked for *)
(* an approval for good, because the watchdog's phase limits and its       *)
(* catch-all end every one, whatever phase it is in.                       *)
TurnsEnd == \A p \in {"active", "parkedA"} : []<>(session[p] = None)
-----------------------------------------------------------------------------
(* A call that "cannot be preapproved or bypassed by policy" runs only     *)
(* after the operator approved it.                                         *)
LockedNeedsApproval ==
  \A x \in wire :
    x.tool \in Locked =>
      \E r \in ruled : r.task = x.task /\ r.ask = x.tool /\ r.yes

(* The text of a message that "requires operator approval before model     *)
(* invocation" reaches no model and no tool runner before the operator has *)
(* ruled on it, as a turn's message or as a note.                          *)
GatedTextWaits ==
  \A x \in wire : \A t \in {x.task, x.note} \cap GatedTasks :
    \E r \in ruled : r.task = t /\ r.ask = "task"

(* A message that comes while a turn is active waits "rather than          *)
(* overwriting the active turn": the turn stays, or the ledger is told of  *)
(* it.                                                                     *)
NotOverwritten ==
  [][seen' # seen /\ faults' = faults /\ session.active # None =>
       Holds(session', session.active.task) # {} \/ Told(session.active)]_vars

(* A turn that the watchdog evicted, telling the user that the session is  *)
(* unblocked, does not become active again.                                *)
EvictedStaysEvicted ==
  session.active # None => "evicted" \notin told[session.active.task]

(* No turn is active while one is parked for an approval, as the watchdog  *)
(* assumes when it looks at the parked turn only.                          *)
ParkedMeansIdle == session.parkedA # None => session.active = None
=============================================================================
