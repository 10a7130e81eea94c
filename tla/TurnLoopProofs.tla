--------------------------- MODULE TurnLoopProofs ---------------------------
(***************************************************************************)
(* Proofs about TurnLoop, for every set of messages and tool calls and     *)
(* every bound.                                                            *)
(***************************************************************************)
EXTENDS TurnLoop, FiniteSetTheorems, SequenceTheorems, TLAPS

-----------------------------------------------------------------------------
(***************************************************************************)
(* What a turn may do: the operator has ruled on what is asked of him      *)
(***************************************************************************)

Ruled(ru, t, a) == \E r \in ru : r.task = t /\ r.ask = a

Subjects == Tools \cup {"task", "request"}

\* An active turn, or one parked with its plan.
Asked(ru, t) ==
  /\ t.task \in GatedTasks /\ ~t.direct => Ruled(ru, t.task, "task")
  /\ t.tool \in Locked => Ruled(ru, t.task, t.tool)

\* A turn parked for an approval: the open request is the one that is missing.
AskedBut(ru, t) ==
  /\ t.ask \in Subjects
  /\ t.task \in GatedTasks /\ ~t.direct => t.ask = "task" \/ Ruled(ru, t.task, "task")
  /\ t.tool \in Locked => t.ask = t.tool \/ Ruled(ru, t.task, t.tool)

AskedSession(ru, s) ==
  /\ s.active # None => Asked(ru, s.active)
  /\ s.parkedP # None => Asked(ru, s.parkedP)
  /\ s.parkedA # None => AskedBut(ru, s.parkedA)

AskedRequest(ru, x) ==
  /\ x \in Requests
  /\ x.to = "tool" => x.tool \in Calls
  /\ x.tool \in Locked => Ruled(ru, x.task, x.tool)
  /\ x.task \in GatedTasks /\ ~x.direct => Ruled(ru, x.task, "task")

-----------------------------------------------------------------------------
(***************************************************************************)
(* A handler that works on a turn lets it go on, parks it or ends it       *)
(***************************************************************************)

EffectSet == [wire : SUBSET Requests, drains : Seq(Messages), told : [Tasks -> SUBSET Words]]

Ready(s, e, c) ==
  /\ s \in Sessions /\ s.active \in Turns /\ e \in EffectSet /\ c \in Cuts
  /\ Asked(ruled', s.active)
  /\ \A x \in e.wire : AskedRequest(ruled', x)

Saved(c) == disk' = IF c = "sync" THEN disk ELSE Checkpoint(session')

GoesOn(s, e, c) ==
  /\ \E u \in Turns : /\ u.task = s.active.task /\ Asked(ruled', u)
                      /\ session' = [s EXCEPT !.active = u]
  /\ Saved(c) /\ drains' = e.drains /\ told' = e.told
  /\ \A x \in wire' : AskedRequest(ruled', x)

Parks(s, e, c) ==
  /\ \E u \in Turns :
       /\ u.task = s.active.task
       /\ \/ AskedBut(ruled', u) /\ session' = [s EXCEPT !.active = None, !.parkedA = u]
          \/ Asked(ruled', u) /\ session' = [s EXCEPT !.active = None, !.parkedP = u]
  /\ Saved(c) /\ drains' = e.drains /\ wire' = e.wire /\ told' = e.told

Ends(s, e, c) == EndTurn(s, "delivered", e, c) \/ EndTurn(s, "failed", e, c)

Outcome(s, e, c) == GoesOn(s, e, c) \/ Parks(s, e, c) \/ Ends(s, e, c)

LEMMA TurnIds ==
  ASSUME NEW t \in Tasks
  PROVE  TurnId(t) \in Ids /\ <<"task", t>> \in Ids
BY DEF TurnId, Ids

LEMMA NoneNotLocked == None \notin Locked /\ None \notin Calls /\ Direct \notin Locked
BY TurnAssumption DEF Calls

\* A request to a model asks for no tool.
LEMMA ModelAsked ==
  ASSUME NEW ru, NEW id \in Ids, NEW t \in Turns, Asked(ru, t)
  PROVE  AskedRequest(ru, ModelRequest(id, t))
<1> DEFINE x == ModelRequest(id, t)
<1>1. /\ x.to = "model" /\ x.tool = None /\ x.task = t.task /\ x.direct = t.direct
      /\ x \in [to : {"model"}, id : {id}, n : {t.iter}, tool : {None}, task : {t.task},
                 direct : {t.direct}, note : {t.note}]
  BY DEF ModelRequest, Request
<1>2. /\ t.iter \in Nat /\ t.task \in Tasks /\ t.direct \in BOOLEAN
      /\ t.note \in Tasks \cup {None}
  BY DEF Turns
<1> HIDE DEF x
<1>3. x \in Requests
  BY <1>1, <1>2 DEF Requests
<1> QED BY <1>1, <1>3, NoneNotLocked DEF AskedRequest, Asked, x

\* A request to a tool runner asks for the turn's call.
LEMMA ToolAsked ==
  ASSUME NEW ru, NEW t \in Turns, Asked(ru, t), t.tool \in Calls
  PROVE  AskedRequest(ru, ToolRequest(t))
<1> DEFINE x == ToolRequest(t)
<1>1. /\ x.to = "tool" /\ x.tool = t.tool /\ x.task = t.task /\ x.direct = t.direct
      /\ x \in [to : {"tool"}, id : {TurnId(t.task)}, n : {t.iter}, tool : {t.tool},
                 task : {t.task}, direct : {t.direct}, note : {None}]
  BY DEF ToolRequest, Request
<1>2. t.iter \in Nat /\ t.task \in Tasks /\ t.direct \in BOOLEAN
  BY DEF Turns
<1>3. TurnId(t.task) \in Ids
  BY <1>2, TurnIds
<1> HIDE DEF x
<1>4. x \in Requests
  BY <1>1, <1>2, <1>3 DEF Requests
<1> QED BY <1>1, <1>4 DEF AskedRequest, Asked, x

LEMMA AskModelGoesOn ==
  ASSUME NEW s, NEW e, NEW c, Ready(s, e, c), NEW t \in Turns, NEW id \in Ids,
         t.task = s.active.task, Asked(ruled', t), AskModel(s, t, id, e, c)
  PROVE  GoesOn(s, e, c)
<1> DEFINE x == ModelRequest(id, t)
<1>1. /\ session' = [s EXCEPT !.active = t] /\ Saved(c)
      /\ wire' = Emit(e, x, c).wire /\ drains' = Emit(e, x, c).drains
      /\ told' = Emit(e, x, c).told
  BY DEF AskModel, Finish, Saved
<1>2. AskedRequest(ruled', x)
  BY ModelAsked
<1> HIDE DEF x
<1>3. drains' = e.drains /\ told' = e.told /\ wire' \subseteq e.wire \cup {x}
  BY <1>1 DEF Emit, Ready, EffectSet
<1> QED BY <1>1, <1>2, <1>3 DEF GoesOn, Ready

LEMMA ApplyToolResultOutcome ==
  ASSUME NEW s, NEW e, NEW c, Ready(s, e, c), NEW id \in Ids, NEW tool \in Calls,
         NEW failed \in BOOLEAN, ApplyToolResult(s, id, tool, failed, e, c)
  PROVE  Outcome(s, e, c)
<1> DEFINE t == s.active
           call == IF t.tool = None THEN tool ELSE t.tool
           kept == IF failed THEN t.done ELSE t.done \cup {call}
           u == [t EXCEPT !.done = kept, !.tool = None,
                          !.iter = @ + 1, !.phase = "WaitingModel"]
<1>1. t \in Turns /\ Asked(ruled', t)
  BY DEF Ready
<1>2. call \in Calls
  BY <1>1 DEF Turns
<1>a. kept \in SUBSET Calls /\ t.iter + 1 \in Nat /\ "WaitingModel" \in Phases
  BY <1>1, <1>2 DEF Turns, Phases
<1>5. \/ FailActiveTurn(s, e, c) \/ DeliverTextReply(s, e, c) \/ AskModel(s, u, id, e, c)
  BY DEF ApplyToolResult
<1> HIDE DEF kept
<1>3. u \in Turns /\ u.task = t.task /\ u.tool = None /\ u.direct = t.direct
  BY <1>1, <1>a DEF Turns
<1>4. Asked(ruled', u)
  BY <1>1, <1>3, NoneNotLocked DEF Asked
<1> HIDE DEF u
<1> QED BY <1>3, <1>4, <1>5, AskModelGoesOn DEF Outcome, Ends, FailActiveTurn, DeliverTextReply

LEMMA RunToolOutcome ==
  ASSUME NEW s, NEW e, NEW c, Ready(s, e, c), NEW tool \in Calls,
         tool \in Locked => Ruled(ruled', s.active.task, tool),
         RunTool(s, tool, e, c)
  PROVE  Outcome(s, e, c)
<1> DEFINE t == [s.active EXCEPT !.tool = tool, !.phase = "WaitingTool"]
           x == ToolRequest(t)
           cut == IF c = "sync" THEN "none" ELSE c
<1>0. s.active \in Turns /\ Asked(ruled', s.active) /\ s.active.task \in Tasks
  BY DEF Ready, Turns
<1>1. /\ t \in Turns /\ t.task = s.active.task /\ t.tool = tool /\ t.done = s.active.done
      /\ t.direct = s.active.direct
  BY <1>0 DEF Turns, Phases
<1>2. Asked(ruled', t)
  BY <1>0, <1>1 DEF Asked
<1>3. CASE tool \in t.done
  <2>1. ApplyToolResult(s, TurnId(t.task), tool, FALSE, e, c)
    BY <1>3 DEF RunTool
  <2>2. TurnId(t.task) \in Ids
    BY <1>0, <1>1, TurnIds
  <2> HIDE DEF t
  <2> QED BY <2>1, <2>2, ApplyToolResultOutcome
<1>4. CASE tool \notin t.done
  <2>1. Finish([s EXCEPT !.active = t], Emit(e, x, cut), c)
    BY <1>4 DEF RunTool
  <2>2. AskedRequest(ruled', x)
    BY <1>1, <1>2, ToolAsked
  <2> HIDE DEF x, t
  <2>3. /\ session' = [s EXCEPT !.active = t] /\ Saved(c)
        /\ wire' = Emit(e, x, cut).wire /\ drains' = Emit(e, x, cut).drains
        /\ told' = Emit(e, x, cut).told
    BY <2>1 DEF Finish, Saved
  <2>4. drains' = e.drains /\ told' = e.told /\ wire' \subseteq e.wire \cup {x}
    BY <2>3 DEF Emit, Ready, EffectSet
  <2> QED BY <1>1, <1>2, <2>2, <2>3, <2>4 DEF Outcome, GoesOn, Ready
<1> QED BY <1>3, <1>4

\* Parking takes the active turn, whatever was written into it on the way.
LEMMA ParkForApprovalParks ==
  ASSUME NEW s, NEW e, NEW c, Ready(s, e, c), NEW t \in Turns, t.task = s.active.task,
         NEW subject \in Subjects, AskedBut(ruled', [t EXCEPT !.ask = subject]),
         ParkForApproval([s EXCEPT !.active = t], subject, e, c)
  PROVE  Parks(s, e, c)
<1> DEFINE u == [t EXCEPT !.phase = "WaitingApproval", !.ask = subject]
<1>0. s \in Sessions
  BY DEF Ready
<1>1. /\ u \in Turns /\ u.task = t.task /\ u.tool = t.tool /\ u.ask = subject
      /\ u.direct = t.direct /\ [t EXCEPT !.ask = subject].direct = t.direct
      /\ [t EXCEPT !.ask = subject].ask = subject
      /\ [t EXCEPT !.ask = subject].task = t.task /\ [t EXCEPT !.ask = subject].tool = t.tool
  BY DEF Turns, Phases, Subjects
<1>2. AskedBut(ruled', u)
  BY <1>1 DEF AskedBut
<1>3. [s EXCEPT !.active = t].active = t
  BY <1>0 DEF Sessions
<1>4. /\ session' = [[s EXCEPT !.active = t] EXCEPT !.active = None, !.parkedA = u]
      /\ Saved(c) /\ wire' = e.wire /\ drains' = e.drains /\ told' = e.told
  BY <1>3 DEF ParkForApproval, Finish, Saved
<1> HIDE DEF u
<1>5. session' = [s EXCEPT !.active = None, !.parkedA = u]
  BY <1>0, <1>4 DEF Sessions
<1> QED BY <1>1, <1>2, <1>4, <1>5 DEF Parks

LEMMA HandleToolCallOutcome ==
  ASSUME NEW s, NEW e, NEW c, Ready(s, e, c), NEW tool \in Tools,
         HandleToolCall(s, tool, e, c)
  PROVE  Outcome(s, e, c)
<1>1. CASE NeedsApproval(s, tool)
  <2> DEFINE t == [s.active EXCEPT !.tool = tool]
  <2>0. s.active \in Turns /\ Asked(ruled', s.active)
    BY DEF Ready
  <2>1. /\ t \in Turns /\ t.task = s.active.task
        /\ [t EXCEPT !.ask = tool].task = t.task /\ [t EXCEPT !.ask = tool].tool = tool
        /\ [t EXCEPT !.ask = tool].ask = tool
        /\ [t EXCEPT !.ask = tool].direct = s.active.direct
    BY <2>0 DEF Turns, Calls
  <2>2. AskedBut(ruled', [t EXCEPT !.ask = tool])
    BY <2>0, <2>1 DEF AskedBut, Asked, Subjects
  <2>3. ParkForApproval([s EXCEPT !.active = t], tool, e, c)
    BY <1>1 DEF HandleToolCall
  <2>4. tool \in Subjects
    BY DEF Subjects
  <2> HIDE DEF t
  <2> QED BY <2>1, <2>2, <2>3, <2>4, ParkForApprovalParks DEF Outcome
<1>2. CASE ~NeedsApproval(s, tool)
  <2>1. tool \notin Locked /\ RunTool(s, tool, e, c)
    BY <1>2 DEF HandleToolCall, NeedsApproval
  <2>2. tool \in Calls
    BY DEF Calls
  <2> QED BY <2>1, <2>2, RunToolOutcome
<1> QED BY <1>1, <1>2

\* A turn whose phase changes is the same turn.
LEMMA RephasedReady ==
  ASSUME NEW s, NEW e, NEW c, Ready(s, e, c), NEW phase \in Phases
  PROVE  /\ Ready([s EXCEPT !.active.phase = phase], e, c)
         /\ [s EXCEPT !.active.phase = phase].active = [s.active EXCEPT !.phase = phase]
         /\ [s.active EXCEPT !.phase = phase].task = s.active.task
         /\ [s.active EXCEPT !.phase = phase].tool = s.active.tool
<1> DEFINE t == [s.active EXCEPT !.phase = phase]
<1>0. s \in Sessions /\ s.active \in Turns /\ Asked(ruled', s.active)
  BY DEF Ready
<1>1. /\ t \in Turns /\ t.task = s.active.task /\ t.tool = s.active.tool
      /\ t.direct = s.active.direct
  BY <1>0 DEF Turns
<1>2. [s EXCEPT !.active = t] \in Sessions /\ [s EXCEPT !.active = t].active = t
  BY <1>0, <1>1 DEF Sessions
<1>3. Asked(ruled', t)
  BY <1>0, <1>1 DEF Asked
<1> QED BY <1>1, <1>2, <1>3 DEF Ready

\* What becomes of the rephased turn becomes of the turn.
LEMMA RephasedOutcome ==
  ASSUME NEW s, NEW e, NEW c, Ready(s, e, c), NEW t \in Turns, t.task = s.active.task,
         Outcome([s EXCEPT !.active = t], e, c)
  PROVE  Outcome(s, e, c)
<1> DEFINE r == [s EXCEPT !.active = t]
<1>0. s \in Sessions
  BY DEF Ready
<1>1. /\ r.active = t /\ r.queue = s.queue
      /\ \A u : [r EXCEPT !.active = u] = [s EXCEPT !.active = u]
      /\ \A u : [r EXCEPT !.active = None, !.parkedA = u] = [s EXCEPT !.active = None, !.parkedA = u]
      /\ \A u : [r EXCEPT !.active = None, !.parkedP = u] = [s EXCEPT !.active = None, !.parkedP = u]
  BY <1>0 DEF Sessions
<1> HIDE DEF r
<1>2. GoesOn(r, e, c) => GoesOn(s, e, c)
  BY <1>1 DEF GoesOn
<1>3. Parks(r, e, c) => Parks(s, e, c)
  BY <1>1 DEF Parks
<1>4. \A word : EndTurn(r, word, e, c) => EndTurn(s, word, e, c)
  BY <1>1 DEF EndTurn
<1> QED BY <1>2, <1>3, <1>4 DEF Outcome, Ends, r

LEMMA HandleApprovalRequestOutcome ==
  ASSUME NEW s, NEW e, NEW c, Ready(s, e, c), HandleApprovalRequest(s, e, c)
  PROVE  Outcome(s, e, c)
<1> DEFINE t == [s.active EXCEPT !.phase = "Thinking"]
           u == [s EXCEPT !.active.phase = "Thinking"]
<1>0. s.active \in Turns /\ s \in Sessions /\ Asked(ruled', s.active)
  BY DEF Ready
<1>1. Ready(u, e, c) /\ u.active = t /\ t.task = s.active.task /\ t.tool = s.active.tool
  BY RephasedReady DEF Phases
<1>2. t \in Turns /\ u = [s EXCEPT !.active = t]
  BY <1>0 DEF Turns, Phases
<1>3. CASE ~s.trusted
  <2>1. ParkForApproval(s, "request", e, c)
    BY <1>3 DEF HandleApprovalRequest
  <2>2. s = [s EXCEPT !.active = s.active]
    BY <1>0 DEF Sessions
  <2>3. AskedBut(ruled', [s.active EXCEPT !.ask = "request"])
    <3>1. /\ [s.active EXCEPT !.ask = "request"].task = s.active.task
          /\ [s.active EXCEPT !.ask = "request"].tool = s.active.tool
          /\ [s.active EXCEPT !.ask = "request"].ask = "request"
          /\ [s.active EXCEPT !.ask = "request"].direct = s.active.direct
      BY <1>0 DEF Turns
    <3> QED BY <1>0, <3>1 DEF AskedBut, Asked, Subjects
  <2>4. "request" \in Subjects
    BY DEF Subjects
  <2> QED BY <1>0, <2>1, <2>2, <2>3, <2>4, ParkForApprovalParks DEF Outcome
<1>4. CASE s.trusted /\ c \in {"sync", "close"}
  <2>1. Finish(u, e, c)
    BY <1>4 DEF HandleApprovalRequest
  <2> HIDE DEF u, t
  <2>2. session' = u /\ Saved(c) /\ wire' = e.wire /\ drains' = e.drains /\ told' = e.told
    BY <2>1 DEF Finish, Saved
  <2>3. GoesOn(s, e, c)
    BY <1>1, <1>2, <2>2 DEF GoesOn, Ready
  <2> QED BY <2>3 DEF Outcome
<1>5. CASE s.trusted /\ c \notin {"sync", "close"}
  <2>1. \/ DeliverTextReply(u, e, c)
        \/ u.active.tool # None /\ RunTool(u, u.active.tool, e, c)
    BY <1>5 DEF HandleApprovalRequest
  <2> HIDE DEF u, t
  <2>2. Outcome(u, e, c)
    <3>1. u.active \in Turns /\ Asked(ruled', u.active)
      BY <1>1 DEF Ready
    <3>2. u.active.tool # None => u.active.tool \in Calls
      BY <3>1 DEF Turns
    <3>3. u.active.tool \in Locked => Ruled(ruled', u.active.task, u.active.tool)
      BY <3>1 DEF Asked
    <3> QED BY <1>1, <2>1, <3>2, <3>3, RunToolOutcome DEF Outcome, Ends, DeliverTextReply
  <2> QED BY <1>1, <1>2, <2>2, RephasedOutcome
<1>6. s.trusted \in BOOLEAN
  BY <1>0 DEF Sessions
<1> QED BY <1>3, <1>4, <1>5, <1>6

LEMMA HandlePlanProposalOutcome ==
  ASSUME NEW s, NEW e, NEW c, Ready(s, e, c), HandlePlanProposal(s, e, c)
  PROVE  Outcome(s, e, c)
<1> DEFINE u == [s.active EXCEPT !.phase = "PlanningDiscussion"]
<1>0. s.active \in Turns /\ Asked(ruled', s.active)
  BY DEF Ready
<1>1. /\ u \in Turns /\ u.task = s.active.task /\ u.tool = s.active.tool
      /\ u.direct = s.active.direct
  BY <1>0 DEF Turns, Phases
<1>2. Asked(ruled', u)
  BY <1>0, <1>1 DEF Asked
<1>3. /\ session' = [s EXCEPT !.active = None, !.parkedP = u] /\ Saved(c)
      /\ wire' = e.wire /\ drains' = e.drains /\ told' = e.told
  BY DEF HandlePlanProposal, Finish, Saved
<1> HIDE DEF u
<1> QED BY <1>1, <1>2, <1>3 DEF Outcome, Parks

\* The turn's own id.
LEMMA OwnId ==
  ASSUME NEW t \in Turns
  PROVE  TurnId(t.task) \in Ids
<1>1. t.task \in Tasks
  BY DEF Turns
<1> QED BY <1>1, TurnIds

LEMMA RetryTurnOutcome ==
  ASSUME NEW s, NEW e, NEW c, Ready(s, e, c), NEW t \in Turns, t.task = s.active.task,
         Asked(ruled', t), NEW id \in Ids, RetryTurn(s, t, id, e, c)
  PROVE  Outcome(s, e, c)
<1> DEFINE u == [t EXCEPT !.iter = @ + 1, !.phase = "WaitingModel", !.repaired = TRUE]
<1>1. t.iter + 1 \in Nat /\ "WaitingModel" \in Phases
  BY DEF Turns, Phases
<1>2. u \in Turns /\ u.task = t.task /\ u.tool = t.tool /\ u.direct = t.direct
  BY <1>1 DEF Turns
<1>3. Asked(ruled', u)
  BY <1>2 DEF Asked
<1>4. AskModel(s, u, id, e, c)
  BY DEF RetryTurn
<1> HIDE DEF u
<1> QED BY <1>2, <1>3, <1>4, AskModelGoesOn DEF Outcome

LEMMA ApplyObservationOutcome ==
  ASSUME NEW s, NEW e, NEW c, Ready(s, e, c), NEW id \in Ids, NEW failed \in BOOLEAN,
         ApplyObservation(s, id, failed, e, c)
  PROVE  Outcome(s, e, c)
<1> DEFINE u == [s.active EXCEPT !.tool = None]
<1>0. s.active \in Turns /\ Asked(ruled', s.active)
  BY DEF Ready
<1>1. u \in Turns /\ u.task = s.active.task /\ u.tool = None /\ u.direct = s.active.direct
  BY <1>0 DEF Turns
<1>2. Asked(ruled', u)
  BY <1>0, <1>1, NoneNotLocked DEF Asked
<1>3. RetryTurn(s, u, id, e, c) \/ DeliverTextReply(s, e, c)
  BY DEF ApplyObservation
<1> HIDE DEF u
<1> QED BY <1>1, <1>2, <1>3, RetryTurnOutcome DEF Outcome, Ends, DeliverTextReply

LEMMA NextTierOutcome ==
  ASSUME NEW s, NEW e, NEW c, Ready(s, e, c), NextTier(s, e, c)
  PROVE  Outcome(s, e, c)
<1> DEFINE t == s.active
           u == [t EXCEPT !.tier = @ + 1, !.iter = @ + 1, !.phase = "WaitingModel"]
<1>0. t \in Turns /\ Asked(ruled', t)
  BY DEF Ready
<1>1. CASE FailActiveTurn(s, e, c)
  BY <1>1 DEF Outcome, Ends, FailActiveTurn
<1>2. ASSUME t.tier < MaxTier, AskModel(s, u, TurnId(t.task), e, c) PROVE Outcome(s, e, c)
  <2>1. t.iter + 1 \in Nat /\ t.tier + 1 \in 0..MaxTier /\ "WaitingModel" \in Phases
    BY <1>0, <1>2, TurnAssumption DEF Turns, Phases
  <2>2. u \in Turns /\ u.task = t.task /\ u.tool = t.tool /\ u.direct = t.direct
    BY <1>0, <2>1 DEF Turns
  <2>3. Asked(ruled', u)
    BY <1>0, <2>2 DEF Asked
  <2> HIDE DEF u
  <2> QED BY <1>0, <1>2, <2>2, <2>3, OwnId, AskModelGoesOn DEF Outcome
<1> QED BY <1>1, <1>2 DEF NextTier

\* handle_model_response on a turn that is not stale.
LEMMA ModelActionOutcome ==
  ASSUME NEW s, NEW e, NEW c, Ready(s, e, c), ModelAction(s, e, c)
  PROVE  Outcome(s, e, c)
BY HandlePlanProposalOutcome, HandleApprovalRequestOutcome, HandleToolCallOutcome
   DEF ModelAction, Outcome, Ends, DeliverTextReply, FailActiveTurn

LEMMA ProviderErrorOutcome ==
  ASSUME NEW e, NEW c, Ready(session, e, c), ProviderError(session.active, e, c)
  PROVE  Outcome(session, e, c)
<1> DEFINE t == session.active
           u == [t EXCEPT !.restreamed = TRUE]
<1>0. t \in Turns /\ Asked(ruled', t)
  BY DEF Ready
<1>1. u \in Turns /\ u.task = t.task /\ u.tool = t.tool /\ u.direct = t.direct
  BY <1>0 DEF Turns
<1>2. Asked(ruled', u) /\ TurnId(t.task) \in Ids
  BY <1>0, <1>1, OwnId DEF Asked
<1>3. \/ RetryTurn(session, t, TurnId(t.task), e, c) \/ RetryTurn(session, u, TurnId(t.task), e, c)
      \/ NextTier(session, e, c) \/ FailActiveTurn(session, e, c)
  BY DEF ProviderError
<1> HIDE DEF u
<1> QED BY <1>0, <1>1, <1>2, <1>3, RetryTurnOutcome, NextTierOutcome
        DEF Outcome, Ends, FailActiveTurn

\* handle_tool_result on the active turn.
LEMMA ToolAnswerOutcome ==
  ASSUME NEW x, NEW ru, AskedRequest(ru, x), x.to = "tool", NEW e, NEW c,
         Ready(session, e, c), session.active # None, ToolAnswer(x, e, c)
  PROVE  Outcome(session, e, c)
<1>1. PICK failed \in BOOLEAN : \/ ApplyToolResult(session, x.id, x.tool, failed, e, c)
                                \/ ApplyObservation(session, x.id, failed, e, c)
  BY DEF ToolAnswer
<1>2. x.id \in Ids /\ x.tool \in Calls
  BY DEF AskedRequest, Requests
<1> QED BY <1>1, <1>2, ApplyToolResultOutcome, ApplyObservationOutcome

LEMMA ModelAnswerOutcome ==
  ASSUME NEW x, NEW e, NEW c, Ready(session, e, c), ~StaleAnswer(x), ModelAnswer(x, e, c)
  PROVE  Outcome(session, e, c)
<1> DEFINE t == [session.active EXCEPT !.phase = "Thinking"]
           s == [session EXCEPT !.active.phase = "Thinking"]
<1>1. Ready(s, e, c) /\ t.task = session.active.task
  BY RephasedReady DEF Phases
<1>2. t \in Turns /\ s = [session EXCEPT !.active = t]
  BY DEF Ready, Turns, Phases
<1>3. ModelAction(s, e, c) \/ ProviderError(session.active, e, c)
  BY DEF ModelAnswer
<1> HIDE DEF s, t
<1> QED BY <1>1, <1>2, <1>3, ModelActionOutcome, ProviderErrorOutcome, RephasedOutcome

-----------------------------------------------------------------------------
(***************************************************************************)
(* Where a message is                                                      *)
(***************************************************************************)

On(turn, t) == turn # None /\ turn.task = t
Held(s, t) == On(s.active, t) \/ On(s.parkedA, t) \/ On(s.parkedP, t)
OneSlot(s, t) ==
  /\ ~(On(s.active, t) /\ On(s.parkedA, t))
  /\ ~(On(s.active, t) /\ On(s.parkedP, t))
  /\ ~(On(s.parkedA, t) /\ On(s.parkedP, t))

Queued(q, t) == \E i \in 1..Len(q) : q[i].task = t
QueuedOnce(q, t) == \A i, j \in 1..Len(q) : q[i].task = t /\ q[j].task = t => i = j

Final == {"delivered", "failed", "busy"}
Closed(tl, t) == tl[t] \cap Final # {}

Gone(s, dr, d, t) ==
  ~Held(s, t) /\ ~Held(d, t) /\ ~Queued(s.queue, t) /\ ~Queued(dr, t)

\* A message is in one place of the philote; the checkpoint has it in one slot,
\* and only if it does not wait; a closed one is nowhere.
Placed(s, dr, d, tl, t) ==
  /\ OneSlot(s, t) /\ OneSlot(d, t)
  /\ QueuedOnce(s.queue, t) /\ QueuedOnce(dr, t)
  /\ Held(s, t) => ~Queued(s.queue, t) /\ ~Queued(dr, t)
  /\ Held(d, t) => ~Queued(s.queue, t) /\ ~Queued(dr, t)
  /\ ~(Queued(s.queue, t) /\ Queued(dr, t))
  /\ Closed(tl, t) => Gone(s, dr, d, t)

\* Queues: the first message taken, one added at the end.
LEMMA QueueTail ==
  ASSUME NEW q \in Seq(Messages), q # <<>>, NEW t
  PROVE  /\ Head(q) \in Messages /\ Tail(q) \in Seq(Messages)
         /\ Queued(q, t) <=> Head(q).task = t \/ Queued(Tail(q), t)
         /\ QueuedOnce(q, t) => QueuedOnce(Tail(q), t)
         /\ QueuedOnce(q, t) /\ Head(q).task = t => ~Queued(Tail(q), t)
<1>1. /\ Head(q) \in Messages /\ Tail(q) \in Seq(Messages) /\ Len(q) \in Nat /\ Len(q) > 0
      /\ Head(q) = q[1] /\ Len(Tail(q)) = Len(q) - 1 /\ 1 \in 1..Len(q)
      /\ \A i \in 1..Len(Tail(q)) : Tail(q)[i] = q[i + 1] /\ i + 1 \in 1..Len(q) /\ i + 1 # 1
  OBVIOUS
<1>2. ASSUME NEW i \in 1..Len(q), q[i].task = t PROVE Head(q).task = t \/ Queued(Tail(q), t)
  <2>1. i # 1 => i - 1 \in 1..Len(Tail(q)) /\ Tail(q)[i - 1] = q[i]
    BY <1>1
  <2> QED BY <1>1, <1>2, <2>1 DEF Queued
<1>3. Head(q).task = t \/ Queued(Tail(q), t) => Queued(q, t)
  BY <1>1 DEF Queued
<1>4. ASSUME QueuedOnce(q, t), NEW i \in 1..Len(Tail(q)), NEW j \in 1..Len(Tail(q)),
             Tail(q)[i].task = t, Tail(q)[j].task = t
      PROVE  i = j
  <2>1. i + 1 = j + 1
    BY <1>1, <1>4 DEF QueuedOnce
  <2> QED BY <2>1
<1>5. QueuedOnce(q, t) /\ Head(q).task = t => ~Queued(Tail(q), t)
  BY <1>1 DEF Queued, QueuedOnce
<1> QED BY <1>1, <1>2, <1>3, <1>4, <1>5 DEF Queued, QueuedOnce

LEMMA QueueAppend ==
  ASSUME NEW q \in Seq(Messages), NEW m \in Messages, NEW t
  PROVE  /\ Append(q, m) \in Seq(Messages)
         /\ Queued(Append(q, m), t) <=> Queued(q, t) \/ m.task = t
         /\ QueuedOnce(q, t) /\ (m.task # t \/ ~Queued(q, t)) => QueuedOnce(Append(q, m), t)
<1>1. /\ Append(q, m) \in Seq(Messages) /\ Len(q) \in Nat
      /\ Len(Append(q, m)) = Len(q) + 1 /\ Append(q, m)[Len(q) + 1] = m
      /\ \A i \in 1..Len(q) : Append(q, m)[i] = q[i] /\ i \in 1..Len(q) + 1
      /\ \A i \in 1..Len(q) + 1 : i = Len(q) + 1 \/ i \in 1..Len(q)
      /\ Len(q) + 1 \in 1..Len(q) + 1
  OBVIOUS
<1>2. Queued(Append(q, m), t) <=> Queued(q, t) \/ m.task = t
  BY <1>1 DEF Queued
<1>3. QueuedOnce(q, t) /\ (m.task # t \/ ~Queued(q, t)) => QueuedOnce(Append(q, m), t)
  BY <1>1 DEF Queued, QueuedOnce
<1> QED BY <1>1, <1>2, <1>3

LEMMA QueueEmpty == \A t : ~Queued(<<>>, t) /\ QueuedOnce(<<>>, t)
BY DEF Queued, QueuedOnce

\* A message with no identity put in front.
LEMMA QueuePush ==
  ASSUME NEW q \in Seq(Messages), NEW m \in Messages, NEW t, m.task # t
  PROVE  /\ <<m>> \o q \in Seq(Messages)
         /\ Queued(<<m>> \o q, t) => Queued(q, t)
         /\ QueuedOnce(q, t) => QueuedOnce(<<m>> \o q, t)
<1>1. /\ <<m>> \o q \in Seq(Messages) /\ Len(q) \in Nat
      /\ Len(<<m>> \o q) = Len(q) + 1 /\ (<<m>> \o q)[1] = m
      /\ \A i \in 1..Len(q) + 1 : i # 1 => i - 1 \in 1..Len(q) /\ (<<m>> \o q)[i] = q[i - 1]
  OBVIOUS
<1>2. Queued(<<m>> \o q, t) => Queued(q, t)
  BY <1>1 DEF Queued
<1>3. ASSUME QueuedOnce(q, t), NEW i \in 1..Len(q) + 1, NEW j \in 1..Len(q) + 1,
             (<<m>> \o q)[i].task = t, (<<m>> \o q)[j].task = t
      PROVE  i = j
  <2>1. i # 1 /\ j # 1
    BY <1>1, <1>3
  <2>2. i - 1 = j - 1
    BY <1>1, <1>3, <2>1 DEF QueuedOnce
  <2> QED BY <2>2
<1> QED BY <1>1, <1>2, <1>3 DEF QueuedOnce

\* A message dropped from the middle.
LEMMA QueueDrop ==
  ASSUME NEW q \in Seq(Messages), NEW n \in 1..Len(q), NEW t
  PROVE  LET r == SubSeq(q, 1, n - 1) \o SubSeq(q, n + 1, Len(q)) IN
         /\ r \in Seq(Messages)
         /\ Queued(r, t) => Queued(q, t)
         /\ QueuedOnce(q, t) => QueuedOnce(r, t)
<1> DEFINE a == SubSeq(q, 1, n - 1)
           b == SubSeq(q, n + 1, Len(q))
           r == a \o b
<1>1. /\ a \in Seq(Messages) /\ Len(a) = n - 1
      /\ \A i \in 1..n - 1 : a[i] = q[i]
  OBVIOUS
<1>2. /\ b \in Seq(Messages) /\ Len(b) = Len(q) - n
      /\ \A i \in 1..Len(q) - n : b[i] = q[i + n]
  OBVIOUS
<1>3. Len(q) \in Nat /\ n \in Nat /\ n <= Len(q) /\ n >= 1
  OBVIOUS
<1> HIDE DEF a, b
<1>4. /\ r \in Seq(Messages) /\ Len(r) = Len(q) - 1
      /\ \A i \in 1..Len(r) : r[i] = IF i <= n - 1 THEN a[i] ELSE b[i - (n - 1)]
  <2>1. /\ r \in Seq(Messages) /\ Len(r) = Len(a) + Len(b)
        /\ \A i \in 1..Len(a) + Len(b) : r[i] = IF i <= Len(a) THEN a[i] ELSE b[i - Len(a)]
    BY <1>1, <1>2, ConcatProperties
  <2>2. Len(a) + Len(b) = Len(q) - 1
    BY <1>1, <1>2, <1>3
  <2> HIDE DEF r
  <2> QED BY <1>1, <2>1, <2>2
<1>5. \A i \in 1..Len(r) : r[i] = q[IF i < n THEN i ELSE i + 1]
                           /\ (IF i < n THEN i ELSE i + 1) \in 1..Len(q)
  <2> TAKE i \in 1..Len(r)
  <2>1. CASE i < n
    BY <1>1, <1>3, <1>4, <2>1
  <2>2. CASE ~(i < n)
    BY <1>2, <1>3, <1>4, <2>2
  <2> QED BY <2>1, <2>2
<1> HIDE DEF r
<1>6. Queued(r, t) => Queued(q, t)
  BY <1>5 DEF Queued
<1>7. ASSUME QueuedOnce(q, t), NEW i \in 1..Len(r), NEW j \in 1..Len(r),
             r[i].task = t, r[j].task = t
      PROVE  i = j
  <2>1. (IF i < n THEN i ELSE i + 1) = (IF j < n THEN j ELSE j + 1)
    BY <1>5, <1>7 DEF QueuedOnce
  <2> QED BY <1>3, <1>4, <2>1
<1>8. QueuedOnce(q, t) => QueuedOnce(r, t)
  BY <1>7 DEF QueuedOnce
<1> QED BY <1>4, <1>6, <1>8 DEF r, a, b

\* What the checkpoint keeps of a session.
LEMMA CheckpointKeeps ==
  ASSUME NEW s \in Sessions
  PROVE  /\ Checkpoint(s) \in Sessions /\ Checkpoint(s).queue = <<>>
         /\ Checkpoint(s).active \in {s.active, None}
         /\ Checkpoint(s).parkedA = s.parkedA /\ Checkpoint(s).parkedP = s.parkedP
<1> DEFINE a == IF s.active # None /\ s.active.phase = "WaitingTool" THEN s.active ELSE None
<1>1. a \in Turns \cup {None} /\ a \in {s.active, None} /\ <<>> \in Seq(Messages)
  BY DEF Sessions
<1>2. Checkpoint(s) = [s EXCEPT !.active = a, !.queue = <<>>]
  BY DEF Checkpoint
<1> HIDE DEF a
<1> QED BY <1>1, <1>2 DEF Sessions

LEMMA CheckpointPlaces ==
  ASSUME NEW s \in Sessions, NEW t
  PROVE  /\ Held(Checkpoint(s), t) => Held(s, t)
         /\ OneSlot(s, t) => OneSlot(Checkpoint(s), t)
         /\ \A ru : AskedSession(ru, s) => AskedSession(ru, Checkpoint(s))
<1> DEFINE k == Checkpoint(s)
<1>1. /\ k.active \in {s.active, None} /\ k.parkedA = s.parkedA /\ k.parkedP = s.parkedP
  BY CheckpointKeeps
<1> HIDE DEF k
<1>2. (Held(k, t) => Held(s, t)) /\ (OneSlot(s, t) => OneSlot(k, t))
  BY <1>1 DEF Held, OneSlot, On
<1>3. \A ru : AskedSession(ru, s) => AskedSession(ru, k)
  BY <1>1 DEF AskedSession
<1> QED BY <1>2, <1>3 DEF k

-----------------------------------------------------------------------------
(***************************************************************************)
(* The inductive invariant, over the values a handler works with           *)
(***************************************************************************)

\* A session s with drained messages dr, checkpoint d, open requests w, ledger
\* tl, rulings ru and known messages sn.
StateOk(s, dr, d, w, tl, ru, sn) ==
  /\ s \in Sessions /\ d \in Sessions /\ d.queue = <<>> /\ dr \in Seq(Messages)
  /\ tl \in [Tasks -> SUBSET Words]
  /\ AskedSession(ru, s) /\ AskedSession(ru, d)
  /\ \A x \in w : AskedRequest(ru, x)
  /\ \A t \in Tasks : /\ Placed(s, dr, d, tl, t)
                      /\ t \notin sn => Gone(s, dr, d, t) /\ ~Closed(tl, t)

\* What a step gives a message: no new place in the philote, in the checkpoint
\* none but its place in the philote, and no end in the ledger while it is in
\* either.
LEMMA PlacedStays ==
  ASSUME NEW s, NEW dr, NEW d, NEW tl, NEW t, Placed(s, dr, d, tl, t),
         NEW s2, NEW d2, NEW tl2,
         OneSlot(s2, t), OneSlot(d2, t), Held(s2, t) => Held(s, t),
         Held(d2, t) => Held(d, t) \/ Held(s2, t),
         s2.queue = s.queue,
         Closed(tl2, t) => Closed(tl, t) \/ (Held(s, t) /\ ~Held(s2, t) /\ ~Held(d2, t))
  PROVE  /\ Placed(s2, dr, d2, tl2, t)
         /\ Gone(s, dr, d, t) /\ ~Closed(tl, t) => Gone(s2, dr, d2, t) /\ ~Closed(tl2, t)
BY DEF Placed, Gone

LEMMA GoesOnOk ==
  ASSUME NEW s, NEW e, NEW c, NEW sn, Ready(s, e, c), GoesOn(s, e, c), s.active # None,
         StateOk(s, e.drains, disk, e.wire, e.told, ruled', sn)
  PROVE  StateOk(session', drains', disk', wire', told', ruled', sn)
<1>1. PICK u \in Turns : /\ u.task = s.active.task /\ Asked(ruled', u)
                         /\ session' = [s EXCEPT !.active = u]
  BY DEF GoesOn
<1>2. s \in Sessions /\ s.active \in Turns
  BY DEF Ready
<1>3. /\ session' \in Sessions /\ session'.active = u /\ session'.queue = s.queue
      /\ session'.parkedA = s.parkedA /\ session'.parkedP = s.parkedP
  BY <1>1, <1>2 DEF Sessions
<1>4. AskedSession(ruled', session')
  BY <1>1, <1>3 DEF AskedSession, StateOk
<1>5. /\ disk' = disk \/ disk' = Checkpoint(session')
      /\ drains' = e.drains /\ told' = e.told /\ \A x \in wire' : AskedRequest(ruled', x)
  BY DEF GoesOn, Saved
<1>6. disk' \in Sessions /\ disk'.queue = <<>> /\ AskedSession(ruled', disk')
  BY <1>3, <1>4, <1>5, CheckpointKeeps, CheckpointPlaces DEF StateOk
<1>7. ASSUME NEW t \in Tasks
      PROVE  /\ Placed(session', drains', disk', told', t)
             /\ t \notin sn => Gone(session', drains', disk', t) /\ ~Closed(told', t)
  <2>0. /\ Placed(s, e.drains, disk, e.told, t)
        /\ t \notin sn => Gone(s, e.drains, disk, t) /\ ~Closed(e.told, t)
    BY DEF StateOk
  <2>1. OneSlot(session', t) /\ (Held(session', t) => Held(s, t))
    BY <1>1, <1>3, <2>0 DEF Placed, OneSlot, Held, On
  <2>2. OneSlot(disk', t) /\ (Held(disk', t) => Held(disk, t) \/ Held(session', t))
    BY <1>3, <1>5, <2>0, <2>1, CheckpointPlaces DEF Placed
  <2> QED BY <1>3, <1>5, <2>0, <2>1, <2>2, PlacedStays
<1> QED BY <1>3, <1>4, <1>5, <1>6, <1>7 DEF StateOk

LEMMA ParksOk ==
  ASSUME NEW s, NEW e, NEW c, NEW sn, Ready(s, e, c), Parks(s, e, c), s.active # None,
         StateOk(s, e.drains, disk, e.wire, e.told, ruled', sn)
  PROVE  StateOk(session', drains', disk', wire', told', ruled', sn)
<1>1. PICK u \in Turns :
        /\ u.task = s.active.task
        /\ \/ AskedBut(ruled', u) /\ session' = [s EXCEPT !.active = None, !.parkedA = u]
           \/ Asked(ruled', u) /\ session' = [s EXCEPT !.active = None, !.parkedP = u]
  BY DEF Parks
<1>2. s \in Sessions /\ s.active \in Turns
  BY DEF Ready
<1>3. /\ session' \in Sessions /\ session'.active = None /\ session'.queue = s.queue
      /\ \/ session'.parkedA = u /\ session'.parkedP = s.parkedP /\ AskedBut(ruled', u)
         \/ session'.parkedA = s.parkedA /\ session'.parkedP = u /\ Asked(ruled', u)
  BY <1>1, <1>2 DEF Sessions
<1>4. AskedSession(ruled', session')
  BY <1>3 DEF AskedSession, StateOk
<1>5. /\ disk' = disk \/ disk' = Checkpoint(session')
      /\ drains' = e.drains /\ told' = e.told /\ wire' = e.wire
  BY DEF Parks, Saved
<1>6. disk' \in Sessions /\ disk'.queue = <<>> /\ AskedSession(ruled', disk')
  BY <1>3, <1>4, <1>5, CheckpointKeeps, CheckpointPlaces DEF StateOk
<1>7. ASSUME NEW t \in Tasks
      PROVE  /\ Placed(session', drains', disk', told', t)
             /\ t \notin sn => Gone(session', drains', disk', t) /\ ~Closed(told', t)
  <2>0. /\ Placed(s, e.drains, disk, e.told, t)
        /\ t \notin sn => Gone(s, e.drains, disk, t) /\ ~Closed(e.told, t)
    BY DEF StateOk
  <2>1. OneSlot(session', t) /\ (Held(session', t) => Held(s, t))
    BY <1>1, <1>3, <2>0 DEF Placed, OneSlot, Held, On
  <2>2. OneSlot(disk', t) /\ (Held(disk', t) => Held(disk, t) \/ Held(session', t))
    BY <1>3, <1>5, <2>0, <2>1, CheckpointPlaces DEF Placed
  <2> QED BY <1>3, <1>5, <2>0, <2>1, <2>2, PlacedStays
<1> QED BY <1>3, <1>4, <1>5, <1>6, <1>7 DEF StateOk

LEMMA TellKeeps ==
  ASSUME NEW e \in EffectSet, NEW t \in Tasks, NEW word \in Words, NEW c
  PROVE  /\ Tell(e, t, word, c) \in EffectSet
         /\ Tell(e, t, word, c).wire = e.wire /\ Tell(e, t, word, c).drains = e.drains
         /\ Tell(e, t, word, c).told
              = IF c \in {"sync", "close"} THEN e.told
                ELSE [e.told EXCEPT ![t] = @ \cup {word}]
<1>1. CASE c \in {"sync", "close"}
  BY <1>1 DEF Tell
<1>2. CASE c \notin {"sync", "close"}
  <2> DEFINE tl == [e.told EXCEPT ![t] = @ \cup {word}]
  <2>1. e.told \in [Tasks -> SUBSET Words]
    BY DEF EffectSet
  <2>2. tl \in [Tasks -> SUBSET Words]
    BY <2>1
  <2>3. Tell(e, t, word, c) = [e EXCEPT !.told = tl]
    BY <1>2 DEF Tell
  <2> HIDE DEF tl
  <2>4. /\ Tell(e, t, word, c) \in EffectSet /\ Tell(e, t, word, c).told = tl
        /\ Tell(e, t, word, c).wire = e.wire /\ Tell(e, t, word, c).drains = e.drains
    BY <2>2, <2>3 DEF EffectSet
  <2> QED BY <1>2, <2>4 DEF tl
<1> QED BY <1>1, <1>2

\* A word about one task says nothing about the others.
LEMMA ClosedBy ==
  ASSUME NEW tl \in [Tasks -> SUBSET Words], NEW t \in Tasks, NEW word \in Words,
         NEW x \in Tasks
  PROVE  LET tl2 == [tl EXCEPT ![t] = @ \cup {word}] IN
         /\ tl2 \in [Tasks -> SUBSET Words]
         /\ Closed(tl2, x) => Closed(tl, x) \/ (x = t /\ word \in Final)
         /\ Closed(tl, x) => Closed(tl2, x)
BY DEF Closed

\* drain_next_user_task moves the first message of the queue.
LEMMA DrainOk ==
  ASSUME NEW s, NEW dr, NEW d, NEW w, NEW tl, NEW ru, NEW sn,
         StateOk(s, dr, d, w, tl, ru, sn), s.queue # <<>>
  PROVE  StateOk([s EXCEPT !.queue = Tail(@)], Append(dr, Head(s.queue)), d, w, tl, ru, sn)
<1> DEFINE r == [s EXCEPT !.queue = Tail(@)]
           h == Head(s.queue)
           dr2 == Append(dr, h)
<1>0. s \in Sessions /\ s.queue \in Seq(Messages) /\ dr \in Seq(Messages)
  BY DEF StateOk, Sessions
<1>1. h \in Messages /\ Tail(s.queue) \in Seq(Messages)
  BY <1>0
<1>2. /\ r \in Sessions /\ r.queue = Tail(s.queue) /\ r.active = s.active
      /\ r.parkedA = s.parkedA /\ r.parkedP = s.parkedP
  BY <1>0, <1>1 DEF Sessions
<1> HIDE DEF r, h
<1>3. AskedSession(ru, r) /\ dr2 \in Seq(Messages)
  BY <1>0, <1>1, <1>2 DEF AskedSession, StateOk
<1>4. ASSUME NEW t \in Tasks
      PROVE  /\ Placed(r, dr2, d, tl, t)
             /\ t \notin sn => Gone(r, dr2, d, t) /\ ~Closed(tl, t)
  <2>0. /\ Placed(s, dr, d, tl, t)
        /\ t \notin sn => Gone(s, dr, d, t) /\ ~Closed(tl, t)
    BY DEF StateOk
  <2>1. (Held(r, t) <=> Held(s, t)) /\ (OneSlot(r, t) <=> OneSlot(s, t))
    BY <1>2 DEF Held, OneSlot, On
  <2>2. /\ Queued(s.queue, t) <=> h.task = t \/ Queued(r.queue, t)
        /\ QueuedOnce(s.queue, t) => QueuedOnce(r.queue, t)
        /\ QueuedOnce(s.queue, t) /\ h.task = t => ~Queued(r.queue, t)
    BY <1>0, <1>2, QueueTail DEF h
  <2>3. /\ Queued(dr2, t) <=> Queued(dr, t) \/ h.task = t
        /\ QueuedOnce(dr, t) /\ (h.task # t \/ ~Queued(dr, t)) => QueuedOnce(dr2, t)
    BY <1>0, <1>1, QueueAppend
  <2> HIDE DEF dr2
  <2> QED BY <2>0, <2>1, <2>2, <2>3 DEF Placed, Gone
<1> QED BY <1>2, <1>3, <1>4 DEF StateOk, r, h

\* The end of a turn: its message is nowhere when the ledger learns of it.
LEMMA EndsOk ==
  ASSUME NEW s, NEW e, NEW c, NEW sn, Ready(s, e, c), s.active # None,
         NEW word \in {"delivered", "failed"}, EndTurn(s, word, e, c),
         StateOk(s, e.drains, disk, e.wire, e.told, ruled', sn)
  PROVE  StateOk(session', drains', disk', wire', told', ruled', sn)
<1> DEFINE idle == [s EXCEPT !.active = None]
           f == Tell(e, s.active.task, word, c)
           d == IF c = "sync" THEN disk ELSE Checkpoint(idle)
<1>0. /\ s \in Sessions /\ s.active \in Turns /\ s.active.task \in Tasks /\ e \in EffectSet
      /\ word \in Words /\ s.queue \in Seq(Messages)
  BY DEF Ready, Turns, Words, Sessions
<1>1. /\ idle \in Sessions /\ idle.active = None /\ idle.queue = s.queue
      /\ idle.parkedA = s.parkedA /\ idle.parkedP = s.parkedP
  BY <1>0 DEF Sessions
<1>2. /\ f \in EffectSet /\ f.wire = e.wire /\ f.drains = e.drains
      /\ f.told = IF c \in {"sync", "close"} THEN e.told
                  ELSE [e.told EXCEPT ![s.active.task] = @ \cup {word}]
  BY <1>0, TellKeeps
<1>a. IF c = "none" /\ s.queue # <<>>
        THEN Finish([idle EXCEPT !.queue = Tail(@)],
                    [f EXCEPT !.drains = Append(@, Head(s.queue))], c)
        ELSE Finish(idle, f, c)
  BY DEF EndTurn
<1> HIDE DEF idle, f
<1>3. AskedSession(ruled', idle)
  BY <1>1 DEF AskedSession, StateOk
<1>4. d \in Sessions /\ d.queue = <<>> /\ AskedSession(ruled', d)
  BY <1>1, <1>3, CheckpointKeeps, CheckpointPlaces DEF StateOk
<1>5. StateOk(idle, f.drains, d, f.wire, f.told, ruled', sn)
  <2>1. ASSUME NEW t \in Tasks
        PROVE  /\ Placed(idle, e.drains, d, f.told, t)
               /\ t \notin sn => Gone(idle, e.drains, d, t) /\ ~Closed(f.told, t)
    <3>0. /\ Placed(s, e.drains, disk, e.told, t)
          /\ t \notin sn => Gone(s, e.drains, disk, t) /\ ~Closed(e.told, t)
      BY DEF StateOk
    <3>1. OneSlot(idle, t) /\ (Held(idle, t) => Held(s, t))
      BY <1>1, <3>0 DEF Placed, OneSlot, Held, On
    <3>2. t = s.active.task => Held(s, t) /\ ~Held(idle, t)
      BY <1>1, <3>0 DEF Placed, OneSlot, Held, On
    <3>3. /\ OneSlot(d, t) /\ (Held(d, t) => Held(disk, t) \/ Held(idle, t))
          /\ c # "sync" => (Held(d, t) => Held(idle, t))
      BY <1>1, <3>0, <3>1, CheckpointPlaces DEF Placed
    <3>4. Closed(f.told, t) => Closed(e.told, t) \/ (t = s.active.task /\ c # "sync")
      <4>1. e.told \in [Tasks -> SUBSET Words]
        BY <1>0 DEF EffectSet
      <4>2. c \notin {"sync", "close"} /\ Closed(f.told, t)
              => Closed(e.told, t) \/ t = s.active.task
        BY <1>0, <1>2, <4>1, ClosedBy
      <4> QED BY <1>2, <4>2
    <3> HIDE DEF d
    <3>5. Closed(f.told, t) => Closed(e.told, t) \/ (Held(s, t) /\ ~Held(idle, t) /\ ~Held(d, t))
      BY <3>2, <3>3, <3>4
    <3> QED BY <1>1, <3>0, <3>1, <3>3, <3>5, PlacedStays
  <2>2. f.told \in [Tasks -> SUBSET Words] /\ f.drains \in Seq(Messages)
    BY <1>2 DEF EffectSet
  <2> HIDE DEF d
  <2> QED BY <1>1, <1>2, <1>3, <1>4, <2>1, <2>2 DEF StateOk
<1>6. CASE ~(c = "none" /\ s.queue # <<>>)
  <2>1. /\ session' = idle /\ disk' = d /\ wire' = f.wire /\ drains' = f.drains
        /\ told' = f.told
    BY <1>6, <1>a DEF Finish
  <2> HIDE DEF d
  <2> QED BY <1>5, <2>1
<1>7. CASE c = "none" /\ s.queue # <<>>
  <2> DEFINE r == [idle EXCEPT !.queue = Tail(@)]
             g == [f EXCEPT !.drains = Append(@, Head(s.queue))]
  <2>1. /\ session' = r /\ disk' = Checkpoint(r) /\ wire' = g.wire /\ drains' = g.drains
        /\ told' = g.told
    BY <1>7, <1>a DEF Finish
  <2>2. /\ g.wire = f.wire /\ g.told = f.told
        /\ g.drains = Append(f.drains, Head(idle.queue))
    BY <1>1, <1>2 DEF EffectSet
  <2>3. Checkpoint(r) = Checkpoint(idle)
    <3>1. \A q, x : /\ [idle EXCEPT !.queue = q].active = idle.active
                    /\ [[idle EXCEPT !.queue = q] EXCEPT !.active = x, !.queue = <<>>]
                         = [idle EXCEPT !.active = x, !.queue = <<>>]
      BY <1>1 DEF Sessions
    <3> QED BY <3>1 DEF Checkpoint
  <2>4. d = Checkpoint(idle)
    BY <1>7
  <2> HIDE DEF d, g
  <2>5. StateOk(r, Append(f.drains, Head(idle.queue)), d, f.wire, f.told, ruled', sn)
    BY <1>1, <1>5, <1>7, DrainOk
  <2> HIDE DEF r
  <2> QED BY <2>1, <2>2, <2>3, <2>4, <2>5
<1> QED BY <1>6, <1>7

\* Whatever a handler makes of a turn keeps the state in order.
LEMMA OutcomeOk ==
  ASSUME NEW s, NEW e, NEW c, NEW sn, Ready(s, e, c), s.active # None, Outcome(s, e, c),
         StateOk(s, e.drains, disk, e.wire, e.told, ruled', sn)
  PROVE  StateOk(session', drains', disk', wire', told', ruled', sn)
BY GoesOnOk, ParksOk, EndsOk DEF Outcome, Ends

-----------------------------------------------------------------------------
(***************************************************************************)
(* Messages of the user                                                    *)
(***************************************************************************)

\* More rulings allow no less.
LEMMA AskedMore ==
  ASSUME NEW ru, NEW ru2, ru \subseteq ru2
  PROVE  /\ \A s : AskedSession(ru, s) => AskedSession(ru2, s)
         /\ \A x : AskedRequest(ru, x) => AskedRequest(ru2, x)
<1>1. \A t, a : Ruled(ru, t, a) => Ruled(ru2, t, a)
  BY DEF Ruled
<1>2. \A t : (Asked(ru, t) => Asked(ru2, t)) /\ (AskedBut(ru, t) => AskedBut(ru2, t))
  BY <1>1 DEF Asked, AskedBut
<1> QED BY <1>1, <1>2 DEF AskedSession, AskedRequest

\* A session with the same queue, in which no message has a new place, is as
\* much in order.
LEMMA SessionSwap ==
  ASSUME NEW s, NEW dr, NEW d, NEW w, NEW tl, NEW ru, NEW sn,
         StateOk(s, dr, d, w, tl, ru, sn),
         NEW ru2, ru \subseteq ru2,
         NEW s2 \in Sessions, s2.queue = s.queue, AskedSession(ru2, s2),
         \A t \in Tasks : OneSlot(s2, t) /\ (Held(s2, t) => Held(s, t))
  PROVE  StateOk(s2, dr, d, w, tl, ru2, sn)
<1>1. ASSUME NEW t \in Tasks
      PROVE  /\ Placed(s2, dr, d, tl, t)
             /\ t \notin sn => Gone(s2, dr, d, t) /\ ~Closed(tl, t)
  <2>1. /\ Placed(s, dr, d, tl, t)
        /\ t \notin sn => Gone(s, dr, d, t) /\ ~Closed(tl, t)
    BY DEF StateOk
  <2> QED BY <2>1, PlacedStays DEF Placed
<1> QED BY <1>1, AskedMore DEF StateOk

\* The checkpoint of a session in order is one.
LEMMA SaveOk ==
  ASSUME NEW s, NEW dr, NEW d, NEW w, NEW tl, NEW ru, NEW sn,
         StateOk(s, dr, d, w, tl, ru, sn)
  PROVE  StateOk(s, dr, Checkpoint(s), w, tl, ru, sn)
<1>1. s \in Sessions
  BY DEF StateOk
<1>2. ASSUME NEW t \in Tasks
      PROVE  /\ Placed(s, dr, Checkpoint(s), tl, t)
             /\ t \notin sn => Gone(s, dr, Checkpoint(s), t) /\ ~Closed(tl, t)
  <2>1. /\ Placed(s, dr, d, tl, t)
        /\ t \notin sn => Gone(s, dr, d, t) /\ ~Closed(tl, t)
    BY DEF StateOk
  <2>2. /\ OneSlot(s, t) => OneSlot(Checkpoint(s), t)
        /\ Held(Checkpoint(s), t) => Held(s, t)
    BY <1>1, CheckpointPlaces
  <2> QED BY <2>1, <2>2, PlacedStays DEF Placed
<1> QED BY <1>1, <1>2, CheckpointKeeps, CheckpointPlaces DEF StateOk

\* A word about a task: one that closes it only once it is nowhere.
LEMMA WordOk ==
  ASSUME NEW s, NEW dr, NEW d, NEW w, NEW tl, NEW ru, NEW sn,
         StateOk(s, dr, d, w, tl, ru, sn),
         NEW t \in Tasks, NEW word \in Words,
         word \in Final => t \in sn /\ Gone(s, dr, d, t)
  PROVE  StateOk(s, dr, d, w, [tl EXCEPT ![t] = @ \cup {word}], ru, sn)
<1> DEFINE tl2 == [tl EXCEPT ![t] = @ \cup {word}]
<1>0. tl \in [Tasks -> SUBSET Words]
  BY DEF StateOk
<1>1. ASSUME NEW x \in Tasks
      PROVE  /\ Placed(s, dr, d, tl2, x)
             /\ x \notin sn => Gone(s, dr, d, x) /\ ~Closed(tl2, x)
  <2>1. /\ Placed(s, dr, d, tl, x)
        /\ x \notin sn => Gone(s, dr, d, x) /\ ~Closed(tl, x)
    BY DEF StateOk
  <2>2. Closed(tl2, x) => Closed(tl, x) \/ (x = t /\ word \in Final)
    BY <1>0, ClosedBy
  <2> HIDE DEF tl2
  <2> QED BY <2>1, <2>2 DEF Placed
<1>2. tl2 \in [Tasks -> SUBSET Words]
  BY <1>0
<1> HIDE DEF tl2
<1>3. StateOk(s, dr, d, w, tl2, ru, sn)
  BY <1>1, <1>2 DEF StateOk
<1> QED BY <1>3 DEF tl2

LEMMA TellOk ==
  ASSUME NEW s, NEW e \in EffectSet, NEW d, NEW ru, NEW sn,
         StateOk(s, e.drains, d, e.wire, e.told, ru, sn),
         NEW t \in Tasks, NEW word \in Words, NEW c,
         c \notin {"sync", "close"} /\ word \in Final => t \in sn /\ Gone(s, e.drains, d, t)
  PROVE  LET f == Tell(e, t, word, c) IN
         /\ f \in EffectSet /\ f.wire = e.wire /\ f.drains = e.drains
         /\ StateOk(s, f.drains, d, f.wire, f.told, ru, sn)
<1> DEFINE f == Tell(e, t, word, c)
<1>1. /\ f \in EffectSet /\ f.wire = e.wire /\ f.drains = e.drains
      /\ f.told = IF c \in {"sync", "close"} THEN e.told
                  ELSE [e.told EXCEPT ![t] = @ \cup {word}]
  BY TellKeeps
<1> HIDE DEF f
<1>2. ASSUME c \in {"sync", "close"} PROVE StateOk(s, f.drains, d, f.wire, f.told, ru, sn)
  BY <1>1, <1>2
<1>3. ASSUME c \notin {"sync", "close"} PROVE StateOk(s, f.drains, d, f.wire, f.told, ru, sn)
  <2>1. f.told = [e.told EXCEPT ![t] = @ \cup {word}]
    BY <1>1, <1>3
  <2>2. StateOk(s, e.drains, d, e.wire, [e.told EXCEPT ![t] = @ \cup {word}], ru, sn)
    BY <1>3, WordOk
  <2> QED BY <1>1, <2>1, <2>2
<1>4. /\ f \in EffectSet /\ f.wire = e.wire /\ f.drains = e.drains
      /\ StateOk(s, f.drains, d, f.wire, f.told, ru, sn)
  BY <1>1, <1>2, <1>3
<1> QED BY <1>4 DEF f

\* A message m in the hands of handle_user_message is nowhere else.
Handling(m, e, sn) ==
  /\ m \in Messages /\ e \in EffectSet /\ e.told = told
  /\ StateOk(session, e.drains, disk, e.wire, e.told, ruled, sn)
  /\ m.kind \in Starters => /\ m.task \in Tasks /\ m.task \in sn
                            /\ Gone(session, e.drains, disk, m.task)
                            /\ ~Closed(e.told, m.task)

After(sn) == StateOk(session', drains', disk', wire', told', ruled', sn)

LEMMA EnqueueOk ==
  ASSUME NEW m, NEW e, NEW sn, Handling(m, e, sn), m.kind \in Starters,
         ruled' = ruled, Enqueue(m, e)
  PROVE  After(sn)
<1>0. /\ m \in Messages /\ e \in EffectSet /\ m.task \in Tasks /\ e.told = told
      /\ StateOk(session, e.drains, disk, e.wire, e.told, ruled, sn)
      /\ session \in Sessions /\ session.queue \in Seq(Messages)
  BY DEF Handling, StateOk, Sessions
<1>1. wire' = e.wire /\ drains' = e.drains /\ disk' = disk
  BY DEF Enqueue
<1>2. CASE Len(session.queue) >= QueueCap
  <2>1. session' = session /\ told' = Tell(e, m.task, "busy", "none").told
    BY <1>2 DEF Enqueue
  <2> DEFINE t == m.task
             word == "busy"
             c == "none"
             f == Tell(e, t, word, c)
  <2>a. e \in EffectSet /\ t \in Tasks
    BY <1>0
  <2>2. word \in Words /\ t \in sn /\ Gone(session, e.drains, disk, t)
    BY DEF Words, Handling
  <2> HIDE DEF t, word, c
  <2>3. StateOk(session, f.drains, disk, f.wire, f.told, ruled, sn)
    BY <1>0, <2>a, <2>2, TellOk
  <2>4. f.wire = e.wire /\ f.drains = e.drains
    BY <2>a DEF Tell, EffectSet
  <2> HIDE DEF f
  <2> QED BY <1>1, <2>1, <2>3, <2>4 DEF After, f, t, word, c
<1>3. CASE ~(Len(session.queue) >= QueueCap)
  <2>1. told' = told /\ session' = [session EXCEPT !.queue = Append(@, m)]
    BY <1>3 DEF Enqueue
  <2>a. Append(session.queue, m) \in Seq(Messages)
    BY <1>0
  <2>2. /\ session' \in Sessions /\ session'.queue = Append(session.queue, m)
        /\ session'.active = session.active /\ session'.parkedA = session.parkedA
        /\ session'.parkedP = session.parkedP
    BY <1>0, <2>1, <2>a DEF Sessions
  <2>3. ASSUME NEW t \in Tasks
        PROVE  /\ Placed(session', e.drains, disk, e.told, t)
               /\ t \notin sn => Gone(session', e.drains, disk, t) /\ ~Closed(e.told, t)
    <3>1. /\ Placed(session, e.drains, disk, e.told, t)
          /\ t \notin sn => Gone(session, e.drains, disk, t) /\ ~Closed(e.told, t)
      BY <1>0 DEF StateOk
    <3>2. (Held(session', t) <=> Held(session, t)) /\ (OneSlot(session', t) <=> OneSlot(session, t))
      BY <2>2 DEF Held, OneSlot, On
    <3>3. /\ Queued(session'.queue, t) <=> Queued(session.queue, t) \/ m.task = t
          /\ QueuedOnce(session.queue, t) /\ (m.task # t \/ ~Queued(session.queue, t))
               => QueuedOnce(session'.queue, t)
      BY <1>0, <2>2, QueueAppend
    <3>4. m.task = t => Gone(session, e.drains, disk, t) /\ ~Closed(e.told, t) /\ t \in sn
      BY DEF Handling
    <3> QED BY <3>1, <3>2, <3>3, <3>4 DEF Placed, Gone
  <2>4. AskedSession(ruled, session')
    BY <1>0, <2>2 DEF AskedSession, StateOk
  <2> QED BY <1>0, <1>1, <2>1, <2>2, <2>3, <2>4 DEF After, StateOk
<1> QED BY <1>2, <1>3

\* An approval that comes while another turn is active goes back to the queue.
LEMMA DeferOk ==
  ASSUME NEW m, NEW e, NEW sn, Handling(m, e, sn), m.kind \notin Starters,
         session' = [session EXCEPT !.queue = <<m>> \o @],
         wire' = e.wire, drains' = e.drains, disk' = disk, told' = told, ruled' = ruled
  PROVE  After(sn)
<1>0. /\ m \in Messages /\ e.told = told
      /\ StateOk(session, e.drains, disk, e.wire, e.told, ruled, sn)
      /\ session \in Sessions /\ session.queue \in Seq(Messages)
  BY DEF Handling, StateOk, Sessions
<1>1. m.task \notin Tasks
  BY <1>0, TurnAssumption DEF Messages
<1>2. <<m>> \o session.queue \in Seq(Messages)
  BY <1>0
<1>3. /\ session' \in Sessions /\ session'.queue = <<m>> \o session.queue
      /\ session'.active = session.active /\ session'.parkedA = session.parkedA
      /\ session'.parkedP = session.parkedP
  BY <1>0, <1>2 DEF Sessions
<1>4. ASSUME NEW t \in Tasks
      PROVE  /\ Placed(session', e.drains, disk, e.told, t)
             /\ t \notin sn => Gone(session', e.drains, disk, t) /\ ~Closed(e.told, t)
  <2>1. /\ Placed(session, e.drains, disk, e.told, t)
        /\ t \notin sn => Gone(session, e.drains, disk, t) /\ ~Closed(e.told, t)
    BY <1>0 DEF StateOk
  <2>2. (Held(session', t) <=> Held(session, t)) /\ (OneSlot(session', t) <=> OneSlot(session, t))
    BY <1>3 DEF Held, OneSlot, On
  <2>3. /\ Queued(session'.queue, t) => Queued(session.queue, t)
        /\ QueuedOnce(session.queue, t) => QueuedOnce(session'.queue, t)
    BY <1>0, <1>1, <1>3, QueuePush
  <2> QED BY <2>1, <2>2, <2>3 DEF Placed, Gone
<1>5. AskedSession(ruled, session')
  BY <1>0, <1>3 DEF AskedSession, StateOk
<1> QED BY <1>0, <1>3, <1>4, <1>5 DEF After, StateOk

\* The end of a handler: the checkpoint, and the ledger.
LEMMA FinishOk ==
  ASSUME NEW s, NEW e, NEW c, NEW sn,
         StateOk(s, e.drains, disk, e.wire, e.told, ruled', sn), Finish(s, e, c)
  PROVE  After(sn)
<1>1. /\ session' = s /\ disk' \in {disk, Checkpoint(s)}
      /\ wire' = e.wire /\ drains' = e.drains /\ told' = e.told
  BY DEF Finish
<1>2. StateOk(s, e.drains, Checkpoint(s), e.wire, e.told, ruled', sn)
  BY SaveOk
<1> QED BY <1>1, <1>2 DEF After

LEMMA FinishToldOk ==
  ASSUME NEW s, NEW e \in EffectSet, NEW c, NEW sn,
         StateOk(s, e.drains, disk, e.wire, e.told, ruled', sn),
         NEW t \in Tasks, NEW word \in Words,
         word \in Final => /\ t \in sn /\ ~Held(s, t)
                           /\ ~Queued(s.queue, t) /\ ~Queued(e.drains, t),
         Finish(s, Tell(e, t, word, c), c)
  PROVE  After(sn)
<1> DEFINE f == Tell(e, t, word, c)
           d == IF c = "sync" THEN disk ELSE Checkpoint(s)
<1>1. /\ session' = s /\ disk' = d
      /\ wire' = f.wire /\ drains' = f.drains /\ told' = f.told
  BY DEF Finish
<1>2. StateOk(s, e.drains, d, e.wire, e.told, ruled', sn)
  BY SaveOk
<1>3. c \notin {"sync", "close"} /\ word \in Final => t \in sn /\ Gone(s, e.drains, d, t)
  <2>1. s \in Sessions
    BY DEF StateOk
  <2> QED BY <2>1, CheckpointPlaces DEF Gone
<1> HIDE DEF d
<1>4. StateOk(s, f.drains, d, f.wire, f.told, ruled', sn)
  BY <1>2, <1>3, TellOk
<1> QED BY <1>1, <1>4 DEF After

\* A message in nobody's hands but the handler's takes a slot.
LEMMA TakeOk ==
  ASSUME NEW s, NEW dr, NEW d, NEW w, NEW tl, NEW ru, NEW sn,
         StateOk(s, dr, d, w, tl, ru, sn),
         NEW m \in sn, Gone(s, dr, d, m), ~Closed(tl, m),
         NEW s2 \in Sessions, s2.queue = s.queue, AskedSession(ru, s2),
         \A t \in Tasks : OneSlot(s2, t) /\ (Held(s2, t) => Held(s, t) \/ t = m)
  PROVE  StateOk(s2, dr, d, w, tl, ru, sn)
<1>1. ASSUME NEW t \in Tasks
      PROVE  /\ Placed(s2, dr, d, tl, t)
             /\ t \notin sn => Gone(s2, dr, d, t) /\ ~Closed(tl, t)
  <2>1. /\ Placed(s, dr, d, tl, t)
        /\ t \notin sn => Gone(s, dr, d, t) /\ ~Closed(tl, t)
    BY DEF StateOk
  <2>2. OneSlot(s2, t) /\ (Held(s2, t) => Held(s, t) \/ t = m)
    OBVIOUS
  <2> QED BY <2>1, <2>2 DEF Placed, Gone
<1> QED BY <1>1 DEF StateOk

LEMMA NewTurnFits ==
  ASSUME NEW t \in Tasks
  PROVE  LET u == NewTurn(t, "LoadingContext") IN
         u \in Turns /\ u.task = t /\ u.tool = None
BY TurnAssumption DEF NewTurn, Turns, Phases

LEMMA GateTaskOk ==
  ASSUME NEW m, NEW e, NEW c \in Cuts, NEW sn, Handling(m, e, sn), m.kind \in Starters,
         ruled' = ruled, GateTask(m.task, e, c)
  PROVE  After(sn)
<1> DEFINE t == m.task
           n == NewTurn(t, "LoadingContext")
           u == [n EXCEPT !.phase = "WaitingApproval", !.ask = "task"]
           s2 == [session EXCEPT !.active = n]
           s3 == [session EXCEPT !.active = None, !.parkedA = u]
<1>0. /\ t \in Tasks /\ e \in EffectSet /\ t \in sn
      /\ Gone(session, e.drains, disk, t) /\ ~Closed(e.told, t)
      /\ StateOk(session, e.drains, disk, e.wire, e.told, ruled, sn) /\ session \in Sessions
  BY DEF Handling, StateOk
<1>1. n \in Turns /\ n.task = t /\ n.tool = None
  BY <1>0, NewTurnFits
<1> HIDE DEF n
<1>2. u \in Turns /\ u.task = t /\ u.tool = None /\ u.ask = "task"
  BY <1>1 DEF Turns, Phases
<1>3. AskedBut(ruled, u)
  BY <1>2, NoneNotLocked DEF AskedBut, Subjects
<1>4. s2.active = n /\ \A x : [s2 EXCEPT !.active = None, !.parkedA = x]
                               = [session EXCEPT !.active = None, !.parkedA = x]
  BY <1>0 DEF Sessions
<1>5. Finish(s3, e, c)
  BY <1>4 DEF GateTask, ParkForApproval, n
<1> HIDE DEF u
<1>6. /\ s3 \in Sessions /\ s3.queue = session.queue /\ s3.active = None /\ s3.parkedA = u
      /\ s3.parkedP = session.parkedP
  BY <1>0, <1>2 DEF Sessions
<1> HIDE DEF s3
<1>7. AskedSession(ruled, s3)
  BY <1>0, <1>3, <1>6 DEF AskedSession, StateOk
<1>8. ASSUME NEW x \in Tasks PROVE OneSlot(s3, x) /\ (Held(s3, x) => Held(session, x) \/ x = t)
  <2>1. ~Held(session, t)
    BY <1>0 DEF Gone
  <2> QED BY <1>2, <1>6, <2>1 DEF OneSlot, Held, On
<1>9. StateOk(s3, e.drains, disk, e.wire, e.told, ruled, sn)
  BY <1>0, <1>6, <1>7, <1>8, TakeOk
<1> QED BY <1>5, <1>9, FinishOk

\* The session with a turn that begins.
LEMMA BeginOk ==
  ASSUME NEW m, NEW e, NEW c \in Cuts, NEW sn, Handling(m, e, sn), m.kind \in Starters,
         ruled' = ruled, session.active = None, m.task \notin GatedTasks
  PROVE  LET n == NewTurn(m.task, "LoadingContext")
             s == [session EXCEPT !.active = n] IN
         /\ StateOk(s, e.drains, disk, e.wire, e.told, ruled', sn)
         /\ n \in Turns /\ s.active = n /\ n.task = m.task
         /\ Asked(ruled', n) /\ Ready(s, e, c)
<1> DEFINE t == m.task
           n == NewTurn(t, "LoadingContext")
           s == [session EXCEPT !.active = n]
<1>0. /\ t \in Tasks /\ e \in EffectSet /\ t \in sn
      /\ Gone(session, e.drains, disk, t) /\ ~Closed(e.told, t)
      /\ StateOk(session, e.drains, disk, e.wire, e.told, ruled, sn) /\ session \in Sessions
  BY DEF Handling, StateOk
<1>1. n \in Turns /\ n.task = t /\ n.tool = None
  BY <1>0, NewTurnFits
<1> HIDE DEF n
<1>2. Asked(ruled, n)
  BY <1>1, NoneNotLocked DEF Asked
<1>3. /\ s \in Sessions /\ s.queue = session.queue /\ s.active = n
      /\ s.parkedA = session.parkedA /\ s.parkedP = session.parkedP
  BY <1>0, <1>1 DEF Sessions
<1> HIDE DEF s
<1>4. AskedSession(ruled, s)
  BY <1>0, <1>2, <1>3 DEF AskedSession, StateOk
<1>5. ASSUME NEW x \in Tasks PROVE OneSlot(s, x) /\ (Held(s, x) => Held(session, x) \/ x = t)
  <2>1. ~Held(session, t) /\ OneSlot(session, x)
    BY <1>0 DEF Gone, StateOk, Placed
  <2> QED BY <1>1, <1>3, <2>1 DEF OneSlot, Held, On
<1>6. StateOk(s, e.drains, disk, e.wire, e.told, ruled, sn)
  BY <1>0, <1>3, <1>4, <1>5, TakeOk
<1>7. Ready(s, e, c)
  BY <1>0, <1>1, <1>2, <1>3 DEF Ready, StateOk
<1> QED BY <1>1, <1>2, <1>3, <1>6, <1>7 DEF s, n

LEMMA StartTurnOk ==
  ASSUME NEW m, NEW e, NEW c \in Cuts, NEW sn, Handling(m, e, sn), m.kind \in Starters,
         ruled' = ruled, session.active = None, m.task \notin GatedTasks,
         StartTurn(m.task, e, c)
  PROVE  After(sn)
<1> DEFINE t == m.task
           n == NewTurn(t, "LoadingContext")
           s == [session EXCEPT !.active = n]
           v == [n EXCEPT !.phase = "WaitingModel", !.iter = 1]
           u == IF c \in {"sync", "close"} THEN n ELSE v
<1>0. t \in Tasks /\ session \in Sessions
  BY DEF Handling, StateOk
<1>1. /\ StateOk(s, e.drains, disk, e.wire, e.told, ruled', sn)
      /\ n \in Turns /\ s.active = n /\ n.task = t /\ Asked(ruled', n) /\ Ready(s, e, c)
  BY BeginOk
<1>2. AskModel(session, u, TurnId(t), e, c)
  BY DEF StartTurn
<1> HIDE DEF n
<1>3. \A x : [s EXCEPT !.active = x] = [session EXCEPT !.active = x]
  BY <1>0 DEF Sessions
<1> HIDE DEF s
<1>4. v \in Turns /\ v.task = n.task /\ v.tool = n.tool /\ v.direct = n.direct
  BY <1>1 DEF Turns, Phases
<1> HIDE DEF v
<1>5. u \in Turns /\ u.task = n.task /\ Asked(ruled', u)
  BY <1>1, <1>4 DEF Asked
<1> HIDE DEF u
<1>6. AskModel(s, u, TurnId(t), e, c)
  BY <1>2, <1>3 DEF AskModel
<1>7. TurnId(t) \in Ids
  BY <1>0, TurnIds
<1>8. GoesOn(s, e, c)
  BY <1>1, <1>5, <1>6, <1>7, AskModelGoesOn
<1>9. s.active # None
  BY <1>1, NoneIsNoTurn
<1> QED BY <1>1, <1>8, <1>9, GoesOnOk DEF After

LEMMA LocalTurnOk ==
  ASSUME NEW m, NEW e, NEW c \in Cuts, NEW sn, Handling(m, e, sn), m.kind \in Starters,
         ruled' = ruled, session.active = None, m.task \notin GatedTasks,
         LocalTurn(m.task, e, c)
  PROVE  After(sn)
<1> DEFINE t == m.task
           n == NewTurn(t, "LoadingContext")
           s == [session EXCEPT !.active = n]
           f == Tell(e, t, "delivered", c)
<1>0. /\ t \in Tasks /\ session \in Sessions /\ e \in EffectSet /\ t \in sn
      /\ Gone(session, e.drains, disk, t)
      /\ StateOk(session, e.drains, disk, e.wire, e.told, ruled', sn)
  BY DEF Handling, StateOk
<1>1. CASE c = "sync"
  <2>1. Finish(s, f, c) /\ f = e
    BY <1>1 DEF LocalTurn, Tell
  <2>2. StateOk(s, e.drains, disk, e.wire, e.told, ruled', sn)
    BY BeginOk
  <2> HIDE DEF s, f
  <2> QED BY <2>1, <2>2, FinishOk
<1>2. CASE c # "sync"
  <2>1. Finish([session EXCEPT !.active = None], f, c)
    BY <1>2 DEF LocalTurn
  <2>2. [session EXCEPT !.active = None] = session
    BY <1>0 DEF Sessions
  <2>3. "delivered" \in Words /\ ~Held(session, t) /\ ~Queued(session.queue, t) /\ ~Queued(e.drains, t)
    BY <1>0 DEF Words, Gone
  <2> QED BY <1>0, <2>1, <2>2, <2>3, FinishToldOk
<1> QED BY <1>1, <1>2

\* The parked plan becomes the active turn.
LEMMA PlanBack ==
  ASSUME NEW m, NEW e, NEW c \in Cuts, NEW sn, Handling(m, e, sn), ruled' = ruled,
         session.active = None, session.parkedP # None
  PROVE  LET s == [session EXCEPT !.active = session.parkedP, !.parkedP = None] IN
         /\ StateOk(s, e.drains, disk, e.wire, e.told, ruled', sn)
         /\ Ready(s, e, c) /\ s.active = session.parkedP /\ s.active # None
<1> DEFINE t == session.parkedP
           s == [session EXCEPT !.active = session.parkedP, !.parkedP = None]
<1>0. /\ e \in EffectSet /\ session \in Sessions
      /\ StateOk(session, e.drains, disk, e.wire, e.told, ruled, sn)
  BY DEF Handling, StateOk
<1>1. t \in Turns /\ Asked(ruled, t)
  BY <1>0 DEF Sessions, StateOk, AskedSession
<1>2. /\ s \in Sessions /\ s.queue = session.queue /\ s.active = t
      /\ s.parkedA = session.parkedA /\ s.parkedP = None
  BY <1>0, <1>1 DEF Sessions
<1> HIDE DEF s
<1>3. AskedSession(ruled, s)
  BY <1>0, <1>1, <1>2 DEF AskedSession, StateOk
<1>4. ASSUME NEW x \in Tasks PROVE OneSlot(s, x) /\ (Held(s, x) => Held(session, x))
  <2>1. OneSlot(session, x)
    BY <1>0 DEF StateOk, Placed
  <2> QED BY <1>2, <2>1 DEF OneSlot, Held, On
<1>5. StateOk(s, e.drains, disk, e.wire, e.told, ruled, sn)
  BY <1>0, <1>2, <1>3, <1>4, SessionSwap
<1>6. Ready(s, e, c)
  BY <1>0, <1>1, <1>2 DEF Ready, StateOk
<1> QED BY <1>1, <1>2, <1>5, <1>6 DEF s

LEMMA CancelPlanOk ==
  ASSUME NEW m, NEW e, NEW c \in Cuts, NEW sn, Handling(m, e, sn), ruled' = ruled,
         session.active = None, session.parkedP # None, CancelPlan(e, c)
  PROVE  After(sn)
<1> DEFINE s == [session EXCEPT !.active = session.parkedP, !.parkedP = None]
<1>1. /\ StateOk(s, e.drains, disk, e.wire, e.told, ruled', sn)
      /\ Ready(s, e, c) /\ s.active # None
  BY PlanBack
<1>2. EndTurn(s, "failed", e, c)
  BY DEF CancelPlan, FailActiveTurn
<1> HIDE DEF s
<1> QED BY <1>1, <1>2, EndsOk DEF After

LEMMA ConfirmPlanOk ==
  ASSUME NEW m, NEW e, NEW c \in Cuts, NEW sn, Handling(m, e, sn), m.kind \in Starters,
         ruled' = ruled, session.active = None, session.parkedP # None,
         ConfirmPlan(m.task, e, c)
  PROVE  After(sn)
<1>1. PICK note \in {m.task, None} :
        AskModel([session EXCEPT !.parkedP = None],
                 [session.parkedP EXCEPT !.phase = "WaitingModel", !.note = note],
                 <<"task", session.parkedP.task>>, e, c)
  BY DEF ConfirmPlan
<1> DEFINE t == session.parkedP
           s == [session EXCEPT !.active = session.parkedP, !.parkedP = None]
           r == [session EXCEPT !.parkedP = None]
           u == [t EXCEPT !.phase = "WaitingModel", !.note = note]
           id == <<"task", t.task>>
<1>2. /\ StateOk(s, e.drains, disk, e.wire, e.told, ruled', sn)
      /\ Ready(s, e, c) /\ s.active = t /\ s.active # None
  BY PlanBack
<1>3. \A x : [s EXCEPT !.active = x] = [r EXCEPT !.active = x]
  BY DEF Handling, StateOk, Sessions
<1> HIDE DEF s, r
<1>4. /\ t \in Turns /\ Asked(ruled', t) /\ t.task \in Tasks
      /\ note \in Tasks \cup {None}
  BY <1>2 DEF Ready, Turns, Handling
<1>5. u \in Turns /\ u.task = t.task /\ u.tool = t.tool /\ u.direct = t.direct
  BY <1>4 DEF Turns, Phases
<1>6. Asked(ruled', u)
  BY <1>4, <1>5 DEF Asked
<1>7. id \in Ids
  BY <1>4, TurnIds
<1>8. AskModel(s, u, id, e, c)
  BY <1>1, <1>3 DEF AskModel, r
<1> HIDE DEF u, id
<1>9. GoesOn(s, e, c)
  BY <1>2, <1>5, <1>6, <1>7, <1>8, AskModelGoesOn
<1> QED BY <1>2, <1>9, GoesOnOk DEF After

\* One more request that may be made.
LEMMA MoreRequests ==
  ASSUME NEW s, NEW dr, NEW d, NEW w, NEW tl, NEW ru, NEW sn,
         StateOk(s, dr, d, w, tl, ru, sn), NEW x, AskedRequest(ru, x)
  PROVE  StateOk(s, dr, d, w \cup {x}, tl, ru, sn)
BY DEF StateOk

\* The turn of a life.observe command, and the session while it runs and after.
Observer(t) == [NewTurn(t, "WaitingTool") EXCEPT !.tool = Direct, !.direct = TRUE]

LEMMA ObserverFits ==
  ASSUME NEW t \in Tasks, NEW ru
  PROVE  /\ Observer(t) \in Turns /\ Observer(t).task = t
         /\ Asked(ru, Observer(t)) /\ AskedRequest(ru, ToolRequest(Observer(t)))
<1> DEFINE n == NewTurn(t, "WaitingTool")
           u == Observer(t)
<1>a. n \in Turns /\ n.task = t
  BY TurnAssumption DEF NewTurn, Turns, Phases
<1>b. u = [n EXCEPT !.tool = Direct, !.direct = TRUE] /\ Direct \in Calls
  BY DEF Observer, Calls
<1> HIDE DEF n, u
<1>1. u \in Turns /\ u.task = t /\ u.tool = Direct /\ u.direct = TRUE /\ u.tool \in Calls
  BY <1>a, <1>b DEF Turns
<1>2. Asked(ru, u)
  BY <1>1, NoneNotLocked DEF Asked
<1> QED BY <1>1, <1>2, ToolAsked DEF u

LEMMA ObserveDirectlyOk ==
  ASSUME NEW m, NEW e, NEW c \in Cuts, NEW sn, Handling(m, e, sn), m.kind \in Starters,
         ruled' = ruled, ObserveDirectly(m.task, e, c)
  PROVE  After(sn)
<1> DEFINE t == m.task
           u == Observer(t)
           x == ToolRequest(u)
           begun == [session EXCEPT !.active = u]
           ended == [session EXCEPT !.active = None]
           out == Emit(e, x, "none")
<1>0. /\ t \in Tasks /\ e \in EffectSet /\ t \in sn
      /\ Gone(session, e.drains, disk, t) /\ ~Closed(e.told, t)
      /\ StateOk(session, e.drains, disk, e.wire, e.told, ruled, sn) /\ session \in Sessions
  BY DEF Handling, StateOk
<1>1. u \in Turns /\ u.task = t /\ Asked(ruled, u) /\ AskedRequest(ruled, x)
  BY <1>0, ObserverFits
<1>2. \/ /\ c # "sync" /\ session' = session /\ disk' = disk
         /\ wire' = e.wire /\ drains' = e.drains /\ told' = Tell(e, t, "failed", c).told
      \/ Finish(begun, e, c)
      \/ /\ session' = ended /\ disk' = Checkpoint(begun)
         /\ wire' = out.wire /\ drains' = e.drains /\ told' = e.told
      \/ c # "sync" /\ Finish(ended, Tell(out, t, "delivered", c), c)
  BY DEF ObserveDirectly, Observer
<1> HIDE DEF u
<1>3. out \in EffectSet /\ out.wire = e.wire \cup {x} /\ out.drains = e.drains /\ out.told = e.told
  <2>1. x \in Requests
    BY <1>1 DEF AskedRequest
  <2> HIDE DEF x
  <2> QED BY <1>0, <2>1 DEF Emit, EffectSet
<1> HIDE DEF x, out
<1>4. /\ begun \in Sessions /\ begun.queue = session.queue /\ begun.active = u
      /\ begun.parkedA = session.parkedA /\ begun.parkedP = session.parkedP
  BY <1>0, <1>1 DEF Sessions
<1>5. /\ ended \in Sessions /\ ended.queue = session.queue /\ ended.active = None
      /\ ended.parkedA = session.parkedA /\ ended.parkedP = session.parkedP
  BY <1>0 DEF Sessions
<1> HIDE DEF begun, ended
<1>6. ~Held(session, t) /\ ~Queued(session.queue, t) /\ ~Queued(e.drains, t)
  BY <1>0 DEF Gone
<1>7. StateOk(begun, e.drains, disk, e.wire, e.told, ruled, sn)
  <2>1. AskedSession(ruled, begun)
    BY <1>0, <1>1, <1>4 DEF AskedSession, StateOk
  <2>2. ASSUME NEW y \in Tasks
        PROVE  OneSlot(begun, y) /\ (Held(begun, y) => Held(session, y) \/ y = t)
    <3>1. OneSlot(session, y)
      BY <1>0 DEF StateOk, Placed
    <3> QED BY <1>1, <1>4, <1>6, <3>1 DEF OneSlot, Held, On
  <2> QED BY <1>0, <1>4, <2>1, <2>2, TakeOk
<1>8. ASSUME NEW d, StateOk(begun, e.drains, d, e.wire, e.told, ruled, sn)
      PROVE  StateOk(ended, e.drains, d, out.wire, out.told, ruled, sn)
  <2>1. AskedSession(ruled, ended)
    BY <1>0, <1>5 DEF AskedSession, StateOk
  <2>2. ASSUME NEW y \in Tasks PROVE OneSlot(ended, y) /\ (Held(ended, y) => Held(begun, y))
    <3>1. OneSlot(begun, y)
      BY <1>7 DEF StateOk, Placed
    <3> QED BY <1>4, <1>5, <3>1 DEF OneSlot, Held, On
  <2>3. StateOk(ended, e.drains, d, e.wire, e.told, ruled, sn)
    BY <1>4, <1>5, <1>8, <2>1, <2>2, SessionSwap
  <2> QED BY <1>1, <1>3, <2>3, MoreRequests
<1>9. ~Held(ended, t) /\ ~Queued(ended.queue, t)
  BY <1>5, <1>6 DEF Held, On
<1>10. CASE /\ c # "sync" /\ session' = session /\ disk' = disk
            /\ wire' = e.wire /\ drains' = e.drains /\ told' = Tell(e, t, "failed", c).told
  <2> DEFINE word == "failed"
  <2>1. word \in Words
    BY DEF Words
  <2>a. told' = Tell(e, t, word, c).told
    BY <1>10
  <2> HIDE DEF word
  <2>2. LET f == Tell(e, t, word, c) IN
        /\ f.wire = e.wire /\ f.drains = e.drains
        /\ StateOk(session, f.drains, disk, f.wire, f.told, ruled, sn)
    BY <1>0, <2>1, TellOk
  <2> QED BY <1>10, <2>a, <2>2 DEF After
<1>11. CASE Finish(begun, e, c)
  BY <1>7, <1>11, FinishOk
<1>12. CASE /\ session' = ended /\ disk' = Checkpoint(begun)
            /\ wire' = out.wire /\ drains' = e.drains /\ told' = e.told
  <2>1. StateOk(begun, e.drains, Checkpoint(begun), e.wire, e.told, ruled, sn)
    BY <1>7, SaveOk
  <2>2. StateOk(ended, e.drains, Checkpoint(begun), out.wire, out.told, ruled, sn)
    BY <1>8, <2>1
  <2> QED BY <1>3, <1>12, <2>2 DEF After
<1>13. CASE c # "sync" /\ Finish(ended, Tell(out, t, "delivered", c), c)
  <2> DEFINE word == "delivered"
  <2>1. word \in Words
    BY DEF Words
  <2>2. StateOk(ended, out.drains, disk, out.wire, out.told, ruled', sn)
    BY <1>3, <1>7, <1>8
  <2>3. Finish(ended, Tell(out, t, word, c), c)
    BY <1>13
  <2> HIDE DEF word
  <2> QED BY <1>0, <1>3, <1>6, <1>9, <2>1, <2>2, <2>3, FinishToldOk
<1> QED BY <1>2, <1>10, <1>11, <1>12, <1>13

LEMMA HandleStarterOk ==
  ASSUME NEW m, NEW e, NEW c \in Cuts, NEW sn, Handling(m, e, sn), m.kind \in Starters,
         HandleStarter(m, e, c)
  PROVE  After(sn)
<1>0. ruled' = ruled
  BY DEF HandleStarter
<1>1. CASE m.kind = "observe"
  <2>1. ObserveDirectly(m.task, e, c)
    BY <1>1 DEF HandleStarter
  <2> QED BY <1>0, <2>1, ObserveDirectlyOk
<1>2. CASE m.kind # "observe" /\ session.active # None
  <2>1. Enqueue(m, e)
    BY <1>2 DEF HandleStarter
  <2> QED BY <1>0, <2>1, EnqueueOk
<1>3. CASE m.kind # "observe" /\ session.active = None /\ session.parkedP # None
  <2>1. CancelPlan(e, c) \/ ConfirmPlan(m.task, e, c)
    BY <1>3 DEF HandleStarter
  <2> QED BY <1>0, <1>3, <2>1, CancelPlanOk, ConfirmPlanOk
<1>4. CASE m.kind # "observe" /\ session.active = None /\ session.parkedP = None
  <2>1. \/ GateTask(m.task, e, c)
        \/ m.task \notin GatedTasks /\ StartTurn(m.task, e, c)
        \/ m.task \notin GatedTasks /\ LocalTurn(m.task, e, c)
    BY <1>4 DEF HandleStarter
  <2> QED BY <1>0, <1>4, <2>1, GateTaskOk, StartTurnOk, LocalTurnOk
<1> QED BY <1>1, <1>2, <1>3, <1>4

-----------------------------------------------------------------------------
(***************************************************************************)
(* Rulings of the operator                                                 *)
(***************************************************************************)

\* Another policy leaves every message where it is.
LEMMA TrustOk ==
  ASSUME NEW s, NEW dr, NEW d, NEW w, NEW tl, NEW ru, NEW sn,
         StateOk(s, dr, d, w, tl, ru, sn), NEW trust \in BOOLEAN
  PROVE  StateOk([s EXCEPT !.trusted = trust], dr, d, w, tl, ru, sn)
<1> DEFINE s2 == [s EXCEPT !.trusted = trust]
<1>0. s \in Sessions
  BY DEF StateOk
<1>1. /\ s2 \in Sessions /\ s2.queue = s.queue /\ s2.active = s.active
      /\ s2.parkedA = s.parkedA /\ s2.parkedP = s.parkedP
  BY <1>0 DEF Sessions
<1> HIDE DEF s2
<1>2. AskedSession(ru, s2)
  BY <1>1 DEF AskedSession, StateOk
<1>3. ASSUME NEW x \in Tasks PROVE OneSlot(s2, x) /\ (Held(s2, x) => Held(s, x))
  <2>1. OneSlot(s, x)
    BY DEF StateOk, Placed
  <2> QED BY <1>1, <2>1 DEF OneSlot, Held, On
<1>4. StateOk(s2, dr, d, w, tl, ru, sn)
  BY <1>1, <1>2, <1>3, SessionSwap
<1> QED BY <1>4 DEF s2

\* The parked turn that the operator rules on, and the session it comes back to.
Ruling(t, yes) == [task |-> t.task, ask |-> t.ask, yes |-> yes]
Restored(t) == [t EXCEPT !.ask = None, !.phase = "Thinking"]

\* The session's turn t comes back: everything it may do has been ruled on.
LEMMA RestoredAsked ==
  ASSUME NEW ru, NEW t \in Turns, AskedBut(ru, t), NEW yes \in BOOLEAN
  PROVE  /\ Restored(t) \in Turns /\ Restored(t).task = t.task /\ Restored(t).tool = t.tool
         /\ Asked(ru \cup {Ruling(t, yes)}, Restored(t))
         /\ Ruling(t, yes) \in Rulings
<1> DEFINE r == Ruling(t, yes)
           ru2 == ru \cup {r}
           u == Restored(t)
<1>1. u \in Turns /\ u.task = t.task /\ u.tool = t.tool /\ u.direct = t.direct
  BY DEF Restored, Turns, Phases
<1>2. r.task = t.task /\ r.ask = t.ask /\ r.yes = yes
  BY DEF Ruling
<1>3. r \in Rulings
  BY DEF Ruling, Rulings, AskedBut, Subjects, Turns
<1> HIDE DEF r, u
<1>4. Ruled(ru2, t.task, t.ask) /\ \A a : Ruled(ru, t.task, a) => Ruled(ru2, t.task, a)
  BY <1>2 DEF Ruled
<1> HIDE DEF ru2
<1>5. Asked(ru2, u)
  BY <1>1, <1>4 DEF Asked, AskedBut
<1> QED BY <1>1, <1>3, <1>5 DEF ru2, u, r

LEMMA ApprovalBack ==
  ASSUME NEW m, NEW e, NEW c \in Cuts, NEW sn, Handling(m, e, sn),
         session.active = None, session.parkedA # None, NEW yes \in BOOLEAN,
         ruled' = ruled \cup {Ruling(session.parkedA, yes)}, NEW trust \in BOOLEAN
  PROVE  LET s == [session EXCEPT !.parkedA = None, !.trusted = trust,
                                  !.active = Restored(session.parkedA)] IN
         /\ StateOk(s, e.drains, disk, e.wire, e.told, ruled', sn)
         /\ Ready(s, e, c) /\ s.active = Restored(session.parkedA) /\ s.active # None
         /\ s.parkedA = None /\ s.parkedP = session.parkedP /\ s.queue = session.queue
         /\ s.active.task = session.parkedA.task
<1> DEFINE t == session.parkedA
           u == Restored(t)
           s == [session EXCEPT !.parkedA = None, !.trusted = trust, !.active = u]
<1>0. /\ e \in EffectSet /\ session \in Sessions
      /\ StateOk(session, e.drains, disk, e.wire, e.told, ruled, sn)
  BY DEF Handling, StateOk
<1>1. t \in Turns /\ AskedBut(ruled, t)
  BY <1>0 DEF Sessions, StateOk, AskedSession
<1>2. u \in Turns /\ u.task = t.task /\ Asked(ruled', u)
  BY <1>1, RestoredAsked
<1> HIDE DEF u
<1>3. /\ s \in Sessions /\ s.queue = session.queue /\ s.active = u
      /\ s.parkedA = None /\ s.parkedP = session.parkedP
  BY <1>0, <1>2 DEF Sessions
<1> HIDE DEF s
<1>4. AskedSession(ruled, session) /\ AskedSession(ruled', session)
  BY <1>0, AskedMore DEF StateOk
<1>5. AskedSession(ruled', s)
  BY <1>2, <1>3, <1>4 DEF AskedSession
<1>6. ASSUME NEW x \in Tasks PROVE OneSlot(s, x) /\ (Held(s, x) => Held(session, x))
  <2>1. OneSlot(session, x)
    BY <1>0 DEF StateOk, Placed
  <2> QED BY <1>2, <1>3, <2>1 DEF OneSlot, Held, On
<1>7. StateOk(s, e.drains, disk, e.wire, e.told, ruled', sn)
  BY <1>0, <1>3, <1>5, <1>6, SessionSwap
<1>8. Ready(s, e, c)
  BY <1>0, <1>2, <1>3, <1>7 DEF Ready, StateOk
<1>9. u # None
  BY <1>2, NoneIsNoTurn
<1> QED BY <1>2, <1>3, <1>7, <1>8, <1>9 DEF s, u

LEMMA ApproveOk ==
  ASSUME NEW s, NEW e, NEW c, NEW sn, Ready(s, e, c), s.active # None,
         StateOk(s, e.drains, disk, e.wire, e.told, ruled', sn), Approve(s, e, c)
  PROVE  After(sn)
<1> DEFINE t == s.active.task
           word == "approved"
           f == Tell(e, t, word, c)
           tool == s.active.tool
<1>0. /\ e \in EffectSet /\ s.active \in Turns /\ t \in Tasks /\ tool \in Calls \cup {None}
      /\ Asked(ruled', s.active)
  BY DEF Ready, Turns
<1>1. word \in Words /\ word \notin Final
  BY DEF Words, Final
<1>2. Finish(s, f, c) \/ (tool # None /\ RunTool(s, tool, f, c))
  BY DEF Approve
<1> HIDE DEF word
<1>3. CASE Finish(s, f, c)
  BY <1>0, <1>1, <1>3, FinishToldOk
<1>4. CASE tool # None /\ RunTool(s, tool, f, c)
  <2>1. f \in EffectSet /\ StateOk(s, f.drains, disk, f.wire, f.told, ruled', sn)
    BY <1>0, <1>1, TellOk
  <2>2. f.wire = e.wire
    BY <1>0 DEF Tell, EffectSet
  <2> HIDE DEF f
  <2>3. Ready(s, f, c)
    BY <2>1, <2>2 DEF Ready
  <2>4. tool \in Calls /\ (tool \in Locked => Ruled(ruled', t, tool))
    BY <1>0, <1>4 DEF Asked
  <2>5. Outcome(s, f, c)
    BY <1>4, <2>3, <2>4, RunToolOutcome
  <2> QED BY <2>1, <2>3, <2>5, OutcomeOk DEF After
<1> QED BY <1>2, <1>3, <1>4

LEMMA DenyOk ==
  ASSUME NEW s, NEW e, NEW c, NEW sn, Ready(s, e, c), s.active # None,
         StateOk(s, e.drains, disk, e.wire, e.told, ruled', sn), Deny(s, e, c)
  PROVE  After(sn)
<1> DEFINE t == s.active.task
           word == "denied"
           u == [s.active EXCEPT !.phase = "Failed"]
           r == [s EXCEPT !.active = u]
<1>0. /\ e \in EffectSet /\ s \in Sessions /\ s.active \in Turns /\ t \in Tasks
      /\ Asked(ruled', s.active)
  BY DEF Ready, Turns
<1>1. word \in Words /\ word \notin Final
  BY DEF Words, Final
<1>2. Finish(r, Tell(e, t, word, c), c)
  BY DEF Deny
<1>3. u \in Turns /\ u.task = t /\ u.tool = s.active.tool /\ u.direct = s.active.direct
  BY <1>0 DEF Turns, Phases
<1>4. Asked(ruled', u)
  BY <1>0, <1>3 DEF Asked
<1> HIDE DEF word, u
<1>5. /\ r \in Sessions /\ r.queue = s.queue /\ r.active = u
      /\ r.parkedA = s.parkedA /\ r.parkedP = s.parkedP
  BY <1>0, <1>3 DEF Sessions
<1> HIDE DEF r
<1>6. AskedSession(ruled', r)
  BY <1>4, <1>5 DEF AskedSession, StateOk
<1>7. ASSUME NEW x \in Tasks PROVE OneSlot(r, x) /\ (Held(r, x) => Held(s, x))
  <2>1. OneSlot(s, x)
    BY DEF StateOk, Placed
  <2> QED BY <1>3, <1>5, <2>1 DEF OneSlot, Held, On
<1>8. StateOk(r, e.drains, disk, e.wire, e.told, ruled', sn)
  BY <1>5, <1>6, <1>7, SessionSwap
<1> QED BY <1>0, <1>1, <1>2, <1>8, FinishToldOk

LEMMA ResumeOk ==
  ASSUME NEW s, NEW e, NEW c, NEW sn, Ready(s, e, c), s.active # None,
         StateOk(s, e.drains, disk, e.wire, e.told, ruled', sn), ResumeWithSteering(s, e, c)
  PROVE  After(sn)
<1> DEFINE t == s.active
           u == [t EXCEPT !.iter = @ + 1, !.phase = "WaitingModel"]
<1>0. t \in Turns /\ Asked(ruled', t)
  BY DEF Ready
<1>1. Finish(s, e, c) \/ AskModel(s, u, TurnId(t.task), e, c)
  BY DEF ResumeWithSteering
<1>2. t.iter + 1 \in Nat /\ "WaitingModel" \in Phases
  BY <1>0 DEF Turns, Phases
<1>3. u \in Turns /\ u.task = t.task /\ u.tool = t.tool /\ u.direct = t.direct
  BY <1>0, <1>2 DEF Turns
<1>4. Asked(ruled', u)
  BY <1>0, <1>3 DEF Asked
<1> HIDE DEF u
<1>5. ASSUME AskModel(s, u, TurnId(t.task), e, c) PROVE GoesOn(s, e, c)
  BY <1>0, <1>3, <1>4, <1>5, OwnId, AskModelGoesOn
<1> QED BY <1>1, <1>5, FinishOk, GoesOnOk DEF After

LEMMA ResolveApprovalOk ==
  ASSUME NEW m, NEW e, NEW c \in Cuts, NEW sn, Handling(m, e, sn),
         session.active = None, session.parkedA # None, NEW kind,
         ResolveApproval(kind, e, c)
  PROVE  After(sn) /\ ruled' \in SUBSET (ruled \cup Rulings)
<1> DEFINE t == session.parkedA
           yes == kind \in {"approve", "approveNote", "trust"}
           trust == session.trusted \/ kind = "trust"
           s == [session EXCEPT !.parkedA = None, !.trusted = trust, !.active = Restored(t)]
<1>0. /\ e \in EffectSet /\ session \in Sessions
      /\ StateOk(session, e.drains, disk, e.wire, e.told, ruled, sn)
  BY DEF Handling, StateOk
<1>1. ruled' = ruled \cup {Ruling(t, yes)}
  BY DEF ResolveApproval, Ruling
<1>2. yes \in BOOLEAN /\ trust \in BOOLEAN
  BY <1>0 DEF Sessions
<1>3. \/ /\ session' = s /\ disk' = Checkpoint([session EXCEPT !.trusted = TRUE])
         /\ wire' = e.wire /\ drains' = e.drains /\ told' = e.told
      \/ Approve(s, e, c) \/ Deny(s, e, c) \/ ResumeWithSteering(s, e, c)
  BY DEF ResolveApproval, Restored
<1> HIDE DEF yes, trust
<1>4. /\ StateOk(s, e.drains, disk, e.wire, e.told, ruled', sn)
      /\ Ready(s, e, c) /\ s.active # None
      /\ s.active = Restored(t) /\ s.active.task = t.task
      /\ s.parkedA = None /\ s.parkedP = session.parkedP /\ s.queue = session.queue
  BY <1>1, <1>2, ApprovalBack
<1> HIDE DEF s
<1>5. ruled' \in SUBSET (ruled \cup Rulings)
  <2>1. t \in Turns /\ AskedBut(ruled, t)
    BY <1>0 DEF Sessions, StateOk, AskedSession
  <2> QED BY <1>1, <1>2, <2>1, RestoredAsked
<1>6. ASSUME /\ session' = s /\ disk' = Checkpoint([session EXCEPT !.trusted = TRUE])
             /\ wire' = e.wire /\ drains' = e.drains /\ told' = e.told
      PROVE  After(sn)
  <2> DEFINE r == [session EXCEPT !.trusted = TRUE]
  <2>1. StateOk(r, e.drains, disk, e.wire, e.told, ruled, sn)
    BY <1>0, TrustOk
  <2>2. StateOk(r, e.drains, Checkpoint(r), e.wire, e.told, ruled, sn)
    BY <2>1, SaveOk
  <2>3. /\ r.active = session.active /\ r.parkedA = t /\ r.parkedP = session.parkedP
        /\ r.queue = session.queue
    BY <1>0 DEF Sessions
  <2> HIDE DEF r
  <2>4. ASSUME NEW x \in Tasks PROVE OneSlot(s, x) /\ (Held(s, x) => Held(r, x))
    <3>1. OneSlot(s, x)
      BY <1>4 DEF StateOk, Placed
    <3> QED BY <1>4, <2>3, <3>1 DEF Held, On
  <2>5. s \in Sessions /\ AskedSession(ruled', s)
    BY <1>4 DEF StateOk
  <2>6. s.queue = r.queue /\ ruled \subseteq ruled'
    BY <1>1, <1>4, <2>3
  <2>7. StateOk(s, e.drains, Checkpoint(r), e.wire, e.told, ruled', sn)
    BY <2>2, <2>4, <2>5, <2>6, SessionSwap
  <2> QED BY <1>6, <2>7 DEF After, r
<1>7. After(sn)
  BY <1>3, <1>4, <1>6, ApproveOk, DenyOk, ResumeOk
<1> QED BY <1>5, <1>7

LEMMA NothingPendingOk ==
  ASSUME NEW m, NEW e, NEW c \in Cuts, NEW sn, Handling(m, e, sn), NEW kind,
         NothingPending(kind, e, c)
  PROVE  After(sn) /\ ruled' = ruled
<1>0. /\ StateOk(session, e.drains, disk, e.wire, e.told, ruled, sn) /\ e.told = told
      /\ ruled' = ruled
  BY DEF Handling, NothingPending
<1>1. CASE kind = "trust"
  <2>1. Finish([session EXCEPT !.trusted = TRUE], e, c)
    BY <1>1 DEF NothingPending
  <2>2. StateOk([session EXCEPT !.trusted = TRUE], e.drains, disk, e.wire, e.told, ruled', sn)
    BY <1>0, TrustOk
  <2> QED BY <1>0, <2>1, <2>2, FinishOk
<1>2. CASE kind # "trust"
  <2>1. /\ wire' = e.wire /\ drains' = e.drains /\ session' = session /\ disk' = disk
        /\ told' = told
    BY <1>2 DEF NothingPending
  <2> QED BY <1>0, <2>1 DEF After
<1> QED BY <1>1, <1>2

LEMMA HandleApprovalOk ==
  ASSUME NEW m, NEW e, NEW c \in Cuts, NEW sn, Handling(m, e, sn), m.kind \notin Starters,
         HandleApproval(m, e, c)
  PROVE  After(sn) /\ ruled' \in SUBSET (ruled \cup Rulings)
<1>1. CASE session.parkedA # None /\ session.active # None
  <2>1. /\ session' = [session EXCEPT !.queue = <<m>> \o @]
        /\ wire' = e.wire /\ drains' = e.drains /\ disk' = disk /\ told' = told /\ ruled' = ruled
    BY <1>1 DEF HandleApproval
  <2> QED BY <2>1, DeferOk
<1>2. CASE session.parkedA # None /\ session.active = None
  <2>1. ResolveApproval(m.kind, e, c)
    BY <1>2 DEF HandleApproval
  <2> QED BY <1>2, <2>1, ResolveApprovalOk
<1>3. CASE session.parkedA = None
  <2>1. NothingPending(m.kind, e, c)
    BY <1>3 DEF HandleApproval
  <2>2. After(sn) /\ ruled' = ruled
    BY <2>1, NothingPendingOk
  <2> QED BY <2>2
<1> QED BY <1>1, <1>2, <1>3

LEMMA HandleClearOk ==
  ASSUME NEW m, NEW e, NEW c \in Cuts, NEW sn, Handling(m, e, sn), HandleClear(e, c)
  PROVE  After(sn) /\ ruled' = ruled
<1>0. /\ e \in EffectSet /\ session \in Sessions /\ ruled' = ruled
      /\ StateOk(session, e.drains, disk, e.wire, e.told, ruled, sn)
  BY DEF Handling, StateOk, HandleClear
<1>1. CASE session.parkedA = None
  <2>1. NothingPending("clear", e, c)
    BY <1>1 DEF HandleClear
  <2> QED BY <2>1, NothingPendingOk
<1>2. CASE session.parkedA # None
  <2> DEFINE t == session.parkedA.task
             s == [session EXCEPT !.parkedA = None]
             word == "failed"
  <2>1. Finish(s, Tell(e, t, word, c), c)
    BY <1>2 DEF HandleClear
  <2>2. session.parkedA \in Turns /\ t \in Tasks /\ word \in Words
    BY <1>0, <1>2 DEF Sessions, Turns, Words
  <2> HIDE DEF word
  <2>3. /\ s \in Sessions /\ s.queue = session.queue /\ s.active = session.active
        /\ s.parkedA = None /\ s.parkedP = session.parkedP
    BY <1>0 DEF Sessions
  <2> HIDE DEF s
  <2>4. AskedSession(ruled, s)
    BY <1>0, <2>3 DEF AskedSession, StateOk
  <2>5. ASSUME NEW x \in Tasks PROVE OneSlot(s, x) /\ (Held(s, x) => Held(session, x))
    <3>1. OneSlot(session, x)
      BY <1>0 DEF StateOk, Placed
    <3> QED BY <2>3, <3>1 DEF OneSlot, Held, On
  <2>6. StateOk(s, e.drains, disk, e.wire, e.told, ruled', sn)
    BY <1>0, <2>3, <2>4, <2>5, SessionSwap
  <2>7. t \in sn /\ ~Held(s, t) /\ ~Queued(s.queue, t) /\ ~Queued(e.drains, t)
    <3>1. Placed(session, e.drains, disk, e.told, t) /\ (t \notin sn => Gone(session, e.drains, disk, t))
      BY <1>0, <2>2 DEF StateOk
    <3>2. On(session.parkedA, t) /\ Held(session, t)
      BY <1>2 DEF On, Held
    <3>3. ~Held(s, t)
      BY <2>3, <3>1, <3>2 DEF Placed, OneSlot, Held, On
    <3> QED BY <2>3, <3>1, <3>2, <3>3 DEF Placed, Gone
  <2>8. After(sn)
    BY <1>0, <2>1, <2>2, <2>6, <2>7, FinishToldOk
  <2> QED BY <1>0, <2>8
<1> QED BY <1>1, <1>2

LEMMA HandleUserMessageOk ==
  ASSUME NEW m, NEW e, NEW sn, Handling(m, e, sn), HandleUserMessage(m, e)
  PROVE  /\ After(sn) /\ ruled' \in SUBSET (ruled \cup Rulings)
         /\ \E c \in Cuts : Cut(c)
<1>1. PICK c \in Cuts :
        /\ Cut(c)
        /\ \/ m.kind \in Starters /\ HandleStarter(m, e, c)
           \/ m.kind \notin Starters /\ HandleClear(e, c)
           \/ m.kind \notin Starters /\ HandleApproval(m, e, c)
  BY DEF HandleUserMessage, Starters
<1>2. HandleStarter(m, e, c) => ruled' = ruled
  BY DEF HandleStarter
<1> QED BY <1>1, <1>2, HandleStarterOk, HandleClearOk, HandleApprovalOk

-----------------------------------------------------------------------------
(***************************************************************************)
(* The invariant of the specification                                      *)
(***************************************************************************)

Counted ==
  /\ ruled \subseteq Rulings /\ seen \subseteq Tasks
  /\ commands \in 0..MaxCommands /\ faults \in 0..MaxFaults /\ restarts \in 0..MaxRestarts

\* A session that is not loaded is empty, and nothing was drained from it.
Unloaded == loaded \in BOOLEAN /\ (~loaded => session = NoSession /\ drains = <<>>)

InOrder == StateOk(session, drains, disk, wire, told, ruled, seen)

TurnInv == InOrder /\ Counted /\ Unloaded

LEMMA NoSessionEmpty ==
  /\ NoSession \in Sessions /\ NoSession.queue = <<>>
  /\ NoSession.active = None /\ NoSession.parkedA = None /\ NoSession.parkedP = None
<1>1. <<>> \in Seq(Messages)
  OBVIOUS
<1> QED BY <1>1 DEF NoSession, Sessions

\* Nothing is in an empty session.
LEMMA NoSessionOk ==
  ASSUME NEW ru, NEW t
  PROVE  /\ AskedSession(ru, NoSession) /\ ~Held(NoSession, t) /\ OneSlot(NoSession, t)
         /\ ~Queued(NoSession.queue, t) /\ QueuedOnce(NoSession.queue, t)
BY NoSessionEmpty, QueueEmpty DEF AskedSession, Held, OneSlot, On

LEMMA InitInv == Init => TurnInv
<1> SUFFICES ASSUME Init PROVE TurnInv
  OBVIOUS
<1>1. /\ session = NoSession /\ loaded = TRUE /\ drains = <<>> /\ disk = NoSession
      /\ wire = {} /\ told = [t \in Tasks |-> {}] /\ ruled = {} /\ seen = {}
      /\ commands = 0 /\ faults = 0 /\ restarts = 0
  BY DEF Init
<1>2. ASSUME NEW t \in Tasks PROVE ~Closed(told, t)
  BY <1>1 DEF Closed
<1>3. ASSUME NEW t \in Tasks
      PROVE  /\ Placed(session, drains, disk, told, t)
             /\ Gone(session, drains, disk, t) /\ ~Closed(told, t)
  BY <1>1, <1>2, NoSessionOk, QueueEmpty DEF Placed, Gone
<1>4. told \in [Tasks -> SUBSET Words] /\ drains \in Seq(Messages)
  BY <1>1
<1>5. InOrder
  BY <1>1, <1>3, <1>4, NoSessionEmpty, NoSessionOk DEF InOrder, StateOk
<1>6. Counted /\ Unloaded
  BY <1>1, TurnAssumption DEF Counted, Unloaded
<1> QED BY <1>5, <1>6 DEF TurnInv

LEMMA CutCounts ==
  ASSUME faults \in 0..MaxFaults, NEW c, Cut(c)
  PROVE  faults' \in 0..MaxFaults
<1>1. MaxFaults \in Nat
  BY TurnAssumption
<1>2. CASE c = "none"
  BY <1>2 DEF Cut
<1>3. CASE c # "none"
  BY <1>1, <1>3 DEF Cut
<1> QED BY <1>2, <1>3

\* What a handler starts with.
LEMMA EffectsFit ==
  ASSUME InOrder, NEW w, w \subseteq wire, NEW rest \in Seq(Messages)
  PROVE  LET e == Effects(w, rest) IN
         e \in EffectSet /\ e.wire = w /\ e.drains = rest /\ e.told = told
<1>1. w \in SUBSET Requests /\ told \in [Tasks -> SUBSET Words]
  BY DEF InOrder, StateOk, AskedRequest
<1> QED BY <1>1 DEF Effects, EffectSet

LEMMA EffectsFitNone ==
  ASSUME InOrder, NEW w, w \subseteq wire
  PROVE  LET e == Effects(w, <<>>) IN
         e \in EffectSet /\ e.wire = w /\ e.drains = <<>> /\ e.told = told
<1> DEFINE rest == <<>>
<1>1. rest \in Seq(Messages)
  OBVIOUS
<1> HIDE DEF rest
<1>2. LET e == Effects(w, rest) IN
      e \in EffectSet /\ e.wire = w /\ e.drains = rest /\ e.told = told
  BY <1>1, EffectsFit
<1> QED BY <1>2 DEF rest

\* More known messages, fewer open requests.
LEMMA SeenMore ==
  ASSUME NEW s, NEW dr, NEW d, NEW w, NEW tl, NEW ru, NEW sn,
         StateOk(s, dr, d, w, tl, ru, sn), NEW sn2, sn \subseteq sn2, NEW w2, w2 \subseteq w
  PROVE  StateOk(s, dr, d, w2, tl, ru, sn2)
BY DEF StateOk

\* The first of the drained messages in the handler's hands.
LEMMA TakeDrained ==
  ASSUME NEW s, NEW dr, NEW d, NEW w, NEW tl, NEW ru, NEW sn,
         StateOk(s, dr, d, w, tl, ru, sn), dr # <<>>
  PROVE  /\ StateOk(s, Tail(dr), d, w, tl, ru, sn) /\ Head(dr) \in Messages
         /\ Tail(dr) \in Seq(Messages)
         /\ Head(dr).task \in Tasks => /\ Head(dr).task \in sn /\ Gone(s, Tail(dr), d, Head(dr).task)
                                       /\ ~Closed(tl, Head(dr).task)
<1> DEFINE h == Head(dr)
           r == Tail(dr)
<1>0. dr \in Seq(Messages)
  BY DEF StateOk
<1>1. h \in Messages /\ r \in Seq(Messages)
  BY <1>0
<1>2. ASSUME NEW t \in Tasks
      PROVE  /\ Placed(s, r, d, tl, t)
             /\ t \notin sn => Gone(s, r, d, t) /\ ~Closed(tl, t)
             /\ t = h.task => t \in sn /\ Gone(s, r, d, t) /\ ~Closed(tl, t)
  <2>1. /\ Placed(s, dr, d, tl, t)
        /\ t \notin sn => Gone(s, dr, d, t) /\ ~Closed(tl, t)
    BY DEF StateOk
  <2>2. /\ Queued(dr, t) <=> h.task = t \/ Queued(r, t)
        /\ QueuedOnce(dr, t) => QueuedOnce(r, t)
        /\ QueuedOnce(dr, t) /\ h.task = t => ~Queued(r, t)
    BY <1>0, QueueTail
  <2> HIDE DEF h, r
  <2> QED BY <2>1, <2>2 DEF Placed, Gone
<1> HIDE DEF h, r
<1>3. StateOk(s, r, d, w, tl, ru, sn)
  BY <1>1, <1>2 DEF StateOk
<1> QED BY <1>1, <1>2, <1>3 DEF h, r

LEMMA StarterTask ==
  ASSUME NEW m \in Messages, m.kind \in Starters
  PROVE  m.task \in Tasks
BY DEF Messages, Starters, Commands

LEMMA ReceiveMessageInv ==
  ASSUME TurnInv, NEW m \in Messages, ReceiveMessage(m)
  PROVE  TurnInv'
<1> DEFINE e == Effects(wire, <<>>)
<1>1. /\ InOrder /\ Counted /\ loaded = TRUE /\ drains = <<>> /\ loaded' = loaded
      /\ restarts' = restarts /\ HandleUserMessage(m, e)
  BY DEF TurnInv, ReceiveMessage, Unloaded
<1>2. \/ /\ m.kind \in Starters /\ m.task \notin seen
         /\ seen' = seen \cup {m.task} /\ commands' = commands
      \/ /\ m.kind \notin Starters /\ seen' = seen
         /\ commands < MaxCommands /\ commands' = commands + 1
  BY DEF ReceiveMessage
<1>3. e \in EffectSet /\ e.wire = wire /\ e.drains = <<>> /\ e.told = told
  BY <1>1, EffectsFitNone
<1> HIDE DEF e
<1>4. StateOk(session, e.drains, disk, e.wire, e.told, ruled, seen')
  <2>1. StateOk(session, drains, disk, wire, told, ruled, seen)
    BY <1>1 DEF InOrder
  <2>2. seen \subseteq seen'
    BY <1>2
  <2> QED BY <1>1, <1>3, <2>1, <2>2, SeenMore
<1>5. m.kind \in Starters => /\ m.task \in Tasks /\ m.task \in seen'
                             /\ Gone(session, e.drains, disk, m.task) /\ ~Closed(e.told, m.task)
  <2>1. m.kind \in Starters => m.task \in Tasks /\ m.task \notin seen /\ m.task \in seen'
    BY <1>2, StarterTask
  <2> QED BY <1>1, <1>3, <2>1 DEF InOrder, StateOk
<1>6. Handling(m, e, seen')
  BY <1>3, <1>4, <1>5 DEF Handling
<1>7. After(seen') /\ ruled' \in SUBSET (ruled \cup Rulings) /\ \E c \in Cuts : Cut(c)
  BY <1>1, <1>6, HandleUserMessageOk
<1>8. InOrder'
  BY <1>7 DEF After, InOrder
<1>9. Counted'
  <2>1. faults' \in 0..MaxFaults
    BY <1>1, <1>7, CutCounts DEF Counted
  <2>2. commands' \in 0..MaxCommands
    BY <1>1, <1>2, TurnAssumption DEF Counted
  <2>3. seen' \subseteq Tasks
    BY <1>1, <1>2, StarterTask DEF Counted
  <2> QED BY <1>1, <1>7, <2>1, <2>2, <2>3 DEF Counted
<1> QED BY <1>1, <1>8, <1>9 DEF TurnInv, Unloaded

LEMMA ReceiveDrainedInv ==
  ASSUME TurnInv, ReceiveDrained
  PROVE  TurnInv'
<1> DEFINE m == Head(drains)
           rest == Tail(drains)
           e == Effects(wire, rest)
<1>0. drains # <<>> /\ HandleUserMessage(m, e) /\ loaded' = loaded /\ budgets' = budgets
  BY DEF ReceiveDrained
<1>a. loaded = TRUE
  BY <1>0 DEF TurnInv, Unloaded
<1>1. /\ InOrder /\ Counted /\ loaded = TRUE /\ drains # <<>> /\ loaded' = loaded
      /\ restarts' = restarts /\ seen' = seen /\ commands' = commands
      /\ HandleUserMessage(m, e)
  BY <1>0, <1>a DEF TurnInv, budgets
<1>2. /\ StateOk(session, rest, disk, wire, told, ruled, seen) /\ m \in Messages
      /\ rest \in Seq(Messages)
      /\ m.task \in Tasks => /\ m.task \in seen /\ Gone(session, rest, disk, m.task)
                             /\ ~Closed(told, m.task)
  BY <1>1, TakeDrained DEF InOrder
<1> HIDE DEF m, rest
<1>3. e \in EffectSet /\ e.wire = wire /\ e.drains = rest /\ e.told = told
  BY <1>1, <1>2, EffectsFit
<1> HIDE DEF e
<1>4. Handling(m, e, seen')
  BY <1>1, <1>2, <1>3, StarterTask DEF Handling
<1>5. After(seen') /\ ruled' \in SUBSET (ruled \cup Rulings) /\ \E c \in Cuts : Cut(c)
  BY <1>1, <1>4, HandleUserMessageOk
<1>6. InOrder'
  BY <1>5 DEF After, InOrder
<1>7. Counted'
  <2>1. faults' \in 0..MaxFaults
    BY <1>1, <1>5, CutCounts DEF Counted
  <2> QED BY <1>1, <1>5, <2>1 DEF Counted
<1> QED BY <1>1, <1>6, <1>7 DEF TurnInv, Unloaded

\* Only the open requests get fewer.
LEMMA FewerRequests ==
  ASSUME InOrder, wire' \subseteq wire, session' = session, disk' = disk, drains' = drains,
         told' = told, ruled' = ruled, seen' = seen
  PROVE  InOrder'
<1>1. StateOk(session, drains, disk, wire', told, ruled, seen)
  BY SeenMore DEF InOrder
<1> QED BY <1>1 DEF InOrder

LEMMA ReceiveAnswerInv ==
  ASSUME TurnInv, NEW x \in wire, ReceiveAnswer(x)
  PROVE  TurnInv'
<1>0. /\ InOrder /\ Counted /\ Unloaded /\ drains = <<>>
      /\ loaded' = loaded /\ ruled' = ruled /\ seen' = seen /\ commands' = commands
      /\ restarts' = restarts
  BY DEF TurnInv, ReceiveAnswer, budgets
<1>1. PICK c \in Cuts, again \in BOOLEAN :
        LET e == Effects(IF again THEN wire ELSE wire \ {x}, <<>>) IN
        /\ again => c = "none" /\ faults < MaxFaults
        /\ IF again THEN faults' = faults + 1 ELSE Cut(c)
        /\ \/ x.to = "model" /\ loaded /\ ModelAnswer(x, e, c)
           \/ x.to = "tool" /\ ToolAnswer(x, e, c)
  BY DEF ReceiveAnswer
<1> DEFINE w == IF again THEN wire ELSE wire \ {x}
           e == Effects(w, <<>>)
<1>2. w \subseteq wire
  OBVIOUS
<1>a. ModelAnswer(x, e, c) \/ (x.to = "tool" /\ ToolAnswer(x, e, c))
  BY <1>1
<1>3. faults' \in 0..MaxFaults
  <2>1. CASE again
    BY <1>0, <1>1, <2>1, TurnAssumption DEF Counted
  <2>2. CASE ~again
    BY <1>0, <1>1, <2>2, CutCounts DEF Counted
  <2> QED BY <2>1, <2>2
<1> HIDE DEF w
<1>4. e \in EffectSet /\ e.wire = w /\ e.drains = <<>> /\ e.told = told
  BY <1>0, <1>2, EffectsFitNone
<1> HIDE DEF e
<1>5. StateOk(session, e.drains, disk, e.wire, e.told, ruled', seen')
  BY <1>0, <1>2, <1>4, SeenMore DEF InOrder
<1>6. AskedRequest(ruled', x)
  BY <1>0 DEF InOrder, StateOk
<1>7. CASE Ignored(e, c)
  <2>1. /\ wire' = w /\ session' = session /\ disk' = disk /\ drains' = drains /\ told' = told
    BY <1>4, <1>7 DEF Ignored
  <2>2. InOrder'
    BY <1>0, <1>2, <2>1, FewerRequests
  <2> QED BY <1>0, <1>3, <2>1, <2>2 DEF TurnInv, Counted, Unloaded
<1>8. CASE ~Ignored(e, c)
  <2>1. session.active # None
    BY <1>a, <1>8 DEF ModelAnswer, ToolAnswer, StaleAnswer
  <2>2. Ready(session, e, c)
    <3>1. session \in Sessions /\ session.active \in Turns
      BY <1>5, <2>1 DEF StateOk, Sessions
    <3>2. Asked(ruled', session.active) /\ \A y \in e.wire : AskedRequest(ruled', y)
      BY <1>5, <2>1 DEF StateOk, AskedSession
    <3> QED BY <1>4, <3>1, <3>2 DEF Ready
  <2>3. Outcome(session, e, c)
    <3>1. CASE ModelAnswer(x, e, c)
      <4>1. ~StaleAnswer(x)
        BY <1>8, <3>1 DEF ModelAnswer
      <4> QED BY <2>2, <3>1, <4>1, ModelAnswerOutcome
    <3>2. CASE x.to = "tool" /\ ToolAnswer(x, e, c)
      BY <1>6, <2>1, <2>2, <3>2, ToolAnswerOutcome
    <3> QED BY <1>a, <3>1, <3>2
  <2>4. StateOk(session', drains', disk', wire', told', ruled', seen')
    BY <1>5, <2>1, <2>2, <2>3, OutcomeOk
  <2>5. loaded = TRUE
    BY <1>0, <2>1, NoSessionEmpty DEF Unloaded
  <2>6. InOrder'
    BY <2>4 DEF InOrder
  <2> QED BY <1>0, <1>3, <2>5, <2>6 DEF TurnInv, Counted, Unloaded
<1> QED BY <1>7, <1>8

LEMMA LoseAnswerInv ==
  ASSUME TurnInv, NEW x \in wire, LoseAnswer(x)
  PROVE  TurnInv'
<1>1. /\ InOrder /\ Counted /\ Unloaded /\ faults < MaxFaults /\ faults' = faults + 1
      /\ wire' = wire \ {x} /\ session' = session /\ loaded' = loaded /\ drains' = drains
      /\ disk' = disk /\ told' = told /\ ruled' = ruled /\ seen' = seen
      /\ commands' = commands /\ restarts' = restarts
  BY DEF TurnInv, LoseAnswer, budgets
<1>2. InOrder'
  BY <1>1, FewerRequests
<1>3. faults' \in 0..MaxFaults
  BY <1>1, TurnAssumption DEF Counted
<1> QED BY <1>1, <1>2, <1>3 DEF TurnInv, Counted, Unloaded

\* The watchdog clears the active turn and the parked approval.
LEMMA EvictInv ==
  ASSUME TurnInv, loaded, NEW t \in Turns, Evict(t, Cleared)
  PROVE  TurnInv'
<1> DEFINE s == Cleared
<1>0. /\ InOrder /\ Counted /\ Unloaded /\ session \in Sessions
      /\ StateOk(session, drains, disk, wire, told, ruled, seen) /\ t.task \in Tasks
  BY DEF TurnInv, InOrder, StateOk, Turns
<1>1. PICK c \in {"none", "sync", "close"} :
        /\ Cut(c) /\ session' = s
        /\ disk' = IF c = "sync" THEN disk ELSE Checkpoint(s)
        /\ told' = IF c = "close" THEN told ELSE [told EXCEPT ![t.task] = @ \cup {"evicted"}]
        /\ UNCHANGED <<loaded, drains, wire, ruled, budgets>>
  BY DEF Evict
<1>2. /\ s \in Sessions /\ s.queue = session.queue /\ s.active = None /\ s.parkedA = None
      /\ s.parkedP = session.parkedP
  BY <1>0 DEF Cleared, Sessions
<1> HIDE DEF s
<1>3. AskedSession(ruled, s)
  BY <1>0, <1>2 DEF AskedSession, StateOk
<1>4. ASSUME NEW x \in Tasks PROVE OneSlot(s, x) /\ (Held(s, x) => Held(session, x))
  BY <1>2 DEF OneSlot, Held, On
<1>5. StateOk(s, drains, disk, wire, told, ruled, seen)
  BY <1>0, <1>2, <1>3, <1>4, SessionSwap
<1>6. StateOk(s, drains, disk', wire, told, ruled, seen)
  BY <1>1, <1>5, SaveOk
<1>7. StateOk(s, drains, disk', wire, told', ruled, seen)
  <2> DEFINE word == "evicted"
  <2>1. word \in Words /\ word \notin Final
    BY DEF Words, Final
  <2>2. told' = told \/ told' = [told EXCEPT ![t.task] = @ \cup {word}]
    BY <1>1
  <2> HIDE DEF word
  <2>3. StateOk(s, drains, disk', wire, [told EXCEPT ![t.task] = @ \cup {word}], ruled, seen)
    BY <1>0, <1>6, <2>1, WordOk
  <2> QED BY <1>6, <2>2, <2>3
<1>8. /\ drains' = drains /\ wire' = wire /\ ruled' = ruled /\ seen' = seen
      /\ commands' = commands /\ restarts' = restarts /\ loaded' = loaded /\ session' = s
  BY <1>1 DEF budgets
<1>9. InOrder'
  BY <1>7, <1>8 DEF InOrder
<1>10. faults' \in 0..MaxFaults
  BY <1>0, <1>1, CutCounts DEF Counted
<1> QED BY <1>0, <1>8, <1>9, <1>10 DEF TurnInv, Counted, Unloaded

LEMMA EvictionsInv ==
  ASSUME TurnInv, EvictParked \/ EvictActive \/ CatchAll
  PROVE  TurnInv'
<1>0. session \in Sessions
  BY DEF TurnInv, InOrder, StateOk
<1>1. PICK t \in {session.active, session.parkedA, session.parkedP} :
        loaded /\ t # None /\ Evict(t, Cleared)
  BY DEF EvictParked, EvictActive, CatchAll
<1>2. t \in Turns
  BY <1>0, <1>1 DEF Sessions
<1> QED BY <1>1, <1>2, EvictInv

LEMMA EscalateModelInv ==
  ASSUME TurnInv, EscalateModel
  PROVE  TurnInv'
<1> DEFINE e == Effects(wire, drains)
<1>0. /\ InOrder /\ Counted /\ Unloaded /\ loaded = TRUE /\ session.active # None
      /\ loaded' = loaded /\ ruled' = ruled /\ seen' = seen /\ commands' = commands
      /\ restarts' = restarts
  BY DEF TurnInv, EscalateModel, Unloaded, budgets
<1>1. PICK c \in Cuts : Cut(c) /\ NextTier(session, e, c)
  BY DEF EscalateModel
<1>2. e \in EffectSet /\ e.wire = wire /\ e.drains = drains /\ e.told = told
  <2>1. drains \in Seq(Messages) /\ wire \subseteq wire
    BY <1>0 DEF InOrder, StateOk
  <2> QED BY <1>0, <2>1, EffectsFit
<1> HIDE DEF e
<1>3. StateOk(session, e.drains, disk, e.wire, e.told, ruled', seen')
  BY <1>0, <1>2 DEF InOrder
<1>4. Ready(session, e, c)
  <2>1. session \in Sessions /\ session.active \in Turns
    BY <1>0, <1>3 DEF StateOk, Sessions
  <2>2. Asked(ruled', session.active) /\ \A y \in e.wire : AskedRequest(ruled', y)
    BY <1>0, <1>3 DEF StateOk, AskedSession
  <2> QED BY <1>2, <2>1, <2>2 DEF Ready
<1>5. StateOk(session', drains', disk', wire', told', ruled', seen')
  BY <1>0, <1>1, <1>3, <1>4, NextTierOutcome, OutcomeOk
<1>6. faults' \in 0..MaxFaults
  BY <1>0, <1>1, CutCounts DEF Counted
<1> QED BY <1>0, <1>5, <1>6 DEF TurnInv, InOrder, Counted, Unloaded

LEMMA DropQueuedInv ==
  ASSUME TurnInv, NEW n \in 1..Len(session.queue), DropQueued(n)
  PROVE  TurnInv'
<1> DEFINE r == SubSeq(session.queue, 1, n - 1)
                  \o SubSeq(session.queue, n + 1, Len(session.queue))
<1>0. /\ InOrder /\ Counted /\ Unloaded /\ session \in Sessions
      /\ session.queue \in Seq(Messages)
      /\ StateOk(session, drains, disk, wire, told, ruled, seen)
  BY DEF TurnInv, InOrder, StateOk, Sessions
<1>1. /\ session' = [session EXCEPT !.queue = r] /\ loaded = TRUE
      /\ loaded' = loaded /\ drains' = drains /\ disk' = disk /\ wire' = wire /\ told' = told
      /\ ruled' = ruled /\ seen' = seen /\ commands' = commands /\ restarts' = restarts
      /\ faults' = faults
  BY <1>0 DEF DropQueued, Unloaded, budgets
<1>2. /\ r \in Seq(Messages)
      /\ \A t : /\ Queued(r, t) => Queued(session.queue, t)
                /\ QueuedOnce(session.queue, t) => QueuedOnce(r, t)
  BY <1>0, QueueDrop
<1> HIDE DEF r
<1>3. /\ session' \in Sessions /\ session'.queue = r /\ session'.active = session.active
      /\ session'.parkedA = session.parkedA /\ session'.parkedP = session.parkedP
  BY <1>0, <1>1, <1>2 DEF Sessions
<1>4. ASSUME NEW t \in Tasks
      PROVE  /\ Placed(session', drains, disk, told, t)
             /\ t \notin seen => Gone(session', drains, disk, t) /\ ~Closed(told, t)
  <2>1. /\ Placed(session, drains, disk, told, t)
        /\ t \notin seen => Gone(session, drains, disk, t) /\ ~Closed(told, t)
    BY <1>0 DEF StateOk
  <2>2. (Held(session', t) <=> Held(session, t)) /\ (OneSlot(session', t) <=> OneSlot(session, t))
    BY <1>3 DEF Held, OneSlot, On
  <2> QED BY <1>2, <1>3, <2>1, <2>2 DEF Placed, Gone
<1>5. AskedSession(ruled, session')
  BY <1>0, <1>3 DEF AskedSession, StateOk
<1>6. InOrder'
  BY <1>0, <1>1, <1>3, <1>4, <1>5 DEF InOrder, StateOk
<1> QED BY <1>0, <1>1, <1>6 DEF TurnInv, Counted, Unloaded

LEMMA RestartInv ==
  ASSUME TurnInv, Restart
  PROVE  TurnInv'
<1>0. /\ InOrder /\ Counted /\ disk \in Sessions /\ disk.queue = <<>>
      /\ StateOk(session, drains, disk, wire, told, ruled, seen)
  BY DEF TurnInv, InOrder, StateOk
<1>1. /\ restarts < MaxRestarts /\ restarts' = restarts + 1
      /\ session' = NoSession /\ loaded' = FALSE /\ drains' = <<>>
      /\ wire' = wire /\ told' = told /\ ruled' = ruled /\ seen' = seen /\ commands' = commands
  BY DEF Restart
<1>2. /\ disk' = [disk EXCEPT !.active = None] \/ disk' = disk
      /\ faults' = faults \/ (faults < MaxFaults /\ faults' = faults + 1)
  BY DEF Restart
<1>3. /\ disk' \in Sessions /\ disk'.queue = <<>> /\ disk'.active \in {disk.active, None}
      /\ disk'.parkedA = disk.parkedA /\ disk'.parkedP = disk.parkedP
  BY <1>0, <1>2 DEF Sessions
<1>4. AskedSession(ruled, disk')
  BY <1>0, <1>3 DEF AskedSession, StateOk
<1>5. ASSUME NEW t \in Tasks
      PROVE  /\ Placed(NoSession, <<>>, disk', told, t)
             /\ t \notin seen => Gone(NoSession, <<>>, disk', t) /\ ~Closed(told, t)
  <2>1. /\ Placed(session, drains, disk, told, t)
        /\ t \notin seen => Gone(session, drains, disk, t) /\ ~Closed(told, t)
    BY <1>0 DEF StateOk
  <2>2. (Held(disk', t) => Held(disk, t)) /\ (OneSlot(disk, t) => OneSlot(disk', t))
    BY <1>3 DEF Held, OneSlot, On
  <2>3. /\ ~Held(NoSession, t) /\ OneSlot(NoSession, t) /\ ~Queued(NoSession.queue, t)
        /\ QueuedOnce(NoSession.queue, t) /\ ~Queued(<<>>, t) /\ QueuedOnce(<<>>, t)
    BY NoSessionOk, QueueEmpty
  <2> QED BY <2>1, <2>2, <2>3 DEF Placed, Gone
<1>6. <<>> \in Seq(Messages)
  OBVIOUS
<1>7. InOrder'
  BY <1>0, <1>1, <1>3, <1>4, <1>5, <1>6, NoSessionEmpty, NoSessionOk DEF InOrder, StateOk
<1>8. faults' \in 0..MaxFaults /\ restarts' \in 0..MaxRestarts
  BY <1>0, <1>1, <1>2, TurnAssumption DEF Counted
<1> QED BY <1>0, <1>1, <1>7, <1>8 DEF TurnInv, Counted, Unloaded

LEMMA LoadSessionInv ==
  ASSUME TurnInv, LoadSession
  PROVE  TurnInv'
<1>0. /\ InOrder /\ Counted /\ disk \in Sessions /\ disk.queue = <<>>
      /\ StateOk(session, drains, disk, wire, told, ruled, seen)
      /\ session = NoSession /\ drains = <<>>
  BY DEF TurnInv, InOrder, StateOk, Unloaded, LoadSession
<1>1. /\ loaded' = TRUE /\ drains' = drains /\ disk' = disk /\ wire' = wire /\ told' = told
      /\ ruled' = ruled /\ seen' = seen /\ commands' = commands /\ restarts' = restarts
  BY DEF LoadSession, budgets
<1>2. /\ session' = disk \/ session' = NoSession
      /\ faults' = faults \/ (faults < MaxFaults /\ faults' = faults + 1)
  BY DEF LoadSession
<1>3. faults' \in 0..MaxFaults
  BY <1>0, <1>2, TurnAssumption DEF Counted
<1>4. CASE session' = NoSession
  <2>1. InOrder'
    BY <1>0, <1>1, <1>4 DEF InOrder
  <2> QED BY <1>0, <1>1, <1>3, <2>1 DEF TurnInv, Counted, Unloaded
<1>5. CASE session' = disk
  <2>1. ASSUME NEW t \in Tasks
        PROVE  /\ Placed(disk, drains, disk, told, t)
               /\ t \notin seen => Gone(disk, drains, disk, t) /\ ~Closed(told, t)
    <3>1. /\ Placed(session, drains, disk, told, t)
          /\ t \notin seen => Gone(session, drains, disk, t) /\ ~Closed(told, t)
      BY <1>0 DEF StateOk
    <3>2. ~Queued(disk.queue, t) /\ QueuedOnce(disk.queue, t) /\ ~Queued(drains, t)
      BY <1>0, QueueEmpty
    <3> QED BY <3>1, <3>2 DEF Placed, Gone
  <2>2. StateOk(disk, drains, disk, wire, told, ruled, seen)
    BY <1>0, <2>1 DEF StateOk
  <2>3. InOrder'
    BY <1>1, <1>5, <2>2 DEF InOrder
  <2> QED BY <1>0, <1>1, <1>3, <2>3 DEF TurnInv, Counted, Unloaded
<1> QED BY <1>2, <1>4, <1>5

LEMMA NextInv == TurnInv /\ [Next]_vars => TurnInv'
<1> SUFFICES ASSUME TurnInv, [Next]_vars PROVE TurnInv'
  OBVIOUS
<1>1. ASSUME NEW m \in Messages, ReceiveMessage(m) PROVE TurnInv'
  BY <1>1, ReceiveMessageInv
<1>2. CASE ReceiveDrained
  BY <1>2, ReceiveDrainedInv
<1>3. ASSUME NEW x \in wire, ReceiveAnswer(x) \/ LoseAnswer(x) PROVE TurnInv'
  BY <1>3, ReceiveAnswerInv, LoseAnswerInv
<1>4. CASE EvictParked \/ EvictActive \/ CatchAll
  BY <1>4, EvictionsInv
<1>5. CASE EscalateModel
  BY <1>5, EscalateModelInv
<1>6. ASSUME NEW i \in 1..Len(session.queue), DropQueued(i) PROVE TurnInv'
  BY <1>6, DropQueuedInv
<1>7. CASE Restart \/ LoadSession
  BY <1>7, RestartInv, LoadSessionInv
<1>8. CASE UNCHANGED vars
  BY <1>8 DEF vars, budgets, TurnInv, InOrder, Counted, Unloaded
<1> QED BY <1>1, <1>2, <1>3, <1>4, <1>5, <1>6, <1>7, <1>8 DEF Next

LEMMA InvHolds == Spec => []TurnInv
BY InitInv, NextInv, PTL DEF Spec

-----------------------------------------------------------------------------
(***************************************************************************)
(* What the invariant says in the words of TurnLoop                        *)
(***************************************************************************)

LEMMA HoldsHeld ==
  ASSUME NEW s \in Sessions, NEW t
  PROVE  /\ Holds(s, t) = {} <=> ~Held(s, t)
         /\ OneSlot(s, t) => Holds(s, t) = {} \/ \E p \in Slots : Holds(s, t) = {p}
<1>1. /\ "active" \in Holds(s, t) <=> On(s.active, t)
      /\ "parkedA" \in Holds(s, t) <=> On(s.parkedA, t)
      /\ "parkedP" \in Holds(s, t) <=> On(s.parkedP, t)
      /\ \A p \in Holds(s, t) : p \in {"active", "parkedA", "parkedP"}
  BY DEF Holds, Slots, On
<1> DEFINE h == Holds(s, t)
<1> HIDE DEF h
<1>2. h = {} <=> ~Held(s, t)
  BY <1>1 DEF Held, h
<1>3. OneSlot(s, t) => h = {} \/ h = {"active"} \/ h = {"parkedA"} \/ h = {"parkedP"}
  BY <1>1 DEF OneSlot, h
<1> QED BY <1>2, <1>3 DEF h, Slots

LEMMA WaitsQueued ==
  ASSUME NEW q \in Seq(Messages), NEW t
  PROVE  /\ Waits(q, t) = {} <=> ~Queued(q, t)
         /\ QueuedOnce(q, t) => Waits(q, t) = {} \/ \E i : Waits(q, t) = {i}
BY DEF Waits, Queued, QueuedOnce

\* A set that is empty or a singleton has at most one element.
LEMMA AtMostOne ==
  ASSUME NEW S, S = {} \/ \E x : S = {x}
  PROVE  Cardinality(S) \in {0, 1} /\ (S = {} => Cardinality(S) = 0)
BY FS_EmptySet, FS_Singleton

LEMMA InvOneHome == TurnInv => OneHome
<1> SUFFICES ASSUME TurnInv, NEW t \in Tasks
             PROVE  Cardinality(Holds(session, t)) + Cardinality(Waits(session.queue, t))
                      + Cardinality(Waits(drains, t)) <= 1
  BY DEF OneHome
<1> DEFINE a == Holds(session, t)
           b == Waits(session.queue, t)
           d == Waits(drains, t)
<1>1. /\ session \in Sessions /\ session.queue \in Seq(Messages) /\ drains \in Seq(Messages)
      /\ Placed(session, drains, disk, told, t)
  BY DEF TurnInv, InOrder, StateOk, Sessions
<1>2. /\ a = {} \/ \E x : a = {x}
      /\ b = {} \/ \E x : b = {x}
      /\ d = {} \/ \E x : d = {x}
  BY <1>1, HoldsHeld, WaitsQueued DEF Placed
<1>3. (a = {} /\ b = {}) \/ (a = {} /\ d = {}) \/ (b = {} /\ d = {})
  BY <1>1, HoldsHeld, WaitsQueued DEF Placed
<1> HIDE DEF a, b, d
<1>4. /\ Cardinality(a) \in {0, 1} /\ (a = {} => Cardinality(a) = 0)
      /\ Cardinality(b) \in {0, 1} /\ (b = {} => Cardinality(b) = 0)
      /\ Cardinality(d) \in {0, 1} /\ (d = {} => Cardinality(d) = 0)
  BY <1>2, AtMostOne
<1>5. Cardinality(a) + Cardinality(b) + Cardinality(d) <= 1
  BY <1>3, <1>4
<1> QED BY <1>5 DEF a, b, d

LEMMA InvFinal == TurnInv => FinalIsFinal
<1> SUFFICES ASSUME TurnInv, NEW t \in Tasks, Closed(told, t)
             PROVE  /\ Holds(session, t) = {} /\ Holds(disk, t) = {}
                    /\ Waits(session.queue, t) = {} /\ Waits(drains, t) = {}
  BY DEF FinalIsFinal, Closed, Final
<1>1. /\ session \in Sessions /\ disk \in Sessions /\ session.queue \in Seq(Messages)
      /\ drains \in Seq(Messages) /\ Gone(session, drains, disk, t)
  BY DEF TurnInv, InOrder, StateOk, Sessions, Placed
<1> QED BY <1>1, HoldsHeld, WaitsQueued DEF Gone

LEMMA InvUnasked == TurnInv => NothingRunsUnasked
<1>1. TurnInv => \A x \in wire : AskedRequest(ruled, x)
  BY DEF TurnInv, InOrder, StateOk
<1> QED BY <1>1 DEF NothingRunsUnasked, AskedRequest, Ruled

LEMMA InvTypes == TurnInv => TypeOK
BY DEF TurnInv, InOrder, StateOk, Counted, Unloaded, TypeOK, AskedRequest

(* Every message, turn, request, ruling and counter of the philote keeps   *)
(* its type: iterations grow without bound, tiers do not.                  *)
THEOREM TypeCorrect == Spec => []TypeOK
BY InvHolds, InvTypes, PTL

(* handle_user_message, park and restore, drain_next_user_task, the        *)
(* watchdog and a restart leave a message in one place at most.            *)
THEOREM MessageInOnePlace == Spec => []OneHome
BY InvHolds, InvOneHome, PTL

(* What deliver_text_reply, fail_active_turn, complete_local_command or    *)
(* handle_approval_clear told the ledger is final: the turn is neither in  *)
(* memory nor in the checkpoint, so no restart brings it back.             *)
THEOREM ClosedStaysClosed == Spec => []FinalIsFinal
BY InvHolds, InvFinal, PTL

(* No locked tool call, and no request of a turn whose message has         *)
(* requires_approval, leaves the philote before the operator has ruled on  *)
(* the request made for it, over late and repeated answers, plans,         *)
(* steering, trust and restarts; the turn of a life.observe command is the *)
(* exception, and the note that confirms a plan is not a turn's message.   *)
THEOREM OperatorAskedFirst == Spec => []NothingRunsUnasked
BY InvHolds, InvUnasked, PTL

-----------------------------------------------------------------------------
(***************************************************************************)
(* An active turn does not vanish                                          *)
(***************************************************************************)

\* The turn is still there.
StaysHeld == session' \in Sessions /\ Held(session', session.active.task)

LEMMA StaysHeldTold ==
  ASSUME StaysHeld
  PROVE  EndsTold
<1>1. Holds(session', session.active.task) # {}
  BY HoldsHeld DEF StaysHeld
<1> QED BY <1>1 DEF EndsTold

LEMMA SameActive ==
  ASSUME TurnInv', session.active # None, session'.active = session.active
  PROVE  EndsTold
<1>1. StaysHeld
  BY DEF StaysHeld, Held, On, TurnInv, InOrder, StateOk
<1> QED BY <1>1, StaysHeldTold

LEMMA NoFaultNoCut ==
  ASSUME faults \in 0..MaxFaults, NEW c, Cut(c), faults' = faults
  PROVE  c = "none"
<1>1. faults \in Int
  BY TurnAssumption
<1>2. faults + 1 # faults
  BY <1>1
<1> QED BY <1>2 DEF Cut

\* A message in the handler's hands that can start a turn has not been told of.
Fresh(m, e) ==
  /\ e \in EffectSet /\ e.told = told
  /\ m.kind \in Starters => m.task \in Tasks /\ ~Closed(told, m.task)

LEMMA MessageFresh ==
  ASSUME TurnInv, NEW m \in Messages, ReceiveMessage(m)
  PROVE  Fresh(m, Effects(wire, <<>>)) /\ HandleUserMessage(m, Effects(wire, <<>>))
<1>1. InOrder /\ HandleUserMessage(m, Effects(wire, <<>>))
  BY DEF TurnInv, ReceiveMessage
<1>2. m.kind \in Starters => m.task \in Tasks /\ m.task \notin seen
  BY StarterTask DEF ReceiveMessage
<1>3. m.kind \in Starters => ~Closed(told, m.task)
  BY <1>1, <1>2 DEF InOrder, StateOk
<1>4. Effects(wire, <<>>) \in EffectSet /\ Effects(wire, <<>>).told = told
  BY <1>1, EffectsFitNone
<1> QED BY <1>1, <1>2, <1>3, <1>4 DEF Fresh

LEMMA DrainedFresh ==
  ASSUME TurnInv, ReceiveDrained
  PROVE  LET m == Head(drains)
             e == Effects(wire, Tail(drains)) IN
         Fresh(m, e) /\ HandleUserMessage(m, e)
<1> DEFINE m == Head(drains)
           e == Effects(wire, Tail(drains))
<1>1. InOrder /\ drains # <<>> /\ HandleUserMessage(m, e)
  BY DEF TurnInv, ReceiveDrained
<1>2. /\ m \in Messages /\ Tail(drains) \in Seq(Messages)
      /\ m.task \in Tasks => ~Closed(told, m.task)
  BY <1>1, TakeDrained DEF InOrder
<1>3. e \in EffectSet /\ e.told = told
  BY <1>1, <1>2, EffectsFit
<1> HIDE DEF m, e
<1>4. Fresh(m, e)
  BY <1>2, <1>3, StarterTask DEF Fresh
<1> QED BY <1>1, <1>4 DEF m, e

\* A life.observe command that fails leaves the active turn alone; one that does
\* not is over in the step that overwrites it.
LEMMA ObserveTold ==
  ASSUME TurnInv', session.active # None, NEW t \in Tasks, NEW e \in EffectSet,
         e.told = told, told \in [Tasks -> SUBSET Words], ~Closed(told, t),
         ObserveDirectly(t, e, "none")
  PROVE  EndsTold
<1> DEFINE u == Observer(t)
           x == ToolRequest(u)
           out == Emit(e, x, "none")
           f == Tell(out, t, "delivered", "none")
<1>1. session' = session \/ (wire' = f.wire /\ told' = f.told)
  BY DEF ObserveDirectly, Observer, Finish
<1>2. x.tool = Direct /\ x.task = t
  BY DEF ToolRequest, Request, Observer, NewTurn
<1> HIDE DEF x
<1>3. x \in f.wire /\ f.told = [told EXCEPT ![t] = @ \cup {"delivered"}]
  BY DEF Tell, Emit, EffectSet
<1>4. "delivered" \in f.told[t] /\ "delivered" \notin told[t]
  BY <1>3 DEF Closed, Final
<1>5. session' = session => EndsTold
  BY SameActive
<1> HIDE DEF f
<1>6. wire' = f.wire /\ told' = f.told => Overwrites
  BY <1>2, <1>3, <1>4 DEF Overwrites
<1> QED BY <1>1, <1>5, <1>6 DEF EndsTold

\* While a turn is active, no other message of the user touches it.
LEMMA MessageTold ==
  ASSUME TurnInv, TurnInv', faults' = faults, session.active # None,
         NEW m, NEW e, Fresh(m, e), HandleUserMessage(m, e)
  PROVE  EndsTold
<1>0. /\ session \in Sessions /\ faults \in 0..MaxFaults
      /\ told \in [Tasks -> SUBSET Words]
  BY DEF TurnInv, InOrder, StateOk, Counted
<1>1. PICK c \in Cuts :
        /\ Cut(c)
        /\ \/ m.kind \in Starters /\ HandleStarter(m, e, c)
           \/ HandleClear(e, c) \/ HandleApproval(m, e, c)
  BY DEF HandleUserMessage
<1>2. c = "none"
  BY <1>0, <1>1, NoFaultNoCut
<1>3. ASSUME m.kind \in Starters, HandleStarter(m, e, c) PROVE EndsTold
  <2>1. CASE m.kind = "observe"
    <3>1. ObserveDirectly(m.task, e, "none")
      BY <1>2, <1>3, <2>1 DEF HandleStarter
    <3> QED BY <1>0, <1>3, <3>1, ObserveTold DEF Fresh
  <2>2. CASE m.kind # "observe"
    <3>1. Enqueue(m, e)
      BY <1>3, <2>2 DEF HandleStarter
    <3>2. session'.active = session.active
      BY <1>0, <3>1 DEF Enqueue, Sessions
    <3> QED BY <3>2, SameActive
  <2> QED BY <2>1, <2>2
<1>4. ASSUME NEW kind, NothingPending(kind, e, c) PROVE session'.active = session.active
  BY <1>0, <1>4 DEF NothingPending, Finish, Sessions
<1>5. CASE HandleClear(e, c)
  <2>1. NothingPending("clear", e, c) \/ session' = [session EXCEPT !.parkedA = None]
    BY <1>5 DEF HandleClear, Finish
  <2>2. session'.active = session.active
    BY <1>0, <1>4, <2>1 DEF Sessions
  <2> QED BY <2>2, SameActive
<1>6. CASE HandleApproval(m, e, c)
  <2>1. NothingPending(m.kind, e, c) \/ session' = [session EXCEPT !.queue = <<m>> \o @]
    BY <1>6 DEF HandleApproval
  <2>2. session'.active = session.active
    BY <1>0, <1>4, <2>1 DEF Sessions
  <2> QED BY <2>2, SameActive
<1> QED BY <1>1, <1>3, <1>5, <1>6

\* The outcome of a handler that nothing cut short.
LEMMA OutcomeTold ==
  ASSUME session \in Sessions, session.active # None, NEW e, TurnInv',
         Ready(session, e, "none"), Outcome(session, e, "none")
  PROVE  EndsTold
<1> DEFINE t == session.active.task
<1>0. /\ session.active \in Turns /\ t \in Tasks /\ e \in EffectSet
      /\ e.told \in [Tasks -> SUBSET Words] /\ session' \in Sessions
  BY DEF Ready, Turns, EffectSet, TurnInv, InOrder, StateOk
<1>1. CASE GoesOn(session, e, "none")
  <2>1. PICK u \in Turns : u.task = t /\ session' = [session EXCEPT !.active = u]
    BY <1>1 DEF GoesOn
  <2>2. session'.active = u /\ u # None
    BY <2>1, NoneIsNoTurn DEF Sessions
  <2>3. StaysHeld
    BY <1>0, <2>1, <2>2 DEF StaysHeld, Held, On
  <2> QED BY <2>3, StaysHeldTold
<1>2. CASE Parks(session, e, "none")
  <2>1. PICK u \in Turns :
          /\ u.task = t
          /\ \/ session' = [session EXCEPT !.active = None, !.parkedA = u]
             \/ session' = [session EXCEPT !.active = None, !.parkedP = u]
    BY <1>2 DEF Parks
  <2>2. u # None /\ (session'.parkedA = u \/ session'.parkedP = u)
    BY <2>1, NoneIsNoTurn DEF Sessions
  <2>3. StaysHeld
    BY <1>0, <2>1, <2>2 DEF StaysHeld, Held, On
  <2> QED BY <2>3, StaysHeldTold
<1>3. ASSUME NEW word \in {"delivered", "failed"}, EndTurn(session, word, e, "none")
      PROVE  EndsTold
  <2> DEFINE f == Tell(e, t, word, "none")
             g == [f EXCEPT !.drains = Append(@, Head(session.queue))]
  <2>1. told' = f.told \/ told' = g.told
    BY <1>3 DEF EndTurn, Finish
  <2>2. f = [e EXCEPT !.told[t] = @ \cup {word}]
    BY DEF Tell
  <2>3. f.told = [e.told EXCEPT ![t] = @ \cup {word}] /\ g.told = f.told
    BY <1>0, <2>2 DEF EffectSet
  <2> HIDE DEF f, g
  <2>4. told' = [e.told EXCEPT ![t] = @ \cup {word}]
    BY <2>1, <2>3
  <2>5. word \in told'[t]
    BY <1>0, <2>4
  <2> QED BY <1>3, <2>5 DEF EndsTold, Told
<1> QED BY <1>1, <1>2, <1>3 DEF Outcome, Ends

LEMMA ReadySession ==
  ASSUME InOrder, session.active # None, ruled' = ruled, NEW w, w \subseteq wire,
         NEW e \in EffectSet, e.wire = w, NEW c \in Cuts
  PROVE  Ready(session, e, c)
<1>1. session \in Sessions /\ session.active \in Turns
  BY DEF InOrder, StateOk, Sessions
<1>2. Asked(ruled', session.active) /\ \A y \in e.wire : AskedRequest(ruled', y)
  BY DEF InOrder, StateOk, AskedSession
<1> QED BY <1>1, <1>2 DEF Ready

LEMMA AnswerTold ==
  ASSUME TurnInv, TurnInv', session.active # None, faults' = faults,
         NEW x \in wire, ReceiveAnswer(x)
  PROVE  EndsTold
<1>0. /\ InOrder /\ faults \in 0..MaxFaults /\ session \in Sessions
      /\ ruled' = ruled
  BY DEF TurnInv, InOrder, StateOk, Counted, ReceiveAnswer
<1>1. PICK c \in Cuts, again \in BOOLEAN :
        LET e == Effects(IF again THEN wire ELSE wire \ {x}, <<>>) IN
        /\ IF again THEN faults' = faults + 1 ELSE Cut(c)
        /\ \/ x.to = "model" /\ ModelAnswer(x, e, c)
           \/ x.to = "tool" /\ ToolAnswer(x, e, c)
  BY DEF ReceiveAnswer
<1> DEFINE w == wire \ {x}
           e == Effects(w, <<>>)
<1>2. faults + 1 # faults
  BY <1>0, TurnAssumption
<1>3. /\ Cut(c)
      /\ \/ ModelAnswer(x, e, c)
         \/ x.to = "tool" /\ ToolAnswer(x, e, c)
  BY <1>1, <1>2
<1>4. c = "none"
  BY <1>0, <1>3, NoFaultNoCut
<1>5. w \subseteq wire
  OBVIOUS
<1> HIDE DEF w
<1>6. e \in EffectSet /\ e.wire = w
  BY <1>0, <1>5, EffectsFitNone
<1> HIDE DEF e
<1>7. Ready(session, e, c)
  BY <1>0, <1>5, <1>6, ReadySession
<1>8. CASE Ignored(e, c)
  BY <1>8, SameActive DEF Ignored
<1>9. CASE ~Ignored(e, c)
  <2>1. CASE ModelAnswer(x, e, c)
    <3>1. ~StaleAnswer(x)
      BY <1>9, <2>1 DEF ModelAnswer
    <3> QED BY <1>0, <1>4, <1>7, <2>1, <3>1, ModelAnswerOutcome, OutcomeTold
  <2>2. CASE x.to = "tool" /\ ToolAnswer(x, e, c)
    <3>1. AskedRequest(ruled, x)
      BY <1>0 DEF InOrder, StateOk
    <3>2. Outcome(session, e, c)
      BY <1>7, <2>2, <3>1, ToolAnswerOutcome
    <3> QED BY <1>0, <1>4, <1>7, <3>2, OutcomeTold
  <2> QED BY <1>3, <2>1, <2>2
<1> QED BY <1>8, <1>9

LEMMA EscalateTold ==
  ASSUME TurnInv, TurnInv', session.active # None, faults' = faults, EscalateModel
  PROVE  EndsTold
<1> DEFINE e == Effects(wire, drains)
<1>0. /\ InOrder /\ faults \in 0..MaxFaults /\ session \in Sessions /\ ruled' = ruled
      /\ drains \in Seq(Messages) /\ wire \subseteq wire
  BY DEF TurnInv, InOrder, StateOk, Counted, EscalateModel
<1>1. PICK c \in Cuts : Cut(c) /\ NextTier(session, e, c)
  BY DEF EscalateModel
<1>2. c = "none"
  BY <1>0, <1>1, NoFaultNoCut
<1>3. e \in EffectSet /\ e.wire = wire
  BY <1>0, EffectsFit
<1> HIDE DEF e
<1>4. Ready(session, e, c)
  BY <1>0, <1>3, ReadySession
<1> QED BY <1>0, <1>1, <1>2, <1>4, NextTierOutcome, OutcomeTold

\* The watchdog tells the ledger whom it evicts.
LEMMA EvictTold ==
  ASSUME TurnInv, faults' = faults, NEW t \in Turns, Evict(t, Cleared)
  PROVE  Told(t)
<1>0. faults \in 0..MaxFaults /\ told \in [Tasks -> SUBSET Words] /\ t.task \in Tasks
  BY DEF TurnInv, Counted, InOrder, StateOk, Turns
<1>1. PICK c \in {"none", "sync", "close"} :
        /\ Cut(c)
        /\ told' = IF c = "close" THEN told ELSE [told EXCEPT ![t.task] = @ \cup {"evicted"}]
  BY DEF Evict
<1>2. c = "none"
  BY <1>0, <1>1, NoFaultNoCut
<1>3. "evicted" \in told'[t.task]
  BY <1>0, <1>1, <1>2
<1> QED BY <1>3 DEF Told

LEMMA NextTold == TurnInv /\ TurnInv' /\ [Next]_vars => [EndsTold]_vars
<1> SUFFICES ASSUME TurnInv, TurnInv', Next, session.active # None, faults' = faults,
                    restarts' = restarts
             PROVE  EndsTold
  BY DEF EndsTold
<1>0. session \in Sessions
  BY DEF TurnInv, InOrder, StateOk
<1>2. ASSUME NEW m \in Messages, ReceiveMessage(m) PROVE EndsTold
  BY <1>2, MessageFresh, MessageTold
<1>3. CASE ReceiveDrained
  BY <1>3, DrainedFresh, MessageTold
<1>4. ASSUME NEW x \in wire, ReceiveAnswer(x) \/ LoseAnswer(x) PROVE EndsTold
  <2>1. LoseAnswer(x) => session' = session
    BY DEF LoseAnswer
  <2> QED BY <1>4, <2>1, AnswerTold, SameActive
<1>5. CASE EvictParked
  <2>1. PICK p \in {"parkedA", "parkedP"} : session[p] # None /\ Evict(session[p], Cleared)
    BY <1>5 DEF EvictParked
  <2>2. session[p] \in Turns
    BY <1>0, <2>1 DEF Sessions
  <2>3. Told(session[p])
    BY <2>1, <2>2, EvictTold
  <2> QED BY <2>1, <2>3 DEF EndsTold
<1>6. CASE EvictActive \/ CatchAll
  <2>1. Evict(session.active, Cleared) /\ session.active \in Turns
    BY <1>0, <1>6 DEF EvictActive, CatchAll, Sessions
  <2>2. Told(session.active)
    BY <2>1, EvictTold
  <2> QED BY <2>2 DEF EndsTold
<1>7. CASE EscalateModel
  BY <1>7, EscalateTold
<1>8. ASSUME NEW i \in 1..Len(session.queue), DropQueued(i) PROVE EndsTold
  <2>1. session'.active = session.active
    BY <1>0, <1>8 DEF DropQueued, Sessions
  <2> QED BY <2>1, SameActive
<1>9. CASE Restart
  <2>1. restarts \in Nat /\ restarts' = restarts + 1
    BY <1>9, TurnAssumption DEF Restart, TurnInv, Counted
  <2> QED BY <2>1
<1>10. CASE LoadSession
  BY <1>10, NoSessionEmpty DEF LoadSession, TurnInv, Unloaded
<1> QED BY <1>2, <1>3, <1>4, <1>5, <1>6, <1>7, <1>8, <1>9, <1>10 DEF Next

(* A step that ends an active turn without parking it tells the ledger     *)
(* about it, or about the parked turn the watchdog evicts with it, unless  *)
(* a request of the step failed, the process restarted or a life.observe   *)
(* command took the turn's place and was completed in the same step.       *)
THEOREM NoTurnVanishes == Spec => TurnsEndTold
BY InvHolds, NextTold, PTL DEF Spec, TurnsEndTold
=============================================================================
