---------------------------- MODULE MeshDelivery ----------------------------
(***************************************************************************)
(* Durable event delivery between hotels: the path of an event envelope    *)
(* from the IPC handler of one hotel, through the single-writer ledger,    *)
(* the outbound dispatcher and the execution transport, into the inbound   *)
(* loop of the target hotel, and of the acknowledgement back.              *)
(*                                                                         *)
(* One sending hotel and a set of target hotels.  Every message travels on *)
(* a TCP connection of its own that the receiver serves in a task of its   *)
(* own, so messages are reordered; a message may be dropped after the      *)
(* sender saw its write succeed; either side may restart at any step and   *)
(* keeps only what SQLite holds.                                           *)
(***************************************************************************)
EXTENDS Integers, Sequences, FiniteSets

CONSTANTS
  Targets,     \* the remote hotels events are addressed to
  Local,       \* the sending hotel itself (also an event with no target)
  Events,      \* event envelopes, by their event_id
  TargetOf,    \* target_node_id of each event
  QueryLimit,  \* LIMIT of query_unacked_events (50 in the code)
  ChanCap,     \* capacity of the ledger command channel (1024)
  MaxClaims,   \* DeliveryClaims::MAX_CLAIMS (8192)
  MaxCopies,   \* bound: connections carrying one message at the same time
  MaxFaults,   \* bound: lost messages, failed writes and restarts
  NoEvent      \* the inbound loop holds no event

ASSUME ConstantsAssumption ==
  /\ IsFiniteSet(Events)
  /\ Local \notin Targets
  /\ TargetOf \in [Events -> Targets \cup {Local}]
  /\ QueryLimit \in Nat \ {0}
  /\ ChanCap \in Nat \ {0}
  /\ MaxClaims \in Nat \ {0}
  /\ MaxCopies \in Nat \ {0}
  /\ MaxFaults \in Nat
  /\ NoEvent \notin Events

VARIABLES
  emitted,   \* events the IPC side has handed to the ledger channel
  cmds,      \* ledger command channel of the sender (dispatcher_tx), volatile
  ledger,    \* rows of mesh_events at the sender, durable
  seqOf,     \* seq of each event's row, 0 before its append; never reused
  lastSeq,   \* AUTOINCREMENT counter of mesh_events, durable
  cursor,    \* mesh_cursors: highest acked seq of each target, durable
  todo,      \* events of the dispatcher's current batch it has yet to send
  wire,      \* messages written to a connection and not yet read
  claims,    \* DeliveryClaims of each target, oldest first, volatile
  inb,       \* event the target's inbound loop is handling, volatile
  commitQ,   \* CommitInboundBatch commands queued at the targets, volatile
  committed, \* history: events a target's writer thread has committed
  sent,      \* history: events some connection write succeeded for
  received,  \* history: events some inbound loop has processed
  seen,      \* history: times its target handed an event over in its current
             \* life: 0, 1, or 2 for more than once
  faults     \* faults so far

senderVars   == <<emitted, cmds, ledger, seqOf, lastSeq, cursor, todo>>
receiverVars == <<claims, inb, commitQ, committed, received, seen>>
vars == <<emitted, cmds, ledger, seqOf, lastSeq, cursor, todo, wire, claims,
          inb, commitQ, committed, sent, received, seen, faults>>

EventsFor(t) == {e \in Events : TargetOf[e] = t}

AppendCmds == [op : {"AppendLocal"}, ev : Events]
AckCmds    == [op : {"ProcessAck"}, node : Targets, seq : Nat]

\* msg_id is a fresh uuid in the code; here it tells apart the copies of one
\* message that are on the wire together.
BatchMsgs == [type : {"ExecutionEventBatch"}, ev : Events, msg_id : 1..MaxCopies]
AckMsgs   == [type : {"ExecutionEventAck"}, src : Targets, seq : Nat,
              msg_id : 1..MaxCopies]

Fault == /\ faults < MaxFaults
         /\ faults' = faults + 1

-----------------------------------------------------------------------------
Init ==
  /\ emitted = {}
  /\ cmds = <<>>
  /\ ledger = {}
  /\ seqOf = [e \in Events |-> 0]
  /\ lastSeq = 0
  /\ cursor = [t \in Targets |-> 0]
  /\ todo = {}
  /\ wire = {}
  /\ claims = [t \in Targets |-> <<>>]
  /\ inb = [t \in Targets |-> NoEvent]
  /\ commitQ = {}
  /\ committed = {}
  /\ sent = {}
  /\ received = {}
  /\ seen = [e \in Events |-> 0]
  /\ faults = 0

(***************************************************************************)
(* Sender: IPC handler and the single ledger writer thread                 *)
(***************************************************************************)

\* An IPC handler sends AppendLocal; it waits while the channel is full.
Emit(e) ==
  /\ e \notin emitted
  /\ Len(cmds) < ChanCap
  /\ emitted' = emitted \cup {e}
  /\ cmds' = Append(cmds, [op |-> "AppendLocal", ev |-> e])
  /\ UNCHANGED <<ledger, seqOf, lastSeq, cursor, todo, wire, sent, faults>>
  /\ UNCHANGED receiverVars

\* AppendLocal: events for this hotel are skipped, they were delivered inline.
AppendLocal(e) ==
  /\ cmds # <<>>
  /\ Head(cmds) = [op |-> "AppendLocal", ev |-> e]
  /\ cmds' = Tail(cmds)
  /\ IF TargetOf[e] = Local
       THEN UNCHANGED <<ledger, seqOf, lastSeq>>
       ELSE /\ lastSeq' = lastSeq + 1
            /\ seqOf' = [seqOf EXCEPT ![e] = lastSeq + 1]
            /\ ledger' = ledger \cup {e}
  /\ UNCHANGED <<emitted, cursor, todo, wire, sent, faults>>
  /\ UNCHANGED receiverVars

\* Mutant: the cursor takes the ack as it comes.
AdvanceCursorNoMax(t, n) == cursor' = [cursor EXCEPT ![t] = n]

\* advance_cursor: last_acked_seq = MAX(existing, acked_seq).
AdvanceCursor(t, n) ==
  cursor' = [cursor EXCEPT ![t] = IF n > @ THEN n ELSE @]

\* Mutant: one row too many.
DeleteDeliveredOffByOne(t, n) ==
  ledger' = ledger \ {e \in EventsFor(t) : seqOf[e] <= n + 1}

\* delete_delivered_events(target, max_seq)
DeleteDelivered(t, n) ==
  ledger' = ledger \ {e \in EventsFor(t) : seqOf[e] <= n}

\* ProcessAck: advance the cursor, then vacuum what it covers.
ProcessAck(t, n) ==
  /\ cmds # <<>>
  /\ Head(cmds) = [op |-> "ProcessAck", node |-> t, seq |-> n]
  /\ cmds' = Tail(cmds)
  /\ AdvanceCursor(t, n)
  /\ DeleteDelivered(t, n)
  /\ UNCHANGED <<emitted, seqOf, lastSeq, todo, wire, sent, faults>>
  /\ UNCHANGED receiverVars

\* ProcessAck whose vacuum fails (a warning) after the cursor has advanced.
ProcessAckVacuumFails(t, n) ==
  /\ cmds # <<>>
  /\ Head(cmds) = [op |-> "ProcessAck", node |-> t, seq |-> n]
  /\ cmds' = Tail(cmds)
  /\ AdvanceCursor(t, n)
  /\ Fault
  /\ UNCHANGED <<emitted, ledger, seqOf, lastSeq, todo, wire, sent>>
  /\ UNCHANGED receiverVars

\* A command whose first statement fails in SQLite is logged and gone.
WriterFails ==
  /\ cmds # <<>>
  /\ cmds' = Tail(cmds)
  /\ Fault
  /\ UNCHANGED <<emitted, ledger, seqOf, lastSeq, cursor, todo, wire, sent>>
  /\ UNCHANGED receiverVars

(***************************************************************************)
(* Sender: outbound dispatcher                                             *)
(***************************************************************************)

Unacked(t) == {e \in ledger : TargetOf[e] = t /\ seqOf[e] > cursor[t]}

\* query_unacked_events: the QueryLimit lowest rows above the cursor.
QueryUnacked(t) ==
  {e \in Unacked(t) :
     Cardinality({f \in Unacked(t) : seqOf[f] < seqOf[e]}) < QueryLimit}

\* dispatch_for_target, up to the loop over the events it has read.
DispatchForTarget(t) ==
  /\ todo = {}
  /\ Unacked(t) # {}
  /\ todo' = QueryUnacked(t)
  /\ UNCHANGED <<emitted, cmds, ledger, seqOf, lastSeq, cursor, wire, sent, faults>>
  /\ UNCHANGED receiverVars

\* The event the loop reaches next: rows come back ORDER BY seq.
NextToSend(e) == e \in todo /\ \A f \in todo : seqOf[e] <= seqOf[f]

BatchMsg(e, i) == [type |-> "ExecutionEventBatch", ev |-> e, msg_id |-> i]
AckMsg(t, n, i) == [type |-> "ExecutionEventAck", src |-> t, seq |-> n, msg_id |-> i]

\* send_execution_message succeeds: the bytes are with the kernel, no more.
SendEvent(e) ==
  /\ NextToSend(e)
  /\ \E i \in 1..MaxCopies :
       /\ BatchMsg(e, i) \notin wire
       /\ wire' = wire \cup {BatchMsg(e, i)}
  /\ sent' = sent \cup {e}
  /\ todo' = todo \ {e}
  /\ UNCHANGED <<emitted, cmds, ledger, seqOf, lastSeq, cursor, faults>>
  /\ UNCHANGED receiverVars

\* Mutant: a failed send skips its event instead of ending the batch.
SendFailsContinues ==
  /\ \E e \in todo : NextToSend(e) /\ todo' = todo \ {e}
  /\ Fault
  /\ UNCHANGED <<emitted, cmds, ledger, seqOf, lastSeq, cursor, wire, sent>>
  /\ UNCHANGED receiverVars

\* The connection fails: the rest of the batch waits for the next tick.
SendFails ==
  /\ todo # {}
  /\ todo' = {}
  /\ Fault
  /\ UNCHANGED <<emitted, cmds, ledger, seqOf, lastSeq, cursor, wire, sent>>
  /\ UNCHANGED receiverVars

(***************************************************************************)
(* Transport                                                               *)
(***************************************************************************)

\* serve_execution_plane drops a message it cannot read or validate (broken
\* connection, clock skew, nonce database error); nobody tells the sender.
DropMessage ==
  /\ \E m \in wire : wire' = wire \ {m}
  /\ Fault
  /\ UNCHANGED sent
  /\ UNCHANGED senderVars
  /\ UNCHANGED receiverVars

\* An ack reaches the sender's inbound loop, which queues ProcessAck.
ReceiveAck(m) ==
  /\ m \in wire /\ m.type = "ExecutionEventAck"
  /\ Len(cmds) < ChanCap
  /\ wire' = wire \ {m}
  /\ cmds' = Append(cmds, [op |-> "ProcessAck", node |-> m.src, seq |-> m.seq])
  /\ UNCHANGED <<emitted, ledger, seqOf, lastSeq, cursor, todo, sent, faults>>
  /\ UNCHANGED receiverVars

(***************************************************************************)
(* Target: inbound loop and writer thread                                  *)
(***************************************************************************)

\* Mutant: nobody looks the claim up.
ClaimedNever(t, e) == FALSE

Claimed(t, e) == \E i \in 1..Len(claims[t]) : claims[t][i] = e

\* Mutant: a claim takes two entries of the order queue and evicts none.
ClaimTwoEntries(t, e) == claims' = [claims EXCEPT ![t] = @ \o <<e, e>>]

\* DeliveryClaims::claim on an event not held: record it, evict the oldest
\* claim when the set has grown past MaxClaims.
Claim(t, e) ==
  claims' = [claims EXCEPT ![t] = IF Len(@) < MaxClaims THEN Append(@, e)
                                  ELSE Append(Tail(@), e)]

\* Mutant: an event already claimed is skipped without an ack.
ReceiveEventNoReAck(m) ==
  /\ m \in wire /\ m.type = "ExecutionEventBatch"
  /\ LET e == m.ev
         t == TargetOf[e]
     IN /\ inb[t] = NoEvent
        /\ IF Claimed(t, e)
             THEN UNCHANGED <<claims, seen, inb>>
             ELSE /\ Claim(t, e)
                  /\ seen' = [seen EXCEPT ![e] = IF @ = 0 THEN 1 ELSE 2]
                  /\ inb' = [inb EXCEPT ![t] = e]
        /\ commitQ' = commitQ \cup {e}
        /\ received' = received \cup {e}
  /\ wire' = wire \ {m}
  /\ UNCHANGED <<committed, sent, faults>>
  /\ UNCHANGED senderVars

\* The inbound loop takes a batch: deliver_event_envelope_or_park claims the
\* event and hands it to an inbox, the parked list or nobody; an event already
\* claimed is skipped.  CommitInboundBatch is queued, not waited for.
ReceiveEvent(m) ==
  /\ m \in wire /\ m.type = "ExecutionEventBatch"
  /\ LET e == m.ev
         t == TargetOf[e]
     IN /\ inb[t] = NoEvent
        /\ IF Claimed(t, e)
             THEN UNCHANGED <<claims, seen>>
             ELSE /\ Claim(t, e)
                  /\ seen' = [seen EXCEPT ![e] = IF @ = 0 THEN 1 ELSE 2]
        /\ inb' = [inb EXCEPT ![t] = e]
        /\ commitQ' = commitQ \cup {e}
        /\ received' = received \cup {e}
  /\ wire' = wire \ {m}
  /\ UNCHANGED <<committed, sent, faults>>
  /\ UNCHANGED senderVars

\* Mutant: the ack names the next seq expected instead of the last one seen.
SendAckNextSeq(t) ==
  /\ inb[t] # NoEvent
  /\ \E i \in 1..MaxCopies :
       LET m == AckMsg(t, seqOf[inb[t]] + 1, i)
       IN m \notin wire /\ wire' = wire \cup {m}
  /\ inb' = [inb EXCEPT ![t] = NoEvent]
  /\ UNCHANGED <<claims, commitQ, committed, received, seen, sent, faults>>
  /\ UNCHANGED senderVars

\* ... then returns an ack for the highest seq of the batch: its only event.
SendAck(t) ==
  /\ inb[t] # NoEvent
  /\ \E i \in 1..MaxCopies :
       LET m == AckMsg(t, seqOf[inb[t]], i)
       IN m \notin wire /\ wire' = wire \cup {m}
  /\ inb' = [inb EXCEPT ![t] = NoEvent]
  /\ UNCHANGED <<claims, commitQ, committed, received, seen, sent, faults>>
  /\ UNCHANGED senderVars

\* No address, no auth key, or the connection fails: the ack is not sent.
AckFails(t) ==
  /\ inb[t] # NoEvent
  /\ inb' = [inb EXCEPT ![t] = NoEvent]
  /\ Fault
  /\ UNCHANGED <<claims, commitQ, committed, received, seen, sent, wire>>
  /\ UNCHANGED senderVars

\* CommitInboundBatch at the target: append the row and vacuum it at once.
CommitInbound(e) ==
  /\ e \in commitQ
  /\ commitQ' = commitQ \ {e}
  /\ committed' = committed \cup {e}
  /\ UNCHANGED <<claims, inb, received, seen, sent, wire, faults>>
  /\ UNCHANGED senderVars

(***************************************************************************)
(* Restarts                                                                *)
(***************************************************************************)

RestartSender ==
  /\ Fault
  /\ cmds' = <<>>
  /\ todo' = {}
  /\ UNCHANGED <<emitted, ledger, seqOf, lastSeq, cursor, wire, sent>>
  /\ UNCHANGED receiverVars

RestartTarget(t) ==
  /\ Fault
  /\ claims' = [claims EXCEPT ![t] = <<>>]
  /\ inb' = [inb EXCEPT ![t] = NoEvent]
  /\ commitQ' = commitQ \ EventsFor(t)
  /\ seen' = [e \in Events |-> IF TargetOf[e] = t THEN 0 ELSE seen[e]]
  /\ UNCHANGED <<committed, received, sent, wire>>
  /\ UNCHANGED senderVars

-----------------------------------------------------------------------------
WriterStep == \/ \E e \in Events : AppendLocal(e)
              \/ cmds # <<>> /\ Head(cmds) \in AckCmds
                 /\ ProcessAck(Head(cmds).node, Head(cmds).seq)

Next ==
  \/ \E e \in Events : Emit(e)
  \/ WriterStep
  \/ cmds # <<>> /\ Head(cmds) \in AckCmds
     /\ ProcessAckVacuumFails(Head(cmds).node, Head(cmds).seq)
  \/ WriterFails
  \/ \E t \in Targets : DispatchForTarget(t)
  \/ \E e \in Events : SendEvent(e)
  \/ SendFails
  \/ DropMessage
  \/ \E m \in wire : ReceiveAck(m)
  \/ \E m \in wire : ReceiveEvent(m)
  \/ \E t \in Targets : SendAck(t)
  \/ \E t \in Targets : AckFails(t)
  \/ \E e \in Events : CommitInbound(e)
  \/ RestartSender
  \/ \E t \in Targets : RestartTarget(t)

Spec == Init /\ [][Next]_vars

(***************************************************************************)
(* Fairness.  The writer thread, the inbound loops and the dispatcher are  *)
(* loops that never return; the dispatcher visits every target each tick   *)
(* (strong fairness, as one tick serves one target at a time); a message   *)
(* that is not dropped is read by the task that accepted its connection,   *)
(* in an order the loop's queue decides (strong fairness for each event).  *)
(* Faults are bounded, so they end.                                        *)
(***************************************************************************)
Fairness ==
  /\ WF_vars(WriterStep)
  /\ \A t \in Targets : SF_vars(DispatchForTarget(t))
  /\ \A e \in Events : WF_vars(SendEvent(e))
  /\ \A e \in Events :
       SF_vars(\E m \in wire : m.type = "ExecutionEventBatch" /\ m.ev = e
                                 /\ ReceiveEvent(m))
  /\ \A t \in Targets : WF_vars(SendAck(t))
  /\ \A t \in Targets :
       SF_vars(\E m \in wire : m.type = "ExecutionEventAck" /\ m.src = t
                                 /\ ReceiveAck(m))

FairSpec == Spec /\ Fairness

-----------------------------------------------------------------------------
(***************************************************************************)
(* Properties                                                              *)
(***************************************************************************)

\* Type correctness of every variable.
TypeOK ==
  /\ emitted \subseteq Events
  /\ cmds \in Seq(AppendCmds \cup AckCmds)
  /\ ledger \subseteq Events
  /\ seqOf \in [Events -> Nat]
  /\ lastSeq \in Nat
  /\ cursor \in [Targets -> Nat]
  /\ todo \subseteq Events
  /\ wire \subseteq BatchMsgs \cup AckMsgs
  /\ claims \in [Targets -> Seq(Events)]
  /\ \A t \in Targets : Len(claims[t]) <= MaxClaims
  /\ inb \in [Targets -> Events \cup {NoEvent}]
  /\ commitQ \subseteq Events
  /\ committed \subseteq Events
  /\ sent \subseteq Events
  /\ received \subseteq Events
  /\ seen \in [Events -> 0..2]
  /\ faults \in 0..MaxFaults

\* A row leaves the sender's ledger only when the cursor of ITS target covers
\* it: an ack of one hotel never reclaims what another has not acked, and no
\* restart or failed vacuum loses a row (main.rs ProcessAck,
\* sqlite_storage.rs delete_delivered_events).
NoUnackedDeletion ==
  \A e \in Events :
    seqOf[e] > 0 /\ e \notin ledger => seqOf[e] <= cursor[TargetOf[e]]

\* A cursor always stands at the seq of an event its own target processed:
\* late, repeated and reordered acks never move it anywhere else
\* (mesh_runtime.rs ack of max_seq, sqlite_storage.rs advance_cursor).
CursorIsReceipt ==
  \A t \in Targets :
    cursor[t] > 0 => \E e \in EventsFor(t) : seqOf[e] = cursor[t] /\ e \in received

\* The dispatcher never leaves a gap on the wire: once an event was sent,
\* every earlier event of the same target was sent too, whatever sends failed,
\* wherever the query limit cut and whatever restarted in between
\* (mesh_dispatcher.rs: ORDER BY seq, break on the first failed send).
NoGapOnWire ==
  \A e, f \in Events :
    /\ TargetOf[e] = TargetOf[f]
    /\ seqOf[e] > 0
    /\ seqOf[e] < seqOf[f]
    /\ f \in sent
    => e \in sent

\* A cumulative ack never covers an event that was not put on a connection.
CoveredWasSent ==
  \A e \in Events :
    /\ TargetOf[e] \in Targets
    /\ seqOf[e] > 0
    /\ seqOf[e] <= cursor[TargetOf[e]]
    => e \in sent

\* Within one life of a target hotel an event is handed over at most once,
\* whatever is retransmitted before an ack lands, as long as the claims of all
\* events fit (ipc.rs DeliveryClaims).
SingleDeliveryPerLife ==
  Cardinality(Events) <= MaxClaims => \A e \in Events : seen[e] <= 1

\* The ack cursor never moves backwards, though acks arrive in any order
\* (storage.rs: MAX(existing, acked_seq)).
CursorNeverRegresses ==
  [][\A t \in Targets : cursor'[t] >= cursor[t]]_vars

\* Every event in the ledger is eventually covered by its target's cursor.
EventuallyAcked ==
  \A e \in Events :
    (e \in ledger) ~> (seqOf[e] > 0 /\ seqOf[e] <= cursor[TargetOf[e]])

\* beacon.rs calls ExecutionEventAck "an acknowledgment of durably received
\* execution-plane events": an event a cursor covers was received, or is at
\* least still on its way.  The ack is cumulative and messages are reordered
\* and dropped, so the code does not keep this.
AckedIsNotLost ==
  \A e \in Events :
    /\ TargetOf[e] \in Targets
    /\ seqOf[e] > 0
    /\ seqOf[e] <= cursor[TargetOf[e]]
    => \/ e \in received \cup todo
       \/ \E m \in wire : m.type = "ExecutionEventBatch" /\ m.ev = e

\* The same comment: what an ack names is durable at the target.  The ack
\* leaves without waiting for the commit, so a restart in between loses it.
AckedWasCommitted ==
  \A e \in Events :
    /\ TargetOf[e] \in Targets
    /\ seqOf[e] > 0
    /\ seqOf[e] = cursor[TargetOf[e]]
    => e \in committed \cup commitQ

-----------------------------------------------------------------------------
(***************************************************************************)
(* The inductive invariant behind the theorems of MeshDeliveryProofs.      *)
(***************************************************************************)

IsAppend(c) == c.op = "AppendLocal"
IsAck(c) == c.op = "ProcessAck"

\* Rows: sequence numbers are positive, distinct and below the counter.
SeqInv ==
  /\ \A e \in Events : seqOf[e] <= lastSeq
  /\ \A e, f \in Events : seqOf[e] > 0 /\ seqOf[e] = seqOf[f] => e = f
  /\ \A e \in Events : seqOf[e] > 0 => TargetOf[e] \in Targets
  /\ \A e \in ledger : seqOf[e] > 0

\* An event is appended once: it waits in the channel at most once and has no
\* row while it does.
AppendOnceInv ==
  /\ \A e \in Events : e \notin emitted => seqOf[e] = 0
  /\ \A i \in 1..Len(cmds) :
       IsAppend(cmds[i]) => cmds[i].ev \in emitted /\ seqOf[cmds[i].ev] = 0
  /\ \A i, j \in 1..Len(cmds) :
       IsAppend(cmds[i]) /\ IsAppend(cmds[j]) /\ cmds[i].ev = cmds[j].ev => i = j

\* The seq n stands for an event that was sent to t and processed there.
Receipt(t, n) ==
  /\ n > 0
  /\ \E e \in Events : TargetOf[e] = t /\ seqOf[e] = n /\ e \in sent /\ e \in received

\* Whatever is on the wire, in the inbound loops or on its way to a cursor
\* stems from a sent event, and every ack from a processed one.
FlightInv ==
  /\ \A e \in sent \cup todo : seqOf[e] > 0
  /\ \A m \in wire : m.type = "ExecutionEventBatch" => m.ev \in sent
  /\ \A t \in Targets : inb[t] # NoEvent =>
       TargetOf[inb[t]] = t /\ inb[t] \in sent /\ inb[t] \in received
  /\ \A m \in wire : m.type = "ExecutionEventAck" => Receipt(m.src, m.seq)
  /\ \A i \in 1..Len(cmds) : IsAck(cmds[i]) => Receipt(cmds[i].node, cmds[i].seq)
  /\ \A t \in Targets : cursor[t] > 0 => Receipt(t, cursor[t])

\* The batch at hand has no hole below any of its events.
BatchInv ==
  \A e \in todo, f \in Events :
    TargetOf[f] = TargetOf[e] /\ seqOf[f] > 0 /\ seqOf[f] < seqOf[e]
      => f \in sent \cup todo

IndInv ==
  /\ TypeOK
  /\ SeqInv
  /\ AppendOnceInv
  /\ FlightInv
  /\ BatchInv
  /\ NoGapOnWire
  /\ NoUnackedDeletion

=============================================================================
