-------------------------- MODULE MeshDeliveryProofs --------------------------
(***************************************************************************)
(* Proofs about MeshDelivery, for every set of events and targets, every   *)
(* query limit, channel capacity, claim bound and number of faults.        *)
(***************************************************************************)
EXTENDS MeshDelivery, FiniteSetTheorems, TLAPS

-----------------------------------------------------------------------------
(***************************************************************************)
(* Type correctness                                                        *)
(***************************************************************************)

\* The initial state is well typed.
LEMMA InitType == Init => TypeOK
BY ConstantsAssumption DEF Init, TypeOK

\* Every step of the sender, the transport and the targets keeps the types.
LEMMA NextType == TypeOK /\ [Next]_vars => TypeOK'
<1> SUFFICES ASSUME TypeOK, [Next]_vars PROVE TypeOK'
  OBVIOUS
<1> USE ConstantsAssumption
<1>1. ASSUME NEW e \in Events, Emit(e) PROVE TypeOK'
  <2>1. [op |-> "AppendLocal", ev |-> e] \in AppendCmds \cup AckCmds
    BY DEF AppendCmds
  <2> QED BY <1>1, <2>1 DEF Emit, TypeOK, receiverVars
<1>2. ASSUME NEW e \in Events, AppendLocal(e) PROVE TypeOK'
  BY <1>2 DEF AppendLocal, TypeOK, receiverVars
<1>3. ASSUME NEW t \in Targets, NEW n \in Nat, AdvanceCursor(t, n)
      PROVE  cursor' \in [Targets -> Nat]
  BY <1>3 DEF AdvanceCursor, TypeOK
<1>4. ASSUME cmds # <<>>, Head(cmds) \in AckCmds,
             ProcessAck(Head(cmds).node, Head(cmds).seq)
      PROVE  TypeOK'
  BY <1>3, <1>4 DEF ProcessAck, DeleteDelivered, AckCmds, TypeOK, receiverVars
<1>5. ASSUME cmds # <<>>, Head(cmds) \in AckCmds,
             ProcessAckVacuumFails(Head(cmds).node, Head(cmds).seq)
      PROVE  TypeOK'
  BY <1>3, <1>5 DEF ProcessAckVacuumFails, Fault, AckCmds, TypeOK, receiverVars
<1>6. CASE WriterFails
  BY <1>6 DEF WriterFails, Fault, TypeOK, receiverVars
<1>7. ASSUME NEW t \in Targets, DispatchForTarget(t) PROVE TypeOK'
  BY <1>7 DEF DispatchForTarget, QueryUnacked, Unacked, TypeOK, receiverVars
<1>8. ASSUME NEW e \in Events, SendEvent(e) PROVE TypeOK'
  <2>1. \A i \in 1..MaxCopies : BatchMsg(e, i) \in BatchMsgs
    BY DEF BatchMsg, BatchMsgs
  <2> QED BY <1>8, <2>1 DEF SendEvent, NextToSend, TypeOK, receiverVars
<1>9. CASE SendFails
  BY <1>9 DEF SendFails, Fault, TypeOK, receiverVars
<1>10. CASE DropMessage
  BY <1>10 DEF DropMessage, Fault, TypeOK, senderVars, receiverVars
<1>11. ASSUME NEW m \in wire, ReceiveAck(m) PROVE TypeOK'
  <2>1. m \in AckMsgs
    BY <1>11 DEF ReceiveAck, TypeOK, BatchMsgs, AckMsgs
  <2>2. [op |-> "ProcessAck", node |-> m.src, seq |-> m.seq] \in AckCmds
    BY <2>1 DEF AckMsgs, AckCmds
  <2> QED BY <1>11, <2>2 DEF ReceiveAck, TypeOK, receiverVars
<1>12. ASSUME NEW m \in wire, ReceiveEvent(m) PROVE TypeOK'
  <2>1. m.ev \in Events
    BY <1>12 DEF ReceiveEvent, TypeOK, BatchMsgs, AckMsgs
  <2>2. claims' \in [Targets -> Seq(Events)]
        /\ \A t \in Targets : Len(claims'[t]) <= MaxClaims
    <3> DEFINE u == TargetOf[m.ev]
               q == claims[u]
    <3>1. CASE claims' = claims
      BY <3>1 DEF TypeOK
    <3>2. CASE claims' # claims
      <4>1. claims' = [claims EXCEPT ![u] = IF Len(q) < MaxClaims THEN Append(q, m.ev)
                                            ELSE Append(Tail(q), m.ev)]
        BY <1>12, <3>2 DEF ReceiveEvent, Claim
      <4>2. u \in Targets
        BY <2>1, <3>2, <4>1 DEF TypeOK
      <4>3. q \in Seq(Events) /\ Len(q) <= MaxClaims
        BY <4>2 DEF TypeOK
      <4>4. Len(q) >= MaxClaims => Tail(q) \in Seq(Events) /\ Len(Tail(q)) = Len(q) - 1
        BY <4>3
      <4> QED BY <2>1, <4>1, <4>2, <4>3, <4>4 DEF TypeOK
    <3> QED BY <3>1, <3>2
  <2>3. seen' \in [Events -> 0..2]
    <3>1. \/ seen' = seen
          \/ seen' = [seen EXCEPT ![m.ev] = IF @ = 0 THEN 1 ELSE 2]
      BY <1>12 DEF ReceiveEvent
    <3>2. seen \in [Events -> 0..2]
      BY DEF TypeOK
    <3> QED BY <2>1, <3>1, <3>2
  <2> QED BY <1>12, <2>1, <2>2, <2>3 DEF ReceiveEvent, TypeOK, senderVars
<1>13. ASSUME NEW t \in Targets, SendAck(t) PROVE TypeOK'
  <2>1. \A i \in 1..MaxCopies : AckMsg(t, seqOf[inb[t]], i) \in AckMsgs
    BY <1>13 DEF SendAck, AckMsg, AckMsgs, TypeOK
  <2> QED BY <1>13, <2>1 DEF SendAck, TypeOK, senderVars
<1>14. ASSUME NEW t \in Targets, AckFails(t) PROVE TypeOK'
  BY <1>14 DEF AckFails, Fault, TypeOK, senderVars
<1>15. ASSUME NEW e \in Events, CommitInbound(e) PROVE TypeOK'
  BY <1>15 DEF CommitInbound, TypeOK, senderVars
<1>16. CASE RestartSender
  BY <1>16 DEF RestartSender, Fault, TypeOK, receiverVars
<1>17. ASSUME NEW t \in Targets, RestartTarget(t) PROVE TypeOK'
  BY <1>17 DEF RestartTarget, Fault, TypeOK, senderVars
<1>18. CASE UNCHANGED vars
  BY <1>18 DEF vars, TypeOK
<1> QED
  BY <1>1, <1>2, <1>4, <1>5, <1>6, <1>7, <1>8, <1>9, <1>10, <1>11, <1>12,
     <1>13, <1>14, <1>15, <1>16, <1>17, <1>18 DEF Next, WriterStep

\* Every reachable state is well typed: in particular no claim set outgrows
\* its bound and no fault is counted beyond the bound.
THEOREM TypeCorrect == Spec => []TypeOK
<1>1. Init => TypeOK
  BY InitType
<1>2. TypeOK /\ [Next]_vars => TypeOK'
  BY NextType
<1> QED BY <1>1, <1>2, PTL DEF Spec

-----------------------------------------------------------------------------
(***************************************************************************)
(* Delivery safety                                                         *)
(***************************************************************************)

\* Taking the head off a channel shifts every index by one.
LEMMA TailIndex ==
  ASSUME NEW S, NEW q \in Seq(S), q # <<>>, NEW i \in 1..Len(Tail(q))
  PROVE  i + 1 \in 1..Len(q) /\ Tail(q)[i] = q[i + 1]
OBVIOUS

\* What the cursor covers was sent: the cursor stands on a sent event, and
\* nothing below a sent event is unsent.
LEMMA CoveredFromInv == IndInv => CoveredWasSent
<1> SUFFICES ASSUME IndInv, NEW e \in Events, TargetOf[e] \in Targets,
                    seqOf[e] > 0, seqOf[e] <= cursor[TargetOf[e]]
             PROVE  e \in sent
  BY DEF CoveredWasSent
<1> DEFINE t == TargetOf[e]
<1>1. cursor[t] \in Nat /\ seqOf[e] \in Nat
  BY DEF IndInv, TypeOK
<1>2. PICK g \in Events : TargetOf[g] = t /\ seqOf[g] = cursor[t] /\ g \in sent
  BY <1>1 DEF IndInv, FlightInv, Receipt
<1>3. CASE seqOf[e] = cursor[t]
  BY <1>2, <1>3 DEF IndInv, SeqInv
<1>4. CASE seqOf[e] < cursor[t]
  BY <1>2, <1>4 DEF IndInv, NoGapOnWire
<1> QED BY <1>1, <1>3, <1>4

\* The LIMIT of the query cuts from above: with an event it returns every
\* unacked event of a lower seq.
LEMMA QueryDownClosed ==
  ASSUME TypeOK, NEW t \in Targets, NEW e \in QueryUnacked(t),
         NEW f \in Unacked(t), seqOf[f] < seqOf[e]
  PROVE  f \in QueryUnacked(t)
<1> DEFINE B(x) == {g \in Unacked(t) : seqOf[g] < seqOf[x]}
<1>1. Unacked(t) \subseteq Events /\ seqOf \in [Events -> Nat] /\ e \in Events
  BY DEF TypeOK, Unacked, QueryUnacked
<1>2. IsFiniteSet(B(e))
  BY <1>1, ConstantsAssumption, FS_Subset
<1>3. B(f) \subseteq B(e)
  BY <1>1
<1>4. Cardinality(B(f)) <= Cardinality(B(e))
  BY <1>2, <1>3, FS_Subset
<1>5. Cardinality(B(e)) \in Nat /\ Cardinality(B(f)) \in Nat
  BY <1>2, <1>3, FS_Subset, FS_CardinalityType
<1>6. Cardinality(B(e)) < QueryLimit
  BY DEF QueryUnacked
<1> QED BY <1>4, <1>5, <1>6, ConstantsAssumption DEF QueryUnacked

\* The invariant holds initially.
LEMMA InitInv == Init => IndInv
BY InitType DEF Init, IndInv, SeqInv, AppendOnceInv, FlightInv, BatchInv,
                NoGapOnWire, NoUnackedDeletion

\* Steps that leave rows, channel contents, wire and histories alone, or only
\* forget volatile state, keep the invariant.
LEMMA ForgetfulStep ==
  ASSUME IndInv, TypeOK', UNCHANGED <<seqOf, lastSeq, sent, ledger, cursor>>,
         emitted' = emitted, received \subseteq received',
         wire' \subseteq wire, todo' = {} \/ todo' = todo,
         \/ cmds' = cmds
         \/ cmds' = <<>>
         \/ cmds # <<>> /\ cmds' = Tail(cmds),
         \A t \in Targets : inb'[t] = NoEvent \/ inb'[t] = inb[t]
  PROVE  IndInv'
<1>1. SeqInv'
  BY DEF IndInv, SeqInv
<1>2. \E k \in {0, 1} : \A i \in 1..Len(cmds') :
        i + k \in 1..Len(cmds) /\ cmds'[i] = cmds[i + k]
  <2>1. CASE cmds' = cmds
    BY <2>1 DEF IndInv, TypeOK
  <2>2. CASE cmds' = <<>>
    BY <2>2
  <2>3. CASE cmds # <<>> /\ cmds' = Tail(cmds)
    BY <2>3, TailIndex DEF IndInv, TypeOK
  <2> QED BY <2>1, <2>2, <2>3
<1>3. AppendOnceInv'
  <2>1. PICK k \in {0, 1} : \A i \in 1..Len(cmds') :
          i + k \in 1..Len(cmds) /\ cmds'[i] = cmds[i + k]
    BY <1>2
  <2>2. Len(cmds') \in Nat /\ Len(cmds) \in Nat
    BY DEF IndInv, TypeOK
  <2>3. \A i, j \in 1..Len(cmds') :
          IsAppend(cmds'[i]) /\ IsAppend(cmds'[j]) /\ cmds'[i].ev = cmds'[j].ev => i = j
    BY <2>1, <2>2 DEF IndInv, AppendOnceInv
  <2>4. \A i \in 1..Len(cmds') :
          IsAppend(cmds'[i]) => cmds'[i].ev \in emitted /\ seqOf[cmds'[i].ev] = 0
    BY <2>1 DEF IndInv, AppendOnceInv
  <2> QED BY <2>3, <2>4 DEF IndInv, AppendOnceInv, IsAppend
<1>4. \A t, n : Receipt(t, n) => Receipt(t, n)'
  BY DEF Receipt
<1>5. FlightInv'
  <2>1. \A i \in 1..Len(cmds') :
          IsAck(cmds'[i]) => Receipt(cmds'[i].node, cmds'[i].seq)
    BY <1>2 DEF IndInv, FlightInv
  <2>2. (\A i \in 1..Len(cmds) : IsAck(cmds[i]) => Receipt(cmds[i].node, cmds[i].seq))'
    BY <2>1 DEF Receipt, IsAck
  <2>3. (\A m \in wire : m.type = "ExecutionEventAck" => Receipt(m.src, m.seq))'
    BY <1>4 DEF IndInv, FlightInv
  <2>4. (\A t \in Targets : cursor[t] > 0 => Receipt(t, cursor[t]))'
    BY DEF IndInv, FlightInv, Receipt
  <2>5. \A t \in Targets : inb'[t] # NoEvent =>
          TargetOf[inb'[t]] = t /\ inb'[t] \in sent' /\ inb'[t] \in received'
    BY DEF IndInv, FlightInv
  <2>6. /\ \A e \in sent' \cup todo' : seqOf'[e] > 0
        /\ \A m \in wire' : m.type = "ExecutionEventBatch" => m.ev \in sent'
    BY DEF IndInv, FlightInv
  <2> QED BY <2>2, <2>3, <2>4, <2>5, <2>6 DEF FlightInv, IsAck
<1>6. BatchInv'
  BY DEF IndInv, BatchInv
<1>7. NoGapOnWire' /\ NoUnackedDeletion'
  BY DEF IndInv, NoGapOnWire, NoUnackedDeletion
<1> QED BY <1>1, <1>3, <1>5, <1>6, <1>7 DEF IndInv

\* An event enters the channel for the first time.
LEMMA EmitStep ==
  ASSUME IndInv, TypeOK', NEW e \in Events, Emit(e) PROVE IndInv'
<1> DEFINE c == [op |-> "AppendLocal", ev |-> e]
<1>1. cmds' = Append(cmds, c) /\ cmds \in Seq(AppendCmds \cup AckCmds)
  BY DEF Emit, IndInv, TypeOK
<1>2. /\ Len(cmds') = Len(cmds) + 1
      /\ Len(cmds) \in Nat
      /\ \A i \in 1..Len(cmds) : cmds'[i] = cmds[i]
      /\ cmds'[Len(cmds) + 1] = c
  BY <1>1
<1>3. AppendOnceInv'
  <2>1. e \notin emitted /\ emitted' = emitted \cup {e} /\ seqOf[e] = 0 /\ seqOf' = seqOf
    BY DEF Emit, IndInv, AppendOnceInv
  <2>2. \A i \in 1..Len(cmds) : IsAppend(cmds[i]) => cmds[i].ev # e
    BY <2>1 DEF IndInv, AppendOnceInv
  <2>3. \A i \in 1..Len(cmds') :
          IsAppend(cmds'[i]) => cmds'[i].ev \in emitted' /\ seqOf'[cmds'[i].ev] = 0
    BY <1>2, <2>1 DEF IndInv, AppendOnceInv, IsAppend
  <2>4. \A i, j \in 1..Len(cmds') :
          IsAppend(cmds'[i]) /\ IsAppend(cmds'[j]) /\ cmds'[i].ev = cmds'[j].ev => i = j
    BY <1>2, <2>2 DEF IndInv, AppendOnceInv, IsAppend
  <2> QED BY <2>1, <2>3, <2>4 DEF IndInv, AppendOnceInv, IsAppend
<1>4. (\A i \in 1..Len(cmds) : IsAck(cmds[i]) => Receipt(cmds[i].node, cmds[i].seq))'
  BY <1>2 DEF Emit, receiverVars, IndInv, FlightInv, Receipt, IsAck
<1>5. FlightInv'
  BY <1>4 DEF Emit, receiverVars, IndInv, FlightInv, Receipt
<1> QED BY <1>3, <1>5 DEF Emit, IndInv, SeqInv, BatchInv, NoGapOnWire, NoUnackedDeletion

\* An event gets the highest seq so far, so it is below no sent event.
LEMMA AppendStep ==
  ASSUME IndInv, TypeOK', NEW e \in Events, AppendLocal(e) PROVE IndInv'
<1>1. CASE TargetOf[e] = Local
  BY <1>1, ForgetfulStep DEF AppendLocal, receiverVars
<1>2. CASE TargetOf[e] # Local
  <2>1. /\ TargetOf[e] \in Targets
        /\ lastSeq \in Nat /\ lastSeq' = lastSeq + 1
        /\ seqOf \in [Events -> Nat]
        /\ seqOf' = [seqOf EXCEPT ![e] = lastSeq + 1]
        /\ ledger' = ledger \cup {e}
        /\ cmds' = Tail(cmds) /\ cmds # <<>>
        /\ cmds \in Seq(AppendCmds \cup AckCmds)
        /\ Head(cmds) = [op |-> "AppendLocal", ev |-> e]
        /\ UNCHANGED <<emitted, cursor, todo, wire, sent, inb, received>>
    BY <1>2, ConstantsAssumption DEF AppendLocal, IndInv, TypeOK, receiverVars
  <2>2. cmds[1] = [op |-> "AppendLocal", ev |-> e] /\ 1 \in 1..Len(cmds)
    BY <2>1
  <2>3. seqOf[e] = 0 /\ e \in emitted
    BY <2>2 DEF IndInv, AppendOnceInv, IsAppend
  <2>4. /\ \A f \in Events : seqOf[f] > 0 => seqOf'[f] = seqOf[f]
        /\ \A f \in Events : f # e => seqOf'[f] = seqOf[f]
        /\ seqOf'[e] = lastSeq + 1
        /\ \A f \in Events : seqOf[f] <= lastSeq
    BY <2>1, <2>3 DEF IndInv, SeqInv
  <2>5. e \notin sent /\ e \notin todo
    BY <2>3 DEF IndInv, FlightInv
  <2>6. \A i \in 1..Len(cmds') :
          /\ i + 1 \in 1..Len(cmds) /\ cmds'[i] = cmds[i + 1]
          /\ IsAppend(cmds'[i]) => cmds'[i].ev # e
    <3> SUFFICES ASSUME NEW i \in 1..Len(cmds')
                 PROVE  /\ i + 1 \in 1..Len(cmds) /\ cmds'[i] = cmds[i + 1]
                        /\ IsAppend(cmds'[i]) => cmds'[i].ev # e
      OBVIOUS
    <3>1. i + 1 \in 1..Len(cmds) /\ cmds'[i] = cmds[i + 1]
      BY <2>1, TailIndex
    <3>2. i + 1 # 1
      OBVIOUS
    <3> QED BY <2>2, <3>1, <3>2 DEF IndInv, AppendOnceInv, IsAppend
  <2>7. SeqInv'
    <3>1. \A f \in Events : seqOf'[f] <= lastSeq'
      BY <2>1, <2>4
    <3>2. \A f, g \in Events : seqOf'[f] > 0 /\ seqOf'[f] = seqOf'[g] => f = g
      BY <2>1, <2>4 DEF IndInv, SeqInv
    <3>3. \A f \in Events : seqOf'[f] > 0 => TargetOf[f] \in Targets
      BY <2>1, <2>4 DEF IndInv, SeqInv
    <3>4. \A f \in ledger' : seqOf'[f] > 0
      BY <2>1, <2>4 DEF IndInv, SeqInv, TypeOK
    <3> QED BY <3>1, <3>2, <3>3, <3>4 DEF SeqInv
  <2>8. AppendOnceInv'
    <3>1. \A f \in Events : f \notin emitted' => seqOf'[f] = 0
      BY <2>1, <2>3, <2>4 DEF IndInv, AppendOnceInv
    <3>2. \A i \in 1..Len(cmds') :
            IsAppend(cmds'[i]) => cmds'[i].ev \in emitted' /\ seqOf'[cmds'[i].ev] = 0
      <4> SUFFICES ASSUME NEW i \in 1..Len(cmds'), IsAppend(cmds'[i])
                   PROVE  cmds'[i].ev \in emitted' /\ seqOf'[cmds'[i].ev] = 0
        OBVIOUS
      <4>1. cmds[i + 1].ev \in emitted /\ seqOf[cmds[i + 1].ev] = 0 /\ cmds[i + 1].ev # e
        BY <2>6 DEF IndInv, AppendOnceInv
      <4> QED BY <2>1, <2>4, <2>6, <4>1 DEF IndInv, TypeOK
    <3>3. \A i, j \in 1..Len(cmds') :
            IsAppend(cmds'[i]) /\ IsAppend(cmds'[j]) /\ cmds'[i].ev = cmds'[j].ev => i = j
      <4> SUFFICES ASSUME NEW i \in 1..Len(cmds'), NEW j \in 1..Len(cmds'),
                          IsAppend(cmds'[i]), IsAppend(cmds'[j]), cmds'[i].ev = cmds'[j].ev
                   PROVE  i = j
        OBVIOUS
      <4>1. i + 1 = j + 1
        BY <2>6 DEF IndInv, AppendOnceInv
      <4> QED BY <4>1
    <3> QED BY <3>1, <3>2, <3>3 DEF AppendOnceInv, IsAppend
  <2>9. \A t, n : Receipt(t, n) => Receipt(t, n)'
    BY <2>1, <2>4 DEF Receipt
  <2>10. FlightInv'
    <3>1. \A i \in 1..Len(cmds') :
            IsAck(cmds'[i]) => Receipt(cmds'[i].node, cmds'[i].seq)
      BY <2>6 DEF IndInv, FlightInv
    <3>2. (\A i \in 1..Len(cmds) : IsAck(cmds[i]) => Receipt(cmds[i].node, cmds[i].seq))'
      BY <3>1, <2>1, <2>4 DEF Receipt, IsAck
    <3>3. (\A t \in Targets : cursor[t] > 0 => Receipt(t, cursor[t]))'
      BY <2>1, <2>4 DEF IndInv, FlightInv, Receipt
    <3>4. (\A m \in wire : m.type = "ExecutionEventAck" => Receipt(m.src, m.seq))'
      BY <2>1, <2>9 DEF IndInv, FlightInv
    <3>5. \A f \in sent' \cup todo' : seqOf'[f] > 0
      BY <2>1, <2>4 DEF IndInv, FlightInv, TypeOK
    <3> QED BY <2>1, <3>2, <3>3, <3>4, <3>5 DEF IndInv, FlightInv, IsAck
  <2>11. BatchInv'
    BY <2>1, <2>4, <2>5 DEF IndInv, BatchInv, TypeOK
  <2>12. NoGapOnWire'
    BY <2>1, <2>4, <2>5 DEF IndInv, NoGapOnWire, TypeOK
  <2>13. NoUnackedDeletion'
    BY <2>1, <2>4 DEF IndInv, NoUnackedDeletion
  <2> QED BY <2>7, <2>8, <2>10, <2>11, <2>12, <2>13 DEF IndInv
<1> QED BY <1>1, <1>2

\* The cursor takes over a receipt, and only rows it covers are vacuumed.
LEMMA AckStep ==
  ASSUME IndInv, TypeOK', NEW t \in Targets, NEW n \in Nat, cmds # <<>>,
         Head(cmds) = [op |-> "ProcessAck", node |-> t, seq |-> n],
         cmds' = Tail(cmds), AdvanceCursor(t, n),
         DeleteDelivered(t, n) \/ ledger' = ledger,
         UNCHANGED <<emitted, seqOf, lastSeq, todo, wire, sent, received, inb>>
  PROVE  IndInv'
<1>1. /\ cmds \in Seq(AppendCmds \cup AckCmds)
      /\ cursor \in [Targets -> Nat]
      /\ seqOf \in [Events -> Nat]
      /\ ledger' \subseteq ledger
  BY DEF IndInv, TypeOK, DeleteDelivered
<1>2. Receipt(t, n)
  <2>1. cmds[1] = Head(cmds) /\ 1 \in 1..Len(cmds)
    BY <1>1
  <2> QED BY <2>1 DEF IndInv, FlightInv, IsAck
<1>3. /\ cursor' \in [Targets -> Nat]
      /\ cursor'[t] = IF n > cursor[t] THEN n ELSE cursor[t]
      /\ \A u \in Targets : u # t => cursor'[u] = cursor[u]
      /\ \A u \in Targets : cursor'[u] >= cursor[u]
      /\ cursor'[t] >= n
  BY <1>1 DEF AdvanceCursor
<1>4. \A i \in 1..Len(cmds') : i + 1 \in 1..Len(cmds) /\ cmds'[i] = cmds[i + 1]
  BY <1>1, TailIndex
<1>5. AppendOnceInv'
  <2>1. \A i \in 1..Len(cmds') :
          IsAppend(cmds'[i]) => cmds'[i].ev \in emitted /\ seqOf[cmds'[i].ev] = 0
    BY <1>4 DEF IndInv, AppendOnceInv
  <2>2. \A i, j \in 1..Len(cmds') :
          IsAppend(cmds'[i]) /\ IsAppend(cmds'[j]) /\ cmds'[i].ev = cmds'[j].ev => i = j
    <3> SUFFICES ASSUME NEW i \in 1..Len(cmds'), NEW j \in 1..Len(cmds'),
                        IsAppend(cmds'[i]), IsAppend(cmds'[j]), cmds'[i].ev = cmds'[j].ev
                 PROVE  i = j
      OBVIOUS
    <3>1. i + 1 = j + 1
      BY <1>4 DEF IndInv, AppendOnceInv
    <3> QED BY <3>1
  <2> QED BY <2>1, <2>2 DEF IndInv, AppendOnceInv, IsAppend
<1>6. FlightInv'
  <2>1. \A i \in 1..Len(cmds') :
          IsAck(cmds'[i]) => Receipt(cmds'[i].node, cmds'[i].seq)
    BY <1>4 DEF IndInv, FlightInv
  <2>2. (\A i \in 1..Len(cmds) : IsAck(cmds[i]) => Receipt(cmds[i].node, cmds[i].seq))'
    BY <2>1 DEF Receipt, IsAck
  <2>3. \A u \in Targets : cursor'[u] > 0 => Receipt(u, cursor'[u])
    BY <1>1, <1>2, <1>3 DEF IndInv, FlightInv
  <2>4. (\A u \in Targets : cursor[u] > 0 => Receipt(u, cursor[u]))'
    BY <2>3 DEF Receipt
  <2> QED BY <2>2, <2>4 DEF IndInv, FlightInv, Receipt
<1>7. NoUnackedDeletion'
  <2> SUFFICES ASSUME NEW e \in Events, seqOf[e] > 0, e \notin ledger'
               PROVE  seqOf[e] <= cursor'[TargetOf[e]]
    BY DEF NoUnackedDeletion
  <2>1. TargetOf[e] \in Targets
    BY DEF IndInv, SeqInv
  <2>2. CASE e \in ledger
    BY <1>1, <1>3, <2>2 DEF DeleteDelivered, EventsFor
  <2>3. CASE e \notin ledger
    BY <1>1, <1>3, <2>1, <2>3 DEF IndInv, NoUnackedDeletion
  <2> QED BY <2>2, <2>3
<1>8. SeqInv'
  BY <1>1 DEF IndInv, SeqInv
<1> QED BY <1>5, <1>6, <1>7, <1>8 DEF IndInv, BatchInv, NoGapOnWire

\* A batch has no hole: what lies below one of its events and is not in it is
\* covered by the cursor, hence sent.
LEMMA DispatchStep ==
  ASSUME IndInv, TypeOK', NEW t \in Targets, DispatchForTarget(t) PROVE IndInv'
<1>1. /\ todo' = QueryUnacked(t)
      /\ UNCHANGED <<emitted, cmds, ledger, seqOf, lastSeq, cursor, wire, sent, inb, received>>
  BY DEF DispatchForTarget, receiverVars
<1>2. BatchInv'
  <2> SUFFICES ASSUME NEW e \in QueryUnacked(t), NEW f \in Events,
                      TargetOf[f] = TargetOf[e], seqOf[f] > 0, seqOf[f] < seqOf[e]
               PROVE  f \in sent \cup QueryUnacked(t)
    BY <1>1 DEF BatchInv
  <2>1. TargetOf[e] = t
    BY DEF QueryUnacked, Unacked
  <2>2. CASE f \in Unacked(t)
    BY <2>2, QueryDownClosed DEF IndInv
  <2>3. CASE f \notin Unacked(t)
    <3>1. seqOf[f] <= cursor[t]
      BY <2>1, <2>3 DEF IndInv, TypeOK, NoUnackedDeletion, Unacked
    <3> QED BY <2>1, <3>1, CoveredFromInv DEF CoveredWasSent
  <2> QED BY <2>2, <2>3
<1>3. \A e \in todo' : seqOf'[e] > 0
  BY <1>1 DEF QueryUnacked, Unacked, IndInv, SeqInv
<1>4. FlightInv'
  BY <1>1, <1>3 DEF IndInv, FlightInv, Receipt
<1> QED BY <1>1, <1>2, <1>4 DEF IndInv, SeqInv, AppendOnceInv, NoGapOnWire, NoUnackedDeletion

\* The lowest event of the batch goes out: everything below it went before.
LEMMA SendStep ==
  ASSUME IndInv, TypeOK', NEW e \in Events, SendEvent(e) PROVE IndInv'
<1>1. /\ e \in todo /\ \A f \in todo : seqOf[e] <= seqOf[f]
      /\ sent' = sent \cup {e} /\ todo' = todo \ {e}
      /\ UNCHANGED <<emitted, cmds, ledger, seqOf, lastSeq, cursor, inb, received>>
      /\ seqOf \in [Events -> Nat] /\ todo \subseteq Events
  BY DEF SendEvent, NextToSend, receiverVars, IndInv, TypeOK
<1>2. PICK i : wire' = wire \cup {BatchMsg(e, i)}
  BY DEF SendEvent
<1>3. BatchMsg(e, i).type = "ExecutionEventBatch" /\ BatchMsg(e, i).ev = e
  BY DEF BatchMsg
<1>4. NoGapOnWire'
  <2> SUFFICES ASSUME NEW f \in Events, TargetOf[f] = TargetOf[e],
                      seqOf[f] > 0, seqOf[f] < seqOf[e]
               PROVE  f \in sent
    BY <1>1 DEF IndInv, NoGapOnWire
  <2>1. f \in sent \cup todo
    BY <1>1 DEF IndInv, BatchInv
  <2> QED BY <1>1, <2>1
<1>5. BatchInv'
  BY <1>1 DEF IndInv, BatchInv
<1>6. FlightInv'
  <2>1. \A m \in wire' : m.type = "ExecutionEventBatch" => m.ev \in sent'
    BY <1>1, <1>2, <1>3 DEF IndInv, FlightInv
  <2>2. (\A m \in wire : m.type = "ExecutionEventAck" => Receipt(m.src, m.seq))'
    BY <1>1, <1>2, <1>3 DEF IndInv, FlightInv, Receipt
  <2>3. \A f \in sent' \cup todo' : seqOf'[f] > 0
    BY <1>1 DEF IndInv, FlightInv
  <2> QED BY <1>1, <2>1, <2>2, <2>3 DEF IndInv, FlightInv, Receipt
<1> QED BY <1>1, <1>4, <1>5, <1>6 DEF IndInv, SeqInv, AppendOnceInv, NoUnackedDeletion

\* An ack on the wire becomes a command with the same receipt.
LEMMA ReceiveAckStep ==
  ASSUME IndInv, TypeOK', NEW m \in wire, ReceiveAck(m) PROVE IndInv'
<1> DEFINE c == [op |-> "ProcessAck", node |-> m.src, seq |-> m.seq]
<1>1. /\ cmds' = Append(cmds, c) /\ cmds \in Seq(AppendCmds \cup AckCmds)
      /\ m \in AckMsgs /\ wire' = wire \ {m}
      /\ UNCHANGED <<emitted, ledger, seqOf, lastSeq, cursor, todo, sent, inb, received>>
  BY DEF ReceiveAck, IndInv, TypeOK, BatchMsgs, AckMsgs, receiverVars
<1>2. c \in AckCmds
  BY <1>1 DEF AckMsgs, AckCmds
<1>3. /\ Len(cmds') = Len(cmds) + 1
      /\ Len(cmds) \in Nat
      /\ \A i \in 1..Len(cmds) : cmds'[i] = cmds[i]
      /\ cmds'[Len(cmds) + 1] = c
  BY <1>1, <1>2
<1>4. c.op = "ProcessAck" /\ Receipt(c.node, c.seq)
  BY <1>1 DEF IndInv, FlightInv, AckMsgs
<1>5. AppendOnceInv'
  <2>1. \A i \in 1..Len(cmds') : IsAppend(cmds'[i]) => i \in 1..Len(cmds)
    BY <1>3, <1>4 DEF IsAppend
  <2>2. \A i \in 1..Len(cmds') :
          IsAppend(cmds'[i]) => cmds'[i].ev \in emitted' /\ seqOf'[cmds'[i].ev] = 0
    BY <1>1, <1>3, <2>1 DEF IndInv, AppendOnceInv
  <2>3. \A i, j \in 1..Len(cmds') :
          IsAppend(cmds'[i]) /\ IsAppend(cmds'[j]) /\ cmds'[i].ev = cmds'[j].ev => i = j
    BY <1>3, <2>1 DEF IndInv, AppendOnceInv
  <2> QED BY <1>1, <2>2, <2>3 DEF IndInv, AppendOnceInv, IsAppend
<1>6. FlightInv'
  <2>1. \A i \in 1..Len(cmds') :
          IsAck(cmds'[i]) => Receipt(cmds'[i].node, cmds'[i].seq)
    BY <1>3, <1>4 DEF IndInv, FlightInv
  <2>2. (\A i \in 1..Len(cmds) : IsAck(cmds[i]) => Receipt(cmds[i].node, cmds[i].seq))'
    BY <1>1, <2>1 DEF Receipt, IsAck
  <2> QED BY <1>1, <2>2 DEF IndInv, FlightInv, Receipt
<1> QED BY <1>1, <1>5, <1>6 DEF IndInv, SeqInv, BatchInv, NoGapOnWire, NoUnackedDeletion

\* The inbound loop holds an event that was sent to it.
LEMMA ReceiveEventStep ==
  ASSUME IndInv, TypeOK', NEW m \in wire, ReceiveEvent(m) PROVE IndInv'
<1>1. /\ m.ev \in sent
      /\ wire' = wire \ {m}
      /\ received' = received \cup {m.ev}
      /\ inb' = [inb EXCEPT ![TargetOf[m.ev]] = m.ev]
      /\ inb \in [Targets -> Events \cup {NoEvent}]
      /\ UNCHANGED <<emitted, cmds, ledger, seqOf, lastSeq, cursor, todo, sent>>
  BY DEF ReceiveEvent, IndInv, FlightInv, TypeOK, senderVars
<1>2. \A t \in Targets : inb'[t] # NoEvent =>
        TargetOf[inb'[t]] = t /\ inb'[t] \in sent' /\ inb'[t] \in received'
  BY <1>1 DEF IndInv, FlightInv
<1>3. FlightInv'
  BY <1>1, <1>2 DEF IndInv, FlightInv, Receipt
<1> QED BY <1>1, <1>3 DEF IndInv, SeqInv, AppendOnceInv, BatchInv, NoGapOnWire, NoUnackedDeletion

\* The ack names the event the loop holds: it is a receipt.
LEMMA SendAckStep ==
  ASSUME IndInv, TypeOK', NEW t \in Targets, SendAck(t) PROVE IndInv'
<1>1. /\ inb[t] # NoEvent
      /\ inb' = [inb EXCEPT ![t] = NoEvent]
      /\ inb \in [Targets -> Events \cup {NoEvent}]
      /\ UNCHANGED <<emitted, cmds, ledger, seqOf, lastSeq, cursor, todo, sent, received>>
  BY DEF SendAck, IndInv, TypeOK, senderVars
<1>2. PICK i : wire' = wire \cup {AckMsg(t, seqOf[inb[t]], i)}
  BY DEF SendAck
<1>3. /\ AckMsg(t, seqOf[inb[t]], i).type = "ExecutionEventAck"
      /\ AckMsg(t, seqOf[inb[t]], i).src = t
      /\ AckMsg(t, seqOf[inb[t]], i).seq = seqOf[inb[t]]
  BY DEF AckMsg
<1>4. Receipt(t, seqOf[inb[t]])
  BY <1>1 DEF IndInv, FlightInv, Receipt
<1>5. \A m \in wire' : m.type = "ExecutionEventAck" => Receipt(m.src, m.seq)
  BY <1>2, <1>3, <1>4 DEF IndInv, FlightInv
<1>6. (\A m \in wire : m.type = "ExecutionEventAck" => Receipt(m.src, m.seq))'
  BY <1>1, <1>5 DEF Receipt
<1>7. \A m \in wire' : m.type = "ExecutionEventBatch" => m.ev \in sent'
  BY <1>1, <1>2, <1>3 DEF IndInv, FlightInv
<1>8. FlightInv'
  BY <1>1, <1>6, <1>7 DEF IndInv, FlightInv, Receipt
<1> QED BY <1>1, <1>8 DEF IndInv, SeqInv, AppendOnceInv, BatchInv, NoGapOnWire, NoUnackedDeletion

\* Every step keeps the invariant.
LEMMA NextInv == IndInv /\ [Next]_vars => IndInv'
<1> SUFFICES ASSUME IndInv, [Next]_vars PROVE IndInv'
  OBVIOUS
<1>1. TypeOK /\ TypeOK'
  BY NextType DEF IndInv
<1>2. ASSUME NEW e \in Events, Emit(e) PROVE IndInv'
  BY <1>1, <1>2, EmitStep
<1>3. ASSUME NEW e \in Events, AppendLocal(e) PROVE IndInv'
  BY <1>1, <1>3, AppendStep
<1>4. ASSUME cmds # <<>>, Head(cmds) \in AckCmds,
             \/ ProcessAck(Head(cmds).node, Head(cmds).seq)
             \/ ProcessAckVacuumFails(Head(cmds).node, Head(cmds).seq)
      PROVE  IndInv'
  <2>1. Head(cmds).node \in Targets /\ Head(cmds).seq \in Nat
    BY <1>4 DEF AckCmds
  <2> QED
    BY <1>1, <1>4, <2>1, AckStep DEF ProcessAck, ProcessAckVacuumFails, receiverVars
<1>5. CASE WriterFails
  BY <1>1, <1>5, ForgetfulStep DEF WriterFails, receiverVars
<1>6. ASSUME NEW t \in Targets, DispatchForTarget(t) PROVE IndInv'
  BY <1>1, <1>6, DispatchStep
<1>7. ASSUME NEW e \in Events, SendEvent(e) PROVE IndInv'
  BY <1>1, <1>7, SendStep
<1>8. CASE SendFails
  BY <1>1, <1>8, ForgetfulStep DEF SendFails, receiverVars
<1>9. CASE DropMessage
  BY <1>1, <1>9, ForgetfulStep DEF DropMessage, senderVars, receiverVars
<1>10. ASSUME NEW m \in wire, ReceiveAck(m) PROVE IndInv'
  BY <1>1, <1>10, ReceiveAckStep
<1>11. ASSUME NEW m \in wire, ReceiveEvent(m) PROVE IndInv'
  BY <1>1, <1>11, ReceiveEventStep
<1>12. ASSUME NEW t \in Targets, SendAck(t) PROVE IndInv'
  BY <1>1, <1>12, SendAckStep
<1>13. ASSUME NEW t \in Targets, AckFails(t) PROVE IndInv'
  BY <1>1, <1>13, ForgetfulStep DEF AckFails, senderVars, TypeOK
<1>14. ASSUME NEW e \in Events, CommitInbound(e) PROVE IndInv'
  BY <1>1, <1>14, ForgetfulStep DEF CommitInbound, senderVars
<1>15. CASE RestartSender
  BY <1>1, <1>15, ForgetfulStep DEF RestartSender, receiverVars
<1>16. ASSUME NEW t \in Targets, RestartTarget(t) PROVE IndInv'
  BY <1>1, <1>16, ForgetfulStep DEF RestartTarget, senderVars, TypeOK
<1>17. CASE UNCHANGED vars
  BY <1>1, <1>17, ForgetfulStep DEF vars
<1> QED
  BY <1>2, <1>3, <1>4, <1>5, <1>6, <1>7, <1>8, <1>9, <1>10, <1>11, <1>12,
     <1>13, <1>14, <1>15, <1>16, <1>17 DEF Next, WriterStep

\* The inductive invariant holds in every reachable state.
THEOREM Invariance == Spec => []IndInv
<1>1. Init => IndInv
  BY InitInv
<1>2. IndInv /\ [Next]_vars => IndInv'
  BY NextInv
<1> QED BY <1>1, <1>2, PTL DEF Spec

\* No row leaves the ledger before its own target's cursor covers it.
THEOREM LedgerSafety == Spec => []NoUnackedDeletion
<1>1. IndInv => NoUnackedDeletion
  BY DEF IndInv
<1> QED BY <1>1, Invariance, PTL

\* The dispatcher leaves no gap below an event it has sent.
THEOREM NoGap == Spec => []NoGapOnWire
<1>1. IndInv => NoGapOnWire
  BY DEF IndInv
<1> QED BY <1>1, Invariance, PTL

\* A cumulative ack covers only events that were put on a connection.
THEOREM CumulativeAckCoversSent == Spec => []CoveredWasSent
<1>1. IndInv => CoveredWasSent
  BY CoveredFromInv
<1> QED BY <1>1, Invariance, PTL

\* A cursor stands only on events its target processed.
THEOREM CursorSafety == Spec => []CursorIsReceipt
<1>1. IndInv => CursorIsReceipt
  BY DEF IndInv, FlightInv, Receipt, CursorIsReceipt, EventsFor
<1> QED BY <1>1, Invariance, PTL

\* A cursor never moves backwards.
THEOREM CursorMonotone == Spec => CursorNeverRegresses
<1>1. TypeOK /\ [Next]_vars => [\A t \in Targets : cursor'[t] >= cursor[t]]_vars
  <2> SUFFICES ASSUME TypeOK, Next PROVE \A t \in Targets : cursor'[t] >= cursor[t]
    OBVIOUS
  <2>1. cursor \in [Targets -> Nat]
    BY DEF TypeOK
  <2>2. ASSUME cmds # <<>>, Head(cmds) \in AckCmds,
               \/ ProcessAck(Head(cmds).node, Head(cmds).seq)
               \/ ProcessAckVacuumFails(Head(cmds).node, Head(cmds).seq)
        PROVE  \A t \in Targets : cursor'[t] >= cursor[t]
    <3>1. Head(cmds).node \in Targets /\ Head(cmds).seq \in Nat
      BY <2>2 DEF AckCmds
    <3> QED
      BY <2>1, <2>2, <3>1 DEF ProcessAck, ProcessAckVacuumFails, AdvanceCursor
  <2>3. CASE cursor' = cursor
    BY <2>1, <2>3
  <2> QED
    BY <2>2, <2>3 DEF Next, WriterStep, Emit, AppendLocal, WriterFails,
       DispatchForTarget, SendEvent, SendFails, DropMessage, ReceiveAck,
       ReceiveEvent, SendAck, AckFails, CommitInbound, RestartSender,
       RestartTarget, senderVars
<1> QED BY <1>1, TypeCorrect, PTL DEF Spec, CursorNeverRegresses

-----------------------------------------------------------------------------
(***************************************************************************)
(* One delivery in each life of a target                                   *)
(***************************************************************************)

\* While the claims of all events fit: a target holds one claim for an event,
\* and an event it handed over in this life is one it still claims.
ClaimInv ==
  Cardinality(Events) <= MaxClaims =>
    /\ \A t \in Targets : \A i, j \in 1..Len(claims[t]) :
         claims[t][i] = claims[t][j] => i = j
    /\ \A e \in Events : seen[e] > 0 => TargetOf[e] \in Targets /\ Claimed(TargetOf[e], e)
    /\ \A e \in Events : seen[e] <= 1

\* Distinct entries that all differ from a member of a finite set are fewer
\* than the set's members: a claim queue is not full when an event arrives
\* that it does not hold.
LEMMA RoomForOneMore ==
  ASSUME NEW S, IsFiniteSet(S), NEW q \in Seq(S), NEW e \in S,
         \A i \in 1..Len(q) : q[i] # e,
         \A i, j \in 1..Len(q) : q[i] = q[j] => i = j
  PROVE  Len(q) < Cardinality(S)
<1> DEFINE T == S \ {e}
           D == 1..Len(q)
<1>1. Len(q) \in Nat /\ q \in [D -> T]
  OBVIOUS
<1>2. IsFiniteSet(T) /\ Cardinality(T) = Cardinality(S) - 1
  BY FS_RemoveElement
<1>3. IsFiniteSet(D) /\ Cardinality(D) = Len(q)
  BY <1>1, FS_Interval
<1>4. Cardinality(S) \in Nat
  BY FS_CardinalityType
<1> HIDE DEF T, D
<1>5. ~(Cardinality(T) < Cardinality(D))
  <2> SUFFICES ASSUME Cardinality(T) < Cardinality(D) PROVE FALSE
    OBVIOUS
  <2>1. \E x, y \in D : x # y /\ q[x] = q[y]
    BY <1>1, <1>2, <1>3, FS_PigeonHole
  <2> QED BY <2>1 DEF D
<1> QED BY <1>1, <1>2, <1>3, <1>4, <1>5

\* A batch read at its target: an event not claimed was not handed over in
\* this life, and its claim evicts no other.
LEMMA ReceiveEventClaim ==
  ASSUME IndInv, ClaimInv, Cardinality(Events) <= MaxClaims,
         NEW m \in wire, ReceiveEvent(m)
  PROVE  ClaimInv'
<1> DEFINE e == m.ev
           t == TargetOf[e]
           q == claims[t]
<1>1. e \in Events /\ t \in Targets
  BY ConstantsAssumption DEF ReceiveEvent, IndInv, FlightInv, SeqInv, TypeOK
<1>2. q \in Seq(Events) /\ claims \in [Targets -> Seq(Events)] /\ seen \in [Events -> 0..2]
  BY <1>1 DEF IndInv, TypeOK
<1>3. CASE Claimed(t, e)
  BY <1>3 DEF ReceiveEvent, ClaimInv, Claimed
<1>4. CASE ~Claimed(t, e)
  <2>1. \A i \in 1..Len(q) : q[i] # e
    BY <1>4 DEF Claimed
  <2>2. \A i, j \in 1..Len(q) : q[i] = q[j] => i = j
    BY <1>1 DEF ClaimInv
  <2>3. Len(q) < Cardinality(Events)
    BY <1>1, <1>2, <2>1, <2>2, RoomForOneMore, ConstantsAssumption
  <2>4. Cardinality(Events) \in Nat /\ Len(q) < MaxClaims
    BY <1>2, <2>3, FS_CardinalityType, ConstantsAssumption
  <2>5. claims' = [claims EXCEPT ![t] = Append(q, e)]
    BY <1>4, <2>4 DEF ReceiveEvent, Claim
  <2>6. seen[e] = 0
    BY <1>1, <1>2, <1>4 DEF ClaimInv
  <2>7. seen' = [seen EXCEPT ![e] = 1]
    BY <1>4, <2>6 DEF ReceiveEvent
  <2>8. claims'[t] = Append(q, e) /\ \A u \in Targets : u # t => claims'[u] = claims[u]
    BY <1>1, <1>2, <2>5
  <2> HIDE DEF q
  <2>9. /\ Len(claims'[t]) = Len(q) + 1
        /\ Len(q) \in Nat
        /\ \A i \in 1..Len(q) : claims'[t][i] = q[i]
        /\ claims'[t][Len(q) + 1] = e
    BY <1>1, <1>2, <2>8
  <2>10. ASSUME NEW u \in Targets,
                NEW i \in 1..Len(claims'[u]), NEW j \in 1..Len(claims'[u]),
                claims'[u][i] = claims'[u][j]
         PROVE  i = j
    <3>1. CASE u = t
      BY <2>1, <2>2, <2>9, <2>10, <3>1
    <3>2. CASE u # t
      BY <2>8, <2>10, <3>2 DEF ClaimInv
    <3> QED BY <3>1, <3>2
  <2>11. ASSUME NEW f \in Events, seen'[f] > 0
         PROVE  TargetOf[f] \in Targets
                /\ \E i \in 1..Len(claims'[TargetOf[f]]) : claims'[TargetOf[f]][i] = f
    <3>1. CASE f = e
      BY <1>1, <2>9, <3>1
    <3>2. CASE f # e
      <4>1. seen[f] > 0
        BY <1>1, <1>2, <2>7, <2>11, <3>2
      <4>2. TargetOf[f] \in Targets
            /\ \E i \in 1..Len(claims[TargetOf[f]]) : claims[TargetOf[f]][i] = f
        BY <4>1 DEF ClaimInv, Claimed
      <4>3. CASE TargetOf[f] = t
        BY <2>9, <4>2, <4>3 DEF q
      <4>4. CASE TargetOf[f] # t
        BY <2>8, <4>2, <4>4
      <4> QED BY <4>3, <4>4
    <3> QED BY <3>1, <3>2
  <2>12. \A f \in Events : seen'[f] <= 1
    BY <1>1, <1>2, <2>7 DEF ClaimInv
  <2> QED BY <2>10, <2>11, <2>12 DEF ClaimInv, Claimed
<1> QED BY <1>3, <1>4

\* Every other step leaves the claims and the count of deliveries alone; a
\* restart of a target starts both afresh for its events.
LEMMA NextClaim == IndInv /\ ClaimInv /\ [Next]_vars => ClaimInv'
<1> SUFFICES ASSUME IndInv, ClaimInv, [Next]_vars, Cardinality(Events) <= MaxClaims
             PROVE  ClaimInv'
  BY DEF ClaimInv
<1>1. CASE UNCHANGED <<claims, seen>>
  BY <1>1 DEF ClaimInv, Claimed
<1>2. ASSUME NEW m \in wire, ReceiveEvent(m) PROVE ClaimInv'
  BY <1>2, ReceiveEventClaim
<1>3. ASSUME NEW t \in Targets, RestartTarget(t) PROVE ClaimInv'
  <2>1. claims \in [Targets -> Seq(Events)] /\ seen \in [Events -> 0..2]
    BY DEF IndInv, TypeOK
  <2>2. claims'[t] = <<>> /\ \A u \in Targets : u # t => claims'[u] = claims[u]
    BY <1>3, <2>1 DEF RestartTarget
  <2>3. \A e \in Events : seen'[e] = IF TargetOf[e] = t THEN 0 ELSE seen[e]
    BY <1>3 DEF RestartTarget
  <2>4. \A u \in Targets : \A i, j \in 1..Len(claims'[u]) :
          claims'[u][i] = claims'[u][j] => i = j
    BY <2>2 DEF ClaimInv
  <2>5. \A e \in Events : seen'[e] <= 1
    BY <2>1, <2>3 DEF ClaimInv
  <2>6. ASSUME NEW e \in Events, seen'[e] > 0
        PROVE  TargetOf[e] \in Targets
               /\ \E i \in 1..Len(claims'[TargetOf[e]]) : claims'[TargetOf[e]][i] = e
    <3>1. TargetOf[e] # t /\ seen[e] > 0
      BY <2>3, <2>6
    <3> QED BY <2>2, <3>1 DEF ClaimInv, Claimed
  <2> QED BY <2>4, <2>5, <2>6 DEF ClaimInv, Claimed
<1> QED
  BY <1>1, <1>2, <1>3 DEF Next, WriterStep, Emit, AppendLocal, ProcessAck,
     ProcessAckVacuumFails, WriterFails, DispatchForTarget, SendEvent, SendFails,
     DropMessage, ReceiveAck, SendAck, AckFails, CommitInbound, RestartSender,
     receiverVars, vars

\* In one life a target hands an event over at most once, whatever is sent
\* again before its ack lands, while the claims of all events fit.
THEOREM OneDeliveryPerLife == Spec => []SingleDeliveryPerLife
<1>1. Init => ClaimInv
  BY ConstantsAssumption DEF Init, ClaimInv
<1>2. IndInv /\ ClaimInv /\ [Next]_vars => ClaimInv'
  BY NextClaim
<1>3. ClaimInv => SingleDeliveryPerLife
  BY DEF ClaimInv, SingleDeliveryPerLife
<1> QED BY <1>1, <1>2, <1>3, Invariance, PTL DEF Spec

=============================================================================
