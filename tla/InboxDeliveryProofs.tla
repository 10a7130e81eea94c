------------------------ MODULE InboxDeliveryProofs ------------------------
(***************************************************************************)
(* Proofs about InboxDelivery, for every finite set of tasks and of        *)
(* connections and every wedge threshold.                                  *)
(***************************************************************************)
EXTENDS InboxDelivery, FiniteSetTheorems, TLAPS

-----------------------------------------------------------------------------
(***************************************************************************)
(* Sequences                                                               *)
(***************************************************************************)

\* What the new end of a queue adds.
LEMMA InAppend ==
  ASSUME NEW S, NEW q \in Seq(S), NEW x \in S, NEW y
  PROVE  InSeq(y, Append(q, x)) <=> InSeq(y, q) \/ y = x
BY DEF InSeq

\* A queue is its head and its tail.
LEMMA InTail ==
  ASSUME NEW S, NEW q \in Seq(S), q # <<>>, NEW y
  PROVE  /\ Head(q) \in S /\ Tail(q) \in Seq(S)
         /\ InSeq(y, q) <=> y = Head(q) \/ InSeq(y, Tail(q))
<1>1. /\ Head(q) \in S /\ Tail(q) \in Seq(S) /\ Len(q) > 0 /\ Head(q) = q[1]
      /\ Len(Tail(q)) = Len(q) - 1
      /\ \A i \in 1..Len(Tail(q)) : Tail(q)[i] = q[i + 1]
  OBVIOUS
<1>2. ASSUME NEW i \in 1..Len(q), q[i] = y PROVE y = Head(q) \/ InSeq(y, Tail(q))
  <2>1. i # 1 => i - 1 \in 1..Len(Tail(q)) /\ Tail(q)[i - 1] = y
    BY <1>1, <1>2
  <2> QED BY <1>1, <1>2, <2>1 DEF InSeq
<1>3. ASSUME NEW i \in 1..Len(Tail(q)), Tail(q)[i] = y PROVE InSeq(y, q)
  <2>1. i + 1 \in 1..Len(q) /\ q[i + 1] = y
    BY <1>1, <1>3
  <2> QED BY <2>1 DEF InSeq
<1>4. y = Head(q) => InSeq(y, q)
  BY <1>1 DEF InSeq
<1> QED BY <1>1, <1>2, <1>3, <1>4 DEF InSeq

LEMMA InEmpty == \A y : ~InSeq(y, <<>>)
BY DEF InSeq

-----------------------------------------------------------------------------
(***************************************************************************)
(* Type correctness                                                        *)
(***************************************************************************)

\* A sender between pushing a frame and watching it knows its connection.
SenderInv == \A k \in Tasks : pc[k] \in {"pushed", "counted"} => cur[k] \in Conns

TypeInv == TypeOK /\ SenderInv

LEMMA InitType == Init => TypeInv
BY InboxAssumption DEF Init, TypeInv, TypeOK, SenderInv

\* Pushing a frame, or taking the first one off, leaves a channel a channel.
LEMMA FrameTypes ==
  ASSUME NEW q \in Seq(Frames)
  PROVE  /\ Append(q, <<"reply", NoConn>>) \in Seq(Frames)
         /\ \A k \in Tasks : /\ Append(q, <<"task", k>>) \in Seq(Frames)
                              /\ Append(q, <<"flush", k>>) \in Seq(Frames)
         /\ q # <<>> => Tail(q) \in Seq(Frames)
<1>1. /\ <<"reply", NoConn>> \in Frames
      /\ \A k \in Tasks : <<"task", k>> \in Frames /\ <<"flush", k>> \in Frames
  BY DEF Frames
<1>2. \A f \in Frames : Append(q, f) \in Seq(Frames)
  OBVIOUS
<1> QED BY <1>1, <1>2

\* One more reading of the tasks of a set, or none.
LEMMA ReadTypes ==
  ASSUME NEW f \in [Tasks -> 0..2], NEW S,
         NEW g, g = f \/ g = [k \in Tasks |-> IF k \notin S THEN f[k]
                                             ELSE IF f[k] = 0 THEN 1 ELSE 2]
  PROVE  g \in [Tasks -> 0..2]
<1>1. \A k \in Tasks : f[k] \in 0..2 /\ 1 \in 0..2 /\ 2 \in 0..2
  OBVIOUS
<1> QED BY <1>1

LEMMA DeliverType ==
  ASSUME TypeInv, NEW k \in Tasks, Deliver(k)
  PROVE  TypeInv'
<1> USE DEF TypeInv, TypeOK, SenderInv, connVars, hist
<1>1. CASE CheckSubscribed(k)
  BY <1>1 DEF CheckSubscribed
<1>2. CASE Park(k)
  BY <1>2 DEF Park
<1>3. CASE Snapshot(k)
  BY <1>3 DEF Snapshot
<1>4. ASSUME NEW c \in Conns, PushFrame(k, c) PROVE TypeInv'
  <2>0. Append(chan[c], <<"task", k>>) \in Seq(Frames)
    BY FrameTypes, chan[c] \in Seq(Frames)
  <2>1. /\ chan' \in [Conns -> Seq(Frames)] /\ cur' \in [Tasks -> Conns \cup {NoConn}]
        /\ rest' \in [Tasks -> SUBSET Conns] /\ SenderInv'
        /\ pc' = [pc EXCEPT ![k] = "pushed"]
    BY <1>4, <2>0 DEF PushFrame
  <2>2. flagged' \subseteq Conns
    BY <1>4 DEF PushFrame, GaugeBacklog
  <2>3. heal' \subseteq heal \cup {<<"subscriber_wedged", c>>}
    BY <1>4 DEF PushFrame, GaugeBacklog
  <2> QED BY <1>4, <2>1, <2>2, <2>3 DEF PushFrame
<1>5. CASE CountFrame(k)
  <2>1. /\ enqueued' \in [Conns -> Nat] /\ pc' = [pc EXCEPT ![k] = "counted"]
        /\ SenderInv'
    BY <1>5 DEF CountFrame
  <2> QED BY <1>5, <2>1 DEF CountFrame
<1>6. CASE SpawnWatcher(k)
  <2>1. [task |-> k, conn |-> cur[k], target |-> enqueued[cur[k]], stage |-> "confirm"]
          \in Watchers
    BY <1>6 DEF SpawnWatcher, Watchers
  <2> QED BY <1>6, <2>1 DEF SpawnWatcher
<1>7. ASSUME NEW c \in Conns, SendClosed(k, c) PROVE TypeInv'
  <2>1. /\ rest' \in [Tasks -> SUBSET Conns] /\ stale' \in [Tasks -> SUBSET Conns]
        /\ parked' \in Seq(Tasks) /\ requeued' \subseteq Tasks
    BY <1>7 DEF SendClosed, Repark
  <2>2. flagged' \subseteq Conns
    BY <1>7 DEF SendClosed, GaugeBacklog
  <2>3. heal' \subseteq heal \cup {<<"subscriber_wedged", c>>, <<"delivery_channel_closed", k>>}
    BY <1>7 DEF SendClosed, GaugeBacklog
  <2> QED BY <1>7, <2>1, <2>2, <2>3 DEF SendClosed
<1>8. CASE FinishDelivery(k)
  BY <1>8 DEF FinishDelivery
<1> QED BY <1>1, <1>2, <1>3, <1>4, <1>5, <1>6, <1>7, <1>8 DEF Deliver

LEMMA WatchType ==
  ASSUME TypeInv, NEW w \in watch, Watch(w)
  PROVE  TypeInv'
<1> USE DEF TypeInv, TypeOK, SenderInv, connVars, hist
<1>0. w \in Watchers /\ w.task \in Tasks
  BY DEF Watchers
<1>1. CASE WatchConfirmed(w)
  BY <1>0, <1>1 DEF WatchConfirmed
<1>2. CASE WatchTimeout(w)
  <2>1. watch' \subseteq Watchers
    BY <1>0, <1>2 DEF WatchTimeout, Watchers
  <2> QED BY <1>0, <1>2, <2>1 DEF WatchTimeout
<1>3. CASE WatchReadGauge(w)
  BY <1>0, <1>3 DEF WatchReadGauge, Watchers
<1>4. CASE WatchClosed(w)
  BY <1>0, <1>4 DEF WatchClosed, Repark
<1>5. CASE WatchAgain(w)
  BY <1>0, <1>5 DEF WatchAgain, Watchers
<1>6. CASE WatchCapped(w)
  BY <1>0, <1>6 DEF WatchCapped
<1> QED BY <1>1, <1>2, <1>3, <1>4, <1>5, <1>6 DEF Watch

LEMMA ServeType ==
  ASSUME TypeInv, NEW c \in Conns, Serve(c)
  PROVE  TypeInv'
<1> USE DEF TypeInv, TypeOK, SenderInv, connVars, hist
<1>1. CASE TakeParked(c)
  <2>1. Append(chan[c], <<"reply", NoConn>>) \in Seq(Frames)
    BY FrameTypes, chan[c] \in Seq(Frames)
  <2>2. chan' = chan \/ chan' = [chan EXCEPT ![c] = Append(@, <<"reply", NoConn>>)]
    BY <1>1, Zenon DEF TakeParked, HandlerPush
  <2>3. chan' \in [Conns -> Seq(Frames)]
    BY <2>1, <2>2
  <2>4. uncounted' \subseteq Conns
    BY <1>1 DEF TakeParked, HandlerPush
  <2>5. parked' \in Seq(Tasks)
    BY <1>1 DEF TakeParked, HandlerPush
  <2>6. flush' \in [Conns -> Seq(Tasks)]
    BY <1>1 DEF TakeParked, HandlerPush
  <2> QED BY <1>1, <2>3, <2>4, <2>5, <2>6 DEF TakeParked, HandlerPush
<1>2. CASE FlushParked(c)
  <2>1. flush[c] # <<>> => Head(flush[c]) \in Tasks /\ Tail(flush[c]) \in Seq(Tasks)
    OBVIOUS
  <2>0. flush[c] # <<>> => Append(chan[c], <<"flush", Head(flush[c])>>) \in Seq(Frames)
    BY <2>1, FrameTypes, chan[c] \in Seq(Frames)
  <2>2. chan' = chan \/ (flush[c] # <<>> /\ chan' =
                           [chan EXCEPT ![c] = Append(@, <<"flush", Head(flush[c])>>)])
    BY <1>2, Zenon DEF FlushParked, HandlerPush
  <2>3. chan' \in [Conns -> Seq(Frames)]
    BY <2>0, <2>2
  <2>4. uncounted' \subseteq Conns
    BY <1>2 DEF FlushParked, HandlerPush
  <2>b. flush' = flush \/ (flush[c] # <<>> /\ flush' = [flush EXCEPT ![c] = Tail(@)])
    BY <1>2, Zenon DEF FlushParked, HandlerPush
  <2>5. flush' \in [Conns -> Seq(Tasks)]
    BY <2>1, <2>b
  <2>6. writtenOff' \subseteq Tasks
    BY <1>2, <2>1 DEF FlushParked, HandlerPush
  <2>7. reg' = reg \/ reg' = [reg EXCEPT ![c] = "ready"]
    BY <1>2, Zenon DEF FlushParked, HandlerPush
  <2>8. reg' \in [Conns -> {"unused", "subscribed", "flushing", "ready", "closed"}]
    BY <2>7
  <2> QED BY <1>2, <2>3, <2>4, <2>5, <2>6, <2>8 DEF FlushParked, HandlerPush
<1>3. CASE WriteFrame(c)
  <2>1. Tail(chan[c]) \in Seq(Frames)
    BY <1>3, FrameTypes, chan[c] \in Seq(Frames) DEF WriteFrame
  <2>2. alive' \subseteq Conns /\ writtenOff' \subseteq Tasks
    BY <1>3 DEF WriteFrame
  <2>a. chan' \in [Conns -> Seq(Frames)]
    BY <1>3, <2>1 DEF WriteFrame
  <2>3. flushed' \subseteq Tasks \X Conns
    BY <1>3 DEF WriteFrame
  <2> DEFINE carried == {x \in Tasks : Head(chan[c]) \in {<<"task", x>>, <<"flush", x>>}}
  <2>b. got' = got \/ got' = [x \in Tasks |-> IF x \notin carried THEN got[x]
                                             ELSE IF got[x] = 0 THEN 1 ELSE 2]
    BY <1>3, Zenon DEF WriteFrame
  <2>c. got \in [Tasks -> 0..2]
    OBVIOUS
  <2> HIDE DEF carried
  <2>4. got' \in [Tasks -> 0..2]
    BY <2>b, <2>c, ReadTypes
  <2> QED BY <1>3, <2>2, <2>a, <2>3, <2>4 DEF WriteFrame
<1>4. CASE CountDrained(c)
  BY <1>4 DEF CountDrained
<1>5. CASE WriteFails(c)
  BY <1>5 DEF WriteFails
<1>6. CASE ReaderEof(c)
  BY <1>6 DEF ReaderEof
<1>7. CASE CountHandled(c)
  BY <1>7 DEF CountHandled
<1> QED BY <1>1, <1>2, <1>3, <1>4, <1>5, <1>6, <1>7 DEF Serve

\* Every step of callers, watchers, connections and guests keeps the types.
LEMMA NextType ==
  ASSUME TypeInv, [Next]_vars
  PROVE  TypeInv'
<1>1. ASSUME NEW c \in Conns, Subscribe(c) \/ GuestDies(c) PROVE TypeInv'
  BY <1>1 DEF Subscribe, GuestDies, TypeInv, TypeOK, SenderInv, hist
<1>2. CASE UNCHANGED vars
  BY <1>2 DEF TypeInv, TypeOK, SenderInv, vars
<1> QED BY <1>1, <1>2, DeliverType, WatchType, ServeType DEF Next

\* Every variable of the delivery path keeps its type.
THEOREM TypeCorrect == Spec => []TypeOK
<1>1. TypeInv /\ [Next]_vars => TypeInv'
  BY NextType
<1>2. TypeInv => TypeOK
  BY DEF TypeInv
<1> QED BY <1>1, <1>2, InitType, PTL DEF Spec

-----------------------------------------------------------------------------
(***************************************************************************)
(* Connections nobody has opened                                           *)
(***************************************************************************)

Opened == {c \in Conns : reg[c] # "unused"}

\* Nobody knows of a connection that was never opened, and nothing was ever
\* counted on it; a handler has something to count only while it flushes.
OpenedInv ==
  /\ rx \subseteq Opened /\ subs \subseteq Opened /\ wr \subseteq Opened
  /\ \A k \in Tasks : rest[k] \subseteq Opened /\ cur[k] \in Opened \cup {NoConn}
  /\ \A c \in Conns \ Opened : chan[c] = <<>> /\ enqueued[c] = 0 /\ drained[c] = 0
  /\ \A c \in uncounted : reg[c] = "flushing"

LEMMA InitOpened == Init => OpenedInv
BY DEF Init, OpenedInv, Opened

\* Callers touch connections of their snapshot only.
LEMMA DeliverOpened ==
  ASSUME TypeInv, OpenedInv, NEW k \in Tasks, Deliver(k)
  PROVE  OpenedInv'
<1>0. /\ rest \in [Tasks -> SUBSET Conns] /\ cur \in [Tasks -> Conns \cup {NoConn}]
      /\ chan \in [Conns -> Seq(Frames)] /\ enqueued \in [Conns -> Nat]
      /\ pc[k] \in {"pushed", "counted"} => cur[k] \in Opened
  BY InboxAssumption DEF TypeInv, TypeOK, SenderInv, OpenedInv
<1> USE DEF OpenedInv, Opened, connVars
<1>1. CASE CheckSubscribed(k)
  BY <1>0, <1>1 DEF CheckSubscribed
<1>2. CASE Park(k)
  BY <1>0, <1>2 DEF Park
<1>3. CASE Snapshot(k)
  BY <1>0, <1>3 DEF Snapshot
<1>4. ASSUME NEW c \in Conns, PushFrame(k, c) PROVE OpenedInv'
  BY <1>0, <1>4 DEF PushFrame
<1>5. CASE CountFrame(k)
  BY <1>0, <1>5 DEF CountFrame
<1>6. CASE SpawnWatcher(k)
  BY <1>0, <1>6 DEF SpawnWatcher
<1>7. ASSUME NEW c \in Conns, SendClosed(k, c) PROVE OpenedInv'
  BY <1>0, <1>7 DEF SendClosed
<1>8. CASE FinishDelivery(k)
  BY <1>0, <1>8 DEF FinishDelivery
<1> QED BY <1>1, <1>2, <1>3, <1>4, <1>5, <1>6, <1>7, <1>8 DEF Deliver

\* A watcher touches no connection.
LEMMA WatchFrame ==
  ASSUME NEW w, Watch(w)
  PROVE  UNCHANGED <<pc, cur, rest, stale, alive, rx, reg, subs, flush, uncounted,
                     chan, wr, enqueued, drained, got, fanned, flushed>>
BY DEF Watch, WatchConfirmed, WatchTimeout, WatchReadGauge, WatchClosed, WatchAgain,
       WatchCapped, Repark, connVars, hist

LEMMA ServeOpened ==
  ASSUME TypeInv, OpenedInv, NEW c \in Conns, Serve(c)
  PROVE  OpenedInv'
<1>0. /\ chan \in [Conns -> Seq(Frames)] /\ enqueued \in [Conns -> Nat]
      /\ drained \in [Conns -> Nat]
      /\ reg \in [Conns -> {"unused", "subscribed", "flushing", "ready", "closed"}]
  BY DEF TypeInv, TypeOK
<1> USE DEF OpenedInv, Opened
<1>1. CASE TakeParked(c)
  BY <1>0, <1>1 DEF TakeParked, HandlerPush
<1>2. CASE FlushParked(c)
  <2>1. CASE flush[c] = <<>>
    <3>1. /\ UNCHANGED <<rx, subs, wr, rest, cur, enqueued, drained, chan, uncounted>>
          /\ reg' = [reg EXCEPT ![c] = "ready"] /\ reg[c] = "flushing"
          /\ c \notin uncounted /\ uncounted \subseteq Conns
      BY <1>2, <2>1 DEF FlushParked, TypeInv, TypeOK
    <3> QED BY <1>0, <3>1
  <2>2. CASE flush[c] # <<>>
    <3>1. /\ UNCHANGED <<rx, subs, wr, rest, cur, enqueued, drained, reg>>
          /\ uncounted' \subseteq uncounted \cup {c} /\ reg[c] = "flushing"
          /\ \A d \in Conns : d # c => chan'[d] = chan[d]
      BY <1>0, <1>2, <2>2 DEF FlushParked, HandlerPush
    <3> QED BY <1>0, <3>1
  <2> QED BY <2>1, <2>2
<1>3. CASE WriteFrame(c)
  BY <1>0, <1>3 DEF WriteFrame
<1>4. CASE CountDrained(c)
  BY <1>0, <1>4 DEF CountDrained
<1>5. CASE WriteFails(c)
  BY <1>0, <1>5 DEF WriteFails
<1>6. CASE ReaderEof(c)
  BY <1>0, <1>6 DEF ReaderEof
<1>7. CASE CountHandled(c)
  BY <1>0, <1>7 DEF CountHandled
<1> QED BY <1>1, <1>2, <1>3, <1>4, <1>5, <1>6, <1>7 DEF Serve

LEMMA NextOpened ==
  ASSUME TypeInv, OpenedInv, [Next]_vars
  PROVE  OpenedInv'
<1>1. ASSUME NEW w \in watch, Watch(w) PROVE OpenedInv'
  BY <1>1, WatchFrame DEF OpenedInv, Opened
<1>2. ASSUME NEW c \in Conns, Subscribe(c) PROVE OpenedInv'
  BY <1>2 DEF Subscribe, OpenedInv, Opened, TypeInv, TypeOK
<1>3. ASSUME NEW c \in Conns, GuestDies(c) PROVE OpenedInv'
  BY <1>3 DEF GuestDies, OpenedInv, Opened
<1>4. CASE UNCHANGED vars
  BY <1>4 DEF OpenedInv, Opened, vars
<1> QED BY <1>1, <1>2, <1>3, <1>4, DeliverOpened, ServeOpened DEF Next

-----------------------------------------------------------------------------
(***************************************************************************)
(* The gauges                                                              *)
(***************************************************************************)

\* Senders that have pushed a frame into a connection and not yet counted it.
Pushed(c) == {k \in Tasks : pc[k] = "pushed" /\ cur[k] = c}

GaugeAt(c) ==
  enqueued[c] + Cardinality(Pushed(c)) + Cardinality(uncounted \cap {c})
    = drained[c] + Len(chan[c]) + Cardinality(wr \cap {c})

GaugeInv == \A c \in rx : GaugeAt(c)

LEMMA PushedFinite ==
  \A c : IsFiniteSet(Pushed(c)) /\ Cardinality(Pushed(c)) \in Nat
<1>1. \A c : Pushed(c) \subseteq Tasks
  BY DEF Pushed
<1> QED BY <1>1, InboxAssumption, FS_Subset, FS_CardinalityType

LEMMA WritingCount ==
  ASSUME NEW S, NEW c
  PROVE  Cardinality(S \cap {c}) = IF c \in S THEN 1 ELSE 0
<1>1. CASE c \in S
  BY <1>1, FS_Singleton, S \cap {c} = {c}
<1>2. CASE c \notin S
  BY <1>2, FS_EmptySet, S \cap {c} = {}
<1> QED BY <1>1, <1>2

\* A sender and its frame: pushing adds both, counting trades one for a count,
\* every other step of a caller leaves all three alone.
LEMMA DeliverGauge ==
  ASSUME TypeInv, GaugeInv, NEW k \in Tasks, Deliver(k)
  PROVE  GaugeInv'
<1>0. /\ chan \in [Conns -> Seq(Frames)] /\ enqueued \in [Conns -> Nat]
      /\ drained \in [Conns -> Nat] /\ rx \subseteq Conns
      /\ pc[k] = "pushed" => cur[k] \in Conns
      /\ pc \in [Tasks -> {"new", "park", "deliver", "sending", "pushed", "counted", "done"}]
      /\ cur \in [Tasks -> Conns \cup {NoConn}]
  BY DEF TypeInv, TypeOK, SenderInv
<1>1. ASSUME NEW c \in Conns, PushFrame(k, c) PROVE GaugeInv'
  <2>1. \A d \in Conns : IF d = c THEN k \notin Pushed(d) /\ Pushed(d)' = Pushed(d) \cup {k}
                         ELSE Pushed(d)' = Pushed(d)
    BY <1>0, <1>1 DEF PushFrame, Pushed
  <2>3. <<"task", k>> \in Frames
    BY DEF Frames
  <2>4. Len(chan'[c]) = Len(chan[c]) + 1 /\ \A d \in Conns : d # c => chan'[d] = chan[d]
    BY <1>0, <1>1, <2>3 DEF PushFrame
  <2>5. UNCHANGED <<rx, enqueued, drained, uncounted, wr>>
    BY <1>1 DEF PushFrame, connVars
  <2> SUFFICES ASSUME NEW d \in rx PROVE GaugeAt(d)'
    BY <2>5 DEF GaugeInv
  <2>6. CASE d = c
    <3>1. /\ Cardinality(Pushed(d)) \in Nat /\ Cardinality(wr \cap {d}) \in Nat
          /\ Cardinality(uncounted \cap {d}) \in Nat
      BY PushedFinite, WritingCount
    <3>2. enqueued[d] \in Nat /\ drained[d] \in Nat /\ Len(chan[d]) \in Nat
      BY <1>0
    <3>3. Cardinality(Pushed(d)') = Cardinality(Pushed(d)) + 1
      <4>1. IsFiniteSet(Pushed(d))
        BY PushedFinite
      <4>2. Pushed(d)' = Pushed(d) \cup {k} /\ k \notin Pushed(d)
        BY <2>1, <2>6
      <4> QED BY <4>1, <4>2, FS_AddElement
    <3>4. GaugeAt(d)
      BY DEF GaugeInv
    <3>5. Len(chan'[d]) = Len(chan[d]) + 1
      BY <2>4, <2>6
    <3>6. drained'[d] + Len(chan'[d]) + Cardinality(wr' \cap {d})
            = drained[d] + Len(chan[d]) + Cardinality(wr \cap {d}) + 1
      <4>1. drained'[d] = drained[d] /\ wr' = wr
        BY <2>5
      <4> QED BY <3>1, <3>2, <3>5, <4>1
    <3>7. enqueued'[d] + Cardinality(Pushed(d)') + Cardinality(uncounted' \cap {d})
            = enqueued[d] + Cardinality(Pushed(d)) + Cardinality(uncounted \cap {d}) + 1
      BY <2>5, <3>1, <3>2, <3>3
    <3> QED BY <3>4, <3>6, <3>7 DEF GaugeAt
  <2>7. CASE d # c
    BY <1>0, <2>1, <2>4, <2>5, <2>7 DEF GaugeInv, GaugeAt
  <2> QED BY <2>6, <2>7
<1>2. CASE CountFrame(k)
  <2> DEFINE c == cur[k]
  <2>1. \A d \in Conns : IF d = c THEN k \in Pushed(d) /\ Pushed(d)' = Pushed(d) \ {k}
                         ELSE Pushed(d)' = Pushed(d)
    BY <1>0, <1>2 DEF CountFrame, Pushed
  <2>3. /\ c \in Conns /\ enqueued'[c] = enqueued[c] + 1
        /\ \A d \in Conns : d # c => enqueued'[d] = enqueued[d]
    BY <1>0, <1>2 DEF CountFrame
  <2>4. UNCHANGED <<rx, chan, drained, uncounted, wr>>
    BY <1>2 DEF CountFrame, connVars
  <2> SUFFICES ASSUME NEW d \in rx PROVE GaugeAt(d)'
    BY <2>4 DEF GaugeInv
  <2>6. CASE d = c
    <3>1. /\ Cardinality(Pushed(d)) \in Nat /\ Cardinality(wr \cap {d}) \in Nat
          /\ Cardinality(uncounted \cap {d}) \in Nat
      BY PushedFinite, WritingCount
    <3>2. enqueued[d] \in Nat /\ drained[d] \in Nat /\ Len(chan[d]) \in Nat
      BY <1>0
    <3>3. Cardinality(Pushed(d)') = Cardinality(Pushed(d)) - 1
      <4>1. IsFiniteSet(Pushed(d))
        BY PushedFinite
      <4>2. Pushed(d)' = Pushed(d) \ {k} /\ k \in Pushed(d)
        BY <1>0, <2>1, <2>6
      <4> QED BY <4>1, <4>2, FS_RemoveElement
    <3>4. GaugeAt(d)
      BY DEF GaugeInv
    <3>5. enqueued'[d] + Cardinality(Pushed(d)') = enqueued[d] + Cardinality(Pushed(d))
      BY <2>6, <2>3, <3>1, <3>2, <3>3
    <3> QED BY <2>4, <3>1, <3>2, <3>4, <3>5 DEF GaugeAt
  <2>7. CASE d # c
    BY <1>0, <2>1, <2>3, <2>4, <2>7 DEF GaugeInv, GaugeAt
  <2> QED BY <2>6, <2>7
<1>3. ASSUME ~CountFrame(k), \A c \in Conns : ~PushFrame(k, c) PROVE GaugeInv'
  <2>1. UNCHANGED <<rx, chan, enqueued, drained, uncounted, wr>>
    BY <1>3 DEF Deliver, CheckSubscribed, Park, Snapshot, SpawnWatcher, SendClosed,
                FinishDelivery, connVars
  <2>2. \A c \in Conns : Pushed(c)' = Pushed(c)
    <3>1. /\ pc' = pc \/ (pc[k] # "pushed" /\ \E x : pc' = [pc EXCEPT ![k] = x] /\ x # "pushed")
          /\ cur' = cur \/ (cur' = [cur EXCEPT ![k] = NoConn] /\ pc[k] # "pushed")
      BY <1>3 DEF Deliver, CheckSubscribed, Park, Snapshot, SpawnWatcher, SendClosed,
                  FinishDelivery
    <3> QED BY <1>0, <3>1, InboxAssumption DEF Pushed
  <2> QED BY <1>0, <2>1, <2>2 DEF GaugeInv, GaugeAt
<1> QED BY <1>1, <1>2, <1>3

\* The write task and the handler of a connection: a frame enters with a count
\* due, which the handler pays before it sends again; it is written into wr, and
\* leaves wr with its count.
LEMMA ServeGauge ==
  ASSUME TypeInv, OpenedInv, GaugeInv, NEW c \in Conns, Serve(c)
  PROVE  GaugeInv'
<1>0. /\ chan \in [Conns -> Seq(Frames)] /\ enqueued \in [Conns -> Nat]
      /\ drained \in [Conns -> Nat] /\ rx \subseteq Conns
      /\ flush[c] # <<>> => Head(flush[c]) \in Tasks
      /\ reg[c] = "subscribed" => c \notin uncounted
  BY DEF TypeInv, TypeOK, OpenedInv
<1>1. \A d : Pushed(d)' = Pushed(d)
  BY DEF Serve, TakeParked, FlushParked, HandlerPush, WriteFrame, CountHandled,
         CountDrained, WriteFails, ReaderEof, Pushed
<1>2. rx' \subseteq rx
  BY DEF Serve, TakeParked, FlushParked, HandlerPush, WriteFrame, CountHandled,
         CountDrained, WriteFails, ReaderEof
<1> SUFFICES ASSUME NEW d \in rx, d \in rx' PROVE GaugeAt(d)'
  BY <1>2 DEF GaugeInv
<1>3. /\ enqueued[d] \in Nat /\ drained[d] \in Nat /\ Len(chan[d]) \in Nat /\ d \in Conns
      /\ Cardinality(wr \cap {d}) = IF d \in wr THEN 1 ELSE 0
      /\ Cardinality(wr' \cap {d}) = IF d \in wr' THEN 1 ELSE 0
      /\ Cardinality(uncounted \cap {d}) = IF d \in uncounted THEN 1 ELSE 0
      /\ Cardinality(uncounted' \cap {d}) = IF d \in uncounted' THEN 1 ELSE 0
      /\ Cardinality(Pushed(d)) \in Nat /\ Cardinality(Pushed(d)') = Cardinality(Pushed(d))
  <2>1. enqueued[d] \in Nat /\ drained[d] \in Nat /\ Len(chan[d]) \in Nat /\ d \in Conns
    BY <1>0
  <2> QED BY <1>1, <2>1, PushedFinite, WritingCount, Zenon
<1>4. \A f \in Frames : Len(Append(chan[d], f)) = Len(chan[d]) + 1
  BY <1>0, <1>3
<1>5. <<"reply", NoConn>> \in Frames /\ \A k \in Tasks : <<"flush", k>> \in Frames
  BY DEF Frames
<1>6. enqueued[d] + Cardinality(Pushed(d)) + Cardinality(uncounted \cap {d})
        = drained[d] + Len(chan[d]) + Cardinality(wr \cap {d})
  BY DEF GaugeInv, GaugeAt
<1> DEFINE Same(S, T) == d \in S <=> d \in T
<1>7. CASE d # c
  <2>1. /\ enqueued'[d] = enqueued[d] /\ drained'[d] = drained[d] /\ chan'[d] = chan[d]
        /\ Same(wr, wr') /\ Same(uncounted, uncounted')
    BY <1>0, <1>3, <1>7 DEF Serve, TakeParked, FlushParked, HandlerPush, WriteFrame,
          CountHandled, CountDrained, WriteFails, ReaderEof
  <2> QED BY <1>3, <1>6, <2>1 DEF GaugeAt
<1>8. ASSUME d = c, UNCHANGED <<enqueued, drained, wr>>,
             \/ UNCHANGED <<chan, uncounted>>
             \/ Len(chan'[d]) = Len(chan[d]) + 1 /\ d \notin uncounted /\ d \in uncounted'
      PROVE  GaugeAt(d)'
  BY <1>3, <1>6, <1>8 DEF GaugeAt
<1>9. CASE d = c /\ TakeParked(c)
  BY <1>0, <1>3, <1>4, <1>5, <1>8, <1>9 DEF TakeParked, HandlerPush
<1>10. CASE d = c /\ FlushParked(c)
  BY <1>0, <1>3, <1>4, <1>5, <1>8, <1>10 DEF FlushParked, HandlerPush
<1>11. CASE d = c /\ CountHandled(c)
  <2>1. /\ enqueued'[d] = enqueued[d] + 1 /\ d \in uncounted /\ d \notin uncounted'
        /\ UNCHANGED <<chan, drained, wr>>
    BY <1>0, <1>3, <1>11 DEF CountHandled
  <2> QED BY <1>3, <1>6, <2>1 DEF GaugeAt
<1>12. CASE d = c /\ WriteFrame(c)
  <2>1. /\ Len(chan'[d]) = Len(chan[d]) - 1 /\ d \notin wr /\ d \in wr'
        /\ UNCHANGED <<enqueued, drained, uncounted>>
    BY <1>0, <1>3, <1>12 DEF WriteFrame
  <2> QED BY <1>3, <1>6, <2>1 DEF GaugeAt
<1>13. CASE d = c /\ CountDrained(c)
  <2>1. /\ drained'[d] = drained[d] + 1 /\ d \in wr /\ d \notin wr'
        /\ UNCHANGED <<enqueued, chan, uncounted>>
    BY <1>0, <1>3, <1>13 DEF CountDrained
  <2> QED BY <1>3, <1>6, <2>1 DEF GaugeAt
<1>14. CASE d = c /\ WriteFails(c)
  BY <1>14 DEF WriteFails
<1>15. CASE d = c /\ ReaderEof(c)
  BY <1>3, <1>6, <1>15 DEF ReaderEof, GaugeAt
<1> QED BY <1>7, <1>9, <1>10, <1>11, <1>12, <1>13, <1>14, <1>15 DEF Serve

\* A new connection starts at zero on both sides.
LEMMA NextGauge ==
  ASSUME TypeInv, OpenedInv, GaugeInv, [Next]_vars
  PROVE  GaugeInv'
<1>1. ASSUME NEW w \in watch, Watch(w) PROVE GaugeInv'
  BY <1>1, WatchFrame DEF GaugeInv, GaugeAt, Pushed
<1>2. ASSUME NEW c \in Conns, Subscribe(c) PROVE GaugeInv'
  <2>1. c \in Conns \ Opened /\ c \notin wr /\ c \notin uncounted
    BY <1>2 DEF Subscribe, Opened, OpenedInv
  <2>2. Pushed(c) = {}
    BY <2>1, InboxAssumption DEF Pushed, OpenedInv
  <2>3. GaugeAt(c)
    <3>0. enqueued[c] = 0 /\ drained[c] = 0 /\ chan[c] = <<>>
      BY <2>1, Zenon DEF OpenedInv
    <3>1. enqueued[c] = 0 /\ drained[c] = 0 /\ Len(chan[c]) = 0
      BY <3>0
    <3>2. /\ Cardinality(Pushed(c)) = 0 /\ Cardinality(wr \cap {c}) = 0
          /\ Cardinality(uncounted \cap {c}) = 0
      BY <2>1, <2>2, WritingCount, FS_EmptySet
    <3> QED BY <3>1, <3>2 DEF GaugeAt
  <2> QED BY <1>2, <2>3 DEF Subscribe, GaugeInv, GaugeAt, Pushed
<1>3. ASSUME NEW c \in Conns, GuestDies(c) PROVE GaugeInv'
  BY <1>3 DEF GuestDies, GaugeInv, GaugeAt, Pushed
<1>4. CASE UNCHANGED vars
  BY <1>4 DEF GaugeInv, GaugeAt, Pushed, vars
<1> QED BY <1>1, <1>2, <1>3, <1>4, DeliverGauge, ServeGauge DEF Next

\* The drain gauge a confirmation watcher waits on is exact: on an open channel
\* what was enqueued and not drained is queued, or written and about to be
\* counted, but for the frames of deliveries and handlers between push and count.
THEOREM GaugeExact == Spec => []GaugeMatchesChannel
<1>1. Init => TypeInv /\ OpenedInv /\ GaugeInv
  BY InitType, InitOpened DEF Init, GaugeInv
<1>2. TypeInv /\ OpenedInv /\ GaugeInv /\ [Next]_vars => (TypeInv /\ OpenedInv /\ GaugeInv)'
  BY NextType, NextOpened, NextGauge
<1>3. GaugeInv => GaugeMatchesChannel
  BY DEF GaugeInv, GaugeAt, Pushed, GaugeMatchesChannel
<1> QED BY <1>1, <1>2, <1>3, PTL DEF Spec

-----------------------------------------------------------------------------
(***************************************************************************)
(* The parked list                                                         *)
(***************************************************************************)

\* The caller has the task to itself.
Early(k) == pc[k] \in {"new", "park", "deliver"}

\* Nobody else parks or watches a task its caller has yet to hand over.
FreshInv ==
  \A k \in Tasks : Early(k) => ~InSeq(k, parked) /\ \A w \in watch : w.task # k

ParkedInv == ParkedOnce /\ FreshInv

LEMMA InitParked == Init => ParkedInv
BY InEmpty DEF Init, ParkedInv, ParkedOnce, FreshInv, Early

\* A list without repetition takes a task it does not hold.
LEMMA AppendOnce ==
  ASSUME NEW q \in Seq(Tasks), NEW k \in Tasks, ~InSeq(k, q),
         \A i, j \in 1..Len(q) : q[i] = q[j] => i = j
  PROVE  \A i, j \in 1..Len(Append(q, k)) : Append(q, k)[i] = Append(q, k)[j] => i = j
BY DEF InSeq

LEMMA ReparkParked ==
  ASSUME TypeInv, ParkedInv, NEW k \in Tasks, ~Early(k), Repark(k)
  PROVE  /\ ParkedOnce'
         /\ \A x \in Tasks : Early(x) => ~InSeq(x, parked')
<1>1. parked \in Seq(Tasks)
  BY DEF TypeInv, TypeOK
<1>2. CASE InSeq(k, parked)
  BY <1>2 DEF Repark, ParkedInv, ParkedOnce, FreshInv
<1>3. CASE ~InSeq(k, parked)
  <2>1. parked' = Append(parked, k)
    BY <1>3 DEF Repark
  <2>2. ParkedOnce'
    BY <1>1, <1>3, <2>1, AppendOnce DEF ParkedInv, ParkedOnce
  <2>3. \A x \in Tasks : Early(x) => ~InSeq(x, parked')
    BY <1>1, <2>1, InAppend DEF ParkedInv, FreshInv
  <2> QED BY <2>2, <2>3
<1> QED BY <1>2, <1>3

\* A caller parks its task itself only before it hands it over.
LEMMA DeliverParked ==
  ASSUME TypeInv, ParkedInv, NEW k \in Tasks, Deliver(k)
  PROVE  ParkedInv'
<1>0. /\ pc \in [Tasks -> {"new", "park", "deliver", "sending", "pushed", "counted", "done"}]
      /\ parked \in Seq(Tasks)
  BY DEF TypeInv, TypeOK
<1>1. CASE CheckSubscribed(k)
  BY <1>0, <1>1 DEF CheckSubscribed, ParkedInv, ParkedOnce, FreshInv, Early
<1>2. CASE Park(k)
  <2>1. ~InSeq(k, parked) /\ parked' = Append(parked, k) /\ watch' = watch
    BY <1>2 DEF Park, ParkedInv, FreshInv, Early
  <2>2. ParkedOnce'
    BY <1>0, <2>1, AppendOnce DEF ParkedInv, ParkedOnce
  <2>3. ~Early(k)' /\ \A x \in Tasks : x # k => Early(x)' = Early(x)
    BY <1>0, <1>2 DEF Park, Early
  <2>4. FreshInv'
    BY <1>0, <2>1, <2>3, InAppend DEF ParkedInv, FreshInv
  <2> QED BY <2>2, <2>4 DEF ParkedInv
<1>3. CASE Snapshot(k)
  BY <1>0, <1>3 DEF Snapshot, ParkedInv, ParkedOnce, FreshInv, Early
<1>4. ASSUME NEW c \in Conns, PushFrame(k, c) PROVE ParkedInv'
  BY <1>0, <1>4 DEF PushFrame, ParkedInv, ParkedOnce, FreshInv, Early
<1>5. CASE CountFrame(k)
  BY <1>0, <1>5 DEF CountFrame, ParkedInv, ParkedOnce, FreshInv, Early
<1>6. CASE SpawnWatcher(k)
  <2> DEFINE w == [task |-> k, conn |-> cur[k], target |-> enqueued[cur[k]],
                   stage |-> "confirm"]
  <2>1. w.task = k /\ watch' = watch \cup {w} /\ parked' = parked
    BY <1>6 DEF SpawnWatcher
  <2> HIDE DEF w
  <2>2. ~Early(k)' /\ \A x \in Tasks : x # k => Early(x)' = Early(x)
    BY <1>0, <1>6 DEF SpawnWatcher, Early
  <2> QED BY <2>1, <2>2 DEF ParkedInv, ParkedOnce, FreshInv
<1>7. ASSUME NEW c \in Conns, SendClosed(k, c) PROVE ParkedInv'
  <2>1. ~Early(k) /\ Repark(k) /\ pc' = pc /\ watch' = watch
    BY <1>7 DEF SendClosed, Early
  <2> QED BY <2>1, ReparkParked DEF ParkedInv, FreshInv, Early
<1>8. CASE FinishDelivery(k)
  BY <1>0, <1>8 DEF FinishDelivery, ParkedInv, ParkedOnce, FreshInv, Early
<1> QED BY <1>1, <1>2, <1>3, <1>4, <1>5, <1>6, <1>7, <1>8 DEF Deliver

\* A watcher's successor watches the same task.
LEMMA WatchTasks ==
  ASSUME TypeInv, NEW w \in watch, Watch(w)
  PROVE  /\ \A v \in watch' : \E u \in watch : u.task = v.task
         /\ ~WatchClosed(w) => UNCHANGED <<parked, requeued>>
<1>1. w \in Watchers
  BY DEF TypeInv, TypeOK
<1>2. \A x \in {"confirm", "lost", "undrained"} : [w EXCEPT !.stage = x].task = w.task
  BY <1>1 DEF Watchers
<1>3. \/ watch' = watch \ {w}
      \/ \E x \in {"confirm", "lost", "undrained"} :
            watch' = (watch \ {w}) \cup {[w EXCEPT !.stage = x]}
  BY DEF Watch, WatchConfirmed, WatchTimeout, WatchReadGauge, WatchClosed, WatchAgain,
         WatchCapped
<1>4. ~WatchClosed(w) => UNCHANGED <<parked, requeued>>
  BY DEF Watch, WatchConfirmed, WatchTimeout, WatchReadGauge, WatchAgain, WatchCapped, hist
<1> QED BY <1>2, <1>3, <1>4

LEMMA WatchParked ==
  ASSUME TypeInv, ParkedInv, NEW w \in watch, Watch(w)
  PROVE  ParkedInv'
<1>1. w.task \in Tasks /\ ~Early(w.task)
  BY DEF TypeInv, TypeOK, Watchers, ParkedInv, FreshInv
<1>2. pc' = pc
  BY WatchFrame
<1>3. ParkedOnce' /\ \A x \in Tasks : Early(x) => ~InSeq(x, parked')
  <2>1. CASE WatchClosed(w)
    BY <1>1, <2>1, ReparkParked DEF WatchClosed
  <2>2. CASE ~WatchClosed(w)
    BY <2>2, WatchTasks DEF ParkedInv, ParkedOnce, FreshInv
  <2> QED BY <2>1, <2>2
<1>4. \A x \in Tasks : Early(x) => \A v \in watch' : v.task # x
  BY WatchTasks DEF ParkedInv, FreshInv
<1> QED BY <1>2, <1>3, <1>4 DEF ParkedInv, FreshInv, Early

LEMMA NextParked ==
  ASSUME TypeInv, ParkedInv, [Next]_vars
  PROVE  ParkedInv'
<1>1. ASSUME NEW c \in Conns, TakeParked(c) PROVE ParkedInv'
  BY <1>1, InEmpty DEF TakeParked, HandlerPush, ParkedInv, ParkedOnce, FreshInv, Early
<1>2. ASSUME NEW c \in Conns, Serve(c), ~TakeParked(c) PROVE ParkedInv'
  <2>1. UNCHANGED <<pc, watch, parked>>
    BY <1>2 DEF Serve, FlushParked, HandlerPush, WriteFrame, CountHandled, CountDrained, WriteFails, ReaderEof
  <2> QED BY <2>1 DEF ParkedInv, ParkedOnce, FreshInv, Early
<1>3. ASSUME NEW c \in Conns, Subscribe(c) \/ GuestDies(c) PROVE ParkedInv'
  BY <1>3 DEF Subscribe, GuestDies, ParkedInv, ParkedOnce, FreshInv, Early
<1>4. CASE UNCHANGED vars
  BY <1>4 DEF vars, ParkedInv, ParkedOnce, FreshInv, Early
<1> QED BY <1>1, <1>2, <1>3, <1>4, DeliverParked, WatchParked DEF Next

\* The parked list holds a task at most once: the caller parks only a task no
\* watcher knows, and every later parking searches the list first.
THEOREM ParkedAtMostOnce == Spec => []ParkedOnce
<1>1. TypeInv /\ ParkedInv /\ [Next]_vars => (TypeInv /\ ParkedInv)'
  BY NextType, NextParked
<1>2. ParkedInv => ParkedOnce
  BY DEF ParkedInv
<1> QED BY <1>1, <1>2, InitType, InitParked, PTL DEF Spec

-----------------------------------------------------------------------------
(***************************************************************************)
(* No task vanishes                                                        *)
(***************************************************************************)

\* Only a registration in the middle of its flush holds parked tasks.
TakenInv == \A c \in Conns : reg[c] # "flushing" => flush[c] = <<>>

LEMMA NextTaken ==
  ASSUME TypeInv, TakenInv, [Next]_vars
  PROVE  TakenInv'
<1>0. reg \in [Conns -> {"unused", "subscribed", "flushing", "ready", "closed"}]
  BY DEF TypeInv, TypeOK
<1>1. ASSUME NEW k \in Tasks, Deliver(k) PROVE UNCHANGED <<reg, flush>>
  BY <1>1 DEF Deliver, CheckSubscribed, Park, Snapshot, PushFrame, CountFrame,
              SpawnWatcher, SendClosed, FinishDelivery, connVars
<1>2. ASSUME NEW c \in Conns, Serve(c) PROVE TakenInv'
  <2>1. flush \in [Conns -> Seq(Tasks)]
    BY DEF TypeInv, TypeOK
  <2>2. CASE TakeParked(c)
    BY <1>0, <2>1, <2>2 DEF TakeParked, HandlerPush, TakenInv
  <2>3. CASE FlushParked(c)
    BY <1>0, <2>1, <2>3 DEF FlushParked, HandlerPush, TakenInv
  <2>4. CASE ReaderEof(c)
    BY <1>0, <2>4 DEF ReaderEof, TakenInv
  <2>5. CASE WriteFrame(c) \/ CountHandled(c) \/ CountDrained(c) \/ WriteFails(c)
    BY <2>5 DEF WriteFrame, CountHandled, CountDrained, WriteFails, TakenInv
  <2> QED BY <1>2, <2>2, <2>3, <2>4, <2>5 DEF Serve
<1>3. ASSUME NEW c \in Conns, Subscribe(c) \/ GuestDies(c) PROVE TakenInv'
  BY <1>0, <1>3 DEF Subscribe, GuestDies, TakenInv
<1>4. CASE UNCHANGED vars
  BY <1>4 DEF vars, TakenInv
<1> QED BY <1>1, <1>2, <1>3, <1>4, WatchFrame DEF Next, TakenInv

\* Somebody still answers for the task, a frame in a channel counting only when
\* it is an unwatched one: a watched frame has its watcher.
Accounted(k) ==
  \/ got[k] > 0
  \/ InSeq(k, parked)
  \/ \E c \in Conns : InSeq(k, flush[c]) \/ InSeq(<<"flush", k>>, chan[c])
  \/ \E w \in watch : w.task = k
  \/ k \in writtenOff \cup misread

\* A caller lets go of its task when somebody else answers for it; a frame
\* known to be written was read, or its socket died with it.
AccountInv ==
  \A k \in Tasks :
    /\ pc[k] = "done" => Accounted(k)
    /\ pc[k] = "sending" => rest[k] # {} \/ Accounted(k)
    /\ \A c \in Conns : <<k, c>> \in flushed => got[k] > 0 \/ k \in writtenOff

LEMMA InitAccount == Init => TakenInv /\ AccountInv
BY DEF Init, TakenInv, AccountInv

\* The frames of the two kinds differ.
LEMMA FrameKinds ==
  \A k, x : /\ <<"flush", k>> # <<"task", x>> /\ <<"flush", k>> # <<"reply", NoConn>>
            /\ <<"flush", k>> = <<"flush", x>> => k = x
OBVIOUS

\* A caller never takes a task from whoever answers for it.
LEMMA DeliverKeeps ==
  ASSUME TypeInv, NEW k \in Tasks, Deliver(k), NEW x \in Tasks, Accounted(x)
  PROVE  Accounted(x)'
<1>0. /\ parked \in Seq(Tasks) /\ chan \in [Conns -> Seq(Frames)]
  BY DEF TypeInv, TypeOK
<1>1. /\ got' = got /\ flush' = flush /\ misread' = misread
      /\ watch \subseteq watch' /\ writtenOff \subseteq writtenOff'
  BY DEF Deliver, CheckSubscribed, Park, Snapshot, PushFrame, CountFrame, SpawnWatcher,
         SendClosed, FinishDelivery, connVars, hist
<1>2. parked' = parked \/ parked' = Append(parked, k)
  BY DEF Deliver, CheckSubscribed, Park, Snapshot, PushFrame, CountFrame, SpawnWatcher,
         SendClosed, FinishDelivery, Repark
<1>3. InSeq(x, parked) => InSeq(x, parked')
  <2>1. InSeq(x, Append(parked, k)) <=> InSeq(x, parked) \/ x = k
    BY <1>0, InAppend
  <2> QED BY <1>2, <2>1
<1>4. chan' = chan \/ \E c \in Conns : chan' = [chan EXCEPT ![c] = Append(@, <<"task", k>>)]
  <2>1. ASSUME NEW c \in Conns, PushFrame(k, c)
        PROVE  chan' = [chan EXCEPT ![c] = Append(@, <<"task", k>>)]
    BY <2>1 DEF PushFrame
  <2>2. (\A c \in Conns : ~PushFrame(k, c)) => chan' = chan
    BY DEF Deliver, CheckSubscribed, Park, Snapshot, CountFrame, SpawnWatcher, SendClosed,
           FinishDelivery
  <2> QED BY <2>1, <2>2, Zenon
<1>5. ASSUME NEW d \in Conns, InSeq(<<"flush", x>>, chan[d])
      PROVE  InSeq(<<"flush", x>>, chan'[d])
  <2>1. <<"task", k>> \in Frames
    BY DEF Frames
  <2>2. chan[d] \in Seq(Frames)
    BY <1>0
  <2>3. chan'[d] = chan[d] \/ chan'[d] = Append(chan[d], <<"task", k>>)
    BY <1>0, <1>4
  <2>4. InSeq(<<"flush", x>>, Append(chan[d], <<"task", k>>))
    BY <1>5, <2>1, <2>2, InAppend
  <2> QED BY <1>5, <2>3, <2>4
<1>6. CASE got[x] > 0 \/ x \in writtenOff \cup misread \/ \E w \in watch : w.task = x
  BY <1>1, <1>6 DEF Accounted
<1>7. CASE InSeq(x, parked)
  BY <1>3, <1>7 DEF Accounted
<1>8. ASSUME NEW c \in Conns, InSeq(x, flush[c]) \/ InSeq(<<"flush", x>>, chan[c])
      PROVE  Accounted(x)'
  BY <1>1, <1>5, <1>8 DEF Accounted
<1> QED BY <1>6, <1>7, <1>8 DEF Accounted

LEMMA DeliverAccount ==
  ASSUME TypeInv, AccountInv, NEW k \in Tasks, Deliver(k)
  PROVE  AccountInv'
<1>0. /\ pc \in [Tasks -> {"new", "park", "deliver", "sending", "pushed", "counted", "done"}]
      /\ rest \in [Tasks -> SUBSET Conns] /\ parked \in Seq(Tasks)
  BY DEF TypeInv, TypeOK
<1>1. /\ flushed' = flushed /\ got' = got /\ writtenOff \subseteq writtenOff'
      /\ \A x \in Tasks : x # k => pc'[x] = pc[x] /\ rest'[x] = rest[x]
  BY <1>0 DEF Deliver, CheckSubscribed, Park, Snapshot, PushFrame, CountFrame,
         SpawnWatcher, SendClosed, FinishDelivery, connVars, hist
<1>2. /\ pc'[k] = "done" => Accounted(k)'
      /\ pc'[k] = "sending" => rest'[k] # {} \/ Accounted(k)'
  <2>1. CASE CheckSubscribed(k)
    BY <1>0, <2>1 DEF CheckSubscribed
  <2>2. CASE Park(k)
    <3>1. InSeq(k, parked')
      BY <1>0, <2>2, InAppend DEF Park
    <3> QED BY <3>1 DEF Accounted
  <2>3. CASE Snapshot(k)
    BY <1>0, <2>3 DEF Snapshot, Accounted
  <2>4. ASSUME NEW c \in Conns, PushFrame(k, c) PROVE pc'[k] = "pushed"
    BY <1>0, <2>4 DEF PushFrame
  <2>5. CASE CountFrame(k)
    BY <1>0, <2>5 DEF CountFrame
  <2>6. CASE SpawnWatcher(k)
    <3> DEFINE w == [task |-> k, conn |-> cur[k], target |-> enqueued[cur[k]],
                     stage |-> "confirm"]
    <3>0. w.task = k /\ w \in watch'
      BY <2>6 DEF SpawnWatcher
    <3> HIDE DEF w
    <3>1. \E v \in watch' : v.task = k
      BY <3>0
    <3> QED BY <3>1 DEF Accounted
  <2>7. ASSUME NEW c \in Conns, SendClosed(k, c) PROVE Accounted(k)'
    <3>1. InSeq(k, parked')
      BY <1>0, <2>7, InAppend DEF SendClosed, Repark
    <3> QED BY <3>1 DEF Accounted
  <2>8. CASE FinishDelivery(k)
    BY <1>0, <2>8, DeliverKeeps DEF FinishDelivery, AccountInv
  <2> QED BY <2>1, <2>2, <2>3, <2>4, <2>5, <2>6, <2>7, <2>8 DEF Deliver
<1> QED BY <1>1, <1>2, DeliverKeeps DEF AccountInv

\* A watcher that ends leaves a task that was read, parked or given up on.
LEMMA WatchAccount ==
  ASSUME TypeInv, AccountInv, NEW w \in watch, Watch(w)
  PROVE  AccountInv'
<1>0. w \in Watchers /\ w.task \in Tasks /\ w.conn \in Conns /\ parked \in Seq(Tasks)
  BY DEF TypeInv, TypeOK, Watchers
<1>1. /\ UNCHANGED <<pc, rest, flush, chan, got, flushed>>
      /\ misread \subseteq misread' /\ writtenOff \subseteq writtenOff'
  BY DEF Watch, WatchConfirmed, WatchTimeout, WatchReadGauge, WatchClosed, WatchAgain,
         WatchCapped, connVars, hist
<1>2. \A x \in Tasks : InSeq(x, parked) => InSeq(x, parked')
  <2>1. CASE WatchClosed(w)
    BY <1>0, <2>1, InAppend DEF WatchClosed, Repark
  <2>2. CASE ~WatchClosed(w)
    BY <2>2, WatchTasks
  <2> QED BY <2>1, <2>2
<1>3. \A v \in watch : v # w => v \in watch'
  BY DEF Watch, WatchConfirmed, WatchTimeout, WatchReadGauge, WatchClosed, WatchAgain,
         WatchCapped
<1>4. Accounted(w.task)'
  <2>1. CASE WatchConfirmed(w)
    BY <1>0, <1>1, <2>1 DEF WatchConfirmed, Accounted, AccountInv
  <2>2. CASE WatchTimeout(w) \/ WatchReadGauge(w) \/ WatchAgain(w)
    <3>0. \A x \in {"confirm", "lost", "undrained"} : [w EXCEPT !.stage = x].task = w.task
      BY <1>0 DEF Watchers
    <3>a. \E x \in {"lost", "undrained"} : [w EXCEPT !.stage = x] \in watch'
      BY <2>2 DEF WatchTimeout, WatchReadGauge, WatchAgain
    <3>1. \E v \in watch' : v.task = w.task
      BY <3>0, <3>a
    <3> QED BY <3>1 DEF Accounted
  <2>3. CASE WatchClosed(w)
    <3>1. InSeq(w.task, parked')
      BY <1>0, <2>3, InAppend DEF WatchClosed, Repark
    <3> QED BY <3>1 DEF Accounted
  <2>4. CASE WatchCapped(w)
    BY <2>4 DEF WatchCapped, Accounted
  <2> QED BY <2>1, <2>2, <2>3, <2>4 DEF Watch
<1>5. \A x \in Tasks : Accounted(x) => Accounted(x)'
  BY <1>1, <1>2, <1>3, <1>4 DEF Accounted
<1> QED BY <1>1, <1>5 DEF AccountInv

\* A registration answers for what it takes, a channel for what it is handed.
LEMMA RegisterKeeps ==
  ASSUME TypeInv, TakenInv, NEW c \in Conns, TakeParked(c) \/ FlushParked(c),
         NEW x \in Tasks, Accounted(x)
  PROVE  Accounted(x)'
<1>0. /\ parked \in Seq(Tasks) /\ flush \in [Conns -> Seq(Tasks)]
      /\ chan \in [Conns -> Seq(Frames)]
  BY DEF TypeInv, TypeOK
<1>1. /\ UNCHANGED <<got, watch, misread>> /\ writtenOff \subseteq writtenOff'
  BY DEF TakeParked, FlushParked, HandlerPush, hist
<1>2. \A d \in Conns : d # c => flush'[d] = flush[d]
  BY <1>0 DEF TakeParked, FlushParked, HandlerPush
<1>3. ASSUME NEW d \in Conns, InSeq(<<"flush", x>>, chan[d])
      PROVE  InSeq(<<"flush", x>>, chan'[d])
  <2>1. chan'[d] = chan[d] \/ \E f \in Frames : chan'[d] = Append(chan[d], f)
    <3>1. CASE TakeParked(c)
      <4>1. <<"reply", NoConn>> \in Frames
        BY DEF Frames
      <4> QED BY <1>0, <3>1, <4>1 DEF TakeParked, HandlerPush
    <3>2. CASE FlushParked(c)
      <4>1. flush[c] # <<>> => <<"flush", Head(flush[c])>> \in Frames
        BY <1>0 DEF Frames
      <4> QED BY <1>0, <3>2, <4>1 DEF FlushParked, HandlerPush
    <3> QED BY <3>1, <3>2
  <2>2. \A f \in Frames : InSeq(<<"flush", x>>, Append(chan[d], f))
    BY <1>0, <1>3, InAppend, chan[d] \in Seq(Frames)
  <2> QED BY <1>3, <2>1, <2>2
<1>4. CASE got[x] > 0 \/ x \in writtenOff \cup misread \/ \E w \in watch : w.task = x
  BY <1>1, <1>4 DEF Accounted
<1>5. CASE InSeq(x, parked)
  <2>1. CASE TakeParked(c)
    <3>1. flush'[c] = parked
      BY <1>0, <2>1 DEF TakeParked, HandlerPush
    <3> QED BY <1>5, <3>1 DEF Accounted
  <2>2. CASE FlushParked(c)
    BY <1>5, <2>2 DEF FlushParked, HandlerPush, Accounted
  <2> QED BY <2>1, <2>2
<1>6. ASSUME NEW d \in Conns, InSeq(<<"flush", x>>, chan[d]) PROVE Accounted(x)'
  BY <1>3, <1>6 DEF Accounted
<1>7. ASSUME NEW d \in Conns, d # c, InSeq(x, flush[d]) PROVE Accounted(x)'
  BY <1>2, <1>7 DEF Accounted
<1>8. ASSUME InSeq(x, flush[c]) PROVE Accounted(x)'
  <2>1. flush[c] # <<>> /\ flush[c] \in Seq(Tasks)
    BY <1>0, <1>8, InEmpty
  <2>2. FlushParked(c)
    BY <2>1 DEF TakeParked, HandlerPush, TakenInv
  <2>3. x = Head(flush[c]) \/ InSeq(x, Tail(flush[c]))
    BY <1>8, <2>1, InTail
  <2>4. flush'[c] = Tail(flush[c])
    BY <1>0, <2>1, <2>2 DEF FlushParked, HandlerPush
  <2>5. CASE InSeq(x, Tail(flush[c]))
    BY <2>4, <2>5 DEF Accounted
  <2>6. CASE x = Head(flush[c]) /\ c \in rx
    <3>1. chan'[c] = Append(chan[c], <<"flush", x>>)
      BY <1>0, <2>1, <2>2, <2>6 DEF FlushParked, HandlerPush
    <3>2. <<"flush", x>> \in Frames /\ chan[c] \in Seq(Frames)
      BY <1>0 DEF Frames
    <3>3. InSeq(<<"flush", x>>, chan'[c])
      BY <3>1, <3>2, InAppend
    <3> QED BY <3>3 DEF Accounted
  <2>7. CASE x = Head(flush[c]) /\ c \notin rx
    <3>1. x \in writtenOff'
      BY <2>1, <2>2, <2>7 DEF FlushParked, HandlerPush
    <3> QED BY <3>1 DEF Accounted
  <2> QED BY <2>3, <2>5, <2>6, <2>7
<1> QED BY <1>4, <1>5, <1>6, <1>7, <1>8 DEF Accounted

\* A written frame is read or dies with its socket, and a dropped channel is
\* given up on with the unwatched frames in it.
LEMMA WriteKeeps ==
  ASSUME TypeInv, NEW c \in Conns, WriteFrame(c) \/ WriteFails(c),
         NEW x \in Tasks, Accounted(x)
  PROVE  Accounted(x)'
<1>0. chan \in [Conns -> Seq(Frames)] /\ got \in [Tasks -> 0..2]
  BY DEF TypeInv, TypeOK
<1>1. /\ UNCHANGED <<flush, parked, watch, misread>> /\ writtenOff \subseteq writtenOff'
      /\ \A d \in Conns : d # c => chan'[d] = chan[d]
  BY <1>0 DEF WriteFrame, WriteFails
<1>2. got[x] > 0 => got'[x] > 0
  BY <1>0 DEF WriteFrame, WriteFails
<1>3. ASSUME InSeq(<<"flush", x>>, chan[c]) PROVE Accounted(x)'
  <2>1. CASE WriteFails(c)
    BY <1>3, <2>1 DEF WriteFails, Accounted
  <2>2. CASE WriteFrame(c)
    <3>1. chan[c] # <<>> /\ chan[c] \in Seq(Frames) /\ chan'[c] = Tail(chan[c])
      BY <1>0, <2>2 DEF WriteFrame
    <3>2. <<"flush", x>> = Head(chan[c]) \/ InSeq(<<"flush", x>>, Tail(chan[c]))
      BY <1>3, <3>1, InTail
    <3>3. CASE <<"flush", x>> = Head(chan[c])
      <4>1. x \in {k \in Tasks : Head(chan[c]) \in {<<"task", k>>, <<"flush", k>>}}
        BY <3>3
      <4>2. got'[x] > 0 \/ x \in writtenOff'
        BY <1>0, <2>2, <4>1 DEF WriteFrame
      <4> QED BY <4>2 DEF Accounted
    <3>4. CASE InSeq(<<"flush", x>>, Tail(chan[c]))
      BY <3>1, <3>4 DEF Accounted
    <3> QED BY <3>2, <3>3, <3>4
  <2> QED BY <2>1, <2>2
<1>4. CASE got[x] > 0 \/ x \in writtenOff \cup misread \/ \E w \in watch : w.task = x
  BY <1>1, <1>2, <1>4 DEF Accounted
<1>5. ASSUME NEW d \in Conns, d # c, InSeq(<<"flush", x>>, chan[d]) PROVE Accounted(x)'
  BY <1>1, <1>5 DEF Accounted
<1>6. CASE InSeq(x, parked) \/ \E d \in Conns : InSeq(x, flush[d])
  BY <1>1, <1>6 DEF Accounted
<1> QED BY <1>3, <1>4, <1>5, <1>6 DEF Accounted

\* What is known to be written was read, or its socket died with it.
LEMMA WriteFlushed ==
  ASSUME TypeInv, AccountInv, NEW c \in Conns, WriteFrame(c),
         NEW x \in Tasks, NEW d \in Conns, <<x, d>> \in flushed'
  PROVE  got'[x] > 0 \/ x \in writtenOff'
<1>0. got \in [Tasks -> 0..2]
  BY DEF TypeInv, TypeOK
<1> DEFINE carried == {k \in Tasks : Head(chan[c]) \in {<<"task", k>>, <<"flush", k>>}}
<1>1. <<x, d>> \in flushed \/ Head(chan[c]) = <<"task", x>>
  BY DEF WriteFrame
<1>2. x \in carried => got'[x] > 0 \/ x \in writtenOff'
  BY <1>0 DEF WriteFrame
<1>3. got[x] > 0 \/ x \in writtenOff => got'[x] > 0 \/ x \in writtenOff'
  BY <1>0 DEF WriteFrame
<1>4. Head(chan[c]) = <<"task", x>> => x \in carried
  OBVIOUS
<1> QED BY <1>1, <1>2, <1>3, <1>4 DEF AccountInv

LEMMA NextAccount ==
  ASSUME TypeInv, TakenInv, AccountInv, [Next]_vars
  PROVE  AccountInv'
<1>1. ASSUME NEW c \in Conns, TakeParked(c) \/ FlushParked(c) PROVE AccountInv'
  <2>1. UNCHANGED <<pc, rest, flushed, got>> /\ writtenOff \subseteq writtenOff'
    BY <1>1 DEF TakeParked, FlushParked, HandlerPush, hist
  <2> QED BY <1>1, <2>1, RegisterKeeps DEF AccountInv
<1>2. ASSUME NEW c \in Conns, WriteFrame(c) PROVE AccountInv'
  <2>1. UNCHANGED <<pc, rest>>
    BY <1>2 DEF WriteFrame
  <2> QED BY <1>2, <2>1, WriteKeeps, WriteFlushed DEF AccountInv
<1>3. ASSUME NEW c \in Conns, WriteFails(c) PROVE AccountInv'
  <2>1. UNCHANGED <<pc, rest, flushed, got>> /\ writtenOff \subseteq writtenOff'
    BY <1>3 DEF WriteFails
  <2> QED BY <1>3, <2>1, WriteKeeps DEF AccountInv
<1>4. ASSUME NEW c \in Conns,
             \/ CountHandled(c) \/ CountDrained(c) \/ ReaderEof(c)
             \/ Subscribe(c) \/ GuestDies(c)
      PROVE  AccountInv'
  <2>1. UNCHANGED <<pc, rest, flush, chan, watch, parked, got, flushed, misread, writtenOff>>
    BY <1>4 DEF CountHandled, CountDrained, ReaderEof, Subscribe, GuestDies, hist
  <2> QED BY <2>1 DEF AccountInv, Accounted
<1>5. CASE UNCHANGED vars
  BY <1>5 DEF vars, AccountInv, Accounted
<1> QED BY <1>1, <1>2, <1>3, <1>4, <1>5, DeliverAccount, WatchAccount DEF Next, Serve

\* A task whose caller has returned is read, parked, taken by a registration,
\* queued or under watch, unless one of the paths the code gives up on took it.
THEOREM TasksDoNotVanish == Spec => []NoTaskVanishes
<1>1. TypeInv /\ TakenInv /\ AccountInv /\ [Next]_vars
        => (TypeInv /\ TakenInv /\ AccountInv)'
  BY NextType, NextTaken, NextAccount
<1>2. AccountInv => NoTaskVanishes
  BY DEF AccountInv, Accounted, NoTaskVanishes, Holds
<1> QED BY <1>1, <1>2, InitType, InitAccount, PTL DEF Spec

-----------------------------------------------------------------------------
(***************************************************************************)
(* Duplicates                                                              *)
(***************************************************************************)

Carries(f, k) == f \in {<<"task", k>>, <<"flush", k>>}
CarriedOnce(q, k) == \A i, j \in 1..Len(q) : Carries(q[i], k) /\ Carries(q[j], k) => i = j

Places == {"caller", "parked", "read", "rest", "flush", "chan"}

\* The places a task can still reach the guest from, or has reached it by.
Home(k, p, c) ==
  \/ p = "caller" /\ c = NoConn /\ Early(k)
  \/ p = "parked" /\ c = NoConn /\ InSeq(k, parked)
  \/ p = "read" /\ c = NoConn /\ got[k] > 0
  \/ p = "rest" /\ c \in rest[k]
  \/ p = "flush" /\ c \in Conns /\ InSeq(k, flush[c])
  \/ p = "chan" /\ c \in Conns /\ Holds(chan[c], k)

SingleHome(k) ==
  \A p, q \in Places : \A c, d \in Conns \cup {NoConn} :
    Home(k, p, c) /\ Home(k, q, d) => p = q /\ c = d

\* A task neither parked again nor sent to two connections is in one place.
HomeInv ==
  /\ \A k \in Tasks \ (requeued \cup fanned) :
       /\ SingleHome(k)
       /\ \A c \in Conns : CarriedOnce(chan[c], k)
       /\ got[k] <= 1
  /\ \A c \in Conns : \A i, j \in 1..Len(flush[c]) : flush[c][i] = flush[c][j] => i = j

LEMMA InitHome == Init => HomeInv
<1> SUFFICES ASSUME Init PROVE HomeInv
  OBVIOUS
<1>1. \A k \in Tasks : SingleHome(k)
  BY InEmpty DEF Init, SingleHome, Home, Holds
<1>2. \A k \in Tasks : \A c \in Conns : CarriedOnce(chan[c], k)
  BY DEF Init, CarriedOnce
<1>3. \A c \in Conns : \A i, j \in 1..Len(flush[c]) : flush[c][i] = flush[c][j] => i = j
  BY DEF Init
<1>4. \A k \in Tasks : got[k] <= 1
  BY DEF Init
<1> QED BY <1>1, <1>2, <1>3, <1>4 DEF HomeInv

\* What a pushed frame adds to a channel.
LEMMA PushCarries ==
  ASSUME NEW q \in Seq(Frames), NEW f \in Frames, NEW k
  PROVE  /\ Holds(Append(q, f), k) <=> Holds(q, k) \/ Carries(f, k)
         /\ CarriedOnce(q, k) /\ (~Carries(f, k) \/ ~Holds(q, k))
              => CarriedOnce(Append(q, f), k)
<1>1. Holds(Append(q, f), k) <=> Holds(q, k) \/ Carries(f, k)
  BY InAppend DEF Holds, Carries
<1>2. \A i \in 1..Len(q) : Carries(q[i], k) => Holds(q, k)
  BY DEF Holds, InSeq, Carries
<1>3. /\ Len(Append(q, f)) = Len(q) + 1 /\ Append(q, f)[Len(q) + 1] = f
      /\ \A i \in 1..Len(q) : Append(q, f)[i] = q[i]
  OBVIOUS
<1>4. ASSUME CarriedOnce(q, k), ~Carries(f, k) \/ ~Holds(q, k),
             NEW i \in 1..Len(q) + 1, NEW j \in 1..Len(q) + 1,
             Carries(Append(q, f)[i], k), Carries(Append(q, f)[j], k)
      PROVE  i = j
  <2>1. i # Len(q) + 1 => i \in 1..Len(q) /\ Carries(q[i], k)
    BY <1>3, <1>4
  <2>2. j # Len(q) + 1 => j \in 1..Len(q) /\ Carries(q[j], k)
    BY <1>3, <1>4
  <2> QED BY <1>2, <1>3, <1>4, <2>1, <2>2 DEF CarriedOnce
<1> QED BY <1>1, <1>3, <1>4 DEF CarriedOnce

\* What taking the first frame off leaves.
LEMMA PopCarries ==
  ASSUME NEW q \in Seq(Frames), q # <<>>, NEW k
  PROVE  /\ Holds(q, k) <=> Carries(Head(q), k) \/ Holds(Tail(q), k)
         /\ CarriedOnce(q, k) => CarriedOnce(Tail(q), k)
         /\ CarriedOnce(q, k) /\ Carries(Head(q), k) => ~Holds(Tail(q), k)
<1>1. Holds(q, k) <=> Carries(Head(q), k) \/ Holds(Tail(q), k)
  BY InTail DEF Holds, Carries
<1>2. /\ Len(q) > 0 /\ Head(q) = q[1] /\ Len(Tail(q)) = Len(q) - 1 /\ Len(q) \in Nat
      /\ \A i \in 1..Len(Tail(q)) : Tail(q)[i] = q[i + 1] /\ i + 1 \in 1..Len(q) /\ i + 1 # 1
  OBVIOUS
<1>3. CarriedOnce(q, k) => CarriedOnce(Tail(q), k)
  <2> SUFFICES ASSUME CarriedOnce(q, k), NEW i \in 1..Len(Tail(q)), NEW j \in 1..Len(Tail(q)),
                      Carries(Tail(q)[i], k), Carries(Tail(q)[j], k)
               PROVE  i = j
    BY DEF CarriedOnce
  <2>1. i + 1 = j + 1
    BY <1>2 DEF CarriedOnce
  <2> QED BY <1>2, <2>1
<1>4. ASSUME CarriedOnce(q, k), Carries(Head(q), k), Holds(Tail(q), k) PROVE FALSE
  <2>1. PICK i \in 1..Len(Tail(q)) : Carries(Tail(q)[i], k)
    BY <1>4 DEF Holds, InSeq, Carries
  <2>2. 1 \in 1..Len(q) /\ Carries(q[1], k) /\ Carries(q[i + 1], k)
    BY <1>2, <1>4, <2>1
  <2> QED BY <1>2, <1>4, <2>2 DEF CarriedOnce
<1> QED BY <1>1, <1>3, <1>4

\* Taking the first task off a list without repetition.
LEMMA PopOnce ==
  ASSUME NEW q \in Seq(Tasks), q # <<>>, \A i, j \in 1..Len(q) : q[i] = q[j] => i = j
  PROVE  /\ \A i, j \in 1..Len(Tail(q)) : Tail(q)[i] = Tail(q)[j] => i = j
         /\ ~InSeq(Head(q), Tail(q))
<1>1. /\ Len(q) > 0 /\ Head(q) = q[1] /\ Len(Tail(q)) = Len(q) - 1 /\ Len(q) \in Nat
      /\ \A i \in 1..Len(Tail(q)) : Tail(q)[i] = q[i + 1] /\ i + 1 \in 1..Len(q) /\ i + 1 # 1
  OBVIOUS
<1>2. ASSUME NEW i \in 1..Len(Tail(q)), NEW j \in 1..Len(Tail(q)), Tail(q)[i] = Tail(q)[j]
      PROVE  i = j
  <2>1. i + 1 = j + 1
    BY <1>1, <1>2
  <2> QED BY <1>1, <2>1
<1>3. 1 \in 1..Len(q)
  BY <1>1
<1> QED BY <1>1, <1>2, <1>3 DEF InSeq

\* A step that gives a task no new place keeps it in one.
LEMMA HomeStays ==
  ASSUME NEW k \in Tasks, SingleHome(k),
         Early(k)' => Early(k),
         InSeq(k, parked') => InSeq(k, parked),
         got'[k] > 0 => got[k] > 0,
         rest'[k] \subseteq rest[k],
         \A c \in Conns : InSeq(k, flush'[c]) => InSeq(k, flush[c]),
         \A c \in Conns : Holds(chan'[c], k) => Holds(chan[c], k)
  PROVE  SingleHome(k)'
<1>1. \A p \in Places : \A c \in Conns \cup {NoConn} : Home(k, p, c)' => Home(k, p, c)
  BY DEF Home
<1> QED BY <1>1 DEF SingleHome

\* A task in one place is nowhere else ...
LEMMA OnlyHome ==
  ASSUME NEW k \in Tasks, SingleHome(k), rest[k] \subseteq Conns,
         NEW p \in Places, NEW c \in Conns \cup {NoConn}, Home(k, p, c)
  PROVE  /\ Early(k) => p = "caller" /\ c = NoConn
         /\ InSeq(k, parked) => p = "parked" /\ c = NoConn
         /\ got[k] > 0 => p = "read" /\ c = NoConn
         /\ \A d \in rest[k] : p = "rest" /\ d = c
         /\ \A d \in Conns : InSeq(k, flush[d]) => p = "flush" /\ d = c
         /\ \A d \in Conns : Holds(chan[d], k) => p = "chan" /\ d = c
<1>1. \A q \in Places : \A d \in Conns \cup {NoConn} : Home(k, q, d) => q = p /\ d = c
  BY DEF SingleHome
<1>2. /\ Early(k) => Home(k, "caller", NoConn)
      /\ InSeq(k, parked) => Home(k, "parked", NoConn)
      /\ got[k] > 0 => Home(k, "read", NoConn)
      /\ \A d \in rest[k] : Home(k, "rest", d)
      /\ \A d \in Conns : InSeq(k, flush[d]) => Home(k, "flush", d)
      /\ \A d \in Conns : Holds(chan[d], k) => Home(k, "chan", d)
  BY DEF Home
<1>3. {"caller", "parked", "read", "rest", "flush", "chan"} \subseteq Places
  BY DEF Places
<1> QED BY <1>1, <1>2, <1>3

\* ... and a step that leaves it in one place is as good.
LEMMA HomeMoves ==
  ASSUME NEW k \in Tasks, NEW p, NEW c,
         Early(k)' => p = "caller" /\ c = NoConn,
         InSeq(k, parked') => p = "parked" /\ c = NoConn,
         got'[k] > 0 => p = "read" /\ c = NoConn,
         \A d \in rest'[k] : p = "rest" /\ d = c,
         \A d \in Conns : InSeq(k, flush'[d]) => p = "flush" /\ d = c,
         \A d \in Conns : Holds(chan'[d], k) => p = "chan" /\ d = c
  PROVE  SingleHome(k)'
<1>1. \A q \in Places : \A d \in Conns \cup {NoConn} : Home(k, q, d)' => q = p /\ d = c
  BY DEF Home
<1> QED BY <1>1 DEF SingleHome

\* A snapshot that is no fan-out names one subscriber at most.
LEMMA OneSubscriber ==
  ASSUME NEW S, IsFiniteSet(S), ~(Cardinality(S) > 1), NEW a \in S, NEW b \in S
  PROVE  a = b
<1> SUFFICES ASSUME a # b PROVE FALSE
  OBVIOUS
<1>1. IsFiniteSet({a}) /\ Cardinality({a}) = 1
  BY FS_Singleton
<1>2. Cardinality({a} \cup {b}) = 2
  BY <1>1, FS_AddElement
<1>3. ({a} \cup {b}) \subseteq S
  OBVIOUS
<1>4. Cardinality({a} \cup {b}) <= Cardinality(S) /\ Cardinality(S) \in Nat
  BY <1>3, FS_Subset, FS_CardinalityType
<1> QED BY <1>2, <1>4

\* What the steps of a caller leave alone.
LEMMA DeliverFrame ==
  ASSUME TypeInv, NEW k \in Tasks, Deliver(k)
  PROVE  /\ UNCHANGED <<got, flush>>
         /\ requeued \subseteq requeued' /\ fanned \subseteq fanned'
         /\ \A x \in Tasks : x # k => pc'[x] = pc[x] /\ rest'[x] = rest[x]
         /\ \A x \in Tasks : x # k => (InSeq(x, parked') <=> InSeq(x, parked))
         /\ \A c \in Conns : chan'[c] = chan[c] \/ chan'[c] = Append(chan[c], <<"task", k>>)
<1>0. /\ parked \in Seq(Tasks) /\ rest \in [Tasks -> SUBSET Conns]
      /\ pc \in [Tasks -> {"new", "park", "deliver", "sending", "pushed", "counted", "done"}]
      /\ chan \in [Conns -> Seq(Frames)]
  BY DEF TypeInv, TypeOK
<1>1. /\ UNCHANGED <<got, flush>> /\ requeued \subseteq requeued' /\ fanned \subseteq fanned'
      /\ \A x \in Tasks : x # k => pc'[x] = pc[x] /\ rest'[x] = rest[x]
  BY <1>0 DEF Deliver, CheckSubscribed, Park, Snapshot, PushFrame, CountFrame,
              SpawnWatcher, SendClosed, FinishDelivery, Repark, connVars, hist
<1>2. parked' = parked \/ parked' = Append(parked, k)
  BY DEF Deliver, CheckSubscribed, Park, Snapshot, PushFrame, CountFrame, SpawnWatcher,
         SendClosed, FinishDelivery, Repark
<1>3. \A x : InSeq(x, Append(parked, k)) <=> InSeq(x, parked) \/ x = k
  BY <1>0, InAppend
<1>4. ASSUME NEW d \in Conns, PushFrame(k, d), NEW c \in Conns
      PROVE  chan'[c] = chan[c] \/ chan'[c] = Append(chan[c], <<"task", k>>)
  BY <1>0, <1>4 DEF PushFrame
<1>5. (\A c \in Conns : ~PushFrame(k, c)) => chan' = chan
  BY DEF Deliver, CheckSubscribed, Park, Snapshot, CountFrame, SpawnWatcher, SendClosed,
         FinishDelivery
<1> QED BY <1>1, <1>2, <1>3, <1>4, <1>5

\* A caller gives no other task a place.
LEMMA DeliverOthers ==
  ASSUME TypeInv, HomeInv, NEW k \in Tasks, Deliver(k),
         NEW x \in Tasks \ (requeued' \cup fanned'), x # k
  PROVE  SingleHome(x)' /\ \A c \in Conns : CarriedOnce(chan'[c], x)
<1>0. \A c \in Conns : chan[c] \in Seq(Frames)
  BY DEF TypeInv, TypeOK
<1>1. x \notin requeued \cup fanned
  BY DeliverFrame
<1>2. <<"task", k>> \in Frames /\ ~Carries(<<"task", k>>, x)
  BY DEF Frames, Carries
<1>3. ASSUME NEW c \in Conns
      PROVE  /\ Holds(chan'[c], x) => Holds(chan[c], x)
             /\ CarriedOnce(chan'[c], x)
  <2>1. CarriedOnce(chan[c], x)
    BY <1>1 DEF HomeInv
  <2>2. /\ Holds(Append(chan[c], <<"task", k>>), x) => Holds(chan[c], x)
        /\ CarriedOnce(Append(chan[c], <<"task", k>>), x)
    BY <1>0, <1>2, <2>1, PushCarries
  <2> QED BY <2>1, <2>2, DeliverFrame
<1>4. SingleHome(x)
  BY <1>1 DEF HomeInv
<1>5. (Early(x)' => Early(x)) /\ rest'[x] = rest[x] /\ (InSeq(x, parked') => InSeq(x, parked))
  BY DeliverFrame DEF Early
<1>6. got' = got /\ flush' = flush
  BY DeliverFrame
<1> QED BY <1>3, <1>4, <1>5, <1>6, HomeStays

\* A caller moves its own task: to the parked list, to its one subscriber, into
\* that subscriber's channel.
LEMMA DeliverOwn ==
  ASSUME TypeInv, HomeInv, NEW k \in Tasks \ (requeued' \cup fanned'), Deliver(k)
  PROVE  SingleHome(k)' /\ \A c \in Conns : CarriedOnce(chan'[c], k)
<1>0. /\ parked \in Seq(Tasks) /\ rest \in [Tasks -> SUBSET Conns]
      /\ pc \in [Tasks -> {"new", "park", "deliver", "sending", "pushed", "counted", "done"}]
      /\ chan \in [Conns -> Seq(Frames)] /\ subs \subseteq Conns
  BY DEF TypeInv, TypeOK
<1>1. /\ k \notin requeued \cup fanned /\ got' = got /\ flush' = flush
  BY DeliverFrame
<1>2. SingleHome(k) /\ \A c \in Conns : CarriedOnce(chan[c], k)
  BY <1>1 DEF HomeInv
<1>3. CASE CheckSubscribed(k) \/ CountFrame(k) \/ SpawnWatcher(k) \/ FinishDelivery(k)
  <2>1. /\ chan' = chan /\ parked' = parked /\ rest' = rest
        /\ Early(k)' => Early(k)
    BY <1>0, <1>3 DEF CheckSubscribed, CountFrame, SpawnWatcher, FinishDelivery, Early
  <2> QED BY <1>1, <1>2, <2>1, HomeStays
<1>4. CASE Park(k)
  <2>1. Home(k, "caller", NoConn) /\ "caller" \in Places
    BY <1>4 DEF Park, Home, Early, Places
  <2>2. ~Early(k)' /\ chan' = chan /\ rest' = rest
    BY <1>0, <1>4 DEF Park, Early
  <2>a. /\ ~(got[k] > 0) /\ rest[k] = {}
        /\ \A d \in Conns : ~InSeq(k, flush[d]) /\ ~Holds(chan[d], k)
    BY <1>0, <1>2, <2>1, OnlyHome
  <2>3. SingleHome(k)'
    <3>1. /\ ~Early(k)' /\ ~(got'[k] > 0) /\ rest'[k] = {}
          /\ \A d \in Conns : ~InSeq(k, flush'[d]) /\ ~Holds(chan'[d], k)
      BY <1>1, <2>2, <2>a
    <3> QED BY <3>1, HomeMoves
  <2> QED BY <1>2, <2>2, <2>3
<1>5. CASE Snapshot(k)
  <2>1. Home(k, "caller", NoConn) /\ "caller" \in Places
    BY <1>5 DEF Snapshot, Home, Early, Places
  <2>2. ~Early(k)' /\ chan' = chan /\ parked' = parked /\ rest'[k] = subs
    BY <1>0, <1>5 DEF Snapshot, Early
  <2>3. ~(Cardinality(subs) > 1) /\ IsFiniteSet(subs)
    BY <1>0, <1>5, InboxAssumption, FS_Subset DEF Snapshot
  <2>4. \A a, b \in subs : a = b
    BY <2>3, OneSubscriber
  <2>5. PICK c : \A d \in subs : d = c
    BY <2>4
  <2>a. /\ ~(got[k] > 0) /\ ~InSeq(k, parked)
        /\ \A d \in Conns : ~InSeq(k, flush[d]) /\ ~Holds(chan[d], k)
    BY <1>0, <1>2, <2>1, OnlyHome
  <2>6. SingleHome(k)'
    <3>1. /\ ~Early(k)' /\ ~(got'[k] > 0) /\ ~InSeq(k, parked')
          /\ \A d \in rest'[k] : d = c
          /\ \A d \in Conns : ~InSeq(k, flush'[d]) /\ ~Holds(chan'[d], k)
      BY <1>1, <2>2, <2>5, <2>a
    <3> QED BY <3>1, HomeMoves
  <2> QED BY <1>2, <2>2, <2>6
<1>6. ASSUME NEW c \in Conns, PushFrame(k, c)
      PROVE  SingleHome(k)' /\ \A d \in Conns : CarriedOnce(chan'[d], k)
  <2>1. Home(k, "rest", c) /\ "rest" \in Places
    BY <1>6 DEF PushFrame, Home, Places
  <2>2. /\ ~Early(k)' /\ parked' = parked /\ rest'[k] = rest[k] \ {c}
        /\ chan' = [chan EXCEPT ![c] = Append(@, <<"task", k>>)]
    BY <1>0, <1>6 DEF PushFrame, Early
  <2>3. <<"task", k>> \in Frames
    BY DEF Frames
  <2>4. /\ ~InSeq(k, parked) /\ ~(got[k] > 0)
        /\ \A d \in rest[k] : d = c
        /\ \A d \in Conns : ~InSeq(k, flush[d]) /\ ~Holds(chan[d], k)
    BY <1>0, <1>2, <2>1, OnlyHome
  <2>5. ASSUME NEW d \in Conns
        PROVE  CarriedOnce(chan'[d], k) /\ (Holds(chan'[d], k) => d = c)
    <3>1. CASE d = c
      BY <1>0, <1>2, <2>2, <2>3, <2>4, <3>1, PushCarries
    <3>2. CASE d # c
      BY <1>0, <1>2, <2>2, <2>4, <3>2
    <3> QED BY <3>1, <3>2
  <2>6. SingleHome(k)'
    BY <1>1, <2>2, <2>4, <2>5, HomeMoves
  <2> QED BY <2>5, <2>6
<1>7. ASSUME NEW c \in Conns, SendClosed(k, c) PROVE FALSE
  BY <1>7 DEF SendClosed, Repark
<1> QED BY <1>3, <1>4, <1>5, <1>6, <1>7 DEF Deliver

LEMMA DeliverHome ==
  ASSUME TypeInv, HomeInv, NEW k \in Tasks, Deliver(k)
  PROVE  HomeInv'
<1>1. ASSUME NEW x \in Tasks \ (requeued' \cup fanned')
      PROVE  SingleHome(x)' /\ \A c \in Conns : CarriedOnce(chan'[c], x)
  BY DeliverOthers, DeliverOwn
<1>2. /\ UNCHANGED <<got, flush>> /\ requeued \subseteq requeued' /\ fanned \subseteq fanned'
  BY DeliverFrame
<1> QED BY <1>1, <1>2 DEF HomeInv

\* A watcher that parks its task again is a requeue; no other moves a task.
LEMMA WatchHome ==
  ASSUME TypeInv, HomeInv, NEW w \in watch, Watch(w)
  PROVE  HomeInv'
<1>0. w.task \in Tasks /\ parked \in Seq(Tasks)
  BY DEF TypeInv, TypeOK, Watchers
<1>1. UNCHANGED <<pc, rest, flush, chan, got, fanned>>
  BY WatchFrame
<1>2. /\ requeued \subseteq requeued'
      /\ \A x \in Tasks : x \notin requeued' => (InSeq(x, parked') => InSeq(x, parked))
  <2>1. CASE WatchClosed(w)
    <3>1. /\ parked' = parked \/ parked' = Append(parked, w.task)
          /\ requeued' = requeued \cup {w.task}
      BY <2>1 DEF WatchClosed, Repark
    <3>2. \A x : InSeq(x, Append(parked, w.task)) <=> InSeq(x, parked) \/ x = w.task
      BY <1>0, InAppend
    <3> QED BY <3>1, <3>2
  <2>2. CASE ~WatchClosed(w)
    BY <2>2, WatchTasks
  <2> QED BY <2>1, <2>2
<1>3. ASSUME NEW x \in Tasks \ (requeued' \cup fanned') PROVE SingleHome(x)'
  <2>1. SingleHome(x)
    BY <1>1, <1>2 DEF HomeInv
  <2>2. Early(x)' => Early(x)
    BY <1>1 DEF Early
  <2> QED BY <1>1, <1>2, <2>1, <2>2, HomeStays
<1> QED BY <1>1, <1>2, <1>3 DEF HomeInv

\* A registration takes the whole parked list and leaves an empty one.
LEMMA TakeHome ==
  ASSUME TypeInv, ParkedInv, HomeInv, NEW c \in Conns, TakeParked(c)
  PROVE  HomeInv'
<1>0. /\ flush \in [Conns -> Seq(Tasks)] /\ chan \in [Conns -> Seq(Frames)]
      /\ rest \in [Tasks -> SUBSET Conns]
  BY DEF TypeInv, TypeOK
<1>1. /\ parked' = <<>> /\ UNCHANGED <<pc, rest, got, requeued, fanned>>
      /\ flush' = [flush EXCEPT ![c] = parked]
  BY DEF TakeParked, HandlerPush, hist
<1>2. \A d \in Conns : chan'[d] = chan[d] \/ chan'[d] = Append(chan[d], <<"reply", NoConn>>)
  BY <1>0 DEF TakeParked, HandlerPush
<1>3. \A d \in Conns : \A i, j \in 1..Len(flush'[d]) : flush'[d][i] = flush'[d][j] => i = j
  BY <1>0, <1>1 DEF ParkedInv, ParkedOnce, HomeInv
<1>4. ASSUME NEW x \in Tasks \ (requeued \cup fanned), NEW d \in Conns
      PROVE  /\ CarriedOnce(chan'[d], x)
             /\ Holds(chan'[d], x) => Holds(chan[d], x)
  <2>1. <<"reply", NoConn>> \in Frames /\ ~Carries(<<"reply", NoConn>>, x)
    BY DEF Frames, Carries
  <2>2. CarriedOnce(chan[d], x) /\ chan[d] \in Seq(Frames)
    BY <1>0 DEF HomeInv
  <2>3. /\ Holds(Append(chan[d], <<"reply", NoConn>>), x) => Holds(chan[d], x)
        /\ CarriedOnce(Append(chan[d], <<"reply", NoConn>>), x)
    BY <2>1, <2>2, PushCarries
  <2> QED BY <1>2, <2>2, <2>3
<1>5. ASSUME NEW x \in Tasks \ (requeued \cup fanned) PROVE SingleHome(x)'
  <2>1. SingleHome(x) /\ ~InSeq(x, parked') /\ (Early(x)' <=> Early(x))
    BY <1>1, InEmpty DEF HomeInv, Early
  <2>2. CASE InSeq(x, parked)
    <3>1. Home(x, "parked", NoConn) /\ "parked" \in Places
      BY <2>2 DEF Home, Places
    <3>2. /\ ~Early(x) /\ ~(got[x] > 0) /\ rest[x] = {}
          /\ \A d \in Conns : ~InSeq(x, flush[d]) /\ ~Holds(chan[d], x)
      BY <1>0, <2>1, <3>1, OnlyHome
    <3>3. /\ ~Early(x)' /\ ~(got'[x] > 0) /\ rest'[x] = {}
          /\ \A d \in Conns : InSeq(x, flush'[d]) => d = c
          /\ \A d \in Conns : ~Holds(chan'[d], x)
      BY <1>0, <1>1, <1>4, <2>1, <3>2
    <3> QED BY <2>1, <3>3, HomeMoves
  <2>3. CASE ~InSeq(x, parked)
    <3>1. \A d \in Conns : InSeq(x, flush'[d]) => InSeq(x, flush[d])
      BY <1>0, <1>1, <2>3
    <3> QED BY <1>1, <1>4, <2>1, <3>1, HomeStays
  <2> QED BY <2>2, <2>3
<1> QED BY <1>1, <1>3, <1>4, <1>5 DEF HomeInv

\* A taken task leaves the list as it enters the channel.
LEMMA FlushHome ==
  ASSUME TypeInv, HomeInv, NEW c \in Conns, FlushParked(c), flush[c] # <<>>
  PROVE  HomeInv'
<1> DEFINE h == Head(flush[c])
<1>0. /\ flush \in [Conns -> Seq(Tasks)] /\ chan \in [Conns -> Seq(Frames)]
      /\ rest \in [Tasks -> SUBSET Conns] /\ h \in Tasks
  BY DEF TypeInv, TypeOK
<1>1. /\ flush' = [flush EXCEPT ![c] = Tail(@)]
      /\ UNCHANGED <<pc, rest, got, parked, requeued, fanned>>
  BY DEF FlushParked, HandlerPush
<1>2. \A d \in Conns : chan'[d] = chan[d]
                       \/ (d = c /\ chan'[d] = Append(chan[d], <<"flush", h>>))
  BY <1>0 DEF FlushParked, HandlerPush
<1>a. /\ \A x : InSeq(x, flush[c]) <=> x = h \/ InSeq(x, Tail(flush[c]))
      /\ Tail(flush[c]) \in Seq(Tasks)
  BY <1>0, InTail, flush[c] \in Seq(Tasks)
<1>b. /\ \A i, j \in 1..Len(Tail(flush[c])) : Tail(flush[c])[i] = Tail(flush[c])[j] => i = j
      /\ ~InSeq(h, Tail(flush[c]))
  <2>1. \A i, j \in 1..Len(flush[c]) : flush[c][i] = flush[c][j] => i = j
    BY DEF HomeInv
  <2> QED BY <1>0, <2>1, PopOnce, flush[c] \in Seq(Tasks)
<1>3. \A d \in Conns : \A i, j \in 1..Len(flush'[d]) : flush'[d][i] = flush'[d][j] => i = j
  BY <1>0, <1>1, <1>b DEF HomeInv
<1> HIDE DEF h
<1>c. <<"flush", h>> \in Frames /\ \A x : Carries(<<"flush", h>>, x) <=> x = h
  BY <1>0 DEF Frames, Carries
<1>4. ASSUME NEW x \in Tasks \ (requeued \cup fanned)
      PROVE  SingleHome(x)' /\ \A d \in Conns : CarriedOnce(chan'[d], x)
  <2>1. /\ SingleHome(x) /\ (Early(x)' <=> Early(x))
        /\ \A d \in Conns : CarriedOnce(chan[d], x) /\ chan[d] \in Seq(Frames)
    BY <1>0, <1>1 DEF HomeInv, Early
  <2>2. ASSUME NEW d \in Conns
        PROVE  /\ Holds(Append(chan[d], <<"flush", h>>), x) <=> Holds(chan[d], x) \/ x = h
               /\ x # h \/ ~Holds(chan[d], x) => CarriedOnce(Append(chan[d], <<"flush", h>>), x)
    BY <1>c, <2>1, PushCarries
  <2>3. CASE x = h
    <3>1. Home(x, "flush", c) /\ "flush" \in Places
      BY <1>a, <2>3 DEF Home, Places
    <3>2. /\ ~Early(x) /\ ~(got[x] > 0) /\ rest[x] = {} /\ ~InSeq(x, parked)
          /\ \A d \in Conns : InSeq(x, flush[d]) => d = c
          /\ \A d \in Conns : ~Holds(chan[d], x)
      BY <1>0, <2>1, <3>1, OnlyHome
    <3>3. \A d \in Conns : CarriedOnce(chan'[d], x) /\ (Holds(chan'[d], x) => d = c)
      BY <1>2, <2>1, <2>2, <3>2
    <3>4. \A d \in Conns : ~InSeq(x, flush'[d])
      BY <1>0, <1>1, <1>b, <2>3, <3>2
    <3>5. /\ ~Early(x)' /\ ~(got'[x] > 0) /\ rest'[x] = {} /\ ~InSeq(x, parked')
      BY <1>1, <2>1, <3>2
    <3> QED BY <3>3, <3>4, <3>5, HomeMoves
  <2>4. CASE x # h
    <3>1. \A d \in Conns : CarriedOnce(chan'[d], x) /\ (Holds(chan'[d], x) => Holds(chan[d], x))
      BY <1>2, <2>1, <2>2, <2>4
    <3>2. \A d \in Conns : InSeq(x, flush'[d]) => InSeq(x, flush[d])
      BY <1>0, <1>1, <1>a
    <3> QED BY <1>1, <2>1, <3>1, <3>2, HomeStays
  <2> QED BY <2>3, <2>4
<1> QED BY <1>1, <1>3, <1>4 DEF HomeInv

\* A written frame leaves the channel: its task is read, or is gone with the
\* socket.
LEMMA WriteHome ==
  ASSUME TypeInv, HomeInv, NEW c \in Conns, WriteFrame(c)
  PROVE  HomeInv'
<1> DEFINE h == Head(chan[c])
<1>0. /\ chan \in [Conns -> Seq(Frames)] /\ chan[c] \in Seq(Frames)
      /\ rest \in [Tasks -> SUBSET Conns] /\ got \in [Tasks -> 0..2]
  BY DEF TypeInv, TypeOK
<1>1. /\ chan[c] # <<>> /\ chan' = [chan EXCEPT ![c] = Tail(@)]
      /\ UNCHANGED <<pc, rest, flush, parked, requeued, fanned>>
  BY DEF WriteFrame
<1>2. \A x \in Tasks : IF Carries(h, x) THEN got'[x] = got[x] \/ (got[x] = 0 /\ got'[x] = 1)
                                             \/ (got[x] # 0 /\ got'[x] = 2)
                       ELSE got'[x] = got[x]
  BY <1>0 DEF WriteFrame, Carries
<1>3. ASSUME NEW x \in Tasks
      PROVE  /\ Holds(chan[c], x) <=> Carries(h, x) \/ Holds(Tail(chan[c]), x)
             /\ CarriedOnce(chan[c], x) => CarriedOnce(Tail(chan[c]), x)
             /\ CarriedOnce(chan[c], x) /\ Carries(h, x) => ~Holds(Tail(chan[c]), x)
  BY <1>0, <1>1, PopCarries
<1> HIDE DEF h
<1>4. ASSUME NEW x \in Tasks \ (requeued \cup fanned)
      PROVE  SingleHome(x)' /\ got'[x] <= 1 /\ \A d \in Conns : CarriedOnce(chan'[d], x)
  <2>1. /\ SingleHome(x) /\ (Early(x)' <=> Early(x)) /\ got[x] <= 1 /\ got[x] \in 0..2
        /\ \A d \in Conns : CarriedOnce(chan[d], x)
    BY <1>0, <1>1 DEF HomeInv, Early
  <2>2. \A d \in Conns : /\ CarriedOnce(chan'[d], x)
                         /\ Holds(chan'[d], x) => Holds(chan[d], x)
    BY <1>0, <1>1, <1>3, <2>1
  <2>3. CASE Carries(h, x)
    <3>1. Home(x, "chan", c) /\ "chan" \in Places
      BY <1>3, <2>3 DEF Home, Places
    <3>2. /\ ~Early(x) /\ ~(got[x] > 0) /\ rest[x] = {} /\ ~InSeq(x, parked)
          /\ \A d \in Conns : ~InSeq(x, flush[d])
          /\ \A d \in Conns : Holds(chan[d], x) => d = c
      BY <1>0, <2>1, <3>1, OnlyHome
    <3>3. ~Holds(chan'[c], x)
      BY <1>0, <1>1, <1>3, <2>1, <2>3
    <3>4. \A d \in Conns : ~Holds(chan'[d], x)
      BY <2>2, <3>2, <3>3
    <3>5. /\ ~Early(x)' /\ rest'[x] = {} /\ ~InSeq(x, parked')
          /\ \A d \in Conns : ~InSeq(x, flush'[d])
      BY <1>1, <2>1, <3>2
    <3>6. got[x] = 0
      BY <2>1, <3>2
    <3>7. got'[x] <= 1
      BY <1>2, <2>3, <3>6
    <3> QED BY <2>2, <3>4, <3>5, <3>7, HomeMoves
  <2>4. CASE ~Carries(h, x)
    <3>1. got'[x] = got[x]
      BY <1>2, <2>4
    <3> QED BY <1>1, <2>1, <2>2, <3>1, HomeStays
  <2> QED BY <2>3, <2>4
<1> QED BY <1>1, <1>4 DEF HomeInv

LEMMA FailHome ==
  ASSUME TypeInv, HomeInv, NEW c \in Conns, WriteFails(c)
  PROVE  HomeInv'
<1>0. chan \in [Conns -> Seq(Frames)]
  BY DEF TypeInv, TypeOK
<1>1. /\ chan' = [chan EXCEPT ![c] = <<>>]
      /\ UNCHANGED <<pc, rest, flush, parked, got, requeued, fanned>>
  BY DEF WriteFails
<1>2. ASSUME NEW x \in Tasks \ (requeued \cup fanned)
      PROVE  SingleHome(x)' /\ \A d \in Conns : CarriedOnce(chan'[d], x)
  <2>1. /\ SingleHome(x) /\ (Early(x)' <=> Early(x))
        /\ \A d \in Conns : CarriedOnce(chan[d], x)
    BY <1>1 DEF HomeInv, Early
  <2>2. ~Holds(<<>>, x) /\ CarriedOnce(<<>>, x)
    BY InEmpty DEF Holds, CarriedOnce
  <2>3. \A d \in Conns : CarriedOnce(chan'[d], x) /\ (Holds(chan'[d], x) => Holds(chan[d], x))
    BY <1>0, <1>1, <2>1, <2>2
  <2> QED BY <1>1, <2>1, <2>3, HomeStays
<1> QED BY <1>1, <1>2 DEF HomeInv

LEMMA NextHome ==
  ASSUME TypeInv, ParkedInv, HomeInv, [Next]_vars
  PROVE  HomeInv'
<1>1. ASSUME UNCHANGED <<pc, rest, flush, chan, parked, got, requeued, fanned>>
      PROVE  HomeInv'
  BY <1>1 DEF HomeInv, SingleHome, Home, Early
<1>2. ASSUME NEW c \in Conns, FlushParked(c), flush[c] = <<>> PROVE HomeInv'
  BY <1>1, <1>2 DEF FlushParked, HandlerPush
<1>3. ASSUME NEW c \in Conns,
             \/ CountHandled(c) \/ CountDrained(c) \/ ReaderEof(c)
             \/ Subscribe(c) \/ GuestDies(c)
      PROVE  HomeInv'
  BY <1>1, <1>3 DEF CountHandled, CountDrained, ReaderEof, Subscribe, GuestDies, hist
<1>4. ASSUME NEW c \in Conns, Serve(c) PROVE HomeInv'
  BY <1>2, <1>3, <1>4, TakeHome, FlushHome, WriteHome, FailHome DEF Serve
<1>5. CASE UNCHANGED vars
  BY <1>1, <1>5 DEF vars
<1> QED BY <1>3, <1>4, <1>5, DeliverHome, WatchHome DEF Next

\* The guest reads a task twice only after a fan-out or after the hotel parked
\* it again: every other step takes the task from one place to the next.
THEOREM DuplicatesExplained == Spec => []DuplicatesAreRequeues
<1>1. TypeInv /\ ParkedInv /\ HomeInv /\ [Next]_vars => (TypeInv /\ ParkedInv /\ HomeInv)'
  BY NextType, NextParked, NextHome
<1>2. HomeInv => DuplicatesAreRequeues
  BY DEF HomeInv, DuplicatesAreRequeues
<1> QED BY <1>1, <1>2, InitType, InitParked, InitHome, PTL DEF Spec

=============================================================================
