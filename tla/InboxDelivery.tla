--------------------------- MODULE InboxDelivery ---------------------------
(***************************************************************************)
(* Delivery of inbound tasks to one guest of a hotel over its Unix-socket  *)
(* connections: the subscriber registry, the counted outbound channel with *)
(* its write task, the write-confirmation watchers, the parked list and    *)
(* the flush of parked tasks on registration.                              *)
(*                                                                         *)
(* Every caller of deliver_inbound_task runs on its own; CountedSender     *)
(* pushes a frame and counts it in two steps, whether a delivery or a      *)
(* connection handler sends it; the write task writes a frame and counts   *)
(* it in two steps; a watcher reads the drain gauge and the closed flag in *)
(* two steps.  A guest may stop reading, die and come back on a new        *)
(* connection at any time.                                                 *)
(***************************************************************************)
EXTENDS Integers, Sequences, FiniteSets

CONSTANTS
  Tasks,     \* inbound tasks addressed to the guest
  Conns,     \* connections the guest may open, one after another or at once
  NoConn,    \* no connection
  Wedge      \* SUBSCRIBER_BACKLOG_WEDGE_THRESHOLD (32 in the code)

ASSUME InboxAssumption ==
  /\ IsFiniteSet(Tasks) /\ IsFiniteSet(Conns)
  /\ NoConn \notin Conns
  /\ Wedge \in Nat \ {0}

VARIABLES
  pc,        \* where the delivery of each task stands
  cur,       \* connection a delivery is sending to
  rest,      \* subscribers of its snapshot a delivery has yet to serve
  stale,     \* subscribers a delivery found closed
  alive,     \* connections whose guest process lives
  rx,        \* connections whose write task runs (the channel is open)
  reg,       \* progress of the connection handler
  subs,      \* InboxRegistry: subscribed connections of the guest
  flush,     \* parked tasks a registration has taken and not yet sent
  uncounted, \* connections whose handler has pushed a frame but not counted it
  chan,      \* outbound channel of each connection
  wr,        \* connections whose write task has written but not counted
  enqueued,  \* CountedSender.enqueued
  drained,   \* CountedSender.drained
  flagged,   \* CountedSender.backlog_flagged
  watch,     \* confirmation watchers
  parked,    \* parked_inbound of the guest
  heal,      \* heal entries filed: kind and task or connection
  got,       \* history: times the guest read a task: 0, 1 or 2 for more
  requeued,  \* history: tasks parked again after a send
  fanned,    \* history: tasks sent to more than one connection
  flushed,   \* history: task and connection of every watched frame written
  misread,   \* history: tasks confirmed though their frame was never written
  writtenOff \* history: tasks some path gives up on without a trace

connVars == <<alive, rx, reg, subs, flush, uncounted, wr>>
hist == <<requeued, fanned, flushed, misread, writtenOff>>
vars == <<pc, cur, rest, stale, alive, rx, reg, subs, flush, uncounted, chan,
          wr, enqueued, drained, flagged, watch, parked, heal, got, requeued,
          fanned, flushed, misread, writtenOff>>

\* Frames of a connection: a task sent by deliver_inbound_task (watched), a
\* task flushed by a registration (not watched), and the reply to Register.
Frames == ({"task", "flush"} \X Tasks) \cup {<<"reply", NoConn>>}
Watchers == [task : Tasks, conn : Conns, target : Nat,
             stage : {"confirm", "lost", "undrained"}]

InSeq(x, q) == \E i \in 1..Len(q) : q[i] = x
Holds(q, k) == InSeq(<<"task", k>>, q) \/ InSeq(<<"flush", k>>, q)

Init ==
  /\ pc = [k \in Tasks |-> "new"]
  /\ cur = [k \in Tasks |-> NoConn]
  /\ rest = [k \in Tasks |-> {}]
  /\ stale = [k \in Tasks |-> {}]
  /\ alive = {}
  /\ rx = {}
  /\ reg = [c \in Conns |-> "unused"]
  /\ subs = {}
  /\ flush = [c \in Conns |-> <<>>]
  /\ uncounted = {}
  /\ chan = [c \in Conns |-> <<>>]
  /\ wr = {}
  /\ enqueued = [c \in Conns |-> 0]
  /\ drained = [c \in Conns |-> 0]
  /\ flagged = {}
  /\ watch = {}
  /\ parked = <<>>
  /\ heal = {}
  /\ got = [k \in Tasks |-> 0]
  /\ requeued = {}
  /\ fanned = {}
  /\ flushed = {}
  /\ misread = {}
  /\ writtenOff = {}

Backlog(c) == IF enqueued[c] > drained[c] THEN enqueued[c] - drained[c] ELSE 0

-----------------------------------------------------------------------------
(***************************************************************************)
(* Callers: deliver_event_envelope_or_park, then deliver_inbound_task      *)
(***************************************************************************)

\* is_subscribed is read under the registry lock, which is then released.
CheckSubscribed(k) ==
  /\ pc[k] = "new"
  /\ pc' = [pc EXCEPT ![k] = IF subs = {} THEN "park" ELSE "deliver"]
  /\ UNCHANGED <<cur, rest, stale, chan, enqueued, drained, flagged, watch,
                 parked, heal, got>>
  /\ UNCHANGED connVars /\ UNCHANGED hist

\* park_and_materialize: the task joins the guest's parked list.
Park(k) ==
  /\ pc[k] = "park"
  /\ pc' = [pc EXCEPT ![k] = "done"]
  /\ parked' = Append(parked, k)
  /\ UNCHANGED <<cur, rest, stale, chan, enqueued, drained, flagged, watch, heal, got>>
  /\ UNCHANGED connVars /\ UNCHANGED hist

\* deliver_inbound_task snapshots the subscribers; with none left the task is
\* logged and dropped.
Snapshot(k) ==
  /\ pc[k] = "deliver"
  /\ pc' = [pc EXCEPT ![k] = IF subs = {} THEN "done" ELSE "sending"]
  /\ rest' = [rest EXCEPT ![k] = subs]
  /\ fanned' = IF Cardinality(subs) > 1 THEN fanned \cup {k} ELSE fanned
  /\ writtenOff' = IF subs = {} THEN writtenOff \cup {k} ELSE writtenOff
  /\ UNCHANGED <<cur, stale, chan, enqueued, drained, flagged, watch, parked,
                 heal, got, requeued, flushed, misread>>
  /\ UNCHANGED connVars

\* The wedge gauge is read before every send, its report latched per episode.
GaugeBacklog(c, report) ==
  /\ flagged' = IF Backlog(c) >= Wedge THEN flagged \cup {c}
                ELSE IF Backlog(c) < Wedge \div 2 THEN flagged \ {c} ELSE flagged
  /\ heal' = heal \cup report
                  \cup (IF Backlog(c) >= Wedge /\ c \notin flagged
                          THEN {<<"subscriber_wedged", c>>} ELSE {})

\* CountedSender::send on an open channel, first half: the frame is pushed.
PushFrame(k, c) ==
  /\ pc[k] = "sending" /\ c \in rest[k]
  /\ c \in rx
  /\ GaugeBacklog(c, {})
  /\ chan' = [chan EXCEPT ![c] = Append(@, <<"task", k>>)]
  /\ cur' = [cur EXCEPT ![k] = c]
  /\ rest' = [rest EXCEPT ![k] = @ \ {c}]
  /\ pc' = [pc EXCEPT ![k] = "pushed"]
  /\ UNCHANGED <<stale, enqueued, drained, watch, parked, got>>
  /\ UNCHANGED connVars /\ UNCHANGED hist

\* ... second half: the counter follows.
CountFrame(k) ==
  /\ pc[k] = "pushed"
  /\ enqueued' = [enqueued EXCEPT ![cur[k]] = @ + 1]
  /\ pc' = [pc EXCEPT ![k] = "counted"]
  /\ UNCHANGED <<cur, rest, stale, chan, drained, flagged, watch, parked, heal, got>>
  /\ UNCHANGED connVars /\ UNCHANGED hist

\* confirm_target = enqueued_now(), and a watcher is spawned.
SpawnWatcher(k) ==
  /\ pc[k] = "counted"
  /\ watch' = watch \cup {[task |-> k, conn |-> cur[k],
                           target |-> enqueued[cur[k]], stage |-> "confirm"]}
  /\ pc' = [pc EXCEPT ![k] = "sending"]
  /\ cur' = [cur EXCEPT ![k] = NoConn]
  /\ UNCHANGED <<rest, stale, chan, enqueued, drained, flagged, parked, heal, got>>
  /\ UNCHANGED connVars /\ UNCHANGED hist

\* Mutant: the list is not searched first.
ReparkAlways(k) ==
  /\ parked' = Append(parked, k)
  /\ requeued' = requeued \cup {k}

\* repark_lost_task: at most once per task in the list.
Repark(k) ==
  /\ parked' = IF InSeq(k, parked) THEN parked ELSE Append(parked, k)
  /\ requeued' = requeued \cup {k}

\* Mutant: a closed channel is only reported.
SendClosedNoRepark(k, c) ==
  /\ pc[k] = "sending" /\ c \in rest[k]
  /\ c \notin rx
  /\ GaugeBacklog(c, {<<"delivery_channel_closed", k>>})
  /\ rest' = [rest EXCEPT ![k] = @ \ {c}]
  /\ stale' = [stale EXCEPT ![k] = @ \cup {c}]
  /\ UNCHANGED <<pc, cur, chan, enqueued, drained, watch, parked, got>>
  /\ UNCHANGED connVars /\ UNCHANGED hist

\* CountedSender::send on a closed channel: park again, report, mark stale.
SendClosed(k, c) ==
  /\ pc[k] = "sending" /\ c \in rest[k]
  /\ c \notin rx
  /\ GaugeBacklog(c, {<<"delivery_channel_closed", k>>})
  /\ Repark(k)
  /\ rest' = [rest EXCEPT ![k] = @ \ {c}]
  /\ stale' = [stale EXCEPT ![k] = @ \cup {c}]
  /\ UNCHANGED <<pc, cur, chan, enqueued, drained, watch, got,
                 fanned, flushed, misread, writtenOff>>
  /\ UNCHANGED connVars

\* The loop is over: stale subscribers leave the registry.
FinishDelivery(k) ==
  /\ pc[k] = "sending" /\ rest[k] = {}
  /\ pc' = [pc EXCEPT ![k] = "done"]
  /\ subs' = subs \ stale[k]
  /\ stale' = [stale EXCEPT ![k] = {}]
  /\ UNCHANGED <<cur, rest, alive, rx, reg, flush, uncounted, chan, wr,
                 enqueued, drained, flagged, watch, parked, heal, got>>
  /\ UNCHANGED hist

(***************************************************************************)
(* Watchers                                                                *)
(***************************************************************************)

Undrained(w) == drained[w.conn] < w.target

\* The gauge has reached the target: the watcher ends.
WatchConfirmed(w) ==
  /\ w.stage \in {"confirm", "lost"}
  /\ ~Undrained(w)
  /\ watch' = watch \ {w}
  /\ misread' = IF <<w.task, w.conn>> \in flushed
                  THEN misread ELSE misread \cup {w.task}
  /\ UNCHANGED <<pc, cur, rest, stale, chan, enqueued, drained, flagged,
                 parked, heal, got, requeued, fanned, flushed, writtenOff>>
  /\ UNCHANGED connVars

\* Past the confirmation deadline: report and keep watching.
WatchTimeout(w) ==
  /\ w.stage = "confirm"
  /\ Undrained(w)
  /\ watch' = (watch \ {w}) \cup {[w EXCEPT !.stage = "lost"]}
  /\ heal' = heal \cup {<<"delivery_write_unconfirmed", w.task>>}
  /\ UNCHANGED <<pc, cur, rest, stale, chan, enqueued, drained, flagged, parked, got>>
  /\ UNCHANGED connVars /\ UNCHANGED hist

\* The slow loop reads the gauge ...
WatchReadGauge(w) ==
  /\ w.stage = "lost"
  /\ Undrained(w)
  /\ watch' = (watch \ {w}) \cup {[w EXCEPT !.stage = "undrained"]}
  /\ UNCHANGED <<pc, cur, rest, stale, chan, enqueued, drained, flagged, parked, heal, got>>
  /\ UNCHANGED connVars /\ UNCHANGED hist

\* ... then the channel: closed means lost, and the task is parked again.
WatchClosed(w) ==
  /\ w.stage = "undrained"
  /\ w.conn \notin rx
  /\ Repark(w.task)
  /\ watch' = watch \ {w}
  /\ UNCHANGED <<pc, cur, rest, stale, chan, enqueued, drained, flagged, heal,
                 got, fanned, flushed, misread, writtenOff>>
  /\ UNCHANGED connVars

\* ... still open: sleep and look again.
WatchAgain(w) ==
  /\ w.stage = "undrained"
  /\ w.conn \in rx
  /\ watch' = (watch \ {w}) \cup {[w EXCEPT !.stage = "lost"]}
  /\ UNCHANGED <<pc, cur, rest, stale, chan, enqueued, drained, flagged, parked, heal, got>>
  /\ UNCHANGED connVars /\ UNCHANGED hist

\* ... or the watch is capped and nobody looks any more.
WatchCapped(w) ==
  /\ w.stage = "undrained"
  /\ w.conn \in rx
  /\ watch' = watch \ {w}
  /\ writtenOff' = writtenOff \cup {w.task}
  /\ UNCHANGED <<pc, cur, rest, stale, chan, enqueued, drained, flagged, parked,
                 heal, got, requeued, fanned, flushed, misread>>
  /\ UNCHANGED connVars

(***************************************************************************)
(* Connections                                                             *)
(***************************************************************************)

\* A guest connects and registers: add_subscription comes first ...  A guest
\* keeps one connection; its next one opens after the last is gone, which the
\* hotel may not have noticed.
Subscribe(c) ==
  /\ reg[c] = "unused"
  /\ alive = {}
  /\ reg' = [reg EXCEPT ![c] = "subscribed"]
  /\ alive' = alive \cup {c}
  /\ rx' = rx \cup {c}
  /\ subs' = subs \cup {c}
  /\ UNCHANGED <<pc, cur, rest, stale, flush, uncounted, chan, wr, enqueued,
                 drained, flagged, watch, parked, heal, got>>
  /\ UNCHANGED hist

\* CountedSender::send by a connection handler, first half: on an open channel
\* the frame is pushed, and the handler has it to count.
HandlerPush(c, frame) ==
  IF c \in rx
    THEN /\ chan' = [chan EXCEPT ![c] = Append(@, frame)]
         /\ uncounted' = uncounted \cup {c}
    ELSE UNCHANGED <<chan, uncounted>>

\* Mutant: the parked list is copied and kept.
TakeParkedKeeps(c) ==
  /\ reg[c] = "subscribed"
  /\ reg' = [reg EXCEPT ![c] = "flushing"]
  /\ flush' = [flush EXCEPT ![c] = parked]
  /\ HandlerPush(c, <<"reply", NoConn>>)
  /\ UNCHANGED <<pc, cur, rest, stale, alive, rx, subs, wr, enqueued, drained,
                 flagged, watch, parked, heal, got>>
  /\ UNCHANGED hist

\* ... then the parked list is taken as a whole; the reply goes out first.
TakeParked(c) ==
  /\ reg[c] = "subscribed"
  /\ reg' = [reg EXCEPT ![c] = "flushing"]
  /\ flush' = [flush EXCEPT ![c] = parked]
  /\ parked' = <<>>
  /\ HandlerPush(c, <<"reply", NoConn>>)
  /\ UNCHANGED <<pc, cur, rest, stale, alive, rx, subs, wr, enqueued, drained,
                 flagged, watch, heal, got>>
  /\ UNCHANGED hist

\* CountedSender::send by a connection handler, second half: the counter
\* follows.
CountHandled(c) ==
  /\ c \in uncounted
  /\ uncounted' = uncounted \ {c}
  /\ enqueued' = [enqueued EXCEPT ![c] = @ + 1]
  /\ UNCHANGED <<pc, cur, rest, stale, alive, rx, reg, subs, flush, chan, wr,
                 drained, flagged, watch, parked, heal, got>>
  /\ UNCHANGED hist

\* ... and its tasks are sent one by one, each counted before the next; the
\* outcome of a send is ignored.
FlushParked(c) ==
  /\ reg[c] = "flushing" /\ c \notin uncounted
  /\ IF flush[c] = <<>>
       THEN /\ reg' = [reg EXCEPT ![c] = "ready"]
            /\ UNCHANGED <<flush, chan, uncounted, writtenOff>>
       ELSE /\ flush' = [flush EXCEPT ![c] = Tail(@)]
            /\ HandlerPush(c, <<"flush", Head(flush[c])>>)
            /\ writtenOff' = IF c \in rx THEN writtenOff
                             ELSE writtenOff \cup {Head(flush[c])}
            /\ UNCHANGED reg
  /\ UNCHANGED <<pc, cur, rest, stale, alive, rx, subs, wr, enqueued, drained,
                 flagged, watch, parked, heal, got, requeued, fanned, flushed, misread>>

\* The write task writes a frame into the socket.  When the guest reads it is
\* its own affair; a guest that never does dies with the frame unread.
WriteFrame(c) ==
  /\ c \in rx /\ c \in alive /\ c \notin wr
  /\ chan[c] # <<>>
  /\ chan' = [chan EXCEPT ![c] = Tail(@)]
  /\ wr' = wr \cup {c}
  /\ flushed' = flushed \cup {<<k, c>> : k \in {x \in Tasks : Head(chan[c]) = <<"task", x>>}}
  /\ LET carried == {k \in Tasks : Head(chan[c]) \in {<<"task", k>>, <<"flush", k>>}}
     IN \/ /\ got' = [k \in Tasks |-> IF k \notin carried THEN got[k]
                                      ELSE IF got[k] = 0 THEN 1 ELSE 2]
           /\ UNCHANGED <<alive, writtenOff>>
        \/ /\ carried # {}
           /\ alive' = alive \ {c}
           /\ writtenOff' = writtenOff \cup carried
           /\ UNCHANGED got
  /\ UNCHANGED <<pc, cur, rest, stale, rx, reg, subs, flush, uncounted,
                 enqueued, drained, flagged, watch, parked, heal, requeued,
                 fanned, misread>>

\* Mutant: a written frame is not counted.
CountDrainedNever(c) ==
  /\ c \in wr
  /\ wr' = wr \ {c}
  /\ UNCHANGED <<pc, cur, rest, stale, alive, rx, reg, subs, flush, uncounted,
                 chan, enqueued, drained, flagged, watch, parked, heal, got>>
  /\ UNCHANGED hist

\* ... and counts it.
CountDrained(c) ==
  /\ c \in wr
  /\ wr' = wr \ {c}
  /\ drained' = [drained EXCEPT ![c] = @ + 1]
  /\ UNCHANGED <<pc, cur, rest, stale, alive, rx, reg, subs, flush, uncounted,
                 chan, enqueued, flagged, watch, parked, heal, got>>
  /\ UNCHANGED hist

\* A write to a dead guest fails: the write task ends and the receiver is
\* dropped with everything queued in it.
WriteFails(c) ==
  /\ c \in rx /\ c \notin alive /\ c \notin wr
  /\ chan[c] # <<>>
  /\ rx' = rx \ {c}
  /\ chan' = [chan EXCEPT ![c] = <<>>]
  /\ writtenOff' = writtenOff \cup {k \in Tasks : InSeq(<<"flush", k>>, chan[c])}
  /\ UNCHANGED <<pc, cur, rest, stale, alive, reg, subs, flush, uncounted, wr,
                 enqueued, drained, flagged, watch, parked, heal, got,
                 requeued, fanned, flushed, misread>>

\* The handler reads end-of-file and takes the subscriptions back.
ReaderEof(c) ==
  /\ reg[c] = "ready" /\ c \notin alive
  /\ reg' = [reg EXCEPT ![c] = "closed"]
  /\ subs' = subs \ {c}
  /\ UNCHANGED <<pc, cur, rest, stale, alive, rx, flush, uncounted, chan, wr,
                 enqueued, drained, flagged, watch, parked, heal, got>>
  /\ UNCHANGED hist

\* The guest dies or drops its connection.
GuestDies(c) ==
  /\ c \in alive
  /\ alive' = alive \ {c}
  /\ UNCHANGED <<pc, cur, rest, stale, rx, reg, subs, flush, uncounted, chan,
                 wr, enqueued, drained, flagged, watch, parked, heal, got>>
  /\ UNCHANGED hist

-----------------------------------------------------------------------------
Deliver(k) ==
  \/ CheckSubscribed(k)
  \/ Park(k)
  \/ Snapshot(k)
  \/ \E c \in Conns : PushFrame(k, c)
  \/ CountFrame(k)
  \/ SpawnWatcher(k)
  \/ \E c \in Conns : SendClosed(k, c)
  \/ FinishDelivery(k)

Watch(w) ==
  \/ WatchConfirmed(w)
  \/ WatchTimeout(w)
  \/ WatchReadGauge(w)
  \/ WatchClosed(w)
  \/ WatchAgain(w)
  \/ WatchCapped(w)

Serve(c) ==
  \/ TakeParked(c)
  \/ CountHandled(c)
  \/ FlushParked(c)
  \/ WriteFrame(c)
  \/ CountDrained(c)
  \/ WriteFails(c)
  \/ ReaderEof(c)

Next ==
  \/ \E k \in Tasks : Deliver(k)
  \/ \E w \in watch : Watch(w)
  \/ \E c \in Conns : Serve(c)
  \/ \E c \in Conns : Subscribe(c) \/ GuestDies(c)

Spec == Init /\ [][Next]_vars

\* Every task of the hotel's executor runs on; the guest owes nothing.
FairSpec ==
  /\ Spec
  /\ \A k \in Tasks : WF_vars(Deliver(k))
  /\ WF_vars(\E w \in watch : Watch(w))
  /\ \A c \in Conns : WF_vars(Serve(c))

-----------------------------------------------------------------------------
(***************************************************************************)
(* Properties                                                              *)
(***************************************************************************)

\* Type correctness of every variable.
TypeOK ==
  /\ pc \in [Tasks -> {"new", "park", "deliver", "sending", "pushed", "counted", "done"}]
  /\ cur \in [Tasks -> Conns \cup {NoConn}]
  /\ rest \in [Tasks -> SUBSET Conns]
  /\ stale \in [Tasks -> SUBSET Conns]
  /\ alive \subseteq Conns
  /\ rx \subseteq Conns
  /\ reg \in [Conns -> {"unused", "subscribed", "flushing", "ready", "closed"}]
  /\ subs \subseteq Conns
  /\ flush \in [Conns -> Seq(Tasks)]
  /\ uncounted \subseteq Conns
  /\ chan \in [Conns -> Seq(Frames)]
  /\ wr \subseteq Conns
  /\ enqueued \in [Conns -> Nat]
  /\ drained \in [Conns -> Nat]
  /\ flagged \subseteq Conns
  /\ watch \subseteq Watchers
  /\ parked \in Seq(Tasks)
  /\ heal \subseteq ({"subscriber_wedged"} \X Conns)
       \cup ({"delivery_channel_closed", "delivery_write_unconfirmed"} \X Tasks)
  /\ got \in [Tasks -> 0..2]
  /\ requeued \subseteq Tasks
  /\ fanned \subseteq Tasks
  /\ flushed \subseteq Tasks \X Conns
  /\ misread \subseteq Tasks
  /\ writtenOff \subseteq Tasks

\* A task is somewhere: read by the guest, in a channel or the parked
\* list, taken by a registration, or under watch.  The only ways out are the
\* ones the code gives up on: no subscriber left, a socket that died with the
\* frame, an unwatched flush, a capped watch, a gauge read too early.
NoTaskVanishes ==
  \A k \in Tasks : pc[k] = "done" =>
    \/ got[k] > 0
    \/ InSeq(k, parked)
    \/ \E c \in Conns : InSeq(k, flush[c]) \/ Holds(chan[c], k)
    \/ \E w \in watch : w.task = k
    \/ k \in writtenOff \cup misread

\* The guest reads a task twice only after it was sent to two connections or
\* parked again: no other interleaving duplicates one.
DuplicatesAreRequeues ==
  \A k \in Tasks : got[k] = 2 => k \in requeued \cup fanned

\* The gauges agree with the channel, in every interleaving of senders and
\* writer: what was enqueued and not drained is queued, or written and about to
\* be counted, except for frames that a delivery or the connection's handler has
\* pushed and not yet counted.
GaugeMatchesChannel ==
  \A c \in rx :
    enqueued[c] + Cardinality({k \in Tasks : pc[k] = "pushed" /\ cur[k] = c})
                + Cardinality(uncounted \cap {c})
      = drained[c] + Len(chan[c]) + Cardinality(wr \cap {c})

\* The parked list holds a task at most once, though a failed send and a
\* watcher may both park it.
ParkedOnce ==
  \A i, j \in 1..Len(parked) : parked[i] = parked[j] => i = j

\* The comment of DELIVERY_LOST_WATCH_CAP_SECS: "closed + undrained => the
\* guest never received this task => re-parking cannot duplicate".
ReparkNeverDuplicates ==
  \A k \in Tasks : got[k] = 2 => k \in fanned

\* park_and_materialize: a parked task is "flushed when the target philote
\* connects and registers"; it does not stay parked beside a connected guest.
ParkedReachesLiveGuest ==
  \A k \in Tasks :
    ~<>[](InSeq(k, parked) /\ \E c \in alive : reg[c] = "ready")

\* The comment of the confirmation watcher: the gauge is watched "until every
\* frame enqueued so far (ours included) has been flushed".
ConfirmedIsFlushed == misread = {}

=============================================================================
