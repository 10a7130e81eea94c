----------------------------- MODULE IpcStream -----------------------------
(***************************************************************************)
(* One IPC connection between a guest and its hotel: PhiloticClient's      *)
(* send_request, send_request_with_timeout and recv_task over one stream   *)
(* of frames that carries replies, pushed tasks and hotel-wide broadcasts  *)
(* and has no correlation ids.                                             *)
(*                                                                         *)
(* A request is a pair of a kind, which decides the frame it is answered   *)
(* with, and of how its caller bounds the wait: not at all ("forever"), by *)
(* the client itself ("timed"), or by dropping the future of send_request  *)
(* and going on with the same connection ("dropped").                      *)
(***************************************************************************)
EXTENDS Integers, Sequences

CONSTANTS
  Uses,     \* pairs of a kind and a wait that the guest's code has
  MaxReqs,  \* requests that may be sent
  MaxTasks, \* tasks that may be pushed
  MaxNews   \* broadcasts that may be sent

Kinds == {"plain", "lease", "memory"}
Waits == {"forever", "timed", "dropped"}

ASSUME StreamAssumption ==
  /\ Uses \subseteq Kinds \X Waits
  /\ MaxReqs \in Nat /\ MaxTasks \in Nat /\ MaxNews \in Nat

VARIABLES
  asked,   \* requests written so far, in order
  served,  \* how many of them the hotel has answered
  stream,  \* frames written by the hotel, not yet read by the client
  tasks,   \* tasks pushed so far
  news,    \* broadcasts sent so far
  waiting, \* a request is waiting for its reply: the last one written
  stale,   \* pending_stale_responses
  pending, \* pending_push
  taken,   \* tasks recv_task has handed to the guest
  read,    \* history: replies the client has read
  got      \* history: which request the reply handed to a request answers

hotelVars == <<served, tasks, news>>
clientVars == <<waiting, stale, pending, taken, read, got>>
vars == <<asked, stream, hotelVars, clientVars>>

\* The uses that the client's own discipline covers: plain requests, bounded by
\* send_request_with_timeout or not at all, and lease requests, which are never
\* bounded.  Not among them: RefreshMemoryConfig, and requests whose future a
\* caller drops under a timeout of its own while it keeps the connection, as
\* heal-dispatcher does with every cycle and model-router with its loads of
\* configuration and keys.
SafeUses == {<<"plain", "forever">>, <<"plain", "timed">>, <<"lease", "forever">>}

\* A frame: a reply of request no, a pushed task, or a broadcast.
Frame(class, no) == [class |-> class, no |-> no]

Classes == {"plain", "lease", "status", "task"}

\* Broadcasts have no number of their own.
IsReply(f) == f.class # "task" /\ f.no # 0

\* The frames a request may be answered with.  A refusal is a plain error;
\* RefreshMemoryConfig is answered with MuninnStatus, which is also broadcast.
Answers(kind) ==
  CASE kind = "plain" -> {"plain"}
    [] kind = "lease" -> {"plain", "lease"}
    [] OTHER -> {"status"}

Init ==
  /\ asked = <<>>
  /\ served = 0
  /\ stream = <<>>
  /\ tasks = 0
  /\ news = 0
  /\ waiting = FALSE
  /\ stale = 0
  /\ pending = <<>>
  /\ taken = <<>>
  /\ read = 0
  /\ got = <<>>

-----------------------------------------------------------------------------
(***************************************************************************)
(* Hotel                                                                   *)
(***************************************************************************)

\* The connection's handler serves requests in order, one reply each.
Serve ==
  /\ served < Len(asked)
  /\ served' = served + 1
  /\ \E class \in Answers(asked[served + 1][1]) :
       stream' = Append(stream, Frame(class, served + 1))
  /\ UNCHANGED <<asked, tasks, news, clientVars>>

PushTask ==
  /\ tasks < MaxTasks
  /\ tasks' = tasks + 1
  /\ stream' = Append(stream, Frame("task", tasks + 1))
  /\ UNCHANGED <<asked, served, news, clientVars>>

\* MuninnStatus and NetworkState are sent to every connection.
Broadcast ==
  /\ news < MaxNews
  /\ news' = news + 1
  /\ stream' = Append(stream, Frame("status", 0))
  /\ UNCHANGED <<asked, served, tasks, clientVars>>

-----------------------------------------------------------------------------
(***************************************************************************)
(* Client                                                                  *)
(***************************************************************************)

\* Mutant: no lease frame is taken for the reply of a lease request.
NeverExpected(kind, f) == FALSE

IsPushMessage(f) == f.class \in {"task", "status"}
IsIgnorablePush(f) == f.class \in {"lease", "status"}
IsExpectedResponse(kind, f) == kind = "lease" /\ f.class = "lease"

\* write_frame.
SendRequest(use) ==
  /\ ~ waiting
  /\ Len(asked) < MaxReqs
  /\ asked' = Append(asked, use)
  /\ waiting' = TRUE
  /\ got' = Append(got, 0)
  /\ UNCHANGED <<stream, hotelVars, stale, pending, taken, read>>

\* The client takes the first frame of the stream.
ReadFrame ==
  /\ stream # <<>>
  /\ stream' = Tail(stream)
  /\ read' = IF IsReply(Head(stream)) THEN read + 1 ELSE read

\* A stale reply is discarded, an ignorable frame is not taken for one.
DiscardStale(f) ==
  /\ stale > 0
  /\ stale' = IF IsIgnorablePush(f) THEN stale ELSE stale - 1

\* Mutant: owed replies are discarded before pushes are set aside.
ReadMatchingDiscardsFirst ==
  /\ waiting
  /\ ReadFrame
  /\ LET f == Head(stream) IN
     \/ /\ stale > 0
        /\ stale' = stale - 1
        /\ UNCHANGED <<pending, waiting, got>>
     \/ /\ stale = 0
        /\ IsPushMessage(f)
        /\ pending' = Append(pending, f)
        /\ UNCHANGED <<waiting, stale, got>>
     \/ /\ stale = 0
        /\ ~ IsPushMessage(f)
        /\ waiting' = FALSE
        /\ got' = [got EXCEPT ![Len(asked)] = f.no]
        /\ UNCHANGED <<stale, pending>>
  /\ UNCHANGED <<asked, hotelVars, taken>>

\* One round of read_matching_response.
ReadMatchingResponse ==
  /\ waiting
  /\ ReadFrame
  /\ LET f == Head(stream)
         kind == asked[Len(asked)][1] IN
     \/ /\ IsPushMessage(f)
        /\ pending' = Append(pending, f)
        /\ UNCHANGED <<waiting, stale, got>>
     \/ /\ ~ IsPushMessage(f)
        /\ DiscardStale(f)
        /\ UNCHANGED <<waiting, pending, got>>
     \/ /\ ~ IsPushMessage(f)
        /\ stale = 0
        /\ IsExpectedResponse(kind, f) \/ ~ IsIgnorablePush(f)
        /\ waiting' = FALSE
        /\ got' = [got EXCEPT ![Len(asked)] = f.no]
        /\ UNCHANGED <<stale, pending>>
     \/ /\ ~ IsPushMessage(f)
        /\ stale = 0
        /\ ~ IsExpectedResponse(kind, f) /\ IsIgnorablePush(f)
        /\ UNCHANGED <<waiting, stale, pending, got>>
  /\ UNCHANGED <<asked, hotelVars, taken>>

\* Mutant: the reply of a timed-out request is not written off.
TimeoutForgets ==
  /\ waiting
  /\ asked[Len(asked)][2] = "timed"
  /\ waiting' = FALSE
  /\ UNCHANGED <<asked, stream, hotelVars, stale, pending, taken, read, got>>

\* Mutant: a timed-out request is written off twice.
TimeoutTwice ==
  /\ waiting
  /\ asked[Len(asked)][2] = "timed"
  /\ waiting' = FALSE
  /\ stale' = stale + 2
  /\ UNCHANGED <<asked, stream, hotelVars, pending, taken, read, got>>

\* send_request_with_timeout elapses: one more reply is owed.
Timeout ==
  /\ waiting
  /\ asked[Len(asked)][2] = "timed"
  /\ waiting' = FALSE
  /\ stale' = stale + 1
  /\ UNCHANGED <<asked, stream, hotelVars, pending, taken, read, got>>

\* The caller drops the future of send_request and keeps the connection.
DropFuture ==
  /\ waiting
  /\ asked[Len(asked)][2] = "dropped"
  /\ waiting' = FALSE
  /\ UNCHANGED <<asked, stream, hotelVars, stale, pending, taken, read, got>>

\* What recv_task hands to the guest; only tasks are followed further.
Hand(f) == taken' = IF f.class = "task" THEN Append(taken, f.no) ELSE taken

\* recv_task returns a push that was set aside.
RecvPending ==
  /\ ~ waiting
  /\ pending # <<>>
  /\ pending' = Tail(pending)
  /\ Hand(Head(pending))
  /\ UNCHANGED <<asked, stream, hotelVars, waiting, stale, read, got>>

\* Mutant: recv_task skips an owed reply without counting it.
RecvTaskKeepsOwed ==
  /\ ~ waiting
  /\ pending = <<>>
  /\ ReadFrame
  /\ IF IsPushMessage(Head(stream)) THEN Hand(Head(stream)) ELSE UNCHANGED taken
  /\ UNCHANGED <<asked, hotelVars, waiting, stale, pending, got>>

\* One round of recv_task on the stream: a push is handed over, an owed reply
\* is discarded, an acknowledgement or a lease frame skipped, and any other
\* reply is reported as an error.
RecvTask ==
  /\ ~ waiting
  /\ pending = <<>>
  /\ ReadFrame
  /\ LET f == Head(stream) IN
     \/ IsPushMessage(f) /\ Hand(f) /\ UNCHANGED stale
     \/ ~ IsPushMessage(f) /\ DiscardStale(f) /\ UNCHANGED taken
     \/ ~ IsPushMessage(f) /\ stale = 0 /\ UNCHANGED <<stale, taken>>
  /\ UNCHANGED <<asked, hotelVars, waiting, pending, got>>

-----------------------------------------------------------------------------

Next ==
  \/ Serve \/ PushTask \/ Broadcast
  \/ \E use \in Uses : SendRequest(use)
  \/ ReadMatchingResponse \/ Timeout \/ DropFuture
  \/ RecvPending \/ RecvTask

Spec == Init /\ [][Next]_vars

\* The handler of the connection serves what it reads, and a client that waits
\* for a reply, or for a task, reads what arrives.
FairSpec ==
  /\ Spec
  /\ WF_vars(Serve)
  /\ WF_vars(ReadMatchingResponse)

-----------------------------------------------------------------------------
(***************************************************************************)
(* Properties                                                              *)
(***************************************************************************)

Frames == [class : Classes, no : Nat]

\* Frames, counters and queues have their types, and only pushes are set
\* aside in pending_push.
TypeOK ==
  /\ asked \in Seq(Uses)
  /\ served \in 0..Len(asked)
  /\ stream \in Seq(Frames)
  /\ tasks \in 0..MaxTasks
  /\ news \in 0..MaxNews
  /\ waiting \in BOOLEAN
  /\ waiting => asked # <<>>
  /\ stale \in 0..Len(asked)
  /\ pending \in Seq({f \in Frames : IsPushMessage(f)})
  /\ taken \in Seq(Nat)
  /\ read \in 0..served
  /\ got \in Seq(Nat) /\ Len(got) = Len(asked)

\* The guest has kept to the safe uses.
Safe == \A i \in 1..Len(asked) : asked[i] \in SafeUses

AllOwn == \A i \in DOMAIN got : got[i] \in {0, i}

\* A reply handed to a caller of send_request or send_request_with_timeout is
\* the reply of its own request, however many earlier requests timed out and
\* whatever tasks and broadcasts arrive in between.
OwnReply == Safe => AllOwn

OwedExactly == stale = Len(asked) - read - (IF waiting THEN 1 ELSE 0)

\* pending_stale_responses is exact: it counts the replies that are still to
\* come and that nobody waits for, so the client never discards a reply it
\* needs and never hands out one it does not.
StaleIsOwed == Safe => OwedExactly

IsTask(f) == f.class = "task"

\* The tasks among the frames q are those numbered k + 1 to n, each once and in
\* this order.
TasksBetween(q, k, n) ==
  /\ \A i \in DOMAIN q : IsTask(q[i]) => q[i].no \in (k + 1)..n
  /\ \A i, j \in DOMAIN q : i < j /\ IsTask(q[i]) /\ IsTask(q[j]) => q[i].no < q[j].no
  /\ \A m \in (k + 1)..n : \E i \in DOMAIN q : IsTask(q[i]) /\ q[i].no = m

\* Pushed tasks reach recv_task each once and in the order the hotel pushed
\* them, whichever call met them on the stream: none is lost to a discarded
\* reply, none overtakes another through pending_push.
TasksInOrder ==
  /\ taken = [i \in 1..Len(taken) |-> i]
  /\ Len(taken) <= tasks
  /\ TasksBetween(pending \o stream, Len(taken), tasks)

Replied(i) == i \in DOMAIN got /\ got[i] # 0

\* philotic-client lib.rs says that send_request waits "indefinitely for its
\* reply": a request whose caller sets no bound is answered in the end, after
\* any timeouts and though its reply may look like a broadcast.
Answered ==
  \A i \in 1..MaxReqs :
    (i \in DOMAIN asked /\ asked[i][2] = "forever" /\ Safe) ~> Replied(i)

\* lib.rs says of RefreshMemoryConfig that the hotel "Responds with
\* [`IpcResponse::MuninnStatus`]": its caller gets that response.
MemoryRefreshAnswered ==
  \A i \in 1..MaxReqs :
    (i \in DOMAIN asked /\ asked[i] = <<"memory", "forever">>) ~> Replied(i)

\* heal-dispatcher main.rs says that after a timeout "a late reply left in the
\* old socket would desync the length-prefix framing on the next read": so no
\* caller goes on with that connection and gets the reply of another request.
NoForeignReply == AllOwn

=============================================================================
