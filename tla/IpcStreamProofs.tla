--------------------------- MODULE IpcStreamProofs ---------------------------
(***************************************************************************)
(* Proofs about IpcStream, for every set of uses and every number of       *)
(* requests, tasks and broadcasts.  Type correctness and the order of the  *)
(* replies hold for all uses; that a caller gets its own reply holds for   *)
(* the safe ones.                                                          *)
(***************************************************************************)
EXTENDS IpcStream, TLAPS

-----------------------------------------------------------------------------
(***************************************************************************)
(* The invariant                                                           *)
(***************************************************************************)

\* A reply in the stream is numbered after the ones read and up to the last
\* one served, and has a class its request may be answered with.
RepliesAreServed ==
  \A i \in 1..Len(stream) :
    IsReply(stream[i]) =>
      /\ read < stream[i].no
      /\ stream[i].no <= served
      /\ stream[i].class \in Answers(asked[stream[i].no][1])

\* Replies are in the order of their requests.
RepliesInOrder ==
  \A i, j \in 1..Len(stream) :
    i < j /\ IsReply(stream[i]) /\ IsReply(stream[j]) => stream[i].no < stream[j].no

\* No reply is missing.
NoReplyMissing ==
  \A n \in (read + 1)..served :
    \E i \in 1..Len(stream) : IsReply(stream[i]) /\ stream[i].no = n

StreamInv == RepliesAreServed /\ RepliesInOrder /\ NoReplyMissing

\* What is not a reply is a push.
OthersArePushes ==
  \A i \in 1..Len(stream) : ~ IsReply(stream[i]) => IsPushMessage(stream[i])

\* A request is written off once at most, and not while it is waited for.
StaleBound == stale <= Len(asked) - (IF waiting THEN 1 ELSE 0)

BaseInv == TypeOK /\ StreamInv /\ OthersArePushes /\ StaleBound

\* A request that is never given up is the last one, and still waited for, as
\* long as its reply has not been read.
ForeverWaits ==
  \A n \in (read + 1)..Len(asked) :
    asked[n][2] = "forever" => n = Len(asked) /\ waiting

SafeInv == BaseInv /\ ForeverWaits /\ OwedExactly /\ AllOwn

-----------------------------------------------------------------------------
(***************************************************************************)
(* The stream                                                              *)
(***************************************************************************)

\* The first reply in the stream is the one after those already read.
LEMMA FirstReplyIsNext ==
  ASSUME TypeOK, StreamInv, stream # <<>>, IsReply(stream[1])
  PROVE  stream[1].no = read + 1 /\ read + 1 <= served
<1>1. Len(stream) \in Nat /\ 1 \in 1..Len(stream) /\ stream[1] \in Frames
  BY DEF TypeOK
<1>2. read \in Nat /\ served \in Nat /\ stream[1].no \in Nat
  BY <1>1 DEF TypeOK, Frames
<1>3. read < stream[1].no /\ stream[1].no <= served
  BY <1>1 DEF StreamInv, RepliesAreServed
<1>4. read + 1 \in (read + 1)..served
  BY <1>2, <1>3
<1>5. PICK i \in 1..Len(stream) : IsReply(stream[i]) /\ stream[i].no = read + 1
  BY <1>4 DEF StreamInv, NoReplyMissing
<1>6. CASE i = 1
  BY <1>2, <1>3, <1>5, <1>6
<1>7. CASE i # 1
  <2>1. stream[1].no < stream[i].no
    BY <1>1, <1>5, <1>7 DEF StreamInv, RepliesInOrder
  <2> QED BY <1>2, <1>3, <1>5, <2>1
<1> QED BY <1>6, <1>7

\* Reading a frame keeps the order and the completeness of the replies.
LEMMA ReadKeepsStream ==
  ASSUME TypeOK, StreamInv, OthersArePushes, ReadFrame, asked' = asked, served' = served
  PROVE  /\ StreamInv' /\ OthersArePushes'
         /\ stream' \in Seq(Frames)
         /\ read' \in 0..served'
<1> DEFINE n == Len(stream)
<1>1. n \in Nat /\ n >= 1 /\ stream \in Seq(Frames) /\ Head(stream) = stream[1]
  BY DEF TypeOK, ReadFrame
<1>2. /\ stream' \in Seq(Frames) /\ Len(stream') = n - 1
      /\ \A i \in 1..(n - 1) : stream'[i] = stream[i + 1]
  BY <1>1 DEF ReadFrame
<1>3. \A i \in 1..(n - 1) : i + 1 \in 1..n
  BY <1>1
<1>4. read \in Nat /\ served \in Nat /\ read <= served
  BY DEF TypeOK
<1>5. CASE IsReply(stream[1])
  <2>1. stream[1].no = read + 1 /\ read + 1 <= served
    BY <1>5, FirstReplyIsNext DEF ReadFrame
  <2>2. read' = read + 1
    BY <1>1, <1>5 DEF ReadFrame
  <2>3. RepliesAreServed'
    <3> SUFFICES ASSUME NEW i \in 1..(n - 1), IsReply(stream[i + 1])
                 PROVE  /\ read + 1 < stream[i + 1].no
                        /\ stream[i + 1].no <= served
                        /\ stream[i + 1].class \in Answers(asked[stream[i + 1].no][1])
      BY <1>2, <2>2 DEF RepliesAreServed
    <3>1. stream[1].no < stream[i + 1].no
      BY <1>1, <1>3, <1>5 DEF StreamInv, RepliesInOrder
    <3> QED BY <1>3, <2>1, <3>1 DEF StreamInv, RepliesAreServed
  <2>4. RepliesInOrder'
    <3> SUFFICES ASSUME NEW i \in 1..(n - 1), NEW j \in 1..(n - 1), i < j,
                        IsReply(stream[i + 1]), IsReply(stream[j + 1])
                 PROVE  stream[i + 1].no < stream[j + 1].no
      BY <1>2 DEF RepliesInOrder
    <3>1. i + 1 \in 1..n /\ j + 1 \in 1..n /\ i + 1 < j + 1
      BY <1>1
    <3> QED BY <3>1 DEF StreamInv, RepliesInOrder
  <2>5. NoReplyMissing'
    <3> SUFFICES ASSUME NEW m \in (read + 2)..served
                 PROVE  \E i \in 1..(n - 1) : IsReply(stream'[i]) /\ stream'[i].no = m
      BY <1>2, <1>4, <2>2 DEF NoReplyMissing
    <3>1. PICK j \in 1..n : IsReply(stream[j]) /\ stream[j].no = m
      BY <1>4 DEF StreamInv, NoReplyMissing
    <3>2. j # 1
      BY <1>4, <2>1, <3>1
    <3>3. j - 1 \in 1..(n - 1) /\ stream'[j - 1] = stream[j]
      BY <1>1, <1>2, <3>1, <3>2
    <3> QED BY <3>1, <3>3
  <2>6. OthersArePushes'
    BY <1>2, <1>3 DEF OthersArePushes
  <2> QED BY <1>2, <1>4, <2>1, <2>2, <2>3, <2>4, <2>5, <2>6 DEF StreamInv
<1>6. CASE ~ IsReply(stream[1])
  <2>1. read' = read
    BY <1>1, <1>6 DEF ReadFrame
  <2>2. RepliesAreServed'
    BY <1>2, <1>3, <2>1 DEF StreamInv, RepliesAreServed
  <2>3. RepliesInOrder'
    <3> SUFFICES ASSUME NEW i \in 1..(n - 1), NEW j \in 1..(n - 1), i < j,
                        IsReply(stream[i + 1]), IsReply(stream[j + 1])
                 PROVE  stream[i + 1].no < stream[j + 1].no
      BY <1>2 DEF RepliesInOrder
    <3>1. i + 1 \in 1..n /\ j + 1 \in 1..n /\ i + 1 < j + 1
      BY <1>1
    <3> QED BY <3>1 DEF StreamInv, RepliesInOrder
  <2>4. NoReplyMissing'
    <3> SUFFICES ASSUME NEW m \in (read + 1)..served
                 PROVE  \E i \in 1..(n - 1) : IsReply(stream'[i]) /\ stream'[i].no = m
      BY <1>2, <2>1 DEF NoReplyMissing
    <3>1. PICK j \in 1..n : IsReply(stream[j]) /\ stream[j].no = m
      BY DEF StreamInv, NoReplyMissing
    <3>2. j # 1
      BY <1>6, <3>1
    <3>3. j - 1 \in 1..(n - 1) /\ stream'[j - 1] = stream[j]
      BY <1>1, <1>2, <3>1, <3>2
    <3> QED BY <3>1, <3>3
  <2>5. OthersArePushes'
    BY <1>2, <1>3 DEF OthersArePushes
  <2> QED BY <1>2, <1>4, <2>1, <2>2, <2>3, <2>4, <2>5 DEF StreamInv
<1> QED BY <1>5, <1>6

\* Writing a reply keeps them too.
LEMMA ServeKeepsStream ==
  ASSUME TypeOK, StreamInv, OthersArePushes, Serve
  PROVE  StreamInv' /\ OthersArePushes' /\ stream' \in Seq(Frames)
<1> DEFINE n == Len(stream)
<1>1. PICK class \in Answers(asked[served + 1][1]) :
        stream' = Append(stream, Frame(class, served + 1))
  BY DEF Serve
<1>2. /\ n \in Nat /\ stream \in Seq(Frames) /\ served \in Nat /\ read \in Nat
      /\ read <= served
  BY DEF TypeOK
<1>3. class \in {"plain", "lease", "status"}
  BY <1>1 DEF Answers
<1> DEFINE f == Frame(class, served + 1)
<1>4. f \in Frames /\ IsReply(f) /\ f.no = served + 1 /\ f.class = class
  BY <1>2, <1>3 DEF Frame, Frames, Classes, IsReply
<1>5. /\ stream' \in Seq(Frames) /\ Len(stream') = n + 1
      /\ \A i \in 1..n : stream'[i] = stream[i]
      /\ stream'[n + 1] = f
  BY <1>1, <1>2, <1>4
<1>6. served' = served + 1 /\ read' = read /\ asked' = asked
  BY DEF Serve, clientVars
<1> HIDE DEF f
<1>7. RepliesAreServed'
  <2> SUFFICES ASSUME NEW i \in 1..(n + 1), IsReply(stream'[i])
               PROVE  /\ read < stream'[i].no
                      /\ stream'[i].no <= served + 1
                      /\ stream'[i].class \in Answers(asked[stream'[i].no][1])
    BY <1>5, <1>6 DEF RepliesAreServed
  <2>1. CASE i \in 1..n
    <3>0. stream[i] \in Frames
      BY <1>2, <2>1
    <3>1. stream[i].no \in Nat
      BY <3>0 DEF Frames
    <3> QED BY <1>2, <1>5, <2>1, <3>1 DEF StreamInv, RepliesAreServed
  <2>2. CASE i = n + 1
    BY <1>1, <1>2, <1>4, <1>5, <2>2
  <2> QED BY <1>2, <2>1, <2>2
<1>8. RepliesInOrder'
  <2> SUFFICES ASSUME NEW i \in 1..(n + 1), NEW j \in 1..(n + 1), i < j,
                      IsReply(stream'[i]), IsReply(stream'[j])
               PROVE  stream'[i].no < stream'[j].no
    BY <1>5 DEF RepliesInOrder
  <2>1. i \in 1..n
    BY <1>2
  <2>2. CASE j \in 1..n
    BY <1>5, <2>1, <2>2 DEF StreamInv, RepliesInOrder
  <2>3. CASE j = n + 1
    <3>0. stream[i] \in Frames
      BY <1>2, <2>1
    <3>1. stream[i].no \in Nat
      BY <3>0 DEF Frames
    <3>2. stream[i].no <= served
      BY <1>5, <2>1 DEF StreamInv, RepliesAreServed
    <3> QED BY <1>2, <1>4, <1>5, <2>1, <2>3, <3>1, <3>2
  <2> QED BY <1>2, <2>2, <2>3
<1>9. NoReplyMissing'
  <2> SUFFICES ASSUME NEW m \in (read + 1)..(served + 1)
               PROVE  \E i \in 1..(n + 1) : IsReply(stream'[i]) /\ stream'[i].no = m
    BY <1>5, <1>6 DEF NoReplyMissing
  <2>1. CASE m = served + 1
    <3>1. n + 1 \in 1..(n + 1)
      BY <1>2
    <3> QED BY <1>4, <1>5, <2>1, <3>1
  <2>2. CASE m # served + 1
    <3>1. PICK i \in 1..n : IsReply(stream[i]) /\ stream[i].no = m
      BY <1>2, <2>2 DEF StreamInv, NoReplyMissing
    <3>2. i \in 1..(n + 1)
      BY <1>2
    <3>3. stream'[i] = stream[i]
      BY <1>5
    <3>4. IsReply(stream'[i]) /\ stream'[i].no = m
      BY <3>1, <3>3, Zenon
    <3> QED BY <3>2, <3>4, Zenon
  <2> QED BY <2>1, <2>2
<1>10. OthersArePushes'
  BY <1>2, <1>4, <1>5 DEF OthersArePushes
<1> QED BY <1>5, <1>7, <1>8, <1>9, <1>10 DEF StreamInv

\* Writing a push keeps them.
LEMMA PushKeepsStream ==
  ASSUME TypeOK, StreamInv, OthersArePushes, NEW f \in Frames, ~ IsReply(f), IsPushMessage(f),
         stream' = Append(stream, f),
         asked' = asked, served' = served, read' = read
  PROVE  StreamInv' /\ OthersArePushes' /\ stream' \in Seq(Frames)
<1> DEFINE n == Len(stream)
<1>1. n \in Nat /\ stream \in Seq(Frames) /\ served \in Nat /\ read \in Nat
  BY DEF TypeOK
<1>2. /\ stream' \in Seq(Frames) /\ Len(stream') = n + 1
      /\ \A i \in 1..n : stream'[i] = stream[i]
      /\ stream'[n + 1] = f
  BY <1>1
<1>3. \A i \in 1..(n + 1) : IsReply(stream'[i]) => i \in 1..n
  BY <1>1, <1>2
<1>4. RepliesAreServed'
  BY <1>2, <1>3 DEF StreamInv, RepliesAreServed
<1>5. RepliesInOrder'
  BY <1>2, <1>3 DEF StreamInv, RepliesInOrder
<1>6. NoReplyMissing'
  <2> SUFFICES ASSUME NEW m \in (read + 1)..served
               PROVE  \E i \in 1..(n + 1) : IsReply(stream'[i]) /\ stream'[i].no = m
    BY <1>2 DEF NoReplyMissing
  <2>1. PICK i \in 1..n : IsReply(stream[i]) /\ stream[i].no = m
    BY DEF StreamInv, NoReplyMissing
  <2>2. i \in 1..(n + 1)
    BY <1>1
  <2> QED BY <1>2, <2>1, <2>2
<1>7. OthersArePushes'
  BY <1>1, <1>2 DEF OthersArePushes
<1> QED BY <1>2, <1>4, <1>5, <1>6, <1>7 DEF StreamInv

-----------------------------------------------------------------------------
(***************************************************************************)
(* All uses                                                                *)
(***************************************************************************)

LEMMA InitBase == Init => BaseInv
<1> SUFFICES ASSUME Init PROVE BaseInv
  OBVIOUS
<1>1. TypeOK
  <2>1. \A S : <<>> \in Seq(S) /\ Len(<<>>) = 0
    OBVIOUS
  <2>2. 0 \in 0..MaxTasks /\ 0 \in 0..MaxNews /\ 0 \in 0..0
    BY StreamAssumption
  <2> QED BY <2>1, <2>2 DEF Init, TypeOK
<1>2. Len(stream) = 0 /\ Len(asked) = 0 /\ read = 0 /\ served = 0 /\ stale = 0 /\ ~ waiting
  BY DEF Init
<1>3. 1..Len(stream) = {} /\ (read + 1)..served = {}
  BY <1>2
<1>4. StreamInv /\ OthersArePushes
  BY <1>3 DEF StreamInv, RepliesAreServed, RepliesInOrder, NoReplyMissing, OthersArePushes
<1>5. StaleBound
  BY <1>2 DEF StaleBound
<1> QED BY <1>1, <1>4, <1>5 DEF BaseInv

\* Appending a number to a sequence of numbers (a task handed to the guest).
LEMMA AppendSeq == \A q \in Seq(Nat), n \in Nat : Append(q, n) \in Seq(Nat)
  OBVIOUS

\* Overwriting an entry of a sequence of numbers leaves one of the same length
\* (the reply recorded for a request).
LEMMA ExceptSeq ==
  ASSUME NEW q \in Seq(Nat), NEW i, NEW n \in Nat
  PROVE  /\ [q EXCEPT ![i] = n] \in Seq(Nat)
         /\ Len([q EXCEPT ![i] = n]) = Len(q)
<1>1. q \in [1..Len(q) -> Nat] /\ Len(q) \in Nat
  OBVIOUS
<1>2. [q EXCEPT ![i] = n] \in [1..Len(q) -> Nat]
  BY <1>1
<1> QED BY <1>1, <1>2

LEMMA NextBase == BaseInv /\ [Next]_vars => BaseInv'
<1> SUFFICES ASSUME BaseInv, [Next]_vars PROVE BaseInv'
  OBVIOUS
<1> USE StreamAssumption
<1> DEFINE Pushes == {f \in Frames : IsPushMessage(f)}
<1>1. TypeOK /\ StreamInv /\ OthersArePushes /\ StaleBound
  BY DEF BaseInv
<1>2. stream # <<>> =>
        /\ Head(stream) = stream[1] /\ stream[1] \in Frames /\ stream[1].no \in Nat
        /\ IsPushMessage(stream[1]) => Append(pending, stream[1]) \in Seq(Pushes)
  <2> SUFFICES ASSUME stream # <<>>
               PROVE  /\ Head(stream) = stream[1] /\ stream[1] \in Frames /\ stream[1].no \in Nat
                      /\ IsPushMessage(stream[1]) => Append(pending, stream[1]) \in Seq(Pushes)
    OBVIOUS
  <2>1. Head(stream) = stream[1] /\ stream[1] \in Frames
    BY <1>1 DEF TypeOK
  <2>2. stream[1].no \in Nat
    BY <2>1 DEF Frames
  <2>3. IsPushMessage(stream[1]) => Append(pending, stream[1]) \in Seq(Pushes)
    BY <1>1, <2>1 DEF TypeOK
  <2> QED BY <2>1, <2>2, <2>3
<1>3. CASE Serve
  <2>1. StreamInv' /\ OthersArePushes' /\ stream' \in Seq(Frames)
    BY <1>1, <1>3, ServeKeepsStream
  <2>2. TypeOK'
    BY <1>1, <1>3, <2>1 DEF TypeOK, Serve, clientVars
  <2> QED BY <1>1, <1>3, <2>1, <2>2 DEF BaseInv, StaleBound, Serve, clientVars
<1>4. CASE PushTask
  <2>1. Frame("task", tasks + 1) \in Frames /\ ~ IsReply(Frame("task", tasks + 1))
        /\ IsPushMessage(Frame("task", tasks + 1))
    BY <1>1 DEF Frame, Frames, Classes, IsReply, IsPushMessage, TypeOK
  <2>2. StreamInv' /\ OthersArePushes' /\ stream' \in Seq(Frames)
    BY <1>1, <1>4, <2>1, PushKeepsStream DEF PushTask, clientVars
  <2>3. TypeOK'
    BY <1>1, <1>4, <2>2 DEF TypeOK, PushTask, clientVars
  <2> QED BY <1>1, <1>4, <2>2, <2>3 DEF BaseInv, StaleBound, PushTask, clientVars
<1>5. CASE Broadcast
  <2>1. Frame("status", 0) \in Frames /\ ~ IsReply(Frame("status", 0))
        /\ IsPushMessage(Frame("status", 0))
    BY DEF Frame, Frames, Classes, IsReply, IsPushMessage
  <2>2. StreamInv' /\ OthersArePushes' /\ stream' \in Seq(Frames)
    BY <1>1, <1>5, <2>1, PushKeepsStream DEF Broadcast, clientVars
  <2>3. TypeOK'
    BY <1>1, <1>5, <2>2 DEF TypeOK, Broadcast, clientVars
  <2> QED BY <1>1, <1>5, <2>2, <2>3 DEF BaseInv, StaleBound, Broadcast, clientVars
<1>6. ASSUME NEW use \in Uses, SendRequest(use) PROVE BaseInv'
  <2>1. /\ asked' = Append(asked, use) /\ asked \in Seq(Uses)
        /\ Len(asked') = Len(asked) + 1 /\ Len(asked) \in Nat
        /\ \A k \in 1..Len(asked) : asked'[k] = asked[k]
    BY <1>1, <1>6 DEF SendRequest, TypeOK
  <2>2. TypeOK'
    <3>1. got' \in Seq(Nat) /\ Len(got') = Len(got) + 1
      <4>1. got \in Seq(Nat) /\ got' = Append(got, 0)
        BY <1>1, <1>6 DEF TypeOK, SendRequest
      <4> QED BY <4>1
    <3>2. asked' \in Seq(Uses) /\ asked' # <<>>
      BY <2>1
    <3>3. served \in 0..Len(asked') /\ stale \in 0..Len(asked')
      BY <1>1, <2>1 DEF TypeOK
    <3> QED BY <1>1, <1>6, <2>1, <3>1, <3>2, <3>3 DEF TypeOK, SendRequest, hotelVars
  <2>3. /\ stream' = stream /\ served' = served /\ read' = read
        /\ stale' = stale /\ waiting' = TRUE /\ ~ waiting
    BY <1>6 DEF SendRequest, hotelVars
  <2>4. RepliesAreServed'
    <3> SUFFICES ASSUME NEW i \in 1..Len(stream), IsReply(stream[i])
                 PROVE  /\ read < stream[i].no
                        /\ stream[i].no <= served
                        /\ stream[i].class \in Answers(asked'[stream[i].no][1])
      BY <2>3 DEF RepliesAreServed
    <3>1. /\ read < stream[i].no /\ stream[i].no <= served
          /\ stream[i].class \in Answers(asked[stream[i].no][1])
      BY <1>1 DEF StreamInv, RepliesAreServed
    <3>2. stream[i] \in Frames
      BY <1>1 DEF TypeOK
    <3>3. stream[i].no \in Nat
      BY <3>2 DEF Frames
    <3>4. stream[i].no \in 1..Len(asked)
      BY <1>1, <2>1, <3>1, <3>3 DEF TypeOK
    <3> QED BY <2>1, <3>1, <3>4
  <2>5. StreamInv' /\ OthersArePushes'
    BY <1>1, <2>3, <2>4
    DEF StreamInv, RepliesInOrder, NoReplyMissing, OthersArePushes
  <2>6. StaleBound'
    BY <1>1, <2>1, <2>3 DEF StaleBound, TypeOK
  <2> QED BY <2>2, <2>5, <2>6 DEF BaseInv
<1>7. CASE ReadMatchingResponse
  <2>1. stream # <<>> /\ ReadFrame /\ asked' = asked /\ served' = served
        /\ tasks' = tasks /\ news' = news /\ taken' = taken /\ waiting
    BY <1>7 DEF ReadMatchingResponse, ReadFrame, hotelVars
  <2>2. StreamInv' /\ OthersArePushes' /\ stream' \in Seq(Frames) /\ read' \in 0..served'
    BY <1>1, <2>1, ReadKeepsStream
  <2>3. pending' \in Seq(Pushes)
    BY <1>1, <1>2, <1>7, <2>1 DEF ReadMatchingResponse, TypeOK
  <2>4. stale' \in Nat /\ stale' <= stale
    <3>1. stale' = stale \/ (stale > 0 /\ stale' = stale - 1)
      BY <1>7 DEF ReadMatchingResponse, DiscardStale
    <3> QED BY <1>1, <3>1 DEF TypeOK
  <2>5. waiting' \in BOOLEAN
    BY <1>1, <1>7 DEF ReadMatchingResponse, TypeOK
  <2>6. got' \in Seq(Nat) /\ Len(got') = Len(got)
    <3>1. got' = got \/ got' = [got EXCEPT ![Len(asked)] = stream[1].no]
      BY <1>2, <1>7, <2>1 DEF ReadMatchingResponse
    <3>2. got \in Seq(Nat)
      BY <1>1 DEF TypeOK
    <3>3. stream[1].no \in Nat
      BY <1>2, <2>1
    <3> QED BY <3>1, <3>2, <3>3, ExceptSeq
  <2>7. TypeOK'
    BY <1>1, <2>1, <2>2, <2>3, <2>4, <2>5, <2>6 DEF TypeOK
  <2>8. StaleBound'
    BY <1>1, <2>1, <2>4 DEF StaleBound, TypeOK
  <2> QED BY <2>2, <2>7, <2>8 DEF BaseInv
<1>8. CASE Timeout \/ DropFuture
  <2>1. /\ UNCHANGED <<asked, stream, served, tasks, news, pending, taken, read, got>>
        /\ waiting /\ waiting' = FALSE /\ stale' \in {stale, stale + 1}
    BY <1>8 DEF Timeout, DropFuture, hotelVars
  <2>2. TypeOK' /\ StaleBound'
    <3>1. Len(asked) \in Nat /\ stale \in Nat /\ stale + 1 <= Len(asked)
      BY <1>1, <2>1 DEF TypeOK, StaleBound
    <3>2. stale' \in 0..Len(asked) /\ StaleBound'
      BY <2>1, <3>1 DEF StaleBound
    <3> QED BY <1>1, <2>1, <3>2 DEF TypeOK
  <2>3. StreamInv' /\ OthersArePushes'
    BY <1>1, <2>1
    DEF StreamInv, RepliesAreServed, RepliesInOrder, NoReplyMissing, OthersArePushes
  <2> QED BY <2>2, <2>3 DEF BaseInv
<1>9. CASE RecvPending
  <2>1. /\ UNCHANGED <<asked, stream, served, tasks, news, waiting, stale, read, got>>
        /\ pending # <<>> /\ pending' = Tail(pending) /\ Hand(Head(pending))
    BY <1>9 DEF RecvPending, hotelVars
  <2>2. Head(pending) \in Frames /\ pending' \in Seq(Pushes)
    BY <1>1, <2>1 DEF TypeOK
  <2>3. taken' \in Seq(Nat)
    <3>1. Head(pending).no \in Nat
      BY <2>2 DEF Frames
    <3> QED BY <1>1, <2>1, <3>1 DEF Hand, TypeOK
  <2>4. TypeOK' /\ StaleBound'
    BY <1>1, <2>1, <2>2, <2>3 DEF TypeOK, StaleBound
  <2>5. StreamInv' /\ OthersArePushes'
    BY <1>1, <2>1
    DEF StreamInv, RepliesAreServed, RepliesInOrder, NoReplyMissing, OthersArePushes
  <2> QED BY <2>4, <2>5 DEF BaseInv
<1>10. CASE RecvTask
  <2>1. stream # <<>> /\ ReadFrame
        /\ UNCHANGED <<asked, served, tasks, news, waiting, pending, got>> /\ ~ waiting
    BY <1>10 DEF RecvTask, ReadFrame, hotelVars
  <2>2. StreamInv' /\ OthersArePushes' /\ stream' \in Seq(Frames) /\ read' \in 0..served'
    BY <1>1, <2>1, ReadKeepsStream
  <2>3. stale' \in Nat /\ stale' <= stale
    BY <1>1, <1>10 DEF RecvTask, DiscardStale, TypeOK
  <2>4. taken' \in Seq(Nat)
    <3>1. taken' = taken \/ taken' = Append(taken, stream[1].no)
      BY <1>2, <1>10, <2>1 DEF RecvTask, Hand
    <3>2. taken \in Seq(Nat)
      BY <1>1 DEF TypeOK
    <3>3. stream[1].no \in Nat
      BY <1>2, <2>1
    <3>4. Append(taken, stream[1].no) \in Seq(Nat)
      BY <3>2, <3>3, AppendSeq
    <3> QED BY <3>1, <3>2, <3>4, Zenon
  <2>5. TypeOK' /\ StaleBound'
    BY <1>1, <2>1, <2>2, <2>3, <2>4 DEF TypeOK, StaleBound
  <2> QED BY <2>2, <2>5 DEF BaseInv
<1>11. CASE UNCHANGED vars
  BY <1>1, <1>11
  DEF BaseInv, TypeOK, StreamInv, RepliesAreServed, RepliesInOrder, NoReplyMissing,
      OthersArePushes, StaleBound, vars, hotelVars, clientVars
<1> QED
  BY <1>3, <1>4, <1>5, <1>6, <1>7, <1>8, <1>9, <1>10, <1>11 DEF Next

\* The types of IpcStream hold whatever requests the guest sends and however
\* their callers wait: in particular the client never reads more replies than
\* the hotel has served.
THEOREM TypeCorrect == Spec => []TypeOK
<1>1. Init => BaseInv
  BY InitBase
<1>2. BaseInv /\ [Next]_vars => BaseInv'
  BY NextBase
<1>3. BaseInv => TypeOK
  BY DEF BaseInv
<1> QED BY <1>1, <1>2, <1>3, PTL DEF Spec

-----------------------------------------------------------------------------
(***************************************************************************)
(* Safe uses                                                               *)
(***************************************************************************)

\* The next reply, when the guest keeps to the safe uses, is no push, and a
\* lease reply is the one the client is waiting for.
LEMMA NextReply ==
  ASSUME Safe, SafeInv, stream # <<>>, IsReply(stream[1])
  PROVE  /\ stream[1].no = read + 1
         /\ read + 1 \in 1..Len(asked)
         /\ ~ IsPushMessage(stream[1])
         /\ IsIgnorablePush(stream[1]) =>
              /\ waiting /\ read + 1 = Len(asked)
              /\ IsExpectedResponse(asked[read + 1][1], stream[1])
<1>1. TypeOK /\ StreamInv
  BY DEF SafeInv, BaseInv
<1>2. stream[1].no = read + 1 /\ read + 1 <= served
  BY <1>1, FirstReplyIsNext
<1>3. read \in Nat /\ served \in Nat /\ Len(asked) \in Nat /\ served <= Len(asked)
  BY <1>1 DEF TypeOK
<1>4. read + 1 \in 1..Len(asked)
  BY <1>2, <1>3
<1>5. asked[read + 1] \in SafeUses
  BY <1>4 DEF Safe
<1>6. stream[1].class \in Answers(asked[read + 1][1])
  <2>1. 1 \in 1..Len(stream)
    BY <1>1 DEF TypeOK
  <2> QED BY <1>1, <1>2, <2>1 DEF StreamInv, RepliesAreServed
<1>7. stream[1].class = "plain"
      \/ (stream[1].class = "lease" /\ asked[read + 1] = <<"lease", "forever">>)
  BY <1>5, <1>6 DEF SafeUses, Answers
<1>8. asked[read + 1] = <<"lease", "forever">> => waiting /\ read + 1 = Len(asked)
  BY <1>3, <1>4 DEF SafeInv, ForeverWaits
<1> QED BY <1>2, <1>4, <1>7, <1>8 DEF IsPushMessage, IsIgnorablePush, IsExpectedResponse

LEMMA InitSafe == Init => SafeInv
<1> SUFFICES ASSUME Init PROVE SafeInv
  OBVIOUS
<1>1. /\ Len(asked) = 0 /\ read = 0 /\ stale = 0 /\ ~ waiting
      /\ DOMAIN got = {}
  BY DEF Init
<1>2. (read + 1)..Len(asked) = {}
  BY <1>1
<1>3. ForeverWaits
  BY <1>2 DEF ForeverWaits
<1>4. OwedExactly
  <2>1. (IF waiting THEN 1 ELSE 0) = 0
    BY <1>1
  <2>2. Len(asked) - read - 0 = 0
    BY <1>1
  <2> QED BY <1>1, <2>1, <2>2 DEF OwedExactly
<1>5. AllOwn
  BY <1>1 DEF AllOwn
<1> QED BY <1>3, <1>4, <1>5, InitBase DEF SafeInv

LEMMA NextSafe ==
  ASSUME Safe
  PROVE  SafeInv /\ [Next]_vars => SafeInv'
<1> SUFFICES ASSUME SafeInv, [Next]_vars PROVE SafeInv'
  OBVIOUS
<1>1. BaseInv /\ TypeOK /\ OthersArePushes /\ ForeverWaits /\ OwedExactly /\ AllOwn
  BY DEF SafeInv, BaseInv
<1>2. BaseInv'
  BY <1>1, NextBase
<1>3. Len(asked) \in Nat /\ read \in Nat /\ stale \in Nat /\ read <= Len(asked)
  BY <1>1 DEF TypeOK
<1>13. got \in Seq(Nat) /\ Len(got) = Len(asked) /\ DOMAIN got = 1..Len(asked)
  BY <1>1 DEF TypeOK
<1>4. stream # <<>> => Head(stream) = stream[1] /\ 1 \in 1..Len(stream)
  BY <1>1 DEF TypeOK
<1>5. ASSUME UNCHANGED <<asked, waiting, stale, read, got>> PROVE SafeInv'
  BY <1>1, <1>2, <1>5 DEF SafeInv, ForeverWaits, OwedExactly, AllOwn
<1>6. CASE Serve \/ PushTask \/ Broadcast \/ RecvPending
  BY <1>5, <1>6 DEF Serve, PushTask, Broadcast, RecvPending, clientVars
<1>7. ASSUME NEW use \in Uses, SendRequest(use) PROVE SafeInv'
  <2>1. /\ asked' = Append(asked, use) /\ got' = Append(got, 0)
        /\ ~ waiting /\ waiting' = TRUE /\ stale' = stale /\ read' = read
    BY <1>7 DEF SendRequest
  <2>2. /\ Len(asked') = Len(asked) + 1
        /\ \A k \in 1..Len(asked) : asked'[k] = asked[k]
    BY <1>1, <2>1 DEF TypeOK
  <2>3. ForeverWaits'
    <3> SUFFICES ASSUME NEW n \in (read + 1)..(Len(asked) + 1), asked'[n][2] = "forever"
                 PROVE  n = Len(asked) + 1
      BY <2>1, <2>2 DEF ForeverWaits
    <3>1. ASSUME n # Len(asked) + 1 PROVE FALSE
      <4>1. n \in (read + 1)..Len(asked) /\ n \in 1..Len(asked)
        BY <1>3, <3>1
      <4>2. asked[n][2] = "forever"
        BY <2>2, <4>1
      <4> QED BY <1>1, <2>1, <4>1, <4>2 DEF ForeverWaits
    <3> QED BY <3>1
  <2>4. OwedExactly'
    BY <1>1, <1>3, <2>1, <2>2 DEF OwedExactly
  <2>5. AllOwn'
    <3>1. /\ Len(got') = Len(got) + 1
          /\ \A k \in 1..Len(got) : got'[k] = got[k]
          /\ got'[Len(got) + 1] = 0
          /\ DOMAIN got' = 1..(Len(got) + 1)
      BY <1>13, <2>1
    <3> QED BY <1>1, <1>3, <1>13, <3>1 DEF AllOwn
  <2> QED BY <1>2, <2>3, <2>4, <2>5 DEF SafeInv
<1>8. CASE ReadMatchingResponse
  <2>1. stream # <<>> /\ ReadFrame /\ asked' = asked /\ waiting
    BY <1>8 DEF ReadMatchingResponse, ReadFrame
  <2>2. CASE ~ IsReply(stream[1])
    <3>1. IsPushMessage(stream[1])
      BY <1>1, <1>4, <2>1, <2>2 DEF OthersArePushes
    <3>2. UNCHANGED <<asked, waiting, stale, read, got>>
      BY <1>4, <1>8, <2>1, <2>2, <3>1 DEF ReadMatchingResponse, ReadFrame
    <3> QED BY <1>5, <3>2
  <2>3. CASE IsReply(stream[1])
    <3>1. /\ stream[1].no = read + 1
          /\ read + 1 \in 1..Len(asked)
          /\ ~ IsPushMessage(stream[1])
          /\ IsIgnorablePush(stream[1]) =>
               /\ waiting /\ read + 1 = Len(asked)
               /\ IsExpectedResponse(asked[read + 1][1], stream[1])
      BY <2>1, <2>3, NextReply
    <3>2. read' = read + 1
      BY <1>4, <2>1, <2>3 DEF ReadFrame
    <3>3. stale = Len(asked) - read - 1
      BY <1>1, <2>1 DEF OwedExactly
    <3>4. CASE stale > 0
      <4>6. stale # 0 /\ Head(stream) = stream[1]
        BY <1>3, <1>4, <2>1, <3>4
      <4>7. \/ DiscardStale(Head(stream)) /\ UNCHANGED <<waiting, pending, got>>
            \/ IsPushMessage(Head(stream))
            \/ stale = 0
        BY <1>8 DEF ReadMatchingResponse
      <4>8. DiscardStale(stream[1]) /\ UNCHANGED <<waiting, pending, got>>
        BY <3>1, <4>6, <4>7
      <4>1. waiting' = waiting /\ got' = got /\ DiscardStale(stream[1])
        BY <4>8
      <4>2. stale' = stale - 1
        BY <1>3, <3>1, <3>3, <3>4, <4>1 DEF DiscardStale
      <4>3. OwedExactly'
        BY <1>3, <2>1, <3>2, <3>3, <4>1, <4>2 DEF OwedExactly
      <4>4. ForeverWaits'
        <5>1. \A n \in (read + 2)..Len(asked) : n \in (read + 1)..Len(asked)
          BY <1>3
        <5> QED BY <1>1, <2>1, <3>2, <4>1, <5>1 DEF ForeverWaits
      <4>5. AllOwn'
        BY <1>1, <4>1 DEF AllOwn
      <4> QED BY <1>2, <4>3, <4>4, <4>5 DEF SafeInv
    <3>5. CASE ~ (stale > 0)
      <4>1. stale = 0 /\ read + 1 = Len(asked)
        BY <1>3, <3>3, <3>5
      <4>2. /\ waiting' = FALSE /\ stale' = stale
            /\ got' = [got EXCEPT ![Len(asked)] = stream[1].no]
        BY <1>4, <1>8, <2>1, <3>1, <3>5, <4>1 DEF ReadMatchingResponse, DiscardStale
      <4>3. OwedExactly'
        BY <1>3, <2>1, <3>2, <4>1, <4>2 DEF OwedExactly
      <4>4. ForeverWaits'
        <5>1. (read' + 1)..Len(asked') = {}
          BY <1>3, <2>1, <3>2, <4>1
        <5> QED BY <5>1 DEF ForeverWaits
      <4>5. AllOwn'
        BY <1>1, <1>13, <3>1, <4>1, <4>2 DEF AllOwn
      <4> QED BY <1>2, <4>3, <4>4, <4>5 DEF SafeInv
    <3> QED BY <3>4, <3>5
  <2> QED BY <2>2, <2>3
<1>9. CASE Timeout
  <2>1. /\ waiting /\ waiting' = FALSE /\ stale' = stale + 1
        /\ UNCHANGED <<asked, read, got>>
        /\ asked[Len(asked)][2] = "timed"
    BY <1>9 DEF Timeout
  <2>2. OwedExactly'
    BY <1>1, <1>3, <2>1 DEF OwedExactly
  <2>3. ForeverWaits'
    BY <1>1, <1>3, <2>1 DEF ForeverWaits
  <2> QED BY <1>1, <1>2, <2>1, <2>2, <2>3 DEF SafeInv, AllOwn
<1>10. CASE DropFuture
  <2>1. waiting /\ asked[Len(asked)][2] = "dropped"
    BY <1>10 DEF DropFuture
  <2>2. Len(asked) \in 1..Len(asked) /\ asked[Len(asked)] \in SafeUses
    BY <1>1, <2>1 DEF TypeOK, Safe
  <2> QED BY <2>1, <2>2 DEF SafeUses
<1>11. CASE RecvTask
  <2>1. /\ stream # <<>> /\ ReadFrame
        /\ UNCHANGED <<asked, waiting, got>> /\ ~ waiting
    BY <1>11 DEF RecvTask, ReadFrame
  <2>2. CASE ~ IsReply(stream[1])
    <3>1. IsPushMessage(stream[1])
      BY <1>1, <1>4, <2>1, <2>2 DEF OthersArePushes
    <3>2. UNCHANGED <<asked, waiting, stale, read, got>>
      BY <1>4, <1>11, <2>1, <2>2, <3>1 DEF RecvTask, ReadFrame
    <3> QED BY <1>5, <3>2
  <2>3. CASE IsReply(stream[1])
    <3>1. /\ read + 1 \in 1..Len(asked)
          /\ ~ IsPushMessage(stream[1]) /\ ~ IsIgnorablePush(stream[1])
      BY <2>1, <2>3, NextReply
    <3>2. read' = read + 1
      BY <1>4, <2>1, <2>3 DEF ReadFrame
    <3>3. stale = Len(asked) - read /\ stale > 0
      BY <1>1, <1>3, <2>1, <3>1 DEF OwedExactly
    <3>4. stale' = stale - 1
      BY <1>4, <1>11, <2>1, <3>1, <3>3 DEF RecvTask, DiscardStale
    <3>5. OwedExactly'
      BY <1>3, <2>1, <3>2, <3>3, <3>4 DEF OwedExactly
    <3>6. ForeverWaits'
      <4>1. \A n \in (read' + 1)..Len(asked) : n \in (read + 1)..Len(asked)
        BY <1>3, <3>2
      <4> QED BY <1>1, <2>1, <4>1 DEF ForeverWaits
    <3> QED BY <1>1, <1>2, <2>1, <3>5, <3>6 DEF SafeInv, AllOwn
  <2> QED BY <2>2, <2>3
<1>12. CASE UNCHANGED vars
  BY <1>5, <1>12 DEF vars, clientVars
<1> QED
  BY <1>6, <1>7, <1>8, <1>9, <1>10, <1>11, <1>12 DEF Next

\* Requests are only added.
LEMMA SafeBefore ==
  ASSUME TypeOK, [Next]_vars, Safe'
  PROVE  Safe
<1>1. CASE asked' = asked
  BY <1>1 DEF Safe
<1>2. ASSUME NEW use \in Uses, SendRequest(use) PROVE Safe
  <2>1. /\ Len(asked') = Len(asked) + 1
        /\ \A k \in 1..Len(asked) : asked'[k] = asked[k]
    BY <1>2 DEF TypeOK, SendRequest
  <2>2. Len(asked) \in Nat
    BY DEF TypeOK
  <2> QED BY <2>1, <2>2 DEF Safe
<1> QED
  BY <1>1, <1>2 DEF Next, Serve, PushTask, Broadcast, ReadMatchingResponse, Timeout,
     DropFuture, RecvPending, RecvTask, vars

\* BaseInv throughout, SafeInv for as long as the guest keeps to the safe uses.
IndInv == BaseInv /\ (Safe => SafeInv)

\* The invariant of one connection, for every set of uses.
THEOREM Invariance == Spec => []IndInv
<1>1. Init => IndInv
  BY InitBase, InitSafe DEF IndInv
<1>2. IndInv /\ [Next]_vars => IndInv'
  <2> SUFFICES ASSUME IndInv, [Next]_vars PROVE IndInv'
    OBVIOUS
  <2>1. BaseInv'
    BY NextBase DEF IndInv
  <2>2. ASSUME Safe' PROVE SafeInv'
    <3>1. TypeOK
      BY DEF IndInv, BaseInv
    <3>2. Safe
      BY <2>2, <3>1, SafeBefore
    <3> QED BY <3>2, NextSafe DEF IndInv
  <2> QED BY <2>1, <2>2 DEF IndInv
<1> QED BY <1>1, <1>2, PTL DEF Spec

\* As long as the guest keeps to the safe uses, every reply that send_request
\* or send_request_with_timeout hands out answers the request of its caller,
\* after any number of timeouts and whatever is pushed in between.
THEOREM RepliesMatch == Spec => []OwnReply
<1>1. IndInv => OwnReply
  BY DEF IndInv, SafeInv, OwnReply
<1> QED BY <1>1, Invariance, PTL

\* As long as the guest keeps to the safe uses, pending_stale_responses counts
\* exactly the replies nobody waits for any more.
THEOREM OwedRepliesCounted == Spec => []StaleIsOwed
<1>1. IndInv => StaleIsOwed
  BY DEF IndInv, SafeInv, StaleIsOwed
<1> QED BY <1>1, Invariance, PTL

-----------------------------------------------------------------------------
(***************************************************************************)
(* Tasks                                                                   *)
(*                                                                         *)
(* The frames set aside followed by those on the stream are one queue: a   *)
(* push that is set aside does not change it, and a reply leaves it from   *)
(* the middle.                                                             *)
(***************************************************************************)

\* A frame that is no task arrives.
LEMMA OtherFrameArrives ==
  ASSUME NEW q \in Seq(Frames), NEW f \in Frames, ~ IsTask(f), NEW k \in Nat, NEW n \in Nat,
         TasksBetween(q, k, n)
  PROVE  TasksBetween(Append(q, f), k, n)
<1> DEFINE r == Append(q, f)
<1>1. /\ Len(q) \in Nat /\ DOMAIN q = 1..Len(q) /\ DOMAIN r = 1..(Len(q) + 1)
      /\ \A i \in 1..Len(q) : r[i] = q[i]
      /\ r[Len(q) + 1] = f
  OBVIOUS
<1> HIDE DEF r
<1>2. \A i \in DOMAIN r : IsTask(r[i]) => i \in DOMAIN q /\ r[i] = q[i]
  BY <1>1
<1>3. \A i \in DOMAIN q : i \in DOMAIN r /\ r[i] = q[i]
  BY <1>1
<1>4. TasksBetween(r, k, n)
  BY <1>2, <1>3 DEF TasksBetween
<1> QED BY <1>4 DEF r

\* The next task arrives.
LEMMA TaskArrives ==
  ASSUME NEW q \in Seq(Frames), NEW f \in Frames, NEW k \in Nat, NEW n \in Nat,
         k <= n, IsTask(f), f.no = n + 1, TasksBetween(q, k, n)
  PROVE  TasksBetween(Append(q, f), k, n + 1)
<1> DEFINE r == Append(q, f)
<1>1. /\ Len(q) \in Nat /\ DOMAIN q = 1..Len(q) /\ DOMAIN r = 1..(Len(q) + 1)
      /\ \A i \in 1..Len(q) : r[i] = q[i]
      /\ r[Len(q) + 1] = f
  OBVIOUS
<1> HIDE DEF r
<1>2. \A i \in DOMAIN r : (i \in DOMAIN q /\ r[i] = q[i]) \/ r[i] = f
  BY <1>1
<1>3. \A i \in DOMAIN r : IsTask(r[i]) => r[i].no \in (k + 1)..(n + 1)
  <2> SUFFICES ASSUME NEW i \in DOMAIN r, IsTask(r[i]) PROVE r[i].no \in (k + 1)..(n + 1)
    OBVIOUS
  <2>1. CASE i \in DOMAIN q /\ r[i] = q[i]
    BY <2>1 DEF TasksBetween
  <2>2. CASE r[i] = f
    BY <2>2
  <2> QED BY <1>2, <2>1, <2>2
<1>4. \A i, j \in DOMAIN r : i < j /\ IsTask(r[i]) /\ IsTask(r[j]) => r[i].no < r[j].no
  <2> SUFFICES ASSUME NEW i \in DOMAIN r, NEW j \in DOMAIN r, i < j,
                      IsTask(r[i]), IsTask(r[j])
               PROVE  r[i].no < r[j].no
    OBVIOUS
  <2>1. i \in DOMAIN q /\ r[i] = q[i]
    BY <1>1
  <2>2. CASE j \in DOMAIN q /\ r[j] = q[j]
    BY <2>1, <2>2 DEF TasksBetween
  <2>3. CASE r[j] = f
    <3>1. q[i].no \in (k + 1)..n
      BY <2>1 DEF TasksBetween
    <3> QED BY <2>1, <2>3, <3>1
  <2> QED BY <1>2, <2>2, <2>3
<1>5. \A m \in (k + 1)..(n + 1) : \E i \in DOMAIN r : IsTask(r[i]) /\ r[i].no = m
  <2> SUFFICES ASSUME NEW m \in (k + 1)..(n + 1)
               PROVE  \E i \in DOMAIN r : IsTask(r[i]) /\ r[i].no = m
    OBVIOUS
  <2>1. CASE m = n + 1
    BY <1>1, <2>1
  <2>2. CASE m # n + 1
    <3>1. m \in (k + 1)..n
      BY <2>2
    <3>2. PICK i \in DOMAIN q : IsTask(q[i]) /\ q[i].no = m
      BY <3>1 DEF TasksBetween
    <3>3. i \in DOMAIN r /\ r[i] = q[i]
      BY <1>1, <3>2
    <3> QED BY <3>2, <3>3
  <2> QED BY <2>1, <2>2
<1>6. TasksBetween(r, k, n + 1)
  BY <1>3, <1>4, <1>5 DEF TasksBetween
<1> QED BY <1>6 DEF r

\* A frame that is no task is taken from behind the frames p.
LEMMA OtherFrameLeaves ==
  ASSUME NEW p \in Seq(Frames), NEW s \in Seq(Frames), s # <<>>, ~ IsTask(s[1]),
         NEW k \in Nat, NEW n \in Nat, TasksBetween(p \o s, k, n)
  PROVE  TasksBetween(p \o Tail(s), k, n)
<1> DEFINE q == p \o s
           r == p \o Tail(s)
           l == Len(p)
           g(i) == IF i <= l THEN i ELSE i + 1
<1>1. l \in Nat /\ Len(s) \in Nat /\ Len(s) >= 1
  OBVIOUS
<1>2. /\ DOMAIN q = 1..(l + Len(s))
      /\ \A i \in 1..l : q[i] = p[i]
      /\ \A d \in 1..Len(s) : q[l + d] = s[d]
  <2>1. \A d \in 1..Len(s) : l + d \in (l + 1)..(l + Len(s)) /\ (l + d) - l = d
    BY <1>1
  <2> QED BY <1>1, <2>1
<1>3. /\ Tail(s) \in Seq(Frames) /\ Len(Tail(s)) = Len(s) - 1
      /\ \A i \in 1..(Len(s) - 1) : Tail(s)[i] = s[i + 1]
  BY <1>1
<1>4. /\ DOMAIN r = 1..(l + Len(s) - 1)
      /\ \A i \in 1..l : r[i] = p[i]
      /\ \A i \in (l + 1)..(l + Len(s) - 1) : r[i] = Tail(s)[i - l]
  BY <1>1, <1>3
<1> HIDE DEF q, r, l
<1>5. \A i \in (l + 1)..(l + Len(s) - 1) : r[i] = s[i - l + 1]
  <2> TAKE i \in (l + 1)..(l + Len(s) - 1)
  <2>1. i - l \in 1..(Len(s) - 1)
    BY <1>1
  <2> QED BY <1>3, <1>4, <2>1
<1>6. ASSUME NEW i \in DOMAIN r
      PROVE  g(i) \in DOMAIN q /\ r[i] = q[g(i)]
  <2>1. CASE i <= l
    BY <1>1, <1>2, <1>4, <2>1
  <2>2. CASE ~ (i <= l)
    <3>1. i \in (l + 1)..(l + Len(s) - 1) /\ i + 1 \in (l + 1)..(l + Len(s))
      BY <1>1, <1>4, <2>2
    <3>2. i - l + 1 \in 1..Len(s) /\ l + (i - l + 1) = i + 1 /\ i + 1 \in 1..(l + Len(s))
      BY <1>1, <3>1
    <3>3. q[i + 1] = s[i - l + 1]
      BY <1>2, <3>2
    <3>4. r[i] = q[i + 1]
      BY <1>5, <3>1, <3>3
    <3> QED BY <1>2, <2>2, <3>2, <3>4
  <2> QED BY <2>1, <2>2
<1>7. \A i, j \in DOMAIN r : i < j => g(i) < g(j)
  BY <1>1, <1>4
<1>8. q[l + 1] = s[1]
  <2>1. 1 \in 1..Len(s)
    BY <1>1
  <2> QED BY <1>2, <2>1
<1>9. ASSUME NEW h \in DOMAIN q, IsTask(q[h])
      PROVE  \E i \in DOMAIN r : r[i] = q[h]
  <2>1. h # l + 1
    BY <1>8, <1>9
  <2>2. CASE h <= l
    <3>1. h \in 1..l /\ h \in DOMAIN r
      BY <1>1, <1>2, <1>4, <2>2
    <3>2. r[h] = q[h]
      BY <1>2, <1>4, <3>1, Zenon
    <3> QED BY <3>1, <3>2
  <2>3. CASE h > l + 1
    <3>1. h - 1 \in DOMAIN r /\ g(h - 1) = h
      BY <1>1, <1>2, <1>4, <2>3
    <3> QED BY <1>6, <3>1
  <2> QED BY <1>1, <1>2, <2>1, <2>2, <2>3
<1> HIDE DEF g
<1>10. \A i \in DOMAIN r : IsTask(r[i]) => r[i].no \in (k + 1)..n
  BY <1>6 DEF TasksBetween, q
<1>11. \A i, j \in DOMAIN r : i < j /\ IsTask(r[i]) /\ IsTask(r[j]) => r[i].no < r[j].no
  BY <1>6, <1>7 DEF TasksBetween, q
<1>12. ASSUME NEW m \in (k + 1)..n
       PROVE  \E i \in DOMAIN r : IsTask(r[i]) /\ r[i].no = m
  <2>1. PICK h \in DOMAIN q : IsTask(q[h]) /\ q[h].no = m
    BY DEF TasksBetween, q
  <2>2. PICK i \in DOMAIN r : r[i] = q[h]
    BY <1>9, <2>1
  <2> QED BY <2>1, <2>2
<1>13. TasksBetween(r, k, n)
  BY <1>10, <1>11, <1>12 DEF TasksBetween
<1> QED BY <1>13 DEF r

\* The first frame is a task: it is the one after those handed over.
LEMMA TaskLeaves ==
  ASSUME NEW q \in Seq(Frames), q # <<>>, IsTask(q[1]), NEW k \in Nat, NEW n \in Nat,
         TasksBetween(q, k, n)
  PROVE  q[1].no = k + 1 /\ k + 1 <= n /\ TasksBetween(Tail(q), k + 1, n)
<1> DEFINE r == Tail(q)
<1>1. /\ Len(q) \in Nat /\ Len(q) >= 1 /\ DOMAIN q = 1..Len(q) /\ DOMAIN r = 1..(Len(q) - 1)
      /\ \A i \in DOMAIN r : r[i] = q[i + 1]
  OBVIOUS
<1> HIDE DEF r
<1>2. 1 \in DOMAIN q /\ q[1].no \in (k + 1)..n
  BY <1>1 DEF TasksBetween
<1>3. k + 1 \in (k + 1)..n
  BY <1>2
<1>4. PICK h \in DOMAIN q : IsTask(q[h]) /\ q[h].no = k + 1
  BY <1>3 DEF TasksBetween
<1>5. h = 1
  <2> SUFFICES ASSUME h # 1 PROVE FALSE
    OBVIOUS
  <2>1. 1 < h
    BY <1>1
  <2>2. q[1].no < q[h].no
    BY <1>2, <1>4, <2>1 DEF TasksBetween
  <2> QED BY <1>2, <1>4, <2>2
<1>6. \A i \in DOMAIN r : i + 1 \in DOMAIN q /\ 1 < i + 1 /\ r[i] = q[i + 1]
  BY <1>1
<1>7. ASSUME NEW i \in DOMAIN r, IsTask(r[i]) PROVE r[i].no \in (k + 2)..n
  <2>1. q[i + 1].no \in (k + 1)..n /\ q[1].no < q[i + 1].no
    BY <1>2, <1>6, <1>7 DEF TasksBetween
  <2> QED BY <1>4, <1>5, <1>6, <2>1
<1>8. ASSUME NEW i \in DOMAIN r, NEW j \in DOMAIN r, i < j, IsTask(r[i]), IsTask(r[j])
      PROVE  r[i].no < r[j].no
  <2>1. i + 1 < j + 1
    BY <1>1, <1>8
  <2> QED BY <1>6, <1>8, <2>1 DEF TasksBetween
<1>9. ASSUME NEW m \in (k + 2)..n
      PROVE  \E i \in DOMAIN r : IsTask(r[i]) /\ r[i].no = m
  <2>1. m \in (k + 1)..n /\ m # k + 1
    OBVIOUS
  <2>2. PICK j \in DOMAIN q : IsTask(q[j]) /\ q[j].no = m
    BY <2>1 DEF TasksBetween
  <2>3. j # 1
    BY <1>4, <1>5, <2>1, <2>2
  <2>4. j - 1 \in DOMAIN r /\ r[j - 1] = q[j]
    BY <1>1, <2>2, <2>3
  <2> QED BY <2>2, <2>4
<1>10. k + 1 + 1 = k + 2
  OBVIOUS
<1>11. TasksBetween(r, k + 1, n)
  BY <1>7, <1>8, <1>9, <1>10 DEF TasksBetween
<1> QED BY <1>3, <1>4, <1>5, <1>11 DEF r

\* The queue of frames when one is written, set aside, or taken from either
\* part of it.
LEMMA QueueAppend ==
  ASSUME NEW p \in Seq(Frames), NEW s \in Seq(Frames), NEW f \in Frames
  PROVE  p \o Append(s, f) = Append(p \o s, f)
OBVIOUS

LEMMA QueueSetAside ==
  ASSUME NEW p \in Seq(Frames), NEW s \in Seq(Frames), s # <<>>
  PROVE  Append(p, s[1]) \o Tail(s) = p \o s
OBVIOUS

LEMMA QueueTail ==
  ASSUME NEW p \in Seq(Frames), NEW s \in Seq(Frames), p # <<>>
  PROVE  /\ Tail(p) \o s = Tail(p \o s)
         /\ p \o s \in Seq(Frames) /\ p \o s # <<>> /\ (p \o s)[1] = p[1]
OBVIOUS

LEMMA QueueEmpty ==
  ASSUME NEW s \in Seq(Frames)
  PROVE  <<>> \o s = s
OBVIOUS

\* The sequence 1 to k, one longer.
LEMMA CountedOn ==
  ASSUME NEW q \in Seq(Nat), q = [i \in 1..Len(q) |-> i]
  PROVE  /\ Len(Append(q, Len(q) + 1)) = Len(q) + 1
         /\ Append(q, Len(q) + 1) = [i \in 1..Len(Append(q, Len(q) + 1)) |-> i]
<1> DEFINE r == Append(q, Len(q) + 1)
<1>1. Len(q) \in Nat
  OBVIOUS
<1>2. /\ r \in Seq(Nat) /\ Len(r) = Len(q) + 1 /\ DOMAIN r = 1..Len(r)
      /\ \A i \in 1..Len(q) : r[i] = q[i]
      /\ r[Len(q) + 1] = Len(q) + 1
  BY <1>1
<1>3. \A i \in 1..Len(q) : q[i] = i
  BY <1>1
<1> HIDE DEF r
<1>4. \A i \in 1..Len(r) : r[i] = i
  BY <1>1, <1>2, <1>3
<1>5. r = [i \in 1..Len(r) |-> r[i]]
  BY <1>2
<1>6. r = [i \in 1..Len(r) |-> i]
  BY <1>4, <1>5
<1> QED BY <1>2, <1>6 DEF r

\* The first frame of the queue is handed over: a task joins those taken.
LEMMA HandOver ==
  ASSUME TypeOK, NEW q \in Seq(Frames), q # <<>>,
         taken = [i \in 1..Len(taken) |-> i], Len(taken) <= tasks,
         TasksBetween(q, Len(taken), tasks), Hand(q[1]), tasks' = tasks
  PROVE  /\ taken' = [i \in 1..Len(taken') |-> i]
         /\ Len(taken') <= tasks'
         /\ TasksBetween(Tail(q), Len(taken'), tasks')
<1>1. taken \in Seq(Nat) /\ Len(taken) \in Nat /\ tasks \in Nat
  BY StreamAssumption DEF TypeOK
<1>2. CASE IsTask(q[1])
  <2>1. /\ q[1].no = Len(taken) + 1 /\ Len(taken) + 1 <= tasks
        /\ TasksBetween(Tail(q), Len(taken) + 1, tasks)
    BY <1>1, <1>2, TaskLeaves
  <2>2. taken' = Append(taken, Len(taken) + 1)
    BY <1>2, <2>1 DEF Hand, IsTask
  <2>3. Len(taken') = Len(taken) + 1 /\ taken' = [i \in 1..Len(taken') |-> i]
    BY <1>1, <2>2, CountedOn
  <2> QED BY <2>1, <2>3
<1>3. CASE ~ IsTask(q[1])
  <2>1. taken' = taken
    BY <1>3 DEF Hand, IsTask
  <2>2. <<>> \in Seq(Frames) /\ <<>> \o q = q /\ Tail(q) \in Seq(Frames)
    BY QueueEmpty
  <2>3. TasksBetween(<<>> \o Tail(q), Len(taken), tasks)
    BY <1>1, <1>3, <2>2, OtherFrameLeaves
  <2>4. <<>> \o Tail(q) = Tail(q)
    BY <2>2, QueueEmpty
  <2> QED BY <2>1, <2>3, <2>4
<1> QED BY <1>2, <1>3

LEMMA NextTasks == BaseInv /\ TasksInOrder /\ [Next]_vars => TasksInOrder'
<1> SUFFICES ASSUME BaseInv, TasksInOrder, [Next]_vars PROVE TasksInOrder'
  OBVIOUS
<1> DEFINE Done(t, k) == t = [i \in 1..Len(t) |-> i] /\ Len(t) <= k
<1>1. /\ TypeOK /\ stream \in Seq(Frames) /\ pending \in Seq(Frames)
      /\ Len(taken) \in Nat /\ tasks \in Nat /\ pending \o stream \in Seq(Frames)
  <2>1. TypeOK
    BY DEF BaseInv
  <2>2. stream \in Seq(Frames) /\ pending \in Seq(Frames) /\ Len(taken) \in Nat /\ tasks \in Nat
    BY <2>1, StreamAssumption DEF TypeOK
  <2> QED BY <2>1, <2>2
<1>2. Done(taken, tasks) /\ TasksBetween(pending \o stream, Len(taken), tasks)
  BY DEF TasksInOrder
<1>3. stream # <<>> => Head(stream) = stream[1] /\ stream[1] \in Frames
  BY <1>1
<1>4. ASSUME NEW f \in Frames, ~ IsTask(f), stream' = Append(stream, f),
             UNCHANGED <<pending, taken, tasks>>
      PROVE  TasksInOrder'
  <2>1. TasksBetween(Append(pending \o stream, f), Len(taken), tasks)
    BY <1>1, <1>2, <1>4, OtherFrameArrives
  <2>2. pending \o Append(stream, f) = Append(pending \o stream, f)
    BY <1>1, QueueAppend
  <2> QED BY <1>2, <1>4, <2>1, <2>2 DEF TasksInOrder
<1>5. ASSUME stream # <<>>, ~ IsTask(stream[1]), stream' = Tail(stream),
             UNCHANGED <<pending, taken, tasks>>
      PROVE  TasksInOrder'
  <2>1. TasksBetween(pending \o Tail(stream), Len(taken), tasks)
    BY <1>1, <1>2, <1>5, OtherFrameLeaves
  <2> QED BY <1>2, <1>5, <2>1 DEF TasksInOrder
<1>6. CASE UNCHANGED <<stream, pending, taken, tasks>>
  BY <1>6 DEF TasksInOrder
<1>7. CASE Serve
  <2>1. PICK class \in Answers(asked[served + 1][1]) :
          stream' = Append(stream, Frame(class, served + 1))
    BY <1>7 DEF Serve
  <2>2. class \in {"plain", "lease", "status"} /\ served \in Nat
    BY <1>1, <2>1 DEF Answers, TypeOK
  <2>3. Frame(class, served + 1) \in Frames /\ ~ IsTask(Frame(class, served + 1))
    BY <2>2 DEF Frame, Frames, Classes, IsTask
  <2> QED BY <1>4, <1>7, <2>1, <2>3 DEF Serve, clientVars
<1>8. CASE PushTask
  <2> DEFINE f == Frame("task", tasks + 1)
  <2>1. f \in Frames /\ IsTask(f) /\ f.no = tasks + 1
    BY <1>1 DEF Frame, Frames, Classes, IsTask
  <2>2. stream' = Append(stream, f) /\ tasks' = tasks + 1 /\ UNCHANGED <<pending, taken>>
    BY <1>8 DEF PushTask, clientVars
  <2> HIDE DEF f
  <2>3. TasksBetween(Append(pending \o stream, f), Len(taken), tasks + 1)
    BY <1>1, <1>2, <2>1, TaskArrives
  <2>4. pending \o Append(stream, f) = Append(pending \o stream, f)
    BY <1>1, <2>1, QueueAppend
  <2>5. Len(taken) <= tasks + 1
    BY <1>1, <1>2
  <2> QED BY <1>2, <2>2, <2>3, <2>4, <2>5 DEF TasksInOrder
<1>9. CASE Broadcast
  <2>1. Frame("status", 0) \in Frames /\ ~ IsTask(Frame("status", 0))
    BY DEF Frame, Frames, Classes, IsTask
  <2> QED BY <1>4, <1>9, <2>1 DEF Broadcast, clientVars
<1>10. CASE ReadMatchingResponse
  <2>1. stream # <<>> /\ stream' = Tail(stream) /\ UNCHANGED <<taken, tasks>>
    BY <1>10 DEF ReadMatchingResponse, ReadFrame, hotelVars
  <2>2. CASE IsPushMessage(stream[1])
    <3>1. pending' = Append(pending, stream[1])
      BY <1>3, <1>10, <2>1, <2>2 DEF ReadMatchingResponse
    <3>2. Append(pending, stream[1]) \o Tail(stream) = pending \o stream
      BY <1>1, <2>1, QueueSetAside
    <3> QED BY <1>2, <2>1, <3>1, <3>2 DEF TasksInOrder
  <2>3. CASE ~ IsPushMessage(stream[1])
    <3>1. pending' = pending
      BY <1>3, <1>10, <2>1, <2>3 DEF ReadMatchingResponse
    <3>2. ~ IsTask(stream[1])
      BY <2>3 DEF IsPushMessage, IsTask
    <3> QED BY <1>5, <2>1, <3>1, <3>2
  <2> QED BY <2>2, <2>3
<1>11. CASE RecvPending
  <2>1. /\ pending # <<>> /\ pending' = Tail(pending) /\ UNCHANGED <<stream, tasks>>
        /\ Hand(Head(pending)) /\ Head(pending) = pending[1]
    BY <1>1, <1>11 DEF RecvPending, hotelVars
  <2>2. /\ Tail(pending) \o stream = Tail(pending \o stream)
        /\ pending \o stream # <<>> /\ (pending \o stream)[1] = pending[1]
    BY <1>1, <2>1, QueueTail
  <2>3. /\ Done(taken', tasks')
        /\ TasksBetween(Tail(pending \o stream), Len(taken'), tasks')
    BY <1>1, <1>2, <2>1, <2>2, HandOver
  <2> QED BY <2>1, <2>2, <2>3 DEF TasksInOrder
<1>12. CASE RecvTask
  <2>1. /\ stream # <<>> /\ stream' = Tail(stream) /\ pending = <<>> /\ pending' = <<>>
        /\ tasks' = tasks
    BY <1>12 DEF RecvTask, ReadFrame, hotelVars
  <2>2. CASE IsPushMessage(stream[1])
    <3>1. Hand(stream[1])
      BY <1>3, <1>12, <2>1, <2>2 DEF RecvTask
    <3>2. <<>> \o stream = stream /\ <<>> \o Tail(stream) = Tail(stream)
      BY <1>1, <2>1, QueueEmpty
    <3>3. Done(taken', tasks') /\ TasksBetween(Tail(stream), Len(taken'), tasks')
      BY <1>1, <1>2, <2>1, <3>1, <3>2, HandOver
    <3> QED BY <2>1, <3>2, <3>3 DEF TasksInOrder
  <2>3. CASE ~ IsPushMessage(stream[1])
    <3>1. taken' = taken
      BY <1>3, <1>12, <2>1, <2>3 DEF RecvTask
    <3>2. ~ IsTask(stream[1])
      BY <2>3 DEF IsPushMessage, IsTask
    <3> QED BY <1>5, <2>1, <3>1, <3>2
  <2> QED BY <2>2, <2>3
<1> QED
  BY <1>6, <1>7, <1>8, <1>9, <1>10, <1>11, <1>12
  DEF Next, SendRequest, Timeout, DropFuture, vars, hotelVars, clientVars

\* Whatever the guest asks and however it waits, tasks reach recv_task each
\* once and in the order the hotel pushed them.
THEOREM TasksArriveInOrder == Spec => []TasksInOrder
<1>1. Init => BaseInv /\ TasksInOrder
  <2> SUFFICES ASSUME Init PROVE TasksInOrder
    BY InitBase
  <2>1. taken = <<>> /\ tasks = 0 /\ pending \o stream = <<>> /\ Len(taken) = 0
    BY DEF Init
  <2>2. taken = [i \in 1..Len(taken) |-> i]
    BY <2>1
  <2>3. TasksBetween(<<>>, 0, 0)
    BY DEF TasksBetween
  <2> QED BY <2>1, <2>2, <2>3 DEF TasksInOrder
<1>2. BaseInv /\ TasksInOrder /\ [Next]_vars => BaseInv' /\ TasksInOrder'
  BY NextBase, NextTasks
<1> QED BY <1>1, <1>2, PTL DEF Spec

=============================================================================
