--------------------------- MODULE PollLeaseProofs ---------------------------
(***************************************************************************)
(* Proofs about PollLease, for any number of seats, faults and any TTL.    *)
(***************************************************************************)
EXTENDS PollLease, TLAPS

\* Connections are numbered in the order they were dialed, and a seat that is
\* off or redialing has none; the record of a seat has no pid only while its
\* process is gone or told to go.
ConnInv ==
  /\ \A s \in Seats : /\ conn[s] <= dialed[s]
                      /\ via[s][1] <= dialed[s]
                      /\ via[s][2] <= life
                      /\ mode[s] \in {"off", "down"} => conn[s] = 0
                      /\ s \in pidless => s \in doomed \/ mode[s] = "off"

\* Epochs of this hotel life are bounded by the registry's counter, and the
\* epoch of the active lease is held by nobody but its owner.
EpochInv ==
  /\ lease # NoLease => lease.epoch <= nextEpoch
  /\ \A s \in Seats : phase[s] = "held" /\ via[s][2] = life =>
       /\ epoch[s] <= nextEpoch
       /\ lease # NoLease /\ lease.epoch = epoch[s] => lease.seat = s

IndInv == TypeOK /\ ConnInv /\ FreshHolderOwns /\ EpochInv /\ EpochsAreUnique

-----------------------------------------------------------------------------
(***************************************************************************)
(* Type correctness                                                        *)
(***************************************************************************)

\* What dropping a stale lease, granting and renewing leave in the registry.
LEMMA LeaseTypes ==
  ASSUME TypeOK, NEW s \in Seats
  PROVE  /\ Current \in Leases \cup {NoLease}
         /\ Granted(s) \in Leases
         /\ Renewed(s) \in Leases \cup {NoLease}
         /\ NoLease \notin Leases
<1>1. NoLease \notin Leases
  BY LeaseAssumption DEF Leases, NoLease
<1>2. Current \in Leases \cup {NoLease}
  BY DEF TypeOK, Current
<1>3. Granted(s) \in Leases
  BY LeaseAssumption DEF TypeOK, Granted, Leases
<1>4. ASSUME Renewable(Current, s)
      PROVE  [Current EXCEPT !.left = TTL] \in Leases
  <2>1. Current \in Leases
    BY <1>2, <1>4 DEF Renewable, Mine
  <2> QED
    BY <2>1, LeaseAssumption DEF Leases
<1>5. Renewed(s) \in Leases \cup {NoLease}
  BY <1>2, <1>4 DEF Renewed, TypeOK
<1> QED
  BY <1>1, <1>2, <1>3, <1>5

LEMMA TypeInit == Init => TypeOK
  BY LeaseAssumption DEF Init, TypeOK

\* What a seat makes of an answer is well typed.
LEMMA AnswerTypes ==
  ASSUME TypeOK, NEW s \in Seats
  PROVE  /\ \A e \in Nat : Succeed(s, e) =>
              /\ phase' \in [Seats -> {"acquiring", "held", "lost"}]
              /\ epoch' \in [Seats -> Nat]
              /\ age' \in [Seats -> 0..(TTL + 1)]
              /\ must' \in [Seats -> BOOLEAN]
              /\ due' \in [Seats -> Nat]
              /\ mode' \in [Seats -> {"off", "down", "setup", "resetup", "loop"}]
              /\ poll' \in [Seats -> BOOLEAN]
              /\ UNCHANGED <<conn, dialed, stand>>
         /\ Lose(s) =>
              /\ phase' \in [Seats -> {"acquiring", "held", "lost"}]
              /\ must' \in [Seats -> BOOLEAN]
              /\ due' \in [Seats -> Nat]
              /\ mode' \in [Seats -> {"off", "down", "setup", "resetup", "loop"}]
              /\ conn' \in [Seats -> Nat]
              /\ poll' \in [Seats -> BOOLEAN]
              /\ stand' \in [Seats -> {"no", "held", "token"}]
              /\ UNCHANGED <<dialed, epoch, age>>
<1>1. ASSUME NEW e \in Nat, Succeed(s, e)
      PROVE  /\ phase' \in [Seats -> {"acquiring", "held", "lost"}]
             /\ epoch' \in [Seats -> Nat]
             /\ age' \in [Seats -> 0..(TTL + 1)]
             /\ must' \in [Seats -> BOOLEAN]
             /\ due' \in [Seats -> Nat]
             /\ mode' \in [Seats -> {"off", "down", "setup", "resetup", "loop"}]
             /\ poll' \in [Seats -> BOOLEAN]
             /\ UNCHANGED <<conn, dialed, stand>>
  <2>1. poll' \in [Seats -> BOOLEAN]
    BY <1>1, Zenon DEF TypeOK, Succeed
  <2> QED
    BY <1>1, <2>1, LeaseAssumption DEF TypeOK, Succeed
<1>2. ASSUME Lose(s)
      PROVE  /\ phase' \in [Seats -> {"acquiring", "held", "lost"}]
             /\ must' \in [Seats -> BOOLEAN]
             /\ due' \in [Seats -> Nat]
             /\ mode' \in [Seats -> {"off", "down", "setup", "resetup", "loop"}]
             /\ conn' \in [Seats -> Nat]
             /\ poll' \in [Seats -> BOOLEAN]
             /\ stand' \in [Seats -> {"no", "held", "token"}]
             /\ UNCHANGED <<dialed, epoch, age>>
  <2>1. must' \in [Seats -> BOOLEAN] /\ poll' \in [Seats -> BOOLEAN]
    BY <1>2, Zenon DEF TypeOK, Lose
  <2>2. CASE mode[s] = "loop"
    <3>1. /\ phase' = [phase EXCEPT ![s] = "lost"] /\ mode' = [mode EXCEPT ![s] = "down"]
          /\ conn' = [conn EXCEPT ![s] = 0] /\ UNCHANGED <<due, stand, dialed, epoch, age>>
      BY <1>2, <2>2, Zenon DEF Lose
    <3> QED
      BY <2>1, <3>1 DEF TypeOK
  <2>3. CASE mode[s] # "loop"
    <3>1. due' \in [Seats -> Nat]
      BY <1>2, <2>3, LeaseAssumption DEF TypeOK, Lose
    <3> QED
      BY <1>2, <2>1, <2>3, <3>1 DEF TypeOK, Lose
  <2> QED
    BY <2>2, <2>3
<1> QED
  BY <1>1, <1>2

\* Every action of a seat, of the hotel and of the clock keeps the types.
LEMMA TypeNext == TypeOK /\ [Next]_vars => TypeOK'
<1> SUFFICES ASSUME TypeOK, [Next]_vars
             PROVE  TypeOK'
  OBVIOUS
<1> USE LeaseAssumption
<1>1. ASSUME NEW s \in Seats, Connect(s)
      PROVE  TypeOK'
  <2>1. open' \subseteq Seats \X Nat
    BY <1>1 DEF TypeOK, Connect, recordVars
  <2>2. poll' \in [Seats -> BOOLEAN]
    BY <1>1, Zenon DEF TypeOK, Connect, recordVars
  <2>3. due' \in [Seats -> Nat] /\ conn' \in [Seats -> Nat] /\ dialed' \in [Seats -> Nat]
    BY <1>1 DEF TypeOK, Connect, recordVars
  <2>4. /\ phase' \in [Seats -> {"acquiring", "held", "lost"}]
        /\ mode' \in [Seats -> {"off", "down", "setup", "resetup", "loop"}]
    BY <1>1 DEF TypeOK, Connect, recordVars
  <2> QED
    BY <1>1, <2>1, <2>2, <2>3, <2>4 DEF TypeOK, Connect, recordVars
<1>2. ASSUME NEW s \in Seats, RenewCall(s)
      PROVE  TypeOK'
  <2>1. lease' \in Leases \cup {NoLease}
    BY <1>2, LeaseTypes DEF RenewCall, recordVars
  <2>2. CASE home /\ Renewable(Current, s)
    <3>1. Succeed(s, epoch[s]) /\ stamp' = [stamp EXCEPT ![s] = 0]
      BY <1>2, <2>2 DEF RenewCall, recordVars
    <3> QED
      BY <1>2, <2>1, <3>1, AnswerTypes DEF TypeOK, RenewCall, recordVars
  <2>3. CASE ~(home /\ Renewable(Current, s))
    <3>1. UNCHANGED stamp
      BY <1>2, <2>3 DEF RenewCall, recordVars
    <3>2. CASE Lose(s)
      BY <1>2, <2>1, <3>1, <3>2, AnswerTypes DEF TypeOK, RenewCall, recordVars
    <3>3. CASE must' = [must EXCEPT ![s] = TRUE] /\ UNCHANGED <<phase, epoch, age, seatVars>>
      BY <1>2, <2>1, <3>1, <3>3 DEF TypeOK, RenewCall, seatVars, recordVars
    <3> QED
      BY <1>2, <2>3, <3>2, <3>3 DEF RenewCall, recordVars
  <2> QED
    BY <2>2, <2>3
<1>3. ASSUME NEW s \in Seats, AcquireCall(s)
      PROVE  TypeOK'
  <2>1. CASE home /\ (Current = NoLease \/ Mine(Current, s))
    <3>1. lease' \in Leases /\ nextEpoch' \in Nat
      BY <1>3, <2>1, LeaseTypes DEF TypeOK, AcquireCall, Mine, recordVars
    <3>2. lease'.epoch \in Nat /\ TTL - lease'.left \in 0..TTL
      BY <3>1 DEF Leases
    <3>3. /\ Succeed(s, lease'.epoch)
          /\ stamp' = [stamp EXCEPT ![s] = TTL - lease'.left]
          /\ via' = [via EXCEPT ![s] = <<conn[s], life>>]
      BY <1>3, <2>1 DEF AcquireCall, recordVars
    <3> QED
      BY <1>3, <3>1, <3>2, <3>3, AnswerTypes DEF TypeOK, AcquireCall, recordVars
  <2>2. CASE ~(home /\ (Current = NoLease \/ Mine(Current, s)))
    BY <1>3, <2>2, LeaseTypes, AnswerTypes DEF TypeOK, AcquireCall, recordVars
  <2> QED
    BY <2>1, <2>2
<1>4. ASSUME NEW s \in Seats, Probe(s)
      PROVE  TypeOK'
  <2>1. lease' \in Leases \cup {NoLease}
    BY <1>4, LeaseTypes DEF Probe, recordVars
  <2>2. poll' \in [Seats -> BOOLEAN]
    BY <1>4, Zenon DEF TypeOK, Probe, recordVars
  <2>3. due' \in [Seats -> Nat]
    BY <1>4 DEF TypeOK, Probe, recordVars
  <2>4. /\ phase' \in [Seats -> {"acquiring", "held", "lost"}]
        /\ mode' \in [Seats -> {"off", "down", "setup", "resetup", "loop"}]
        /\ stand' \in [Seats -> {"no", "held", "token"}]
    <3>1. CASE Current # NoLease
      BY <1>4, <3>1 DEF TypeOK, Probe, recordVars
    <3>2. CASE Current = NoLease
      <4>1. /\ phase' = [phase EXCEPT ![s] = "acquiring"]
            /\ mode' = [mode EXCEPT ![s] = "resetup"]
            /\ stand' = [stand EXCEPT ![s] = "no"]
        BY <1>4, <3>2, Zenon DEF Probe, recordVars
      <4> QED
        BY <4>1 DEF TypeOK
    <3> QED
      BY <3>1, <3>2
  <2> QED
    BY <1>4, <2>1, <2>2, <2>3, <2>4, Zenon DEF TypeOK, Probe, recordVars
<1>5. ASSUME NEW s \in Seats, Respawn(s)
      PROVE  TypeOK'
  BY <1>5 DEF TypeOK, Respawn, hotelVars, driverVars
<1>6. ASSUME NEW s \in Seats, RenewErr(s)
      PROVE  TypeOK'
  BY <1>6, LeaseTypes DEF TypeOK, RenewErr, Fault, seatVars, recordVars
<1>7. ASSUME NEW s \in Seats, AcquireErr(s)
      PROVE  TypeOK'
  <2>1. lease' \in Leases \cup {NoLease} /\ nextEpoch' \in Nat
    BY <1>7, LeaseTypes DEF TypeOK, AcquireErr, recordVars
  <2>2. due' \in [Seats -> Nat]
    BY <1>7 DEF TypeOK, AcquireErr, BackOff, recordVars
  <2>3. mode' \in [Seats -> {"off", "down", "setup", "resetup", "loop"}]
    BY <1>7 DEF TypeOK, AcquireErr, BackOff, recordVars
  <2>4. conn' \in [Seats -> Nat]
    BY <1>7 DEF TypeOK, AcquireErr, BackOff, recordVars
  <2>5. phase' \in [Seats -> {"acquiring", "held", "lost"}] /\ must' \in [Seats -> BOOLEAN]
    <3>1. /\ phase' = [phase EXCEPT ![s] = "acquiring"]
          /\ must' = [must EXCEPT ![s] = FALSE]
      BY <1>7 DEF AcquireErr, BackOff, recordVars
    <3>2. phase \in [Seats -> {"acquiring", "held", "lost"}] /\ must \in [Seats -> BOOLEAN]
      BY DEF TypeOK
    <3> QED
      BY <3>1, <3>2, Zenon
  <2>6. faults' \in 0..MaxFaults
    BY <1>7, LeaseAssumption DEF TypeOK, AcquireErr, Fault, recordVars
  <2>7. UNCHANGED <<life, home, open, epoch, age, stamp, via, dialed, stand, poll, pidless,
                   doomed>>
    BY <1>7, Zenon DEF AcquireErr, BackOff, recordVars
  <2> QED
    BY <2>1, <2>2, <2>3, <2>4, <2>5, <2>6, <2>7, Zenon DEF TypeOK
<1>8. ASSUME NEW s \in Seats, SetupFails(s)
      PROVE  TypeOK'
  BY <1>8 DEF TypeOK, SetupFails, Fault, hotelVars, driverVars, recordVars
<1>9. ASSUME NEW s \in Seats, TokenMissing(s)
      PROVE  TypeOK'
  BY <1>9 DEF TypeOK, TokenMissing, Fault, hotelVars, driverVars, recordVars
<1>10. ASSUME NEW s \in Seats, ProbeErr(s)
       PROVE  TypeOK'
  BY <1>10, LeaseTypes DEF TypeOK, ProbeErr, Fault, driverVars, recordVars
<1>11. ASSUME NEW s \in Seats, Disconnect(s)
       PROVE  TypeOK'
  <2>1. due' \in [Seats -> Nat]
    BY <1>11 DEF TypeOK, Disconnect, recordVars
  <2> QED
    BY <1>11, <2>1 DEF TypeOK, Disconnect, Fault, hotelVars, recordVars
<1>12. ASSUME NEW s \in Seats, Crash(s)
       PROVE  TypeOK'
  BY <1>12 DEF TypeOK, Crash, Exit, Fault, hotelVars
<1>13. ASSUME NEW s \in Seats, Shutdown(s)
       PROVE  TypeOK'
  BY <1>13 DEF TypeOK, Shutdown, Exit, Fault
<1>21. ASSUME NEW s \in Seats, Terminate(s)
       PROVE  TypeOK'
  BY <1>21 DEF TypeOK, Terminate, Exit, hotelVars
<1>22. ASSUME NEW s \in Seats, RestartComponent(s)
       PROVE  TypeOK'
  BY <1>22 DEF TypeOK, RestartComponent, Fault, hotelVars, driverVars, seatVars
<1>14. ASSUME NEW c \in open, HotelEof(c[1], c[2])
       PROVE  TypeOK'
  BY <1>14 DEF TypeOK, HotelEof, driverVars, seatVars, recordVars
<1>15. CASE HotelRestart
  <2>1. due' \in [Seats -> Nat]
    BY <1>15 DEF TypeOK, HotelRestart, recordVars
  <2> QED
    BY <1>15, <2>1 DEF TypeOK, HotelRestart, Fault, recordVars
<1>16. CASE MoveHome
  BY <1>16 DEF TypeOK, MoveHome, Fault, driverVars, seatVars, recordVars
<1>17. ASSUME PassTime, faults' \in 0..MaxFaults
       PROVE  TypeOK'
  <2>1. lease' \in Leases \cup {NoLease}
    <3>1. CASE lease = NoLease \/ lease.left = 0
      BY <1>17, <3>1 DEF TypeOK, PassTime, recordVars
    <3>2. CASE ~(lease = NoLease \/ lease.left = 0)
      <4>1. lease \in Leases /\ lease' = [lease EXCEPT !.left = @ - 1]
        BY <1>17, <3>2 DEF TypeOK, PassTime, recordVars
      <4> QED
        BY <3>2, <4>1 DEF Leases
    <3> QED
      BY <3>1, <3>2
  <2> QED
    BY <1>17, <2>1 DEF TypeOK, PassTime, recordVars
<1>18. CASE Tick
  BY <1>17, <1>18 DEF Tick, TypeOK
<1>19. CASE Stall
  BY <1>17, <1>19 DEF Stall, Fault, TypeOK
<1>20. CASE UNCHANGED vars
  BY <1>20 DEF TypeOK, vars, hotelVars, driverVars, seatVars, recordVars
<1> QED
  BY <1>1, <1>2, <1>3, <1>4, <1>5, <1>6, <1>7, <1>8, <1>9, <1>10, <1>11, <1>12,
     <1>13, <1>14, <1>15, <1>16, <1>18, <1>19, <1>20, <1>21, <1>22 DEF Next, Act, Suffer

\* Every reachable state of the poll lease protocol is well typed.
THEOREM TypeCorrect == Spec => []TypeOK
  BY TypeInit, TypeNext, PTL DEF Spec

-----------------------------------------------------------------------------
(***************************************************************************)
(* Connections                                                             *)
(***************************************************************************)

LEMMA ConnInit == Init => ConnInv
  BY LeaseAssumption DEF Init, ConnInv

\* Connection numbers and hotel lives only grow.
LEMMA ConnNext == TypeOK /\ ConnInv /\ [Next]_vars => ConnInv'
<1> SUFFICES ASSUME TypeOK, ConnInv, [Next]_vars
             PROVE  ConnInv'
  OBVIOUS
<1>1. ASSUME NEW s \in Seats, Connect(s)
      PROVE  ConnInv'
  BY <1>1 DEF TypeOK, ConnInv, Connect, recordVars
<1>2. ASSUME NEW s \in Seats, RenewCall(s)
      PROVE  ConnInv'
  BY <1>2 DEF TypeOK, ConnInv, RenewCall, Attempting, Succeed, Lose, seatVars, recordVars
<1>3. ASSUME NEW s \in Seats, AcquireCall(s)
      PROVE  ConnInv'
  <2>1. CASE home /\ (Current = NoLease \/ Mine(Current, s))
    BY <1>3, <2>1 DEF TypeOK, ConnInv, AcquireCall, Attempting, Succeed, recordVars
  <2>2. CASE ~(home /\ (Current = NoLease \/ Mine(Current, s)))
    BY <1>3, <2>2 DEF TypeOK, ConnInv, AcquireCall, Attempting, Lose, recordVars
  <2> QED
    BY <2>1, <2>2
<1>4. ASSUME NEW s \in Seats, Probe(s)
      PROVE  ConnInv'
  BY <1>4 DEF TypeOK, ConnInv, Probe, ProbeDue, recordVars
<1>5. ASSUME NEW s \in Seats, Respawn(s)
      PROVE  ConnInv'
  BY <1>5 DEF TypeOK, ConnInv, Respawn, hotelVars, driverVars
<1>6. ASSUME NEW s \in Seats, RenewErr(s)
      PROVE  ConnInv'
  BY <1>6 DEF TypeOK, ConnInv, RenewErr, seatVars, recordVars
<1>7. ASSUME NEW s \in Seats, AcquireErr(s)
      PROVE  ConnInv'
  BY <1>7 DEF TypeOK, ConnInv, AcquireErr, Attempting, BackOff, recordVars
<1>8. ASSUME NEW s \in Seats, SetupFails(s)
      PROVE  ConnInv'
  BY <1>8 DEF TypeOK, ConnInv, SetupFails, hotelVars, driverVars, recordVars
<1>9. ASSUME NEW s \in Seats, TokenMissing(s)
      PROVE  ConnInv'
  BY <1>9 DEF TypeOK, ConnInv, TokenMissing, hotelVars, driverVars, recordVars
<1>10. ASSUME NEW s \in Seats, ProbeErr(s)
       PROVE  ConnInv'
  BY <1>10 DEF TypeOK, ConnInv, ProbeErr, driverVars, recordVars
<1>11. ASSUME NEW s \in Seats, Disconnect(s)
       PROVE  ConnInv'
  BY <1>11 DEF TypeOK, ConnInv, Disconnect, hotelVars, recordVars
<1>12. ASSUME NEW s \in Seats, Crash(s)
       PROVE  ConnInv'
  BY <1>12 DEF TypeOK, ConnInv, Crash, Exit, hotelVars
<1>13. ASSUME NEW s \in Seats, Shutdown(s)
       PROVE  ConnInv'
  BY <1>13 DEF TypeOK, ConnInv, Shutdown, Exit
<1>19. ASSUME NEW s \in Seats, Terminate(s)
       PROVE  ConnInv'
  BY <1>19 DEF TypeOK, ConnInv, Terminate, Exit, hotelVars
<1>20. ASSUME NEW s \in Seats, RestartComponent(s)
       PROVE  ConnInv'
  BY <1>20 DEF TypeOK, ConnInv, RestartComponent, hotelVars, driverVars, seatVars
<1>14. ASSUME NEW c \in open, HotelEof(c[1], c[2])
       PROVE  ConnInv'
  BY <1>14 DEF TypeOK, ConnInv, HotelEof, driverVars, seatVars, recordVars
<1>15. CASE HotelRestart
  BY <1>15 DEF TypeOK, ConnInv, HotelRestart, recordVars
<1>16. CASE MoveHome
  BY <1>16 DEF TypeOK, ConnInv, MoveHome, driverVars, seatVars, recordVars
<1>17. CASE PassTime
  BY <1>17 DEF TypeOK, ConnInv, PassTime, recordVars
<1>18. CASE UNCHANGED vars
  BY <1>18 DEF TypeOK, ConnInv, vars, hotelVars, driverVars, seatVars, recordVars
<1> QED
  BY <1>1, <1>2, <1>3, <1>4, <1>5, <1>6, <1>7, <1>8, <1>9, <1>10, <1>11, <1>12,
     <1>13, <1>14, <1>15, <1>16, <1>17, <1>18, <1>19, <1>20
     DEF Next, Act, Suffer, Tick, Stall

-----------------------------------------------------------------------------
(***************************************************************************)
(* Ownership                                                               *)
(***************************************************************************)

\* The lease of a fresh holder survives drop_if_stale.
LEMMA FreshIsCurrent ==
  ASSUME TypeOK, ConnInv, FreshHolderOwns, NEW t \in Seats, Fresh(t), t \notin doomed
  PROVE  /\ Current = lease
         /\ lease # NoLease
         /\ lease.seat = t
<1>1. lease # NoLease /\ lease.seat = t /\ lease.left >= TTL - stamp[t]
  BY DEF FreshHolderOwns, Claims, Renewable, Mine
<1>2. lease.left # 0
  <2>1. lease \in Leases
    BY <1>1 DEF TypeOK
  <2> QED
    BY <1>1, <2>1, LeaseAssumption DEF Fresh, TypeOK, Leases
<1>3. mode[t] # "off" /\ t \notin pidless
  BY DEF Fresh, ConnInv
<1> QED
  BY <1>1, <1>2, <1>3 DEF Current, Stale

\* A step that leaves the registry and what a seat believes alone keeps the
\* seat's claim.
LEMMA ClaimKept ==
  ASSUME FreshHolderOwns, NEW t \in Seats, Fresh(t)', t \notin doomed,
         lease' = lease, life' = life, phase[t]' = phase[t], conn[t]' = conn[t],
         via[t]' = via[t], stamp[t]' = stamp[t], epoch[t]' = epoch[t]
  PROVE  /\ lease' # NoLease
         /\ Renewable(lease, t)'
         /\ lease'.left >= TTL - stamp[t]'
<1>1. Fresh(t)
  BY DEF Fresh
<1> QED
  BY <1>1 DEF FreshHolderOwns, Claims, Renewable, Mine

\* A seat told to terminate does so before it holds anything again.
LEMMA DoomedExit ==
  ASSUME TypeOK, [Next]_vars, NEW t \in Seats, t \in doomed, Fresh(t)'
  PROVE  t \in doomed'
<1>1. ASSUME NEW s \in Seats, Exit(s) PROVE t \in doomed'
  BY <1>1 DEF Exit, Fresh, TypeOK
<1>2. ASSUME NEW s \in Seats, Connect(s) \/ Act(s) \/ Respawn(s)
      PROVE  t \in doomed'
  BY <1>2 DEF Connect, Act, RenewCall, AcquireCall, Probe, Respawn, recordVars
<1>3. ASSUME NEW s \in Seats, Suffer(s), ~Crash(s), ~Shutdown(s)
      PROVE  t \in doomed'
  BY <1>3 DEF Suffer, RenewErr, AcquireErr, SetupFails, TokenMissing, ProbeErr, Disconnect,
              RestartComponent, recordVars
<1>4. ASSUME NEW c \in open, HotelEof(c[1], c[2])
      PROVE  t \in doomed'
  BY <1>4 DEF HotelEof, recordVars
<1>5. CASE HotelRestart \/ MoveHome \/ PassTime \/ UNCHANGED vars
  BY <1>5 DEF HotelRestart, MoveHome, PassTime, vars, recordVars
<1> QED BY <1>1, <1>2, <1>3, <1>4, <1>5 DEF Next, Crash, Shutdown, Terminate, Tick, Stall

LEMMA FreshInit == Init => FreshHolderOwns
  BY DEF Init, FreshHolderOwns, Claims, Fresh

\* No action of the hotel, of the holder or of another seat takes the lease
\* from a fresh holder.
LEMMA FreshNext ==
  TypeOK /\ ConnInv /\ FreshHolderOwns /\ [Next]_vars => FreshHolderOwns'
<1> SUFFICES ASSUME TypeOK, ConnInv, FreshHolderOwns, [Next]_vars,
                    NEW t \in Seats, Fresh(t)', t \notin doomed'
             PROVE  /\ lease' # NoLease
                    /\ Renewable(lease, t)'
                    /\ lease'.left >= TTL - stamp[t]'
  BY DEF FreshHolderOwns, Claims
<1>d. t \notin doomed
  BY DoomedExit
<1> USE <1>d
<1> DEFINE Claim == /\ lease' # NoLease
                    /\ Renewable(lease, t)'
                    /\ lease'.left >= TTL - stamp[t]'
<1> SUFFICES Claim
  OBVIOUS
<1>0. ASSUME UNCHANGED <<lease, life, phase, conn, via, stamp, epoch>>
      PROVE  Claim
  BY <1>0, ClaimKept
<1>1. ASSUME NEW s \in Seats, Connect(s)
      PROVE  Claim
  <2>1. t # s
    BY <1>1 DEF Connect, Fresh, ConnInv, TypeOK, recordVars
  <2> QED
    BY <1>1, <2>1, ClaimKept DEF Connect, TypeOK, recordVars
<1>2. ASSUME NEW s \in Seats, RenewCall(s)
      PROVE  Claim
  <2>1. CASE home /\ Renewable(Current, s)
    <3>1. Current \in Leases
      BY <2>1, LeaseTypes DEF Renewable, Mine
    <3>2. lease' = [Current EXCEPT !.left = TTL]
      BY <1>2, <2>1 DEF RenewCall, Renewed, recordVars
    <3>3. lease' # NoLease /\ lease'.left = TTL /\ lease'.seat = s
          /\ lease'.conn = conn[s] /\ lease'.epoch = epoch[s]
      BY <2>1, <3>1, <3>2, LeaseTypes DEF Leases, NoLease, Renewable, Mine, TypeOK
    <3>4. /\ stamp' = [stamp EXCEPT ![s] = 0]
          /\ conn' = conn /\ epoch' = [epoch EXCEPT ![s] = epoch[s]]
          /\ phase' = [phase EXCEPT ![s] = "held"] /\ via' = via /\ life' = life
      BY <1>2, <2>1 DEF RenewCall, Succeed, recordVars
    <3>5. CASE t = s
      BY <3>3, <3>4, <3>5, LeaseAssumption DEF Renewable, Mine, TypeOK
    <3>6. CASE t # s
      <4>1. Fresh(t)
        BY <3>4, <3>6 DEF Fresh, TypeOK
      <4> QED
        BY <2>1, <3>6, <4>1, FreshIsCurrent DEF Renewable, Mine
    <3> QED
      BY <3>5, <3>6
  <2>2. CASE ~(home /\ Renewable(Current, s))
    <3>1. stamp' = stamp /\ via' = via /\ life' = life
      BY <1>2, <2>2 DEF RenewCall, recordVars
    <3>2. lease' \in {lease, Current} /\ epoch' = epoch
      BY <1>2, <2>2 DEF RenewCall, Renewed, Lose, recordVars
    <3>3. phase[t]' = phase[t] /\ conn[t]' = conn[t]
      BY <1>2, <2>2 DEF RenewCall, Lose, Fresh, TypeOK, seatVars, recordVars
    <3>4. Fresh(t)
      BY <3>1, <3>3 DEF Fresh
    <3> QED
      BY <3>1, <3>2, <3>3, <3>4, FreshIsCurrent, ClaimKept
  <2> QED
    BY <2>1, <2>2
<1>3. ASSUME NEW s \in Seats, AcquireCall(s)
      PROVE  Claim
  <2>1. CASE home /\ (Current = NoLease \/ Mine(Current, s))
    <3>1. /\ lease' = IF Current = NoLease THEN Granted(s) ELSE Current
          /\ conn' = conn /\ life' = life
          /\ phase' = [phase EXCEPT ![s] = "held"]
          /\ epoch' = [epoch EXCEPT ![s] = lease'.epoch]
          /\ stamp' = [stamp EXCEPT ![s] = TTL - lease'.left]
          /\ via' = [via EXCEPT ![s] = <<conn[s], life>>]
      BY <1>3, <2>1 DEF AcquireCall, Succeed, recordVars
    <3>2. CASE t = s
      <4>1. lease' \in Leases /\ lease' # NoLease /\ lease'.seat = s /\ lease'.conn = conn[s]
        BY <2>1, <3>1, LeaseTypes DEF Mine, Granted
      <4> QED
        BY <3>1, <3>2, <4>1, LeaseAssumption DEF Renewable, Mine, TypeOK, Leases
    <3>3. CASE t # s
      <4>1. Fresh(t)
        BY <3>1, <3>3 DEF Fresh, TypeOK
      <4> QED
        BY <2>1, <3>3, <4>1, FreshIsCurrent DEF Mine
    <3> QED
      BY <3>2, <3>3
  <2>2. CASE ~(home /\ (Current = NoLease \/ Mine(Current, s)))
    <3>1. stamp' = stamp /\ via' = via /\ life' = life
      BY <1>3, <2>2 DEF AcquireCall, recordVars
    <3>2. lease' \in {lease, Current} /\ epoch' = epoch
      BY <1>3, <2>2 DEF AcquireCall, Lose, recordVars
    <3>3. phase[t]' = phase[t] /\ conn[t]' = conn[t]
      BY <1>3, <2>2 DEF AcquireCall, Lose, Fresh, TypeOK, recordVars
    <3>4. Fresh(t)
      BY <3>1, <3>3 DEF Fresh
    <3> QED
      BY <3>1, <3>2, <3>3, <3>4, FreshIsCurrent, ClaimKept
  <2> QED
    BY <2>1, <2>2
<1>4. ASSUME NEW s \in Seats, Probe(s)
      PROVE  Claim
  <2>1. /\ lease' = Current /\ life' = life /\ conn' = conn /\ via' = via
        /\ stamp' = stamp /\ epoch' = epoch
    BY <1>4 DEF Probe, recordVars
  <2>2. phase[t]' = phase[t]
    BY <1>4 DEF Probe, Fresh, TypeOK, recordVars
  <2>3. Fresh(t)
    BY <2>1, <2>2 DEF Fresh
  <2> QED
    BY <2>1, <2>2, <2>3, FreshIsCurrent, ClaimKept
<1>5. ASSUME NEW s \in Seats, Respawn(s)
      PROVE  Claim
  BY <1>0, <1>5 DEF Respawn, hotelVars, driverVars
<1>6. ASSUME NEW s \in Seats, RenewErr(s)
      PROVE  Claim
  <2>1. CASE lease' = lease
    BY <1>0, <1>6, <2>1 DEF RenewErr, seatVars, recordVars
  <2>2. CASE lease' = Renewed(s)
    <3>1. UNCHANGED <<life, phase, conn, via, stamp, epoch>>
      BY <1>6 DEF RenewErr, seatVars, recordVars
    <3>2. Fresh(t)
      BY <3>1 DEF Fresh
    <3>3. Current = lease /\ lease # NoLease /\ lease.seat = t
      BY <3>2, FreshIsCurrent
    <3>4. CASE home /\ Renewable(Current, s)
      <4>1. lease' = [lease EXCEPT !.left = TTL] /\ lease \in Leases
        BY <2>2, <3>3, <3>4 DEF Renewed, TypeOK
      <4>2. Renewable(lease, t) /\ lease.left >= TTL - stamp[t]
        BY <3>2 DEF FreshHolderOwns, Claims
      <4>3. /\ lease'.seat = lease.seat /\ lease'.conn = lease.conn
            /\ lease'.epoch = lease.epoch /\ lease'.left = TTL
            /\ lease' # NoLease
        BY <4>1, LeaseAssumption DEF Leases, NoLease
      <4> QED
        BY <3>1, <4>2, <4>3, LeaseAssumption DEF Renewable, Mine, TypeOK
    <3>5. CASE ~(home /\ Renewable(Current, s))
      BY <1>0, <2>2, <3>1, <3>3, <3>5 DEF Renewed
    <3> QED
      BY <3>4, <3>5
  <2> QED
    BY <1>6, <2>1, <2>2 DEF RenewErr, recordVars
<1>7. ASSUME NEW s \in Seats, AcquireErr(s)
      PROVE  Claim
  <2>1. t # s /\ UNCHANGED <<life, via, stamp, epoch>>
    BY <1>7 DEF AcquireErr, BackOff, Fresh, TypeOK, recordVars
  <2>2. phase[t]' = phase[t] /\ conn[t]' = conn[t]
    BY <1>7, <2>1 DEF AcquireErr, BackOff, TypeOK, recordVars
  <2>3. Fresh(t)
    BY <2>1, <2>2 DEF Fresh
  <2>4. lease' = lease
    BY <1>7, <2>3, FreshIsCurrent DEF AcquireErr, recordVars
  <2> QED
    BY <2>1, <2>2, <2>4, ClaimKept
<1>8. ASSUME NEW s \in Seats, SetupFails(s)
      PROVE  Claim
  <2>1. conn[t]' = conn[t]
    BY <1>8 DEF SetupFails, Fresh, TypeOK, recordVars
  <2> QED
    BY <1>8, <2>1, ClaimKept DEF SetupFails, hotelVars, driverVars, recordVars
<1>9. ASSUME NEW s \in Seats, TokenMissing(s)
      PROVE  Claim
  BY <1>0, <1>9 DEF TokenMissing, hotelVars, driverVars, recordVars
<1>10. ASSUME NEW s \in Seats, ProbeErr(s)
       PROVE  Claim
  <2>1. UNCHANGED <<life, phase, conn, via, stamp, epoch>>
    BY <1>10 DEF ProbeErr, driverVars, recordVars
  <2>2. Fresh(t)
    BY <2>1 DEF Fresh
  <2> QED
    BY <1>0, <1>10, <2>1, <2>2, FreshIsCurrent DEF ProbeErr, recordVars
<1>11. ASSUME NEW s \in Seats, Disconnect(s)
       PROVE  Claim
  <2>1. t # s
    BY <1>11 DEF Disconnect, Fresh, TypeOK, recordVars
  <2> QED
    BY <1>11, <2>1, ClaimKept DEF Disconnect, hotelVars, TypeOK, recordVars
<1>12. ASSUME NEW s \in Seats, Crash(s)
       PROVE  Claim
  <2>1. t # s
    BY <1>12 DEF Crash, Exit, Fresh, TypeOK
  <2> QED
    BY <1>12, <2>1, ClaimKept DEF Crash, Exit, hotelVars, TypeOK
<1>13. ASSUME NEW s \in Seats, Shutdown(s)
       PROVE  Claim
  <2>1. t # s
    BY <1>13 DEF Shutdown, Exit, Fresh, TypeOK
  <2>2. /\ UNCHANGED <<life, via, stamp, epoch>>
        /\ phase[t]' = phase[t] /\ conn[t]' = conn[t]
    BY <1>13, <2>1 DEF Shutdown, Exit, TypeOK
  <2>3. Fresh(t)
    BY <2>2 DEF Fresh
  <2>4. lease' = lease
    BY <1>13, <2>1, <2>3, FreshIsCurrent DEF Shutdown, Mine
  <2> QED
    BY <2>2, <2>4, ClaimKept
<1>19. ASSUME NEW s \in Seats, Terminate(s)
       PROVE  Claim
  <2>1. t # s
    BY <1>19 DEF Terminate
  <2> QED
    BY <1>19, <2>1, ClaimKept DEF Terminate, Exit, hotelVars, TypeOK
<1>20. ASSUME NEW s \in Seats, RestartComponent(s)
       PROVE  Claim
  BY <1>0, <1>20 DEF RestartComponent, hotelVars, driverVars, seatVars
<1>14. ASSUME NEW c \in open, HotelEof(c[1], c[2])
       PROVE  Claim
  <2>1. UNCHANGED <<life, phase, conn, via, stamp, epoch>>
    BY <1>14 DEF HotelEof, driverVars, seatVars, recordVars
  <2>2. Fresh(t)
    BY <2>1 DEF Fresh
  <2>3. lease.seat = t /\ lease.conn = conn[t]
    BY <2>2 DEF FreshHolderOwns, Claims, Renewable, Mine
  <2>4. lease' = lease
    BY <1>14, <2>3 DEF HotelEof, recordVars
  <2> QED
    BY <1>0, <2>1, <2>4
<1>15. CASE HotelRestart
  BY <1>15 DEF HotelRestart, Fresh, ConnInv, TypeOK, recordVars
<1>16. CASE MoveHome
  BY <1>0, <1>16 DEF MoveHome, driverVars, seatVars, recordVars
<1>17. CASE PassTime
  <2>1. UNCHANGED <<life, phase, epoch, via, conn>>
    BY <1>17 DEF PassTime, recordVars
  <2>2. stamp[t] < TTL /\ stamp[t]' = stamp[t] + 1
    BY <1>17, LeaseAssumption DEF PassTime, Fresh, TypeOK, recordVars
  <2>3. Fresh(t)
    BY <2>1, <2>2 DEF Fresh
  <2>4. /\ lease \in Leases /\ lease # NoLease /\ Renewable(lease, t)
        /\ lease.left >= TTL - stamp[t]
    BY <2>3 DEF FreshHolderOwns, Claims, TypeOK
  <2>5. lease.left # 0
    BY <2>2, <2>4, LeaseAssumption DEF Leases, TypeOK
  <2>6. lease' = [lease EXCEPT !.left = @ - 1]
    BY <1>17, <2>4, <2>5 DEF PassTime, recordVars
  <2>7. /\ lease'.seat = lease.seat /\ lease'.conn = lease.conn
        /\ lease'.epoch = lease.epoch /\ lease'.left = lease.left - 1
        /\ lease' # NoLease
    BY <2>4, <2>6, LeaseAssumption DEF Leases, NoLease
  <2> QED
    BY <2>1, <2>2, <2>4, <2>7, LeaseAssumption DEF Renewable, Mine, Leases, TypeOK
<1>18. CASE UNCHANGED vars
  BY <1>0, <1>18 DEF vars, hotelVars, driverVars, seatVars, recordVars
<1> QED
  BY <1>1, <1>2, <1>3, <1>4, <1>5, <1>6, <1>7, <1>8, <1>9, <1>10, <1>11, <1>12,
     <1>13, <1>14, <1>15, <1>16, <1>17, <1>18, <1>19, <1>20
     DEF Next, Act, Suffer, Tick, Stall

-----------------------------------------------------------------------------
(***************************************************************************)
(* Epochs                                                                  *)
(***************************************************************************)

EpochSafety == EpochInv /\ EpochsAreUnique

LEMMA EpochInit == Init => EpochSafety
  BY DEF Init, EpochSafety, EpochInv, EpochsAreUnique

\* A step that makes no seat a holder, and at most drops the lease or changes
\* its expiry.
LEMMA EpochsKept ==
  ASSUME EpochSafety,
         \A s \in Seats : /\ phase[s]' = "held" => phase[s] = "held"
                          /\ phase[s]' = "held" => epoch[s]' = epoch[s]
                          /\ via[s]' = via[s],
         life' = life, nextEpoch' = nextEpoch,
         \/ lease' = NoLease
         \/ lease # NoLease /\ lease'.epoch = lease.epoch /\ lease'.seat = lease.seat
  PROVE  EpochSafety'
<1>1. EpochInv'
  BY DEF EpochSafety, EpochInv
<1>2. EpochsAreUnique'
  BY DEF EpochSafety, EpochsAreUnique
<1> QED
  BY <1>1, <1>2 DEF EpochSafety

\* A grant takes an epoch of its own.
LEMMA EpochNext ==
  TypeOK /\ ConnInv /\ EpochSafety /\ [Next]_vars => EpochSafety'
<1> SUFFICES ASSUME TypeOK, ConnInv, EpochSafety, [Next]_vars
             PROVE  EpochSafety'
  OBVIOUS
<1>0. Current = lease \/ Current = NoLease
  BY DEF Current
<1>a. ASSUME \A s \in Seats : phase[s]' = "held" => phase[s] = "held",
             UNCHANGED <<life, nextEpoch, via, epoch>>,
             lease' \in {lease, NoLease}
      PROVE  EpochSafety'
  BY <1>a, EpochsKept
<1>1. ASSUME NEW s \in Seats, Connect(s)
      PROVE  EpochSafety'
  BY <1>1, <1>a DEF Connect, TypeOK, recordVars
<1>2. ASSUME NEW s \in Seats, RenewCall(s)
      PROVE  EpochSafety'
  <2>1. CASE home /\ Renewable(Current, s)
    <3>1. /\ lease' = [lease EXCEPT !.left = TTL] /\ lease \in Leases
          /\ lease # NoLease
      BY <1>0, <1>2, <2>1 DEF RenewCall, Renewed, Renewable, Mine, TypeOK, recordVars
    <3>2. lease'.epoch = lease.epoch /\ lease'.seat = lease.seat
      BY <3>1 DEF Leases
    <3>3. /\ phase' = [phase EXCEPT ![s] = "held"] /\ phase[s] = "held"
          /\ epoch' = [epoch EXCEPT ![s] = epoch[s]]
          /\ UNCHANGED <<life, nextEpoch, via>>
      BY <1>2, <2>1 DEF RenewCall, WantsRenew, Succeed, recordVars
    <3>4. \A u \in Seats : phase[u]' = phase[u] /\ epoch[u]' = epoch[u]
      BY <3>3 DEF TypeOK
    <3> QED
      BY <3>1, <3>2, <3>3, <3>4, EpochsKept
  <2>2. CASE ~(home /\ Renewable(Current, s))
    <3>1. lease' \in {lease, NoLease} /\ UNCHANGED <<life, nextEpoch, via, epoch>>
      BY <1>0, <1>2, <2>2 DEF RenewCall, Renewed, Lose, recordVars
    <3>2. \A u \in Seats : phase[u]' = "held" => phase[u] = "held"
      BY <1>2, <2>2 DEF RenewCall, Lose, TypeOK, recordVars
    <3> QED
      BY <1>a, <3>1, <3>2
  <2> QED
    BY <2>1, <2>2
<1>3. ASSUME NEW s \in Seats, AcquireCall(s)
      PROVE  EpochSafety'
  <2>1. CASE home /\ (Current = NoLease \/ Mine(Current, s))
    <3>1. /\ lease' = IF Current = NoLease THEN Granted(s) ELSE Current
          /\ nextEpoch' = IF Current = NoLease THEN nextEpoch + 1 ELSE nextEpoch
          /\ life' = life
          /\ phase' = [phase EXCEPT ![s] = "held"]
          /\ epoch' = [epoch EXCEPT ![s] = lease'.epoch]
          /\ via' = [via EXCEPT ![s] = <<conn[s], life>>]
      BY <1>3, <2>1 DEF AcquireCall, Succeed, recordVars
    <3>2. lease' \in Leases /\ lease' # NoLease /\ lease'.seat = s
      BY <2>1, <3>1, LeaseTypes DEF Mine, Granted
    <3>3. lease'.epoch \in Nat /\ lease'.epoch <= nextEpoch' /\ nextEpoch' \in Nat
          /\ nextEpoch <= nextEpoch'
      <4>1. CASE Current = NoLease
        BY <3>1, <4>1 DEF Granted, TypeOK
      <4>2. CASE Current # NoLease
        BY <1>0, <3>1, <3>2, <4>2 DEF EpochSafety, EpochInv, Leases, TypeOK
      <4> QED
        BY <4>1, <4>2
    <3>4. ASSUME NEW u \in Seats, u # s, phase[u] = "held", via[u][2] = life
          PROVE  lease'.epoch # epoch[u] /\ epoch[u] <= nextEpoch'
      <4>1. CASE Current = NoLease
        BY <3>1, <3>4, <4>1 DEF EpochSafety, EpochInv, Granted, TypeOK
      <4>2. CASE Current # NoLease
        BY <1>0, <3>1, <3>2, <3>4, <4>2 DEF EpochSafety, EpochInv
      <4> QED
        BY <4>1, <4>2
    <3>5. via[s]'[2] = life /\ epoch[s]' = lease'.epoch
      BY <3>1 DEF TypeOK
    <3>6. \A u \in Seats : u # s =>
            phase[u]' = phase[u] /\ via[u]' = via[u] /\ epoch[u]' = epoch[u]
      BY <3>1 DEF TypeOK
    <3>7. EpochInv'
      BY <3>1, <3>2, <3>3, <3>4, <3>5, <3>6 DEF EpochInv
    <3>8. EpochsAreUnique'
      <4> SUFFICES ASSUME NEW u \in Seats, NEW v \in Seats, u # v,
                          phase[u]' = "held", phase[v]' = "held",
                          via[u]'[2] = via[v]'[2]
                   PROVE  epoch[u]' # epoch[v]'
        BY DEF EpochsAreUnique
      <4>1. CASE u = s
        BY <3>4, <3>5, <3>6, <4>1
      <4>2. CASE v = s
        BY <3>4, <3>5, <3>6, <4>2
      <4>3. CASE u # s /\ v # s
        BY <3>6, <4>3 DEF EpochSafety, EpochsAreUnique
      <4> QED
        BY <4>1, <4>2, <4>3
    <3> QED
      BY <3>7, <3>8 DEF EpochSafety
  <2>2. CASE ~(home /\ (Current = NoLease \/ Mine(Current, s)))
    <3>1. lease' \in {lease, NoLease} /\ UNCHANGED <<life, nextEpoch, via, epoch>>
      BY <1>0, <1>3, <2>2 DEF AcquireCall, Lose, recordVars
    <3>2. \A u \in Seats : phase[u]' = "held" => phase[u] = "held"
      BY <1>3, <2>2 DEF AcquireCall, Lose, TypeOK, recordVars
    <3> QED
      BY <1>a, <3>1, <3>2
  <2> QED
    BY <2>1, <2>2
<1>4. ASSUME NEW s \in Seats, Probe(s)
      PROVE  EpochSafety'
  <2>1. \A u \in Seats : phase[u]' = "held" => phase[u] = "held"
    BY <1>4 DEF Probe, TypeOK, recordVars
  <2> QED
    BY <1>0, <1>4, <1>a, <2>1 DEF Probe, recordVars
<1>5. ASSUME NEW s \in Seats, Respawn(s)
      PROVE  EpochSafety'
  BY <1>5, <1>a DEF Respawn, hotelVars, driverVars
<1>6. ASSUME NEW s \in Seats, RenewErr(s)
      PROVE  EpochSafety'
  <2>1. CASE lease' \in {lease, NoLease}
    BY <1>6, <1>a, <2>1 DEF RenewErr, recordVars
  <2>2. CASE lease' \notin {lease, NoLease}
    <3>1. /\ lease' = [lease EXCEPT !.left = TTL] /\ lease \in Leases
          /\ lease # NoLease
      BY <1>0, <1>6, <2>2 DEF RenewErr, Renewed, Renewable, Mine, TypeOK, recordVars
    <3>2. lease'.epoch = lease.epoch /\ lease'.seat = lease.seat
      BY <3>1 DEF Leases
    <3> QED
      BY <1>6, <3>1, <3>2, EpochsKept DEF RenewErr, recordVars
  <2> QED
    BY <2>1, <2>2
<1>7. ASSUME NEW s \in Seats, AcquireErr(s)
      PROVE  EpochSafety'
  <2>1. /\ phase' = [phase EXCEPT ![s] = "acquiring"]
        /\ UNCHANGED <<life, via, epoch>>
    BY <1>7 DEF AcquireErr, BackOff, recordVars
  <2>2. CASE UNCHANGED <<lease, nextEpoch>>
    BY <1>a, <2>1, <2>2 DEF TypeOK
  <2>3. CASE lease' = Granted(s) /\ nextEpoch' = nextEpoch + 1
    <3>1. lease'.epoch = nextEpoch + 1
      BY <2>3 DEF Granted
    <3>2. \A u \in Seats : phase[u]' = "held" => phase[u] = "held"
      BY <2>1 DEF TypeOK
    <3>3. \A u \in Seats : phase[u] = "held" /\ via[u][2] = life =>
            epoch[u] <= nextEpoch /\ epoch[u] \in Nat
      BY DEF EpochSafety, EpochInv, TypeOK
    <3>4. EpochInv'
      BY <2>1, <2>3, <3>1, <3>2, <3>3 DEF EpochInv, TypeOK
    <3>5. EpochsAreUnique'
      BY <2>1, <3>2 DEF EpochSafety, EpochsAreUnique
    <3> QED
      BY <3>4, <3>5 DEF EpochSafety
  <2> QED
    BY <1>7, <2>2, <2>3 DEF AcquireErr, recordVars
<1>8. ASSUME NEW s \in Seats, SetupFails(s)
      PROVE  EpochSafety'
  BY <1>8, <1>a DEF SetupFails, hotelVars, driverVars, recordVars
<1>9. ASSUME NEW s \in Seats, TokenMissing(s)
      PROVE  EpochSafety'
  BY <1>9, <1>a DEF TokenMissing, hotelVars, driverVars, recordVars
<1>10. ASSUME NEW s \in Seats, ProbeErr(s)
       PROVE  EpochSafety'
  BY <1>0, <1>10, <1>a DEF ProbeErr, driverVars, recordVars
<1>11. ASSUME NEW s \in Seats, Disconnect(s)
       PROVE  EpochSafety'
  BY <1>11, <1>a DEF Disconnect, hotelVars, TypeOK, recordVars
<1>12. ASSUME NEW s \in Seats, Crash(s)
       PROVE  EpochSafety'
  BY <1>12, <1>a DEF Crash, Exit, hotelVars, TypeOK
<1>13. ASSUME NEW s \in Seats, Shutdown(s)
       PROVE  EpochSafety'
  BY <1>13, <1>a DEF Shutdown, Exit, TypeOK
<1>19. ASSUME NEW s \in Seats, Terminate(s)
       PROVE  EpochSafety'
  BY <1>19, <1>a DEF Terminate, Exit, hotelVars, TypeOK
<1>20. ASSUME NEW s \in Seats, RestartComponent(s)
       PROVE  EpochSafety'
  BY <1>20, <1>a DEF RestartComponent, hotelVars, driverVars, seatVars
<1>14. ASSUME NEW c \in open, HotelEof(c[1], c[2])
       PROVE  EpochSafety'
  BY <1>14, <1>a DEF HotelEof, driverVars, seatVars, recordVars
<1>15. CASE HotelRestart
  <2>1. /\ lease' = NoLease /\ life' = life + 1 /\ UNCHANGED <<via, epoch>>
        /\ \A u \in Seats : phase[u]' = "held" => phase[u] = "held"
    BY <1>15 DEF HotelRestart, recordVars
  <2>2. EpochInv'
    BY <2>1 DEF EpochInv, ConnInv, TypeOK
  <2>3. EpochsAreUnique'
    BY <2>1 DEF EpochSafety, EpochsAreUnique
  <2> QED
    BY <2>2, <2>3 DEF EpochSafety
<1>16. CASE MoveHome
  BY <1>16, <1>a DEF MoveHome, driverVars, seatVars, recordVars
<1>17. CASE PassTime
  <2>1. UNCHANGED <<life, nextEpoch, phase, epoch, via>>
    BY <1>17 DEF PassTime, recordVars
  <2>2. CASE lease = NoLease \/ lease.left = 0
    BY <1>17, <1>a, <2>1, <2>2 DEF PassTime, recordVars
  <2>3. CASE ~(lease = NoLease \/ lease.left = 0)
    <3>1. lease \in Leases /\ lease' = [lease EXCEPT !.left = @ - 1]
      BY <1>17, <2>3 DEF PassTime, TypeOK, recordVars
    <3>2. lease'.epoch = lease.epoch /\ lease'.seat = lease.seat
      BY <3>1 DEF Leases
    <3> QED
      BY <2>1, <2>3, <3>2, EpochsKept
  <2> QED
    BY <2>2, <2>3
<1>18. CASE UNCHANGED vars
  BY <1>18, <1>a DEF vars, hotelVars, driverVars, seatVars, recordVars
<1> QED
  BY <1>1, <1>2, <1>3, <1>4, <1>5, <1>6, <1>7, <1>8, <1>9, <1>10, <1>11, <1>12,
     <1>13, <1>14, <1>15, <1>16, <1>17, <1>18, <1>19, <1>20
     DEF Next, Act, Suffer, Tick, Stall

-----------------------------------------------------------------------------
(***************************************************************************)
(* Results                                                                 *)
(***************************************************************************)

\* The inductive invariant of the poll lease holds in every reachable state.
THEOREM Invariance == Spec => []IndInv
<1>1. Init => IndInv
  BY TypeInit, ConnInit, FreshInit, EpochInit DEF IndInv, EpochSafety
<1>2. IndInv /\ [Next]_vars => IndInv'
  BY TypeNext, ConnNext, FreshNext, EpochNext DEF IndInv, EpochSafety
<1> QED
  BY <1>1, <1>2, PTL DEF Spec

\* A seat that was stamped on its present connection less than a TTL ago, and
\* that RestartComponent did not signal, is the registered owner, whatever the
\* other seats and the hotel do.
THEOREM Ownership == Spec => []FreshHolderOwns
<1>1. IndInv => FreshHolderOwns
  BY DEF IndInv
<1> QED
  BY <1>1, Invariance, PTL

\* Epoch fencing: no two holders share an epoch of one hotel life.
THEOREM EpochFencing == Spec => []EpochsAreUnique
<1>1. IndInv => EpochsAreUnique
  BY DEF IndInv
<1> QED
  BY <1>1, Invariance, PTL

\* Two seats are never fresh holders at the same time, those told to terminate
\* aside.
OneFreshHolder == \A s, t \in Claims : s = t

\* Mutual exclusion of the lease: at most one seat is entitled to poll.  Where
\* RestartComponent signals the holder and its lease is given away before it is
\* gone, the holder is not the one.
THEOREM MutualExclusion == Spec => []OneFreshHolder
<1>1. IndInv => OneFreshHolder
  BY FreshIsCurrent DEF IndInv, OneFreshHolder, Claims
<1> QED
  BY <1>1, Invariance, PTL

-----------------------------------------------------------------------------
(***************************************************************************)
(* PollLease implements LeaseAuthority                                     *)
(*                                                                         *)
(* Every step does one of four things to the registry (RegistryStep).  The *)
(* inductive invariant, before and after the step, says that the owner     *)
(* alone may be a fresh holder, which settles what the step may do to the  *)
(* claims.                                                                 *)
(***************************************************************************)

\* The registry keeps its owner, drops it, grants a lease it does not have or
\* no longer counts, or starts over.
Keeps == /\ lease'.seat = lease.seat /\ lease'.epoch = lease.epoch
         /\ nextEpoch' = nextEpoch
Drops == lease' = NoLease /\ nextEpoch' = nextEpoch
Grants(s) == /\ Current = NoLease
             /\ lease' = Granted(s) /\ nextEpoch' = nextEpoch + 1
StartsOver == lease' = NoLease /\ nextEpoch' = 0

\* What the handlers of renewals and questions leave in the registry.
LEMMA CurrentKeepsOrDrops ==
  ASSUME TypeOK, NEW s \in Seats, lease' \in {lease, Current, Renewed(s)},
         nextEpoch' = nextEpoch
  PROVE  Keeps \/ Drops
<1>1. Current = lease \/ Current = NoLease
  BY DEF Current
<1>2. lease' \in {lease, Current} => Keeps \/ Drops
  BY <1>1 DEF Keeps, Drops
<1>3. CASE lease' = Renewed(s)
  <2>1. CASE home /\ Renewable(Current, s)
    <3>1. lease' = [Current EXCEPT !.left = TTL]
      BY <1>3, <2>1 DEF Renewed
    <3>2. Current = lease /\ lease \in Leases
      BY <1>1, <2>1 DEF Renewable, Mine, TypeOK
    <3> QED BY <3>1, <3>2 DEF Keeps, Leases
  <2>2. CASE ~(home /\ Renewable(Current, s))
    BY <1>2, <1>3, <2>2 DEF Renewed
  <2> QED BY <2>1, <2>2
<1> QED BY <1>2, <1>3

\* Every step does one of the four.
LEMMA RegistryStep ==
  ASSUME TypeOK, [Next]_vars
  PROVE  Keeps \/ Drops \/ StartsOver \/ \E s \in Seats : Grants(s)
<1>1. ASSUME NEW s \in Seats, Connect(s) \/ Respawn(s) \/ SetupFails(s) \/ TokenMissing(s)
                              \/ Disconnect(s) \/ Crash(s) \/ Terminate(s)
                              \/ RestartComponent(s)
      PROVE  Keeps
  BY <1>1 DEF Keeps, Connect, Respawn, SetupFails, TokenMissing, Disconnect, Crash,
              Terminate, RestartComponent, hotelVars, recordVars
<1>2. ASSUME NEW s \in Seats, RenewCall(s) \/ RenewErr(s) \/ Probe(s) \/ ProbeErr(s)
      PROVE  Keeps \/ Drops
  <2>1. lease' \in {lease, Current, Renewed(s)} /\ nextEpoch' = nextEpoch
    BY <1>2 DEF RenewCall, RenewErr, Probe, ProbeErr, recordVars
  <2> QED BY <2>1, CurrentKeepsOrDrops
<1>3. ASSUME NEW s \in Seats, AcquireCall(s)
      PROVE  Keeps \/ Drops \/ Grants(s)
  <2>1. CASE home /\ Current = NoLease
    BY <1>3, <2>1 DEF AcquireCall, Grants, recordVars
  <2>2. CASE ~(home /\ Current = NoLease)
    <3>1. lease' \in {lease, Current} /\ nextEpoch' = nextEpoch
      BY <1>3, <2>2 DEF AcquireCall, recordVars
    <3> QED BY <3>1, CurrentKeepsOrDrops
  <2> QED BY <2>1, <2>2
<1>4. ASSUME NEW s \in Seats, AcquireErr(s)
      PROVE  Keeps \/ Grants(s)
  BY <1>4 DEF AcquireErr, Keeps, Grants, recordVars
<1>5. ASSUME NEW s \in Seats, Shutdown(s)
      PROVE  Keeps \/ Drops
  BY <1>5 DEF Shutdown, Keeps, Drops
<1>6. ASSUME NEW c \in open, HotelEof(c[1], c[2])
      PROVE  Keeps \/ Drops
  BY <1>6 DEF HotelEof, Keeps, Drops, recordVars
<1>7. CASE HotelRestart
  BY <1>7 DEF HotelRestart, StartsOver, recordVars
<1>8. CASE MoveHome
  BY <1>8 DEF MoveHome, Keeps, recordVars
<1>9. CASE Tick \/ Stall
  <2>1. nextEpoch' = nextEpoch
    BY <1>9 DEF Tick, Stall, PassTime, recordVars
  <2>2. lease' = IF lease = NoLease \/ lease.left = 0 THEN lease
                 ELSE [lease EXCEPT !.left = @ - 1]
    BY <1>9 DEF Tick, Stall, PassTime, recordVars
  <2>3. lease # NoLease => lease \in Leases
    BY DEF TypeOK
  <2> QED BY <2>1, <2>2, <2>3 DEF Keeps, Leases
<1>10. CASE UNCHANGED vars
  BY <1>10 DEF vars, hotelVars, Keeps, recordVars
<1> QED
  BY <1>1, <1>2, <1>3, <1>4, <1>5, <1>6, <1>7, <1>8, <1>9, <1>10 DEF Next, Act, Suffer

\* Nobody but the registered owner is a fresh holder.
LEMMA ClaimsOfOwner ==
  ASSUME IndInv
  PROVE  /\ Claims \subseteq {lease.seat} /\ Claims \subseteq Seats
         /\ Claims # {} => Current # NoLease
<1>1. \A t \in Claims : t \in Seats /\ lease.seat = t /\ Current # NoLease
  BY FreshIsCurrent DEF IndInv, Claims
<1> QED BY <1>1

LEMMA AuthorityInit == Init => Authority!Init
<1> SUFFICES ASSUME Init PROVE Authority!Init
  OBVIOUS
<1>1. Claims = {}
  BY DEF Init, Claims, Fresh
<1> QED BY <1>1 DEF Init, NoLease, Authority!Init

LEMMA AuthorityNext ==
  ASSUME IndInv, IndInv', [Next]_vars
  PROVE  [Authority!Next]_(Authority!vars)
<1>1. /\ Claims \subseteq {lease.seat} /\ Claims \subseteq Seats
      /\ Claims # {} => Current # NoLease
  BY ClaimsOfOwner
<1>2. Claims' \subseteq {lease'.seat} /\ Claims' \subseteq Seats
  <2>1. ASSUME NEW t \in Seats, t \in Claims'
        PROVE  lease'.seat = t
    BY <2>1 DEF IndInv, FreshHolderOwns, Claims, Renewable, Mine
  <2> QED BY <2>1 DEF Claims
<1>3. NoSeat \notin Seats /\ NoLease.seat = NoSeat /\ NoLease.epoch = 0
  BY LeaseAssumption DEF NoLease
<1>5. CASE Keeps
  <2>1. CASE Claims' = {}
    BY <1>5, <2>1 DEF Keeps, Authority!Next, Authority!Lapse
  <2>2. CASE Claims' # {}
    <3>1. Claims' = {lease.seat} /\ lease.seat \in Seats
      BY <1>2, <1>5, <2>2 DEF Keeps
    <3>2. Authority!Confirm(lease.seat)
      BY <1>5, <3>1 DEF Keeps, Authority!Confirm
    <3> QED BY <3>1, <3>2 DEF Authority!Next
  <2> QED BY <2>1, <2>2
<1>6. CASE Drops
  <2>1. Claims' = {}
    BY <1>2, <1>3, <1>6 DEF Drops
  <2>2. Authority!Free
    BY <1>3, <1>6, <2>1 DEF Drops, Authority!Free
  <2>3. Claims = {} \/ Claims = {lease.seat}
    BY <1>1
  <2> QED
    BY <1>6, <2>2, <2>3 DEF Drops, Authority!Next, Authority!Expire, Authority!Release
<1>7. ASSUME NEW s \in Seats, Grants(s)
      PROVE  Authority!Grant(s)
  <2>1. Claims = {}
    BY <1>1, <1>7 DEF Grants
  <2>2. lease'.seat = s /\ lease'.epoch = nextEpoch + 1 /\ nextEpoch' = nextEpoch + 1
    BY <1>7 DEF Grants, Granted
  <2>3. Claims' \in {{}, {s}}
    BY <1>2, <2>2
  <2> QED BY <2>1, <2>2, <2>3 DEF Authority!Grant
<1>8. CASE StartsOver
  <2>1. Claims' = {}
    BY <1>2, <1>3, <1>8 DEF StartsOver
  <2>2. Authority!Free
    BY <1>3, <1>8, <2>1 DEF StartsOver, Authority!Free
  <2> QED BY <1>8, <2>2 DEF StartsOver, Authority!Next, Authority!Restart
<1>9. TypeOK
  BY DEF IndInv
<1> QED BY <1>5, <1>6, <1>7, <1>8, <1>9, RegistryStep DEF Authority!Next

\* The registry, its handlers and the drivers implement the lock with a fence
\* (ImplementsAuthority): whatever breaks, is lost, restarts or stalls, a lease
\* changes hands only when its last holder has lost its claim, and at the next
\* epoch.
THEOREM Refinement == Spec => ImplementsAuthority
<1>1. IndInv /\ IndInv' /\ [Next]_vars => [Authority!Next]_(Authority!vars)
  BY AuthorityNext
<1> QED
  BY AuthorityInit, <1>1, Invariance, PTL DEF Spec, ImplementsAuthority, Authority!Spec

==============================================================================
