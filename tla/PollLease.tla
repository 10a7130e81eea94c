------------------------------ MODULE PollLease ------------------------------
(***************************************************************************)
(* The poll lease of one bot token: the hotel's in-memory lease registry   *)
(* and its IPC handlers, and the Telegram seats that drive the lease with  *)
(* LeaseDriver from the membrane runtime loop and poll while they hold it. *)
(*                                                                         *)
(* A renewal and the re-acquire that may follow it are two requests, so    *)
(* other seats act in between.  Time is relative: the remaining life of    *)
(* the lease, the age of a seat's last success and the time to its next    *)
(* attempt.  Connections break, replies are lost, seats stall, crash or    *)
(* shut down, the hotel restarts and forgets its registry.                 *)
(***************************************************************************)
EXTENDS Integers, FiniteSets

CONSTANTS
  Seats,      \* membrane seats configured for the token
  Seeded,     \* seats with a guest record and a pid in the context graph
  TTL,        \* TELEGRAM_POLL_LEASE_TTL_SECS and LeaseDriverConfig.ttl
  RenewEvery, \* LEASE_RENEW_INTERVAL
  Reprobe,    \* LEASE_REPROBE_SECS
  MaxBackoff, \* longest delay after an IPC error
  Faults,     \* kinds of faults that may happen
  MaxFaults,  \* how many of them
  NoSeat      \* owner of no lease

ASSUME LeaseAssumption ==
  /\ Seeded \subseteq Seats
  /\ TTL \in Nat \ {0}
  /\ RenewEvery \in Nat \ {0}
  /\ Reprobe \in Nat \ {0}
  /\ MaxBackoff \in Nat /\ MaxBackoff >= RenewEvery
  /\ MaxFaults \in Nat
  /\ NoSeat \notin Seats

VARIABLES
  lease,      \* RuntimeLeaseRegistry.active of the token
  nextEpoch,  \* RuntimeLeaseRegistry.next_epoch
  life,       \* history: restarts of the hotel
  home,       \* the hotel is the transport home of the agent
  open,       \* connections whose handler has not seen end-of-file
  mode,       \* where a seat's runtime loop stands
  conn,       \* number of a seat's connection, 0 for none
  dialed,     \* connections a seat has opened
  phase,      \* LeaseDriver.phase
  epoch,      \* epoch of LeaseDriver's Held phase
  age,        \* time since LeaseDriver.last_success, capped above TTL
  must,       \* the renewal of this tick failed: re-acquire in place
  due,        \* time to the next attempt of the runtime loop
  stand,      \* TelegramSeatGuest.stand_down
  poll,       \* the seat's poll task runs
  pidless,    \* seeded seats whose guest record has no pid
  doomed,     \* history: seats told to terminate whose process still runs
  stamp,      \* history: time since the hotel stamped the seat's lease
  via,        \* history: connection and hotel life of the seat's grant
  faults      \* faults so far

hotelVars == <<lease, nextEpoch, life, home, open>>
driverVars == <<phase, epoch, age, must, stamp, via>>
seatVars == <<mode, conn, dialed, due, stand, poll>>
recordVars == <<pidless, doomed>>
vars == <<hotelVars, driverVars, seatVars, recordVars, faults>>

\* An active lease, and none.
Leases == [seat : Seats, conn : Nat, epoch : Nat, left : 0..TTL]
NoLease == [seat |-> NoSeat, conn |-> 0, epoch |-> 0, left |-> 0]

Init ==
  /\ lease = NoLease
  /\ nextEpoch = 0
  /\ life = 0
  /\ home = TRUE
  /\ open = {}
  /\ mode = [s \in Seats |-> "down"]
  /\ conn = [s \in Seats |-> 0]
  /\ dialed = [s \in Seats |-> 0]
  /\ phase = [s \in Seats |-> "acquiring"]
  /\ epoch = [s \in Seats |-> 0]
  /\ age = [s \in Seats |-> 0]
  /\ must = [s \in Seats |-> FALSE]
  /\ due = [s \in Seats |-> 0]
  /\ stand = [s \in Seats |-> "no"]
  /\ poll = [s \in Seats |-> FALSE]
  /\ pidless = {}
  /\ doomed = {}
  /\ stamp = [s \in Seats |-> TTL]
  /\ via = [s \in Seats |-> <<0, 0>>]
  /\ faults = 0

\* One more fault of kind f.
Fault(f) ==
  /\ f \in Faults
  /\ faults < MaxFaults
  /\ faults' = faults + 1

-----------------------------------------------------------------------------
(***************************************************************************)
(* Hotel                                                                   *)
(***************************************************************************)

\* A lease is stale when it has expired, or when its owner has an active guest
\* record that names no running process: the process is gone, or the record
\* has no pid, whatever still runs.
Stale(l) ==
  /\ l # NoLease
  /\ \/ l.left = 0
     \/ l.seat \in Seeded /\ (mode[l.seat] = "off" \/ l.seat \in pidless)

\* drop_if_stale, which the acquire, renew and inspect handlers call first.
Current == IF Stale(lease) THEN NoLease ELSE lease

Mine(l, s) == l # NoLease /\ l.seat = s /\ l.conn = conn[s]

\* Mutant: the lease outlives its TTL.
GrantedLate(s) == [seat |-> s, conn |-> conn[s], epoch |-> nextEpoch + 1, left |-> TTL + 1]

\* Mutant: every grant starts at the first epoch.
GrantedFirstEpoch(s) == [seat |-> s, conn |-> conn[s], epoch |-> 1, left |-> TTL]

\* RuntimeLeaseRegistry::acquire for a free lease.
Granted(s) == [seat |-> s, conn |-> conn[s], epoch |-> nextEpoch + 1, left |-> TTL]

\* RuntimeLeaseRegistry::renew: the connection and the epoch must both match.
Renewable(l, s) == Mine(l, s) /\ l.epoch = epoch[s]

\* Mutant: the leases of the guest are released, whatever its connection.
HotelEofByGuest(s, n) ==
  /\ <<s, n>> \in open
  /\ conn[s] # n
  /\ open' = open \ {<<s, n>>}
  /\ lease' = IF lease # NoLease /\ lease.seat = s THEN NoLease ELSE lease
  /\ UNCHANGED <<nextEpoch, life, home, driverVars, seatVars, recordVars, faults>>

\* The handler of a broken connection reads end-of-file and releases the
\* leases of the connection.
HotelEof(s, n) ==
  /\ <<s, n>> \in open
  /\ conn[s] # n
  /\ open' = open \ {<<s, n>>}
  /\ lease' = IF lease # NoLease /\ lease.seat = s /\ lease.conn = n
                THEN NoLease ELSE lease
  /\ UNCHANGED <<nextEpoch, life, home, driverVars, seatVars, recordVars, faults>>

\* A seat that loses its connection in the middle of an attempt.
Interrupted(s) == must[s] \/ mode[s] \in {"setup", "resetup"}

\* The hotel restarts: registry and connections are gone.
HotelRestart ==
  /\ Fault("restart")
  /\ lease' = NoLease
  /\ nextEpoch' = 0
  /\ life' = life + 1
  /\ open' = {}
  /\ conn' = [s \in Seats |-> 0]
  /\ mode' = [s \in Seats |-> IF mode[s] = "off" THEN "off" ELSE "down"]
  /\ phase' = [s \in Seats |-> IF Interrupted(s) THEN "acquiring" ELSE phase[s]]
  /\ must' = [s \in Seats |-> FALSE]
  /\ \E d \in [Seats -> 0..MaxBackoff] :
       due' = [s \in Seats |-> IF Interrupted(s) THEN d[s] ELSE due[s]]
  /\ UNCHANGED <<home, epoch, age, stamp, via, dialed, stand, poll, recordVars>>

\* The operator moves the agent's transport home away or back.
MoveHome ==
  /\ Fault("home")
  /\ home' = ~home
  /\ UNCHANGED <<lease, nextEpoch, life, open, driverVars, seatVars, recordVars>>

-----------------------------------------------------------------------------
(***************************************************************************)
(* LeaseDriver                                                             *)
(***************************************************************************)

\* A tick is due: setup and the loop both wait for the driver's deadline.
Attempting(s) ==
  /\ mode[s] \in {"setup", "resetup", "loop"}
  /\ stand[s] = "no"
  /\ due[s] = 0

\* Renew while held and not lapsed, otherwise acquire.
WantsRenew(s) == ~must[s] /\ phase[s] = "held" /\ age[s] <= TTL

\* on_success, and what the seat makes of it: setup starts the poll task, the
\* renewal tick leaves it as it is.
Succeed(s, e) ==
  /\ phase' = [phase EXCEPT ![s] = "held"]
  /\ epoch' = [epoch EXCEPT ![s] = e]
  /\ age' = [age EXCEPT ![s] = 0]
  /\ must' = [must EXCEPT ![s] = FALSE]
  /\ due' = [due EXCEPT ![s] = RenewEvery]
  /\ mode' = [mode EXCEPT ![s] = "loop"]
  /\ poll' = [poll EXCEPT ![s] = @ \/ mode[s] \in {"setup", "resetup"}]
  /\ UNCHANGED <<conn, dialed, stand>>

\* Another holder, or a refusal: setup stands down, the loop stops polling and
\* starts over with a new connection.
Lose(s) ==
  /\ must' = [must EXCEPT ![s] = FALSE]
  /\ IF mode[s] = "loop"
       THEN /\ phase' = [phase EXCEPT ![s] = "lost"]
            /\ poll' = [poll EXCEPT ![s] = FALSE]
            /\ mode' = [mode EXCEPT ![s] = "down"]
            /\ conn' = [conn EXCEPT ![s] = 0]
            /\ UNCHANGED <<due, stand>>
       ELSE /\ phase' = [phase EXCEPT ![s] = "lost"]
            /\ stand' = [stand EXCEPT ![s] = "held"]
            /\ due' = [due EXCEPT ![s] = Reprobe]
            /\ mode' = [mode EXCEPT ![s] = "loop"]
            /\ UNCHANGED <<conn, poll>>
  /\ UNCHANGED <<dialed, epoch, age>>

\* What the renew handler leaves in the registry.
Renewed(s) ==
  IF ~home THEN lease
  ELSE IF Renewable(Current, s) THEN [Current EXCEPT !.left = TTL] ELSE Current

\* The renew request and its answer.
RenewCall(s) ==
  /\ Attempting(s) /\ WantsRenew(s)
  /\ lease' = Renewed(s)
  /\ IF home /\ Renewable(Current, s)
       THEN /\ Succeed(s, epoch[s])
            /\ stamp' = [stamp EXCEPT ![s] = 0]
       ELSE /\ UNCHANGED stamp
            /\ IF home /\ Current # NoLease /\ Current.seat # s
                 THEN Lose(s)
                 ELSE /\ must' = [must EXCEPT ![s] = TRUE]
                      /\ UNCHANGED <<phase, epoch, age, seatVars>>
  /\ UNCHANGED <<nextEpoch, life, home, open, via, recordVars, faults>>

\* Mutant: the owner's acquire is answered with a new grant.
AcquireCallAnew(s) ==
  /\ Attempting(s) /\ ~WantsRenew(s)
  /\ IF home /\ (Current = NoLease \/ Mine(Current, s))
       THEN /\ lease' = Granted(s)
            /\ nextEpoch' = nextEpoch + 1
            /\ Succeed(s, lease'.epoch)
            /\ stamp' = [stamp EXCEPT ![s] = TTL - lease'.left]
            /\ via' = [via EXCEPT ![s] = <<conn[s], life>>]
       ELSE /\ lease' = IF home THEN Current ELSE lease
            /\ Lose(s)
            /\ UNCHANGED <<nextEpoch, stamp, via>>
  /\ UNCHANGED <<life, home, open, recordVars, faults>>

\* The acquire request and its answer.  The current connection of the owner
\* is granted its lease as it stands.
AcquireCall(s) ==
  /\ Attempting(s) /\ ~WantsRenew(s)
  /\ IF home /\ (Current = NoLease \/ Mine(Current, s))
       THEN /\ lease' = IF Current = NoLease THEN Granted(s) ELSE Current
            /\ nextEpoch' = IF Current = NoLease THEN nextEpoch + 1 ELSE nextEpoch
            /\ Succeed(s, lease'.epoch)
            /\ stamp' = [stamp EXCEPT ![s] = TTL - lease'.left]
            /\ via' = [via EXCEPT ![s] = <<conn[s], life>>]
       ELSE /\ lease' = IF home THEN Current ELSE lease
            /\ Lose(s)
            /\ UNCHANGED <<nextEpoch, stamp, via>>
  /\ UNCHANGED <<life, home, open, recordVars, faults>>

\* The renew request or its answer is lost: acquire in place.
RenewErr(s) ==
  /\ Attempting(s) /\ WantsRenew(s)
  /\ Fault("error")
  /\ lease' \in {lease, Renewed(s)}
  /\ must' = [must EXCEPT ![s] = TRUE]
  /\ UNCHANGED <<nextEpoch, life, home, open, phase, epoch, age, stamp, via,
                 seatVars, recordVars>>

\* BackingOff: setup gives up and redials; the renewal tick and the setup it
\* runs stay in the loop and leave the poll task alone.
BackOff(s) ==
  /\ phase' = [phase EXCEPT ![s] = "acquiring"]
  /\ must' = [must EXCEPT ![s] = FALSE]
  /\ IF mode[s] = "setup"
       THEN /\ mode' = [mode EXCEPT ![s] = "down"]
            /\ conn' = [conn EXCEPT ![s] = 0]
            /\ \E d \in 0..MaxBackoff : due' = [due EXCEPT ![s] = d]
       ELSE /\ mode' = [mode EXCEPT ![s] = "loop"]
            /\ \E d \in RenewEvery..MaxBackoff : due' = [due EXCEPT ![s] = d]
            /\ UNCHANGED conn
  /\ UNCHANGED <<epoch, age, stamp, via, dialed, stand, poll>>

\* The acquire request or its answer is lost.
AcquireErr(s) ==
  /\ Attempting(s) /\ ~WantsRenew(s)
  /\ Fault("error")
  /\ \/ UNCHANGED <<lease, nextEpoch>>
     \/ /\ home /\ Current = NoLease
        /\ lease' = Granted(s)
        /\ nextEpoch' = nextEpoch + 1
  /\ BackOff(s)
  /\ UNCHANGED <<life, home, open, recordVars>>

-----------------------------------------------------------------------------
(***************************************************************************)
(* Runtime loop and seat                                                   *)
(***************************************************************************)

\* Connect and register.  A seat that stood down skips setup; any other stops
\* its poll task, and a driver that lost the lease starts afresh.
Connect(s) ==
  /\ mode[s] = "down"
  /\ conn' = [conn EXCEPT ![s] = dialed[s] + 1]
  /\ dialed' = [dialed EXCEPT ![s] = @ + 1]
  /\ open' = open \cup {<<s, dialed[s] + 1>>}
  /\ IF stand[s] # "no"
       THEN /\ mode' = [mode EXCEPT ![s] = "loop"]
            /\ UNCHANGED <<phase, due, poll>>
       ELSE /\ mode' = [mode EXCEPT ![s] = "setup"]
            /\ poll' = [poll EXCEPT ![s] = FALSE]
            /\ phase' = [phase EXCEPT ![s] = IF @ = "lost" THEN "acquiring" ELSE @]
            /\ due' = [due EXCEPT ![s] = IF phase[s] = "lost" THEN 0 ELSE @]
  /\ UNCHANGED <<lease, nextEpoch, life, home, epoch, age, must, stamp, via, stand,
                 recordVars, faults>>

\* The token cannot be read during setup.
SetupFails(s) ==
  /\ mode[s] \in {"setup", "resetup"} /\ ~must[s]
  /\ Fault("error")
  /\ mode' = [mode EXCEPT ![s] = IF @ = "setup" THEN "down" ELSE "loop"]
  /\ conn' = [conn EXCEPT ![s] = IF mode[s] = "setup" THEN 0 ELSE @]
  /\ due' = [due EXCEPT ![s] = IF mode[s] = "setup" THEN @ ELSE RenewEvery]
  /\ UNCHANGED <<hotelVars, driverVars, dialed, stand, poll, recordVars>>

\* The token is missing: the seat stands down for good.
TokenMissing(s) ==
  /\ mode[s] \in {"setup", "resetup"} /\ ~must[s]
  /\ Fault("token")
  /\ stand' = [stand EXCEPT ![s] = "token"]
  /\ mode' = [mode EXCEPT ![s] = "loop"]
  /\ UNCHANGED <<hotelVars, driverVars, conn, dialed, due, poll, recordVars>>

ProbeDue(s) == mode[s] = "loop" /\ stand[s] = "held" /\ due[s] = 0

\* Mutant: a seat that stood down stays down.
ProbeNeverHeals(s) ==
  /\ ProbeDue(s)
  /\ lease' = Current
  /\ due' = [due EXCEPT ![s] = Reprobe]
  /\ UNCHANGED <<nextEpoch, life, home, open, driverVars, mode, conn, dialed, stand,
                 poll, recordVars, faults>>

\* A seat that stood down asks for the owner; when there is none it sets
\* itself up again inside the renewal tick.
Probe(s) ==
  /\ ProbeDue(s)
  /\ lease' = Current
  /\ IF Current # NoLease
       THEN /\ due' = [due EXCEPT ![s] = Reprobe]
            /\ UNCHANGED <<mode, phase, stand, poll>>
       ELSE /\ stand' = [stand EXCEPT ![s] = "no"]
            /\ phase' = [phase EXCEPT ![s] = "acquiring"]
            /\ poll' = [poll EXCEPT ![s] = FALSE]
            /\ mode' = [mode EXCEPT ![s] = "resetup"]
            /\ UNCHANGED due
  /\ UNCHANGED <<nextEpoch, life, home, open, epoch, age, must, stamp, via,
                 conn, dialed, recordVars, faults>>

\* The question or its answer is lost: ask again later.
ProbeErr(s) ==
  /\ ProbeDue(s)
  /\ Fault("error")
  /\ lease' \in {lease, Current}
  /\ due' = [due EXCEPT ![s] = Reprobe]
  /\ UNCHANGED <<nextEpoch, life, home, open, driverVars, mode, conn, dialed,
                 stand, poll, recordVars>>

\* The connection breaks.  The poll task runs on until the next setup.
Disconnect(s) ==
  /\ conn[s] # 0
  /\ Fault("disconnect")
  /\ conn' = [conn EXCEPT ![s] = 0]
  /\ mode' = [mode EXCEPT ![s] = "down"]
  /\ phase' = [phase EXCEPT ![s] = IF Interrupted(s) THEN "acquiring" ELSE @]
  /\ must' = [must EXCEPT ![s] = FALSE]
  /\ \E d \in IF Interrupted(s) THEN 0..MaxBackoff ELSE {due[s]} :
       due' = [due EXCEPT ![s] = d]
  /\ UNCHANGED <<hotelVars, epoch, age, stamp, via, dialed, stand, poll, recordVars>>

\* The process is gone, and with it the connection.  A successor that was
\* started already takes the seat over.
Exit(s) ==
  /\ mode' = [mode EXCEPT ![s] = IF s \in doomed \ pidless THEN "down" ELSE "off"]
  /\ doomed' = doomed \ {s}
  /\ conn' = [conn EXCEPT ![s] = 0]
  /\ poll' = [poll EXCEPT ![s] = FALSE]
  /\ phase' = [phase EXCEPT ![s] = "acquiring"]
  /\ must' = [must EXCEPT ![s] = FALSE]
  /\ stand' = [stand EXCEPT ![s] = "no"]
  /\ due' = [due EXCEPT ![s] = 0]
  /\ UNCHANGED <<epoch, age, stamp, via, dialed, pidless>>

Crash(s) ==
  /\ mode[s] # "off"
  /\ Fault("crash")
  /\ Exit(s)
  /\ UNCHANGED hotelVars

\* Clean shutdown: teardown releases the lease if this connection owns it.
Shutdown(s) ==
  /\ mode[s] = "loop"
  /\ Fault("shutdown")
  /\ lease' = IF Mine(lease, s) THEN NoLease ELSE lease
  /\ Exit(s)
  /\ UNCHANGED <<nextEpoch, life, home, open>>

\* RestartComponent: the hotel signals the process its record names and clears
\* the pid; the process may run on for a while.
RestartComponent(s) ==
  /\ s \in Seeded \ (pidless \cup doomed)
  /\ mode[s] # "off"
  /\ Fault("component")
  /\ pidless' = pidless \cup {s}
  /\ doomed' = doomed \cup {s}
  /\ UNCHANGED <<hotelVars, driverVars, seatVars>>

\* SIGTERM takes effect.  The runtime handles SIGINT only, so nothing is
\* released.
Terminate(s) ==
  /\ s \in doomed
  /\ Exit(s)
  /\ UNCHANGED <<hotelVars, faults>>

\* The guest supervisor, or the rest of RestartComponent, starts the seat again
\* and records its pid.  Where the predecessor still runs, the successor's first
\* step comes after its exit.
Respawn(s) ==
  /\ mode[s] = "off" \/ s \in pidless
  /\ mode' = [mode EXCEPT ![s] = IF @ = "off" THEN "down" ELSE @]
  /\ pidless' = pidless \ {s}
  /\ UNCHANGED <<hotelVars, driverVars, conn, dialed, due, stand, poll, doomed, faults>>

\* One unit of time.
PassTime ==
  /\ lease' = IF lease = NoLease \/ lease.left = 0 THEN lease
              ELSE [lease EXCEPT !.left = @ - 1]
  /\ age' = [s \in Seats |-> IF age[s] > TTL THEN age[s] ELSE age[s] + 1]
  /\ stamp' = [s \in Seats |-> IF stamp[s] >= TTL THEN stamp[s] ELSE stamp[s] + 1]
  /\ due' = [s \in Seats |-> IF due[s] = 0 THEN 0 ELSE due[s] - 1]
  /\ UNCHANGED <<nextEpoch, life, home, open, phase, epoch, must, via,
                 mode, conn, dialed, stand, poll, recordVars>>

\* A seat of the loop acts when its time has come, and a signalled process is
\* gone before the next unit of time ...
OnTime == doomed = {} /\ \A s \in Seats : ~Attempting(s) /\ ~ProbeDue(s)

Tick == OnTime /\ PassTime /\ UNCHANGED faults

\* ... unless it is stalled.
Stall == ~OnTime /\ Fault("stall") /\ PassTime

-----------------------------------------------------------------------------
Act(s) == RenewCall(s) \/ AcquireCall(s) \/ Probe(s)

Suffer(s) ==
  \/ RenewErr(s) \/ AcquireErr(s) \/ SetupFails(s) \/ TokenMissing(s)
  \/ ProbeErr(s) \/ Disconnect(s) \/ Crash(s) \/ Shutdown(s)
  \/ RestartComponent(s)

Next ==
  \/ \E s \in Seats : Connect(s) \/ Act(s) \/ Terminate(s) \/ Respawn(s) \/ Suffer(s)
  \/ \E c \in open : HotelEof(c[1], c[2])
  \/ HotelRestart \/ MoveHome
  \/ Tick \/ Stall

Spec == Init /\ [][Next]_vars

\* The runtime loops and the hotel's handlers keep running, a signal is
\* delivered, the supervisor respawns a seat, and time passes.
FairSpec ==
  /\ Spec
  /\ \A s \in Seats : /\ WF_vars(Connect(s)) /\ WF_vars(Act(s))
                      /\ WF_vars(Terminate(s)) /\ WF_vars(Respawn(s))
  /\ WF_vars(\E c \in open : HotelEof(c[1], c[2]))
  /\ WF_vars(Tick)

-----------------------------------------------------------------------------
(***************************************************************************)
(* Properties                                                              *)
(***************************************************************************)

\* Type correctness of every variable.
TypeOK ==
  /\ lease \in Leases \cup {NoLease}
  /\ nextEpoch \in Nat
  /\ life \in Nat
  /\ home \in BOOLEAN
  /\ open \subseteq Seats \X Nat
  /\ mode \in [Seats -> {"off", "down", "setup", "resetup", "loop"}]
  /\ conn \in [Seats -> Nat]
  /\ dialed \in [Seats -> Nat]
  /\ phase \in [Seats -> {"acquiring", "held", "lost"}]
  /\ epoch \in [Seats -> Nat]
  /\ age \in [Seats -> 0..(TTL + 1)]
  /\ must \in [Seats -> BOOLEAN]
  /\ due \in [Seats -> Nat]
  /\ stand \in [Seats -> {"no", "held", "token"}]
  /\ poll \in [Seats -> BOOLEAN]
  /\ pidless \subseteq Seeded
  /\ doomed \subseteq Seeded
  /\ stamp \in [Seats -> 0..TTL]
  /\ via \in [Seats -> Nat \X Nat]
  /\ faults \in 0..MaxFaults

\* The seat believes it holds the lease, over the connection it was granted
\* on, and the hotel stamped it less than a TTL ago.
Fresh(s) ==
  /\ phase[s] = "held"
  /\ conn[s] # 0
  /\ via[s] = <<conn[s], life>>
  /\ stamp[s] < TTL

\* A fresh holder that nobody told to terminate.  RestartComponent signals a
\* seat and clears its pid, and from then on its lease may be given away while
\* it still runs (the takeover that the tests of lease_handlers.rs expect).
Claims == {s \in Seats : Fresh(s) /\ s \notin doomed}

\* A fresh holder that was not told to terminate is the registered owner at its
\* epoch, and stays so until its TTL runs out: no expiry, disconnect of an older
\* connection, takeover or stale-owner check removes it (lease.rs,
\* lease_handlers.rs).
FreshHolderOwns ==
  \A s \in Claims :
    /\ lease # NoLease
    /\ Renewable(lease, s)
    /\ lease.left >= TTL - stamp[s]

\* Two seats never hold the same epoch of one hotel life, though drivers keep
\* an epoch across reconnects and lost replies (epoch fencing).
EpochsAreUnique ==
  \A s, t \in Seats :
    /\ s # t
    /\ phase[s] = "held" /\ phase[t] = "held"
    /\ via[s][2] = via[t][2]
    => epoch[s] # epoch[t]

\* The registry and the drivers together are a lock with a fence: a lease is
\* given away or dropped only while no seat is a fresh holder, those told to
\* terminate aside, each grant takes the next epoch, and nobody but the owner
\* becomes a fresh holder.
Authority == INSTANCE LeaseAuthority WITH
  owner <- lease.seat, fence <- lease.epoch, last <- nextEpoch,
  claims <- Claims

ImplementsAuthority == Authority!Spec

\* The comment on the re-probe: "Full seat rebuild: token fetch, lease acquire,
\* poll loop."  A connected owner does not stay silent.
OwnerPolls ==
  \A s \in Seats : ~<>[](Mine(lease, s) /\ stand[s] = "no" /\ ~poll[s])

\* Somebody polls again and again, if the hotel stays the transport home and
\* a seat with a token stays up: a lease never stays with a dead holder and a
\* seat that stood down heals itself.  A silent owner (OwnerPolls) is the one
\* way to lose the transport for good.
SomeonePolls ==
  /\ OwnerPolls
  /\ <>[]home
  /\ \E s \in Seats : []<>(mode[s] # "off" /\ stand[s] # "token")
  => []<>(\E s \in Seats : poll[s])

\* TELEGRAM_POLL_LEASE_PROPOSAL.md: "only one membrane polls a shared token at
\* a time".
OnePoller == \A s, t \in Seats : poll[s] /\ poll[t] => s = t

=============================================================================
