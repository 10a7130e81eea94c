--------------------------- MODULE LeaseAuthority ---------------------------
(***************************************************************************)
(* What the lease registry promises the seats of one bot token, whatever   *)
(* connections, timers and faults lie between them: a lock with a fence.   *)
(*                                                                         *)
(* A seat has a claim while it may act as the holder without asking.  The  *)
(* lock is given away, or taken back, only while nobody has a claim; every *)
(* grant has a fence of its own; a claim is had by the owner alone and is  *)
(* given up by time, by its seat, or with the whole registry.              *)
(***************************************************************************)
EXTENDS Naturals

CONSTANTS
  Seats,  \* who may own the lock
  NoSeat  \* owner of a free lock

VARIABLES
  owner,  \* the registered owner
  fence,  \* number of its grant, 0 for none
  last,   \* number of the last grant
  claims  \* seats that may act as the owner

vars == <<owner, fence, last, claims>>

Init == owner = NoSeat /\ fence = 0 /\ last = 0 /\ claims = {}

\* A new grant; its owner may not have heard of it.
Grant(s) ==
  /\ claims = {}
  /\ owner' = s /\ fence' = last + 1 /\ last' = last + 1
  /\ claims' \in {{}, {s}}

\* The owner is told that it still is the owner.
Confirm(s) ==
  /\ owner = s
  /\ claims' = {s}
  /\ UNCHANGED <<owner, fence, last>>

\* The claim runs out, or its seat drops it.
Lapse ==
  /\ claims' = {}
  /\ UNCHANGED <<owner, fence, last>>

Free == owner' = NoSeat /\ fence' = 0 /\ claims' = {}

\* A lock nobody claims is taken back.
Expire == claims = {} /\ Free /\ UNCHANGED last

\* The owner gives the lock back, and its claim.
Release == claims = {owner} /\ Free /\ UNCHANGED last

\* The registry and all claims on it are gone.
Restart == Free /\ last' = 0

Next ==
  \/ \E s \in Seats : Grant(s) \/ Confirm(s)
  \/ Lapse \/ Expire \/ Release \/ Restart

Spec == Init /\ [][Next]_vars

=============================================================================
