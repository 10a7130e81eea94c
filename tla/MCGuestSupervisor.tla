-------------------------- MODULE MCGuestSupervisor --------------------------
(* Instances of GuestSupervisor for TLC.                                     *)
EXTENDS GuestSupervisor, TLC

CONSTANTS g1, g2, r1, r2

\* No guest has a TTL, every guest has one of a single second.
NoTtl == [g \in Guests |-> 0]
ShortTtl == [g \in Guests |-> 1]

Symmetry == Permutations(Reqs)
=============================================================================
