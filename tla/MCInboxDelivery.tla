--------------------------- MODULE MCInboxDelivery ---------------------------
(* Instances of InboxDelivery for TLC.                                       *)
EXTENDS InboxDelivery, TLC

CONSTANTS k1, k2, k3, c1, c2, c3

Symmetry == Permutations(Tasks) \cup Permutations(Conns)

\* Three parties at most: two tasks on one connection, or one task and a guest
\* that comes back on another connection.
FewParties ==
  Cardinality({k \in Tasks : pc[k] # "new"})
    + Cardinality({c \in Conns : reg[c] # "unused"}) <= 3
=============================================================================
