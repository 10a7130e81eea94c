--------------------------- MODULE MCMeshDelivery ---------------------------
(* Instances of MeshDelivery for TLC.                                       *)
EXTENDS MeshDelivery, TLC

CONSTANTS e1, e2, t1, me

\* Two events race to one hotel.
OneHotel == (e1 :> t1) @@ (e2 :> t1)

=============================================================================
