----------------------------- MODULE MCFailover -----------------------------
(***************************************************************************)
(* A small instance of Failover: one proxy, created and then changed or    *)
(* deleted, at any moment of the handover.                                 *)
(***************************************************************************)
EXTENDS Failover

CONSTANTS p1, img1, img2, routeA, q1

Asking(image) ==
  [replicaCount |-> 0, image |-> image, routes |-> routeA, resources |-> q1]

\* Without pods, which are the same to both processes.
TwoImages == {Asking(img1), Asking(img2)}

TwoUserActions == [b \in Budgeted |-> IF b = "user" THEN 2 ELSE 0]
=============================================================================
