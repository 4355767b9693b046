----------------------------- MODULE MCRestApi -----------------------------
(***************************************************************************)
(* A small instance of RestApi: one proxy, two clients, one request of     *)
(* each kind and the malformed ones.                                       *)
(***************************************************************************)
EXTENDS RestApi, TLC

CONSTANTS p1, c1, c2, img1, img2, routeA, noPorts, q1

Of(replicaCount, image, routes) ==
  [replicaCount |-> replicaCount, image |-> image, routes |-> routes, resources |-> q1]

FirstSpec == Of(1, img1, routeA)
ToolSpec == Of(1, img1, routeA)
TwoSpecs == {FirstSpec, Of(0, img2, noPorts)}

\* Two patches of different fields, and one that empties the ports.
Scale == [replicaCount |-> 2]
NewImage == [image |-> img2]
NoMorePorts == [routes |-> noPorts]
SomePatches == {Scale, NewImage, NoMorePorts}

SomeCalls ==
  {[op |-> "POST", name |-> p1, body |-> FirstSpec],
   [op |-> "PUT", name |-> p1, body |-> Of(0, img2, noPorts)],
   [op |-> "PUT", name |-> p1, body |-> Malformed],
   [op |-> "tool", name |-> p1, body |-> NewImage],
   [op |-> "GET", name |-> p1, body |-> None],
   [op |-> "DELETE", name |-> p1, body |-> None]}
  \cup {[op |-> "PATCH", name |-> p1, body |-> patch] : patch \in SomePatches}

SmallBudget == [call |-> 3, status |-> 1, other |-> 1]
OthersBudget == [call |-> 1, status |-> 0, other |-> 2]
=============================================================================
