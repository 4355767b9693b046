------------------------- MODULE MCProxyReconciler -------------------------
(***************************************************************************)
(* Small instances of ProxyReconciler: the specs users submit, and how     *)
(* many environment events of each kind TLC may use.                       *)
(***************************************************************************)
EXTENDS ProxyClaims, ProxyInvariant, TLC

CONSTANTS p1, p2, img1, img2, routeA, routeB, badRoute, q1, q2, badQ

Of(replicaCount, image, routes, resources) ==
  [replicaCount |-> replicaCount, image |-> image,
   routes |-> routes, resources |-> resources]

\* Two specs that differ in everything, one of them scaled to zero.
GoodSpecs == {Of(1, img1, routeA, q1), Of(0, img2, routeB, q2)}

\* A good spec, and one for each way a spec can fail to be built.
MixedSpecs == {Of(1, img1, routeA, q1), Of(1, img1, badRoute, q1),
               Of(1, img1, routeA, badQ), Of(-1, img1, routeA, q1)}

OneSpec == {Of(1, img1, routeA, q1)}

Nothing == [b \in Budgeted |-> 0]
LifeBudget == [Nothing EXCEPT !["user"] = 2, !["edit"] = 1, !["collect"] = 1]
FailureBudget == [Nothing EXCEPT !["user"] = 2, !["delete"] = 1, !["fault"] = 1,
                                 !["restart"] = 1, !["relist"] = 1, !["pods"] = 1]
ForeignBudget == [Nothing EXCEPT !["user"] = 1, !["edit"] = 2, !["pods"] = 1]
RepairBudget == [Nothing EXCEPT !["user"] = 1, !["edit"] = 1, !["delete"] = 1,
                                !["relist"] = 1]
PairBudget == [Nothing EXCEPT !["user"] = 2]

(***************************************************************************)
(* p1 as an earlier user left it: created, built, its pods started and its *)
(* status written, with nothing under way.  Spec reaches this state with   *)
(* one user action; from here on a proxy can be deleted and created again  *)
(* with two.                                                               *)
(***************************************************************************)
Running ==
  LET proxy == [rv |-> 0, uid |-> 1, spec |-> Of(1, img1, routeA, q1), status |-> NoStatus]
      dep == [BuildDeployment(proxy) EXCEPT !.rv = 2, !.available = 1]
  IN [proxy |-> [proxy EXCEPT !.rv = 2, !.status = StatusOf(dep)],
      cm |-> [BuildConfigMap(proxy) EXCEPT !.rv = 1],
      dep |-> dep]

RunningInit ==
  /\ store = [k \in Kinds |-> [n \in Names |-> IF n = p1 THEN Running[k] ELSE None]]
  /\ rev = [k \in Kinds |-> [n \in Names |-> IF n = p1 THEN Running[k].rv ELSE 0]]
  /\ cache = store
  /\ watch = [k \in Kinds |-> [n \in Names |-> <<>>]]
  /\ queue = {} /\ backoff = {} /\ worker = Idle
  /\ spent = Nothing

FairFromRunning == RunningInit /\ [][Next]_vars /\ Fairness
=============================================================================
