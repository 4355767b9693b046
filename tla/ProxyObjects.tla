---------------------------- MODULE ProxyObjects ----------------------------
(***************************************************************************)
(* The objects the controller of k8s-controller-tutorial reads and writes, *)
(* and the pure functions of pkg/ctrl/jaeger_nginx_proxy.go that compute   *)
(* one from another: what a JaegerNginxProxy asks for, the ConfigMap and   *)
(* the Deployment built from it, and the status computed from a Deployment.*)
(*                                                                         *)
(* Data is abstract.  "routes" stands for the three parts of a spec the    *)
(* nginx configuration depends on (containerPort, upstream.collectorHost   *)
(* and ports), "image" for repository:tag, "resources" for the four        *)
(* quantities.  A route is bad when ValidateNginxConfig refuses the        *)
(* configuration generated from it; a quantity is bad when                 *)
(* resource.MustParse panics on it.                                        *)
(***************************************************************************)
EXTENDS Integers

CONSTANTS
  None,          \* the absent object, and the absent owner
  Names,         \* names of JaegerNginxProxies, in one namespace
  Images,        \* values of spec.image
  Routes,        \* values of the routing part of a spec
  BadRoutes,     \* the routes whose nginx configuration is refused
  Quantities,    \* values of spec.resources
  BadQuantities, \* the quantities that do not parse
  Specs,         \* the specs users submit in this instance
  HalfRange      \* 2^31 in the program: int32 holds -HalfRange .. HalfRange-1

ProxySpec == [replicaCount : Int, image : Images,
              routes : Routes, resources : Quantities]

ASSUME NamesAssumption == None \notin Names
ASSUME SpecsAssumption == Specs \subseteq ProxySpec
ASSUME HalfRangeAssumption == HalfRange \in Nat \ {0}

(***************************************************************************)
(* "rv" is metadata.resourceVersion and "uid" metadata.uid; "owner" is the *)
(* uid in the controller reference SetControllerReference puts on a built  *)
(* object, None on an object somebody else created.                        *)
(***************************************************************************)
Reasons == {"", "Deployment not found", "scaled to 0", "scaling down",
            "all running", "partly available"}
Status == [ready : BOOLEAN, message : Reasons, available : Int, desired : Int]
Proxy == [rv : Nat, uid : Nat, spec : ProxySpec, status : Status]
ConfigMap == [rv : Nat, owner : Nat \cup {None}, data : Routes]
Deployment == [rv : Nat, owner : Nat \cup {None}, replicas : Int,
               image : Images, resources : Quantities, available : Int]

ASSUME NoneAssumption == None \notin Nat \cup Proxy \cup ConfigMap \cup Deployment

\* The conversion int32(x): two's complement wrap-around.
ToInt32(x) == ((x + HalfRange) % (2 * HalfRange)) - HalfRange

\* The status subresource of a JaegerNginxProxy nobody has reconciled yet.
NoStatus == [ready |-> FALSE, message |-> "", available |-> 0, desired |-> 0]

GenerateNginxConfig(spec) == spec.routes

ValidateNginxConfig(config) == config \notin BadRoutes

\* An object built for a proxy has no resourceVersion yet: rv is 0.
BuildConfigMap(page) ==
  [rv |-> 0, owner |-> page.uid, data |-> GenerateNginxConfig(page.spec)]

BuildDeployment(page) ==
  [rv |-> 0, owner |-> page.uid, replicas |-> ToInt32(page.spec.replicaCount),
   image |-> page.spec.image, resources |-> page.spec.resources, available |-> 0]

BuildPanics(page) == page.spec.resources \in BadQuantities

\* The two fields of an existing Deployment the controller keeps up to date.
DeploymentUpToDate(existing, dep) ==
  /\ existing.replicas = dep.replicas
  /\ existing.image = dep.image

StatusOf(dep) ==
  LET Say(ready, message, available, desired) ==
        [ready |-> ready, message |-> message,
         available |-> available, desired |-> desired]
  IN IF dep = None THEN Say(FALSE, "Deployment not found", 0, 0)
     ELSE IF dep.replicas = 0
       THEN IF dep.available = 0 THEN Say(TRUE, "scaled to 0", 0, 0)
            ELSE Say(FALSE, "scaling down", dep.available, 0)
     ELSE IF dep.available = dep.replicas
       THEN Say(TRUE, "all running", dep.replicas, dep.replicas)
     ELSE Say(FALSE, "partly available", dep.available, dep.replicas)
=============================================================================
