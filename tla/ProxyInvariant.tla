--------------------------- MODULE ProxyInvariant ---------------------------
(***************************************************************************)
(* The inductive invariant behind QuiescentConverged, QuiescentCleanedUp   *)
(* and QuietWhenSettled: what a pass knows at each of its steps as long as *)
(* no event has put its proxy back in the queue.                           *)
(***************************************************************************)
EXTENDS ProxyReconciler

\* A watch carries everything the cache lacks; its last event is the present.
Echo ==
  \A k \in Kinds, n \in Names :
    IF watch[k][n] = <<>>
    THEN cache[k][n] = store[k][n]
    ELSE watch[k][n][Len(watch[k][n])] = store[k][n]

\* A deletion event follows an object.
DeletesSomething ==
  \A k \in Kinds, n \in Names :
    \A i \in 1 .. Len(watch[k][n]) :
      watch[k][n][i] = None =>
        IF i = 1 THEN cache[k][n] # None ELSE watch[k][n][i - 1] # None

\* Every ConfigMap and Deployment, stored, cached or on its way, has an owner.
ApiOwned ==
  \A k \in {"cm", "dep"}, n \in Names :
    /\ store[k][n] # None => store[k][n].owner # None
    /\ cache[k][n] # None => cache[k][n].owner # None
    /\ \A i \in 1 .. Len(watch[k][n]) :
         watch[k][n][i] # None => watch[k][n][i].owner # None

\* So has the one a pass is about to send.
WorkerOwned ==
  worker.pc \in {"createCM", "updateCM", "createDep", "updateDep"}
    => worker.obj.owner # None

AfterConfigMap == {"getDep", "createDep", "updateDep", "checkDep", "setStatus"}
AfterDeployment == {"checkDep", "setStatus"}

HasConfig(cm, page) == cm # None /\ cm.data = BuildConfigMap(page).data
HasDeployment(dep, page) ==
  dep # None /\ DeploymentUpToDate(dep, BuildDeployment(page))

(***************************************************************************)
(* A pass over n that no event has overtaken works from the proxy in the   *)
(* cache; behind it are a ConfigMap and a Deployment that match, or an     *)
(* event that will bring it back; before it is the change its next write   *)
(* is meant to make.                                                       *)
(***************************************************************************)
PassApplies ==
  LET n == worker.name
      page == worker.page
  IN worker.pc \in PassSteps /\ n \notin queue =>
       /\ cache["proxy"][n] # None
       /\ cache["proxy"][n].rv = page.rv
       /\ cache["proxy"][n].uid = page.uid
       /\ cache["proxy"][n].spec = page.spec
       /\ worker.pc \in {"createCM", "updateCM"} => ~HasConfig(cache["cm"][n], page)
       /\ worker.pc \in {"createDep", "updateDep"} => ~HasDeployment(cache["dep"][n], page)
       /\ worker.pc = "updateCM" => worker.obj.data = BuildConfigMap(page).data
       /\ worker.pc = "createCM" => worker.obj.data = BuildConfigMap(page).data
       /\ worker.pc \in {"createDep", "updateDep"} =>
            DeploymentUpToDate(worker.obj, BuildDeployment(page))
       /\ worker.pc = "setStatus" => page.status = StatusOf(cache["dep"][n])
       /\ spent["relist"] = 0 =>
            /\ worker.pc \in AfterConfigMap =>
                 watch["cm"][n] # <<>> \/ HasConfig(cache["cm"][n], page)
            /\ worker.pc \in AfterDeployment =>
                 watch["dep"][n] # <<>> \/ HasDeployment(cache["dep"][n], page)

\* What a cleanup leaves behind it is gone, or an event will bring it back.
Gone(k, n) == watch[k][n] # <<>> \/ cache[k][n] = None

PassCleans ==
  LET n == worker.name
  IN worker.pc \in CleanupSteps /\ n \notin queue =>
       /\ cache["proxy"][n] = None
       /\ worker.pc = "deleteDep" /\ spent["fault"] = 0 => Gone("cm", n)

IdleClean ==
  spent["fault"] = 0 =>
    \A n \in Names :
      n \notin queue \cup backoff /\ worker.name # n /\ cache["proxy"][n] = None
        => Gone("cm", n) /\ Gone("dep", n)

IdleConverged ==
  spent["relist"] = 0 => \A n \in Names : ~Pending(n) => Converged(n)

-----------------------------------------------------------------------------
(***************************************************************************)
(* After an expired watch the informer compares a List with its cache, and *)
(* what came and went in between is an event to nobody.  As long as only   *)
(* the controller and the collector delete, that never concerns an object  *)
(* a pass relies on: Held says so.                                         *)
(***************************************************************************)

\* What is created in a pass belongs to the proxy the pass works from.
BuiltForPage ==
  worker.pc \in {"createCM", "createDep"} => worker.obj.owner = worker.page.uid

\* The cache holds an object, or the server one the collector must leave alone.
Held(k, n) ==
  \/ cache[k][n] # None
  \/ store[k][n] # None /\ store[k][n].owner = cache["proxy"][n].uid

PassHolds ==
  LET n == worker.name
      page == worker.page
  IN worker.pc \in PassSteps /\ n \notin queue =>
       /\ worker.pc = "updateCM" => cache["cm"][n] # None
       /\ worker.pc = "updateDep" => cache["dep"][n] # None
       /\ watch["proxy"][n] = <<>> =>
            /\ worker.pc \in AfterConfigMap =>
                 /\ Held("cm", n)
                 /\ watch["cm"][n] # <<>> \/ HasConfig(cache["cm"][n], page)
            /\ worker.pc \in AfterDeployment =>
                 /\ Held("dep", n)
                 /\ watch["dep"][n] # <<>> \/ HasDeployment(cache["dep"][n], page)

IdleHolds ==
  \A n \in Names :
    /\ n \notin queue \cup backoff /\ worker.name # n
    /\ cache["proxy"][n] # None /\ watch["proxy"][n] = <<>>
    => Held("cm", n) /\ Held("dep", n)

IdleSettled == \A n \in Names : ~Pending(n) => Converged(n)

HInv == BuiltForPage /\ (spent["delete"] = 0 => PassHolds /\ IdleHolds /\ IdleSettled)

-----------------------------------------------------------------------------
IInv ==
  /\ TypeOK /\ Echo /\ DeletesSomething /\ ApiOwned /\ WorkerOwned
  /\ PassApplies /\ PassCleans /\ IdleClean /\ IdleConverged
=============================================================================
