-------------------------- MODULE ProxyReconciler --------------------------
(***************************************************************************)
(* The JaegerNginxProxy controller of pkg/ctrl/jaeger_nginx_proxy.go,      *)
(* running in one process against the API server.                          *)
(*                                                                         *)
(* controller-runtime gives the controller one worker (the code sets no    *)
(* MaxConcurrentReconciles), a work queue without duplicates, and a set of *)
(* rate-limited retries.  A pass of Reconcile is cut at every call it makes*)
(* on the client: the cached Gets are steps that read, Create, Update,     *)
(* Status().Update and Delete are steps that write, and anything may       *)
(* happen in between.                                                      *)
(***************************************************************************)
EXTENDS ApiServer

CONSTANTS
  HasGC,    \* does the cluster run the garbage collector?
  Foreign,  \* may somebody else create a Deployment with a proxy's name?
  Budget    \* how often each kind of environment event may happen

Budgeted == {"user", "edit", "delete", "pods", "fault", "relist", "restart",
             "collect"}

ASSUME SwitchAssumption == HasGC \in BOOLEAN /\ Foreign \in BOOLEAN
ASSUME BudgetAssumption == Budget \in [Budgeted -> Nat]

VARIABLES
  queue,    \* names waiting for a pass
  backoff,  \* names whose retry waits for the rate limiter
  worker,   \* the pass in progress
  spent     \* how much of each budget is used

vars == <<store, rev, watch, cache, queue, backoff, worker, spent>>

CleanupSteps == {"deleteCM", "deleteDep"}
PassSteps == {"getCM", "createCM", "updateCM", "getDep", "createDep",
              "updateDep", "checkDep", "setStatus"}

(***************************************************************************)
(* page is the copy of the proxy the pass works from; obj the ConfigMap or *)
(* Deployment it is about to send.                                         *)
(***************************************************************************)
Idle == [pc |-> "idle", name |-> None, page |-> None, obj |-> None]

Worker == [pc : {"idle"} \cup CleanupSteps \cup PassSteps,
           name : Names \cup {None},
           page : Proxy \cup {None},
           obj : ConfigMap \cup Deployment \cup {None}]

\* A pass holds what its next step needs.
WorkerTypeOK ==
  /\ worker \in Worker
  /\ worker.pc = "idle" => worker = Idle
  /\ worker.pc # "idle" => worker.name \in Names
  /\ worker.pc \in PassSteps => worker.page \in Proxy
  /\ worker.pc \in {"createCM", "updateCM"} => worker.obj \in ConfigMap
  /\ worker.pc \in {"createDep", "updateDep"} => worker.obj \in Deployment

\* Every variable has its type, at every step of a pass.
TypeOK ==
  /\ ApiTypeOK
  /\ queue \subseteq Names /\ backoff \subseteq Names
  /\ spent \in [Budgeted -> Nat]
  /\ WorkerTypeOK

Init ==
  /\ ApiInit
  /\ queue = {} /\ backoff = {}
  /\ worker = Idle
  /\ spent = [b \in Budgeted |-> 0]

Spend(b) ==
  /\ spent[b] < Budget[b]
  /\ spent' = [spent EXCEPT ![b] = @ + 1]

-----------------------------------------------------------------------------
(* The work queue. *)

\* Defective variant: the controller is built without its two Owns.
RequestsOfProxies(k, n, old, new) ==
  IF k = "proxy" /\ (old # None \/ new # None) THEN {n} ELSE {}

\* Defective variant: an owned object is known by its owner's uid.
RequestsByUid(k, n, old, new) ==
  IF \/ k = "proxy" /\ (old # None \/ new # None)
     \/ /\ k # "proxy" /\ cache["proxy"][n] # None
        /\ \E obj \in {old, new} : Owned(obj) /\ obj.owner = cache["proxy"][n].uid
  THEN {n} ELSE {}

\* Owns and For: the request an event on an object of kind k asks for.
Requests(k, n, old, new) ==
  IF (k = "proxy" /\ (old # None \/ new # None)) \/ (k # "proxy" /\ (Owned(old) \/ Owned(new)))
  THEN {n} ELSE {}

\* Defective variant: the error is logged and nil is returned.
RetryNever ==
  /\ worker' = Idle
  /\ UNCHANGED backoff

\* Defective variant: the pass is repeated on the spot.
RetryAtOnce ==
  /\ worker' = [worker EXCEPT !.pc = "getCM"]
  /\ UNCHANGED backoff

\* Result{Requeue: true} and a returned error both go to the rate limiter.
Retry ==
  /\ worker' = Idle
  /\ backoff' = backoff \cup {worker.name}

\* Defective variant: the state of a finished pass is kept for the next one.
GotoKeepingPage(pc, obj) == worker' = [worker EXCEPT !.pc = pc, !.obj = obj]

Goto(pc, obj) ==
  worker' = IF pc = "idle" THEN Idle ELSE [worker EXCEPT !.pc = pc, !.obj = obj]

BackoffExpires(n) ==
  /\ n \in backoff
  /\ backoff' = backoff \ {n}
  /\ queue' = queue \cup {n}
  /\ UNCHANGED <<apiVars, worker, spent>>

-----------------------------------------------------------------------------
(* One pass of Reconcile. *)

(***************************************************************************)
(* A Create or an Update.  When the server accepts it the pass goes on at  *)
(* pc; when it refuses (the object exists, is gone or has changed, or is   *)
(* invalid) the pass is retried.  A fault is any other error: the write    *)
(* may or may not have been applied before it.                             *)
(***************************************************************************)
Write(accepted, k, obj, pc) ==
  /\ UNCHANGED queue
  /\ \/ /\ accepted
        /\ Commit(k, worker.name, obj)
        /\ Goto(pc, None)
        /\ UNCHANGED <<backoff, spent>>
     \/ /\ ~accepted
        /\ Retry
        /\ UNCHANGED <<apiVars, spent>>
     \/ /\ Spend("fault")
        /\ Retry
        /\ UNCHANGED apiVars
     \/ /\ accepted
        /\ Spend("fault")
        /\ Commit(k, worker.name, obj)
        /\ Retry

\* A Delete whose result is thrown away: `_ = r.Delete(...)`.
DeleteIgnoringErrors(k, pc) ==
  /\ UNCHANGED <<queue, backoff>>
  /\ Goto(pc, None)
  /\ \/ Commit(k, worker.name, None) /\ UNCHANGED spent
     \/ Spend("fault") /\ UNCHANGED apiVars

\* The first Get, and what follows up to the second one.
BeginReconcile(n) ==
  /\ worker.pc = "idle"
  /\ n \in queue
  /\ queue' = queue \ {n}
  /\ LET page == cache["proxy"][n]
     IN \/ /\ page = None
           /\ worker' = [Idle EXCEPT !.pc = "deleteCM", !.name = n]
           /\ UNCHANGED backoff
        \/ /\ page # None
           /\ ~ValidateNginxConfig(GenerateNginxConfig(page.spec))
           /\ backoff' = backoff \cup {n}
           /\ UNCHANGED worker
        \/ /\ page # None
           /\ ValidateNginxConfig(GenerateNginxConfig(page.spec))
           /\ worker' = [Idle EXCEPT !.pc = "getCM", !.name = n, !.page = page]
           /\ UNCHANGED backoff
  /\ UNCHANGED <<apiVars, spent>>

\* Defective variant: the cleanup stops after the ConfigMap.
DeleteConfigMapOnly ==
  /\ worker.pc = "deleteCM"
  /\ DeleteIgnoringErrors("cm", "idle")

DeleteConfigMap ==
  /\ worker.pc = "deleteCM"
  /\ DeleteIgnoringErrors("cm", "deleteDep")

DeleteDeployment ==
  /\ worker.pc = "deleteDep"
  /\ DeleteIgnoringErrors("dep", "idle")

GetConfigMap ==
  /\ worker.pc = "getCM"
  /\ LET cm == BuildConfigMap(worker.page)
         existingCM == cache["cm"][worker.name]
     IN \/ existingCM = None /\ Goto("createCM", cm)
        \/ /\ existingCM # None /\ existingCM.data # cm.data
           /\ Goto("updateCM", [existingCM EXCEPT !.data = cm.data])
        \/ /\ existingCM # None /\ existingCM.data = cm.data
           /\ Goto("getDep", None)
  /\ UNCHANGED <<apiVars, queue, backoff, spent>>

CreateConfigMap ==
  /\ worker.pc = "createCM"
  /\ Write(store["cm"][worker.name] = None, "cm", worker.obj, "getDep")

UpdateConfigMap ==
  /\ worker.pc = "updateCM"
  /\ Write(Current("cm", worker.name, worker.obj), "cm", worker.obj, "getDep")

\* Defective variant: a Deployment that lacks pods is deleted to start afresh.
GetDeploymentOrDelete ==
  /\ worker.pc = "getDep"
  /\ LET dep == BuildDeployment(worker.page)
         existingDep == cache["dep"][worker.name]
     IN \/ existingDep = None /\ Goto("createDep", dep)
        \/ /\ existingDep # None /\ ~DeploymentUpToDate(existingDep, dep)
           /\ Goto("updateDep", [existingDep EXCEPT !.replicas = dep.replicas,
                                                    !.image = dep.image])
        \/ /\ existingDep # None /\ existingDep.available = dep.replicas
           /\ Goto("checkDep", None)
        \/ /\ existingDep # None /\ existingDep.available # dep.replicas
           /\ worker' = [Idle EXCEPT !.pc = "deleteDep", !.name = worker.name]
  /\ UNCHANGED <<apiVars, queue, backoff, spent>>

(***************************************************************************)
(* resource.MustParse panics inside buildDeployment; controller-runtime    *)
(* recovers the panic and treats it as an error of the pass.               *)
(***************************************************************************)
GetDeployment ==
  /\ worker.pc = "getDep"
  /\ LET dep == BuildDeployment(worker.page)
         existingDep == cache["dep"][worker.name]
     IN \/ BuildPanics(worker.page) /\ Retry
        \/ /\ ~BuildPanics(worker.page) /\ UNCHANGED backoff
           /\ \/ existingDep = None /\ Goto("createDep", dep)
              \/ /\ existingDep # None /\ ~DeploymentUpToDate(existingDep, dep)
                 /\ Goto("updateDep", [existingDep EXCEPT !.replicas = dep.replicas,
                                                          !.image = dep.image])
              \/ /\ existingDep # None /\ DeploymentUpToDate(existingDep, dep)
                 /\ Goto("checkDep", None)
  /\ UNCHANGED <<apiVars, queue, spent>>

\* The server refuses a Deployment with a negative number of replicas.
CreateDeployment ==
  /\ worker.pc = "createDep"
  /\ Write(store["dep"][worker.name] = None /\ worker.obj.replicas >= 0,
           "dep", worker.obj, "checkDep")

\* Defective variant: the update is sent without a resourceVersion.
UpdateDeploymentBlindly ==
  /\ worker.pc = "updateDep"
  /\ Write(store["dep"][worker.name] # None /\ worker.obj.replicas >= 0,
           "dep", worker.obj, "checkDep")

UpdateDeployment ==
  /\ worker.pc = "updateDep"
  /\ Write(Current("dep", worker.name, worker.obj) /\ worker.obj.replicas >= 0,
           "dep", worker.obj, "checkDep")

CheckDeployment ==
  /\ worker.pc = "checkDep"
  /\ worker' = [worker EXCEPT !.pc = "setStatus",
                              !.page.status = StatusOf(cache["dep"][worker.name])]
  /\ UNCHANGED <<apiVars, queue, backoff, spent>>

SetStatus ==
  /\ worker.pc = "setStatus"
  /\ Write(Current("proxy", worker.name, worker.page), "proxy", worker.page, "idle")

Continue ==
  \/ DeleteConfigMap \/ DeleteDeployment
  \/ GetConfigMap \/ CreateConfigMap \/ UpdateConfigMap
  \/ GetDeployment \/ CreateDeployment \/ UpdateDeployment
  \/ CheckDeployment \/ SetStatus

Reconcile == Continue \/ \E n \in Names : BeginReconcile(n)

-----------------------------------------------------------------------------
(* The informers of the manager, and the process itself. *)

Deliver(k, n) ==
  /\ watch[k][n] # <<>>
  /\ LET new == Head(watch[k][n])
     IN /\ cache' = [cache EXCEPT ![k][n] = new]
        /\ queue' = queue \cup Requests(k, n, cache[k][n], new)
  /\ watch' = [watch EXCEPT ![k][n] = Tail(@)]
  /\ UNCHANGED <<store, rev, backoff, worker, spent>>

\* The watch of kind k is too old to resume: the cache is replaced by a List.
Relist(k) ==
  /\ Spend("relist")
  /\ cache' = [cache EXCEPT ![k] = store[k]]
  /\ watch' = [watch EXCEPT ![k] = [n \in Names |-> <<>>]]
  /\ queue' = queue \cup UNION {Requests(k, n, cache[k][n], store[k][n]) : n \in Names}
  /\ UNCHANGED <<store, rev, backoff, worker>>

\* Defective variant: an event filter drops updates that change nothing.
ResyncFiltered(n) == UNCHANGED vars

\* The ten-hourly resync of the informers asks for every object again.
Resync(n) ==
  /\ queue' = queue \cup UNION {Requests(k, n, cache[k][n], cache[k][n]) : k \in Kinds}
  /\ UNCHANGED <<apiVars, backoff, worker, spent>>

\* Defective variant: the new process asks for the proxies only.
StartWithoutOwned ==
  /\ cache' = store
  /\ watch' = [k \in Kinds |-> [n \in Names |-> <<>>]]
  /\ queue' = UNION {Requests("proxy", n, None, store["proxy"][n]) : n \in Names}
  /\ backoff' = {}
  /\ worker' = Idle
  /\ UNCHANGED <<store, rev>>

\* A process fills its caches before its worker starts: every object is an event.
StartController ==
  /\ cache' = store
  /\ watch' = [k \in Kinds |-> [n \in Names |-> <<>>]]
  /\ queue' = UNION {Requests(k, n, None, store[k][n]) : k \in Kinds, n \in Names}
  /\ backoff' = {}
  /\ worker' = Idle
  /\ UNCHANGED <<store, rev>>

\* The process dies, in the middle of a pass or not, and a new one starts.
Restart == Spend("restart") /\ StartController

-----------------------------------------------------------------------------
(* Everybody else who writes to the API server. *)

\* One write by somebody who is not the controller.
External(k, n, obj) ==
  /\ Commit(k, n, obj)
  /\ UNCHANGED <<queue, backoff, worker>>

CreateProxy(n) ==
  /\ Spend("user")
  /\ store["proxy"][n] = None
  /\ \E spec \in Specs :
       External("proxy", n, [rv |-> 0, uid |-> rev["proxy"][n] + 1,
                             spec |-> spec, status |-> NoStatus])

UpdateProxy(n) ==
  /\ Spend("user")
  /\ store["proxy"][n] # None
  /\ \E spec \in Specs \ {store["proxy"][n].spec} :
       External("proxy", n, [store["proxy"][n] EXCEPT !.spec = spec])

DeleteProxy(n) ==
  /\ Spend("user")
  /\ store["proxy"][n] # None
  /\ External("proxy", n, None)

EditConfigMap(n) ==
  /\ Spend("edit")
  /\ store["cm"][n] # None
  /\ \E data \in Routes \ {store["cm"][n].data} :
       External("cm", n, [store["cm"][n] EXCEPT !.data = data])

\* kubectl scale, set image and set resources.
EditDeployment(n) ==
  /\ Spend("edit")
  /\ store["dep"][n] # None
  /\ \/ \E replicas \in {0, 1} \ {store["dep"][n].replicas} :
          External("dep", n, [store["dep"][n] EXCEPT !.replicas = replicas])
     \/ \E image \in Images \ {store["dep"][n].image} :
          External("dep", n, [store["dep"][n] EXCEPT !.image = image])
     \/ \E resources \in (Quantities \ BadQuantities) \ {store["dep"][n].resources} :
          External("dep", n, [store["dep"][n] EXCEPT !.resources = resources])

\* kubectl delete configmap, and the delete command of this program.
RemoveObject(k, n) ==
  /\ Spend("delete")
  /\ store[k][n] # None
  /\ External(k, n, None)

\* The create command of this program: a Deployment nobody owns.
CreateForeign(n) ==
  /\ Foreign
  /\ Spend("edit")
  /\ store["dep"][n] = None
  /\ \E image \in Images, resources \in Quantities \ BadQuantities :
       External("dep", n, [rv |-> 0, owner |-> None, replicas |-> 1, image |-> image,
                           resources |-> resources, available |-> 0])

\* The Deployment controller starts or stops one pod.
RunPods(n) ==
  /\ store["dep"][n] # None
  /\ LET dep == store["dep"][n]
     IN \/ /\ dep.available < dep.replicas
           /\ External("dep", n, [dep EXCEPT !.available = @ + 1])
        \/ /\ dep.available > dep.replicas
           /\ External("dep", n, [dep EXCEPT !.available = @ - 1])
  /\ UNCHANGED spent

LosePod(n) ==
  /\ Spend("pods")
  /\ store["dep"][n] # None
  /\ store["dep"][n].available > 0
  /\ External("dep", n, [store["dep"][n] EXCEPT !.available = @ - 1])

(***************************************************************************)
(* An object whose owner (by uid) no longer exists is collected.  While    *)
(* the controller has not seen the owner go it may create the object again *)
(* and again: the budget bounds that loop, and nothing bounds a collection *)
(* once the proxy's watch is up to date.                                   *)
(***************************************************************************)
GarbageCollect(k, n) ==
  /\ HasGC
  /\ Owned(store[k][n])
  /\ \/ store["proxy"][n] = None
     \/ store["proxy"][n] # None /\ store["proxy"][n].uid # store[k][n].owner
  /\ IF watch["proxy"][n] = <<>> THEN UNCHANGED spent ELSE Spend("collect")
  /\ External(k, n, None)

OtherWriter(n) ==
  \/ CreateProxy(n) \/ UpdateProxy(n) \/ DeleteProxy(n)
  \/ EditConfigMap(n) \/ EditDeployment(n) \/ CreateForeign(n)
  \/ RunPods(n) \/ LosePod(n)
  \/ \E k \in {"cm", "dep"} : RemoveObject(k, n) \/ GarbageCollect(k, n)

Environment ==
  \/ \E k \in Kinds : Relist(k)
  \/ Restart
  \/ \E n \in Names :
       \/ BackoffExpires(n) \/ Resync(n)
       \/ \E k \in Kinds : Deliver(k, n)
       \/ OtherWriter(n)

Next == Reconcile \/ Environment

Spec == Init /\ [][Next]_vars

(***************************************************************************)
(* The worker keeps running, the FIFO work queue starves no name, watches  *)
(* deliver, the rate limiter expires, pods start and stop, and a garbage   *)
(* collector, where there is one, works.  Nothing is promised of users,    *)
(* faults, restarts or the resync.                                         *)
(***************************************************************************)
Fairness ==
  /\ WF_vars(Continue)
  /\ \A n \in Names :
       /\ SF_vars(BeginReconcile(n))
       /\ WF_vars(BackoffExpires(n))
       /\ WF_vars(RunPods(n))
       /\ \A k \in Kinds : WF_vars(Deliver(k, n))
       /\ \A k \in {"cm", "dep"} : WF_vars(GarbageCollect(k, n))

FairSpec == Spec /\ Fairness

-----------------------------------------------------------------------------
(* What the controller promises. *)

\* A pass over n is under way or certain to come.
Pending(n) ==
  \/ n \in queue \cup backoff
  \/ worker.name = n
  \/ ~InSync(n)

\* The ConfigMap and the Deployment of n are what its proxy asks for.
Applied(n) ==
  LET proxy == store["proxy"][n]
  IN /\ store["cm"][n] # None
     /\ store["cm"][n].data = GenerateNginxConfig(proxy.spec)
     /\ store["dep"][n] # None
     /\ DeploymentUpToDate(store["dep"][n], BuildDeployment(proxy))

Converged(n) ==
  store["proxy"][n] # None =>
    Applied(n) /\ store["proxy"][n].status = StatusOf(store["dep"][n])

\* No deletion can have hidden between two Lists.
Watched == spent["relist"] = 0 \/ spent["delete"] = 0

(***************************************************************************)
(* Level-triggered: however edits, deletions, faults, restarts and late    *)
(* watch events interleave with the passes (lines 270-422), when nothing   *)
(* is left to do every proxy has the ConfigMap and the Deployment its spec *)
(* asks for, and a status that describes that Deployment.                  *)
(***************************************************************************)
QuiescentConverged ==
  Watched => \A n \in Names : ~Pending(n) => Converged(n)

(***************************************************************************)
(* When nothing is left to do and no call failed, a deleted proxy has left *)
(* neither a ConfigMap nor a Deployment behind (lines 274-285).            *)
(***************************************************************************)
QuiescentCleanedUp ==
  spent["fault"] = 0 =>
    \A n \in Names :
      ~Pending(n) /\ store["proxy"][n] = None
        => store["cm"][n] = None /\ store["dep"][n] = None

\* Nothing has happened to n that the worker has not seen, and all is well.
Settled(n) ==
  InSync(n) /\ n \notin queue /\ store["proxy"][n] # None /\ Converged(n)

(***************************************************************************)
(* A pass over a proxy that is as it should be writes nothing: no hot loop *)
(* of writes, events and passes (lines 316, 356-366, 411).                 *)
(***************************************************************************)
QuietWhenSettled ==
  [][\A n \in Names :
       worker.name = n /\ Settled(n) /\ Continue => store' = store]_vars

(***************************************************************************)
(* An update sent from a cached copy never undoes what somebody else wrote *)
(* to the fields the controller does not manage: the resources, the owner  *)
(* and the pods of a Deployment, the spec and uid of a proxy.              *)
(***************************************************************************)
UnmanagedFieldsKept ==
  [][Continue =>
       \A n \in Names :
         /\ store["dep"][n] # None /\ store'["dep"][n] # None =>
              /\ store'["dep"][n].resources = store["dep"][n].resources
              /\ store'["dep"][n].owner = store["dep"][n].owner
              /\ store'["dep"][n].available = store["dep"][n].available
         /\ store["proxy"][n] # None =>
              /\ store'["proxy"][n] # None
              /\ store'["proxy"][n].spec = store["proxy"][n].spec
              /\ store'["proxy"][n].uid = store["proxy"][n].uid]_vars

\* Neither the validation, nor buildDeployment, nor the server refuses it.
Buildable(spec) ==
  /\ ValidateNginxConfig(GenerateNginxConfig(spec))
  /\ spec.resources \notin BadQuantities
  /\ ToInt32(spec.replicaCount) >= 0

\* n has what a spec that can be built asks for, or has left nothing.
Fulfilled(n) ==
  /\ store["proxy"][n] # None /\ Buildable(store["proxy"][n].spec)
       => Converged(n) /\ store["proxy"][n].status.ready
  /\ store["proxy"][n] = None /\ (HasGC \/ spent["fault"] = 0)
       => store["cm"][n] = None /\ ~Owned(store["dep"][n])

(***************************************************************************)
(* Once users and failures stop, every proxy that can be built gets its    *)
(* ConfigMap and its Deployment and is reported ready, for good; every     *)
(* deleted one is cleaned up.                                              *)
(***************************************************************************)
EventuallyConverges == <>[](Watched => \A n \in Names : Fulfilled(n))

(***************************************************************************)
(* What no event announces, the ten-hourly resync repairs: an object that  *)
(* came and went between two Lists, after the pass that made it asked for  *)
(* no other (line 421), and the pods of a Deployment without an owner.     *)
(***************************************************************************)
EventuallyRepaired ==
  (\A n \in Names : WF_vars(Resync(n))) => <>[](\A n \in Names : Fulfilled(n))
=============================================================================
