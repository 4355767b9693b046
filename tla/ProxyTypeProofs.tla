-------------------------- MODULE ProxyTypeProofs --------------------------
(***************************************************************************)
(* Type correctness of ProxyReconciler.                                    *)
(***************************************************************************)
EXTENDS ProxyInvariant, ApiServerProofs

LEMMA BuiltObjects ==
  ASSUME NEW page \in Proxy
  PROVE  /\ BuildConfigMap(page) \in ConfigMap
         /\ BuildDeployment(page) \in Deployment
         /\ BuildConfigMap(page).owner # None
         /\ BuildDeployment(page).owner # None
<1>1. page.uid \in Nat /\ page.spec \in ProxySpec
  BY DEF Proxy
<1>2. BuildConfigMap(page) \in ConfigMap
  BY <1>1 DEF BuildConfigMap, GenerateNginxConfig, ConfigMap, ProxySpec
<1>3. ToInt32(page.spec.replicaCount) \in Int
  <2>1. page.spec.replicaCount \in Int
    BY <1>1 DEF ProxySpec
  <2> QED BY <2>1, HalfRangeAssumption DEF ToInt32
<1>4. BuildDeployment(page) \in Deployment
  BY <1>1, <1>3 DEF BuildDeployment, Deployment, ProxySpec
<1>5. BuildConfigMap(page).owner # None /\ BuildDeployment(page).owner # None
  BY <1>1, NoneAssumption DEF BuildConfigMap, BuildDeployment
<1> QED BY <1>2, <1>4, <1>5

LEMMA StatusType ==
  ASSUME NEW dep \in Deployment \cup {None}
  PROVE  StatusOf(dep) \in Status
<1>1. CASE dep = None
  BY <1>1 DEF StatusOf, Status, Reasons
<1>2. CASE dep # None
  <2>1. dep.replicas \in Int /\ dep.available \in Int
    BY <1>2 DEF Deployment
  <2>2. CASE dep.replicas = 0 /\ dep.available = 0
    BY <1>2, <2>2 DEF StatusOf, Status, Reasons
  <2>3. CASE dep.replicas = 0 /\ dep.available # 0
    BY <1>2, <2>1, <2>3 DEF StatusOf, Status, Reasons
  <2>4. CASE dep.replicas # 0 /\ dep.available = dep.replicas
    BY <1>2, <2>1, <2>4 DEF StatusOf, Status, Reasons
  <2>5. CASE dep.replicas # 0 /\ dep.available # dep.replicas
    BY <1>2, <2>1, <2>5 DEF StatusOf, Status, Reasons
  <2> QED BY <2>2, <2>3, <2>4, <2>5
<1> QED BY <1>1, <1>2

LEMMA SpendType ==
  ASSUME NEW b \in Budgeted, spent \in [Budgeted -> Nat], Spend(b)
  PROVE  spent' \in [Budgeted -> Nat]
  BY DEF Spend

LEMMA IdleType == Idle \in Worker
  BY DEF Idle, Worker

\* Ending a pass, in whatever way, leaves a well-formed idle worker.
LEMMA IdleWorkerType ==
  ASSUME worker' = Idle
  PROVE  WorkerTypeOK'
  BY IdleType DEF WorkerTypeOK, Idle, PassSteps

LEMMA GotoType ==
  ASSUME WorkerTypeOK, worker.pc # "idle",
         NEW pc \in {"idle"} \cup CleanupSteps \cup PassSteps,
         NEW obj \in ConfigMap \cup Deployment \cup {None},
         pc \in PassSteps => worker.pc \in PassSteps,
         pc \in {"createCM", "updateCM"} => obj \in ConfigMap,
         pc \in {"createDep", "updateDep"} => obj \in Deployment,
         Goto(pc, obj)
  PROVE  WorkerTypeOK'
<1>1. CASE pc = "idle"
  BY <1>1, IdleWorkerType DEF Goto
<1>2. CASE pc # "idle"
  <2>1. worker' = [worker EXCEPT !.pc = pc, !.obj = obj]
    BY <1>2 DEF Goto
  <2>2. worker \in Worker
    BY DEF WorkerTypeOK
  <2>3. /\ worker' \in Worker /\ worker'.pc = pc /\ worker'.obj = obj
        /\ worker'.name = worker.name /\ worker'.page = worker.page
    BY <2>1, <2>2 DEF Worker
  <2> QED BY <1>2, <2>3 DEF WorkerTypeOK
<1> QED BY <1>1, <1>2

LEMMA WriteType ==
  ASSUME TypeOK, worker.pc \in PassSteps, NEW accepted, NEW k \in Kinds,
         NEW obj \in Objects(k) \cup {None},
         NEW pc \in {"getDep", "checkDep", "idle"},
         Write(accepted, k, obj, pc)
  PROVE  TypeOK'
<1>0. worker.name \in Names /\ worker.pc # "idle"
  BY DEF TypeOK, WorkerTypeOK, PassSteps
<1>1. queue' \subseteq Names /\ backoff' \subseteq Names
  BY <1>0 DEF Write, Retry, TypeOK
<1>2. spent' \in [Budgeted -> Nat]
  BY SpendType DEF Write, TypeOK, Budgeted
<1>3. ApiTypeOK'
  <2>1. CASE Commit(k, worker.name, obj)
    BY <1>0, <2>1, CommitType DEF TypeOK
  <2>2. CASE UNCHANGED apiVars
    BY <2>2 DEF TypeOK, ApiTypeOK, apiVars
  <2> QED BY <2>1, <2>2 DEF Write
<1>4. WorkerTypeOK'
  <2>1. CASE Goto(pc, None)
    BY <1>0, <2>1, GotoType DEF TypeOK, PassSteps
  <2>2. CASE Retry
    BY <2>2, IdleWorkerType DEF Retry
  <2> QED BY <2>1, <2>2 DEF Write
<1> QED BY <1>1, <1>2, <1>3, <1>4 DEF TypeOK

LEMMA DeleteType ==
  ASSUME TypeOK, worker.pc \in CleanupSteps, NEW k \in Kinds,
         NEW pc \in {"deleteDep", "idle"}, DeleteIgnoringErrors(k, pc)
  PROVE  TypeOK'
<1>0. worker.name \in Names /\ worker.pc # "idle"
  BY DEF TypeOK, WorkerTypeOK, CleanupSteps
<1>1. ApiTypeOK'
  <2>1. CASE Commit(k, worker.name, None)
    BY <1>0, <2>1, CommitType DEF TypeOK
  <2>2. CASE UNCHANGED apiVars
    BY <2>2 DEF TypeOK, ApiTypeOK, apiVars
  <2> QED BY <2>1, <2>2 DEF DeleteIgnoringErrors
<1>2. spent' \in [Budgeted -> Nat]
  BY SpendType DEF DeleteIgnoringErrors, TypeOK, Budgeted
<1>3. WorkerTypeOK'
  BY <1>0, GotoType DEF DeleteIgnoringErrors, TypeOK, CleanupSteps, PassSteps
<1> QED BY <1>1, <1>2, <1>3 DEF DeleteIgnoringErrors, TypeOK

LEMMA ExternalType ==
  ASSUME TypeOK, NEW k \in Kinds, NEW n \in Names,
         NEW obj \in Objects(k) \cup {None},
         External(k, n, obj), spent' \in [Budgeted -> Nat]
  PROVE  TypeOK'
<1>1. ApiTypeOK'
  BY CommitType DEF External, TypeOK
<1> QED BY <1>1 DEF External, TypeOK, WorkerTypeOK

LEMMA BeginType ==
  ASSUME TypeOK, NEW n \in Names, BeginReconcile(n)
  PROVE  TypeOK'
<1>1. ApiTypeOK' /\ queue' \subseteq Names /\ spent' \in [Budgeted -> Nat]
  BY DEF BeginReconcile, TypeOK, ApiTypeOK, apiVars
<1>2. cache["proxy"][n] \in Proxy \cup {None}
  BY DEF TypeOK, ApiTypeOK, Kinds, Objects
<1>3. CASE worker' = [Idle EXCEPT !.pc = "deleteCM", !.name = n]
  <2>1. WorkerTypeOK'
    BY <1>3, IdleType DEF WorkerTypeOK, Worker, Idle, CleanupSteps, PassSteps
  <2> QED BY <1>1, <1>3, <2>1 DEF BeginReconcile, TypeOK, Idle
<1>4. CASE UNCHANGED worker /\ backoff' = backoff \cup {n}
  BY <1>1, <1>4 DEF TypeOK, WorkerTypeOK
<1>5. CASE /\ cache["proxy"][n] # None
           /\ worker' = [Idle EXCEPT !.pc = "getCM", !.name = n,
                                     !.page = cache["proxy"][n]]
  <2>1. WorkerTypeOK'
    BY <1>2, <1>5, IdleType DEF WorkerTypeOK, Worker, Idle, CleanupSteps, PassSteps
  <2> QED BY <1>1, <1>5, <2>1 DEF BeginReconcile, TypeOK, Idle
<1> QED BY <1>1, <1>3, <1>4, <1>5 DEF BeginReconcile, TypeOK

LEMMA ContinueType ==
  ASSUME TypeOK, Continue
  PROVE  TypeOK'
<1>1. /\ worker \in Worker
      /\ worker.pc \in PassSteps =>
           /\ worker.name \in Names /\ worker.page \in Proxy /\ worker.pc # "idle"
  BY DEF TypeOK, WorkerTypeOK, PassSteps
<1>2. CASE DeleteConfigMap
  BY <1>2, DeleteType DEF DeleteConfigMap, CleanupSteps, Kinds
<1>3. CASE DeleteDeployment
  BY <1>3, DeleteType DEF DeleteDeployment, CleanupSteps, Kinds
<1>4. CASE GetConfigMap
  <2> DEFINE cm == BuildConfigMap(worker.page)
             existing == cache["cm"][worker.name]
  <2>1. worker.pc \in PassSteps
    BY <1>4 DEF GetConfigMap, PassSteps
  <2>2. cm \in ConfigMap /\ existing \in ConfigMap \cup {None}
    BY <1>1, <2>1, BuiltObjects DEF TypeOK, ApiTypeOK, Kinds, Objects
  <2>3. cm.data \in Routes
    BY <2>2 DEF ConfigMap
  <2>4. existing # None => [existing EXCEPT !.data = cm.data] \in ConfigMap
    BY <2>2, <2>3 DEF ConfigMap
  <2>5. WorkerTypeOK'
    <3>1. CASE Goto("createCM", cm)
      BY <1>1, <2>1, <2>2, <3>1, GotoType DEF TypeOK, PassSteps
    <3>2. CASE existing # None /\ Goto("updateCM", [existing EXCEPT !.data = cm.data])
      BY <1>1, <2>1, <2>4, <3>2, GotoType DEF TypeOK, PassSteps
    <3>3. CASE Goto("getDep", None)
      BY <1>1, <2>1, <3>3, GotoType DEF TypeOK, PassSteps
    <3> QED BY <1>4, <3>1, <3>2, <3>3 DEF GetConfigMap
  <2> QED BY <1>4, <2>5 DEF GetConfigMap, TypeOK, ApiTypeOK, apiVars
<1>5. CASE CreateConfigMap
  <2>1. worker.obj \in ConfigMap /\ worker.pc \in PassSteps
    BY <1>5 DEF CreateConfigMap, TypeOK, WorkerTypeOK, PassSteps
  <2> QED BY <1>5, <2>1, WriteType DEF CreateConfigMap, Kinds, Objects
<1>6. CASE UpdateConfigMap
  <2>1. worker.obj \in ConfigMap /\ worker.pc \in PassSteps
    BY <1>6 DEF UpdateConfigMap, TypeOK, WorkerTypeOK, PassSteps
  <2> QED BY <1>6, <2>1, WriteType DEF UpdateConfigMap, Kinds, Objects
<1>7. CASE GetDeployment
  <2> DEFINE dep == BuildDeployment(worker.page)
             existing == cache["dep"][worker.name]
  <2>1. worker.pc \in PassSteps
    BY <1>7 DEF GetDeployment, PassSteps
  <2>2. dep \in Deployment /\ existing \in Deployment \cup {None}
    BY <1>1, <2>1, BuiltObjects DEF TypeOK, ApiTypeOK, Kinds, Objects
  <2>3. dep.replicas \in Int /\ dep.image \in Images
    BY <2>2 DEF Deployment
  <2>4. existing # None =>
          [existing EXCEPT !.replicas = dep.replicas, !.image = dep.image] \in Deployment
    BY <2>2, <2>3 DEF Deployment
  <2>5. CASE Retry
    BY <1>1, <1>7, <2>1, <2>5, IdleWorkerType
       DEF GetDeployment, Retry, TypeOK, ApiTypeOK, apiVars
  <2>6. UNCHANGED backoff /\ WorkerTypeOK' => TypeOK'
    BY <1>7 DEF GetDeployment, TypeOK, ApiTypeOK, apiVars
  <2>7. Goto("createDep", dep) => WorkerTypeOK'
    BY <1>1, <2>1, <2>2, GotoType DEF TypeOK, PassSteps
  <2>8. /\ existing # None
        /\ Goto("updateDep", [existing EXCEPT !.replicas = dep.replicas,
                                              !.image = dep.image])
        => WorkerTypeOK'
    BY <1>1, <2>1, <2>4, GotoType DEF TypeOK, PassSteps
  <2>9. Goto("checkDep", None) => WorkerTypeOK'
    BY <1>1, <2>1, GotoType DEF TypeOK, PassSteps
  <2> QED BY <1>7, <2>5, <2>6, <2>7, <2>8, <2>9 DEF GetDeployment
<1>8. CASE CreateDeployment
  <2>1. worker.obj \in Deployment /\ worker.pc \in PassSteps
    BY <1>8 DEF CreateDeployment, TypeOK, WorkerTypeOK, PassSteps
  <2> QED BY <1>8, <2>1, WriteType DEF CreateDeployment, Kinds, Objects
<1>9. CASE UpdateDeployment
  <2>1. worker.obj \in Deployment /\ worker.pc \in PassSteps
    BY <1>9 DEF UpdateDeployment, TypeOK, WorkerTypeOK, PassSteps
  <2> QED BY <1>9, <2>1, WriteType DEF UpdateDeployment, Kinds, Objects
<1>10. CASE CheckDeployment
  <2> DEFINE status == StatusOf(cache["dep"][worker.name])
  <2>1. worker.pc \in PassSteps
    BY <1>10 DEF CheckDeployment, PassSteps
  <2>2. status \in Status
    <3>1. cache["dep"][worker.name] \in Deployment \cup {None}
      BY <1>1, <2>1 DEF TypeOK, ApiTypeOK, Kinds, Objects
    <3> QED BY <3>1, StatusType
  <2>3. [worker.page EXCEPT !.status = status] \in Proxy
    BY <1>1, <2>1, <2>2 DEF Proxy
  <2>4. /\ worker' \in Worker /\ worker'.pc = "setStatus"
        /\ worker'.name = worker.name /\ worker'.obj = worker.obj
        /\ worker'.page = [worker.page EXCEPT !.status = status]
    BY <1>1, <1>10, <2>3 DEF CheckDeployment, Worker, PassSteps
  <2>5. WorkerTypeOK'
    BY <1>1, <2>1, <2>3, <2>4 DEF WorkerTypeOK, PassSteps
  <2> QED BY <1>10, <2>5 DEF CheckDeployment, TypeOK, ApiTypeOK, apiVars
<1>11. CASE SetStatus
  <2>1. worker.pc \in PassSteps
    BY <1>11 DEF SetStatus, PassSteps
  <2> QED BY <1>1, <1>11, <2>1, WriteType DEF SetStatus, Kinds, Objects
<1> QED BY <1>2, <1>3, <1>4, <1>5, <1>6, <1>7, <1>8, <1>9, <1>10, <1>11
        DEF Continue

\* A write by somebody else keeps the owner of the object it changes; only
\* kubectl and the garbage collector delete.
KeepsOwner(k, n, obj) ==
  k # "proxy" =>
    IF obj = None THEN RemoveObject(k, n) \/ GarbageCollect(k, n)
    ELSE Foreign \/ (store[k][n] # None /\ obj.owner = store[k][n].owner)

SpendsSomething == UNCHANGED spent \/ \E b \in Budgeted : Spend(b)

LEMMA OtherWrites ==
  ASSUME TypeOK, NEW n \in Names, OtherWriter(n)
  PROVE  /\ SpendsSomething
         /\ \E k \in Kinds : \E obj \in Objects(k) \cup {None} :
              External(k, n, obj) /\ KeepsOwner(k, n, obj)
<1>1. /\ store["proxy"][n] \in Proxy \cup {None}
      /\ store["cm"][n] \in ConfigMap \cup {None}
      /\ store["dep"][n] \in Deployment \cup {None}
      /\ rev["proxy"][n] + 1 \in Nat
  BY DEF TypeOK, ApiTypeOK, Kinds, Objects
<1>2. SpendsSomething
  BY DEF SpendsSomething, OtherWriter, CreateProxy, UpdateProxy, DeleteProxy,
         EditConfigMap, EditDeployment, CreateForeign, RunPods, LosePod,
         RemoveObject, GarbageCollect, Budgeted
<1> DEFINE Found == \E k \in Kinds : \E obj \in Objects(k) \cup {None} :
                      External(k, n, obj) /\ KeepsOwner(k, n, obj)
<1> SUFFICES Found
  BY <1>2
<1>3. ASSUME NEW obj \in Proxy \cup {None}, External("proxy", n, obj)
      PROVE  Found
  BY <1>3 DEF KeepsOwner, Kinds, Objects
<1>4. ASSUME NEW obj \in ConfigMap, External("cm", n, obj),
             store["cm"][n] # None, obj.owner = store["cm"][n].owner
      PROVE  Found
  BY <1>4, NoneAssumption DEF KeepsOwner, Kinds, Objects
<1>5. ASSUME NEW obj \in Deployment, External("dep", n, obj),
             Foreign \/ (store["dep"][n] # None /\ obj.owner = store["dep"][n].owner)
      PROVE  Found
  BY <1>5, NoneAssumption DEF KeepsOwner, Kinds, Objects
<1>6. ASSUME NEW k \in {"cm", "dep"}, External(k, n, None),
             RemoveObject(k, n) \/ GarbageCollect(k, n)
      PROVE  Found
  BY <1>6 DEF KeepsOwner, Kinds
<1>7. CASE CreateProxy(n)
  <2>1. PICK spec \in Specs :
          External("proxy", n, [rv |-> 0, uid |-> rev["proxy"][n] + 1,
                                spec |-> spec, status |-> NoStatus])
    BY <1>7 DEF CreateProxy
  <2>2. NoStatus \in Status
    BY DEF NoStatus, Status, Reasons
  <2>3. [rv |-> 0, uid |-> rev["proxy"][n] + 1, spec |-> spec, status |-> NoStatus] \in Proxy
    BY <1>1, <2>2, SpecsAssumption DEF Proxy
  <2> QED BY <1>3, <2>1, <2>3
<1>8. CASE UpdateProxy(n)
  <2>1. PICK spec \in Specs :
          External("proxy", n, [store["proxy"][n] EXCEPT !.spec = spec])
    BY <1>8 DEF UpdateProxy
  <2>2. [store["proxy"][n] EXCEPT !.spec = spec] \in Proxy
    BY <1>1, <1>8, SpecsAssumption DEF UpdateProxy, Proxy
  <2> QED BY <1>3, <2>1, <2>2
<1>9. CASE DeleteProxy(n)
  BY <1>3, <1>9 DEF DeleteProxy
<1>10. CASE EditConfigMap(n)
  <2>1. PICK data \in Routes :
          External("cm", n, [store["cm"][n] EXCEPT !.data = data])
    BY <1>10 DEF EditConfigMap
  <2>2. store["cm"][n] # None /\ store["cm"][n] \in ConfigMap
    BY <1>1, <1>10 DEF EditConfigMap
  <2>3. /\ [store["cm"][n] EXCEPT !.data = data] \in ConfigMap
        /\ [store["cm"][n] EXCEPT !.data = data].owner = store["cm"][n].owner
    BY <2>2 DEF ConfigMap
  <2> QED BY <1>4, <2>1, <2>2, <2>3
<1>11. CASE EditDeployment(n)
  <2> DEFINE dep == store["dep"][n]
  <2>1. dep # None /\ dep \in Deployment
    BY <1>1, <1>11 DEF EditDeployment
  <2>2. CASE \E replicas \in {0, 1} :
               External("dep", n, [dep EXCEPT !.replicas = replicas])
    <3>1. PICK replicas \in {0, 1} :
            External("dep", n, [dep EXCEPT !.replicas = replicas])
      BY <2>2
    <3>2. /\ [dep EXCEPT !.replicas = replicas] \in Deployment
          /\ [dep EXCEPT !.replicas = replicas].owner = dep.owner
      BY <2>1 DEF Deployment
    <3> QED BY <1>5, <2>1, <3>1, <3>2
  <2>3. CASE \E image \in Images : External("dep", n, [dep EXCEPT !.image = image])
    <3>1. PICK image \in Images : External("dep", n, [dep EXCEPT !.image = image])
      BY <2>3
    <3>2. /\ [dep EXCEPT !.image = image] \in Deployment
          /\ [dep EXCEPT !.image = image].owner = dep.owner
      BY <2>1 DEF Deployment
    <3> QED BY <1>5, <2>1, <3>1, <3>2
  <2>4. CASE \E resources \in Quantities :
               External("dep", n, [dep EXCEPT !.resources = resources])
    <3>1. PICK resources \in Quantities :
            External("dep", n, [dep EXCEPT !.resources = resources])
      BY <2>4
    <3>2. /\ [dep EXCEPT !.resources = resources] \in Deployment
          /\ [dep EXCEPT !.resources = resources].owner = dep.owner
      BY <2>1 DEF Deployment
    <3> QED BY <1>5, <2>1, <3>1, <3>2
  <2> QED BY <1>11, <2>2, <2>3, <2>4 DEF EditDeployment
<1>12. CASE CreateForeign(n)
  <2>1. PICK image \in Images, resources \in Quantities :
          External("dep", n, [rv |-> 0, owner |-> None, replicas |-> 1, image |-> image,
                              resources |-> resources, available |-> 0])
    BY <1>12 DEF CreateForeign
  <2>2. [rv |-> 0, owner |-> None, replicas |-> 1, image |-> image,
         resources |-> resources, available |-> 0] \in Deployment
    BY DEF Deployment
  <2> QED BY <1>5, <1>12, <2>1, <2>2 DEF CreateForeign
<1>13. CASE RunPods(n) \/ LosePod(n)
  <2> DEFINE dep == store["dep"][n]
  <2>1. dep # None /\ dep \in Deployment
    BY <1>1, <1>13 DEF RunPods, LosePod
  <2>2. /\ [dep EXCEPT !.available = @ + 1] \in Deployment
        /\ [dep EXCEPT !.available = @ + 1].owner = dep.owner
        /\ [dep EXCEPT !.available = @ - 1] \in Deployment
        /\ [dep EXCEPT !.available = @ - 1].owner = dep.owner
    BY <2>1 DEF Deployment
  <2>3. \/ External("dep", n, [dep EXCEPT !.available = @ + 1])
        \/ External("dep", n, [dep EXCEPT !.available = @ - 1])
    BY <1>13 DEF RunPods, LosePod
  <2> QED BY <1>5, <2>1, <2>2, <2>3
<1>14. CASE \E k \in {"cm", "dep"} : RemoveObject(k, n) \/ GarbageCollect(k, n)
  BY <1>6, <1>14 DEF RemoveObject, GarbageCollect
<1> QED BY <1>7, <1>8, <1>9, <1>10, <1>11, <1>12, <1>13, <1>14 DEF OtherWriter

\* A watch with nothing to deliver is well typed.
LEMMA NoEvents ==
  ASSUME NEW S
  PROVE  [n \in Names |-> <<>>] \in [Names -> Seq(S)]
<1>1. <<>> \in Seq(S)
  OBVIOUS
<1> QED BY <1>1

\* The process that begins anew is well formed.
LEMMA StartType ==
  ASSUME TypeOK, StartController, spent' \in [Budgeted -> Nat]
  PROVE  TypeOK'
<1>1. ApiTypeOK'
  BY NoEvents DEF StartController, ApiTypeOK, TypeOK
<1>2. queue' \subseteq Names
  BY DEF StartController, Requests
<1> QED BY <1>1, <1>2, IdleWorkerType DEF StartController, TypeOK

LEMMA EnvironmentType ==
  ASSUME TypeOK, Environment
  PROVE  TypeOK'
<1> USE DEF TypeOK
<1>1. CASE \E k \in Kinds : Relist(k)
  <2> PICK k \in Kinds : Relist(k)
    BY <1>1
  <2>1. spent' \in [Budgeted -> Nat]
    BY SpendType DEF Relist, Budgeted
  <2>2. store[k] \in [Names -> Objects(k) \cup {None}]
    BY DEF ApiTypeOK
  <2>3. ApiTypeOK'
    BY <2>2, NoEvents DEF Relist, ApiTypeOK
  <2>4. queue' \subseteq Names
    BY DEF Relist, Requests
  <2> QED BY <2>1, <2>3, <2>4 DEF Relist, WorkerTypeOK
<1>2. CASE Restart
  <2>1. spent' \in [Budgeted -> Nat]
    BY <1>2, SpendType DEF Restart, Budgeted
  <2> QED BY <1>2, <2>1, StartType DEF Restart
<1>3. ASSUME NEW n \in Names, BackoffExpires(n)
      PROVE  TypeOK'
  BY <1>3 DEF BackoffExpires, WorkerTypeOK, ApiTypeOK, apiVars
<1>4. ASSUME NEW n \in Names, Resync(n)
      PROVE  TypeOK'
  <2>1. queue' \subseteq Names
    BY <1>4 DEF Resync, Requests
  <2> QED BY <1>4, <2>1 DEF Resync, WorkerTypeOK, ApiTypeOK, apiVars
<1>5. ASSUME NEW k \in Kinds, NEW n \in Names, Deliver(k, n)
      PROVE  TypeOK'
  <2>1. queue' \subseteq Names
    BY <1>5 DEF Deliver, Requests
  <2>2. watch[k][n] \in Seq(Objects(k) \cup {None}) /\ watch[k][n] # <<>>
    BY <1>5 DEF Deliver, ApiTypeOK
  <2>3. /\ Head(watch[k][n]) \in Objects(k) \cup {None}
        /\ Tail(watch[k][n]) \in Seq(Objects(k) \cup {None})
    BY <2>2
  <2>4. ApiTypeOK'
    BY <1>5, <2>3 DEF Deliver, ApiTypeOK
  <2> QED BY <1>5, <2>1, <2>4 DEF Deliver, WorkerTypeOK
<1>6. ASSUME NEW n \in Names, OtherWriter(n)
      PROVE  TypeOK'
  <2>1. spent' \in [Budgeted -> Nat]
    BY <1>6, OtherWrites, SpendType DEF SpendsSomething
  <2> QED BY <1>6, <2>1, OtherWrites, ExternalType
<1> QED BY <1>1, <1>2, <1>3, <1>4, <1>5, <1>6 DEF Environment

LEMMA TypeInit ==
  ASSUME Init
  PROVE  TypeOK
<1>1. ApiTypeOK
  BY NoEvents DEF Init, ApiInit, ApiTypeOK
<1>2. WorkerTypeOK
  BY IdleType DEF Init, WorkerTypeOK, Idle, PassSteps
<1> QED BY <1>1, <1>2 DEF Init, TypeOK

LEMMA TypeStep ==
  ASSUME TypeOK, [Next]_vars
  PROVE  TypeOK'
<1>1. CASE UNCHANGED vars
  BY <1>1 DEF vars, TypeOK, ApiTypeOK, WorkerTypeOK
<1>2. CASE Next
  BY <1>2, BeginType, ContinueType, EnvironmentType DEF Next, Reconcile
<1> QED BY <1>1, <1>2

(***************************************************************************)
(* Every reachable state is well typed: whatever the interleaving, a pass  *)
(* reaches each of its calls with the page and the object that call sends. *)
(***************************************************************************)
THEOREM TypeCorrect == Spec => []TypeOK
<1>1. Init => TypeOK
  BY TypeInit
<1>2. TypeOK /\ [Next]_vars => TypeOK'
  BY TypeStep
<1> QED BY <1>1, <1>2, PTL DEF Spec
=============================================================================
