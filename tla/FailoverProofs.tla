--------------------------- MODULE FailoverProofs ---------------------------
(***************************************************************************)
(* What holds while the lease passes from process to process: the leader,  *)
(* whichever process it is, keeps the invariant of ProxyInvariant, because *)
(* a deposed process is to it one more writer whose events it will see.    *)
(* And the deposed process can overwrite only what nobody has written      *)
(* since, because its copies are old and an update of an old copy is       *)
(* refused.                                                                *)
(***************************************************************************)
EXTENDS Failover, ProxyConvergenceProofs, ProxyCopiesProofs

\* What the deposed process is about to send has an owner.
DeposedOwned ==
  ~Foreign /\ oldWorker.pc \in {"createCM", "updateCM", "createDep", "updateDep"}
    => oldWorker.obj.owner # None

\* Its caches hold what a leader's may hold.
DeposedCacheOK ==
  /\ DOMAIN oldCache = Kinds
  /\ \A k \in Kinds : oldCache[k] \in [Names -> Objects(k) \cup {None}]
  /\ \A k \in {"cm", "dep"}, n \in Names :
       ~Foreign /\ oldCache[k][n] # None => oldCache[k][n].owner # None

DeposedOK ==
  /\ Deposed!WorkerTypeOK /\ DeposedOwned /\ DeposedCacheOK
  /\ oldQueue \subseteq Names /\ oldBackoff \subseteq Names

\* The inductive invariant of FailoverSpec.
FInv == TypeOK /\ DeposedOK /\ (~Foreign => IInv)

-----------------------------------------------------------------------------
(* The names of the instance, in terms of the leader's. *)

LEMMA DeposedNames ==
  /\ Deposed!Idle = Idle /\ Deposed!Worker = Worker
  /\ Deposed!PassSteps = PassSteps /\ Deposed!CleanupSteps = CleanupSteps
  /\ Deposed!ConfigMap = ConfigMap /\ Deposed!Deployment = Deployment
  /\ Deposed!Proxy = Proxy
  BY DEF Deposed!Idle, Idle, Deposed!Worker, Worker, Deposed!PassSteps, PassSteps,
         Deposed!CleanupSteps, CleanupSteps, Deposed!ConfigMap, ConfigMap,
         Deposed!Deployment, Deployment, Deposed!Proxy, Proxy, Deposed!ProxySpec, ProxySpec,
         Deposed!Status, Status, Deposed!Reasons, Reasons

LEMMA DeposedBuild ==
  ASSUME NEW page \in Proxy
  PROVE  /\ Deposed!BuildConfigMap(page) \in ConfigMap
         /\ Deposed!BuildDeployment(page) \in Deployment
         /\ Deposed!BuildConfigMap(page).owner # None
         /\ Deposed!BuildDeployment(page).owner # None
<1>1. /\ Deposed!BuildConfigMap(page) = BuildConfigMap(page)
      /\ Deposed!BuildDeployment(page) = BuildDeployment(page)
  BY DEF Deposed!BuildConfigMap, BuildConfigMap, Deposed!BuildDeployment, BuildDeployment,
         Deposed!GenerateNginxConfig, GenerateNginxConfig, Deposed!ToInt32, ToInt32
<1> QED BY <1>1, BuiltObjects

LEMMA DeposedStatus ==
  ASSUME NEW dep \in Deployment \cup {None}
  PROVE  Deposed!StatusOf(dep) \in Status
<1>1. Deposed!StatusOf(dep) = StatusOf(dep)
  BY DEF Deposed!StatusOf, StatusOf
<1> QED BY <1>1, StatusType

LEMMA DeposedPass ==
  ASSUME DeposedOK, oldWorker.pc \in PassSteps
  PROVE  /\ oldWorker \in Worker /\ oldWorker.name \in Names
         /\ oldWorker.page \in Proxy /\ oldWorker.pc # "idle"
         /\ oldWorker.pc \in {"createCM", "updateCM"} =>
              oldWorker.obj \in ConfigMap /\ (~Foreign => oldWorker.obj.owner # None)
         /\ oldWorker.pc \in {"createDep", "updateDep"} =>
              oldWorker.obj \in Deployment /\ (~Foreign => oldWorker.obj.owner # None)
  BY DeposedNames DEF DeposedOK, DeposedOwned, Deposed!WorkerTypeOK, PassSteps

-----------------------------------------------------------------------------
(* Steps of the deposed process. *)

\* The deposed process writes, if anything, an object with an owner or None.
DeposedWrites ==
  \E k \in Kinds, n \in Names : \E obj \in Objects(k) \cup {None} :
    Deposed!Commit(k, n, obj) /\ (~Foreign /\ k # "proxy" /\ obj # None => obj.owner # None)

LEMMA DeposedReads ==
  ASSUME TypeOK, NEW n \in Names, UNCHANGED Deposed!apiVars
  PROVE  DeposedWrites
<1>1. store["proxy"][n] \in Objects("proxy") \cup {None} /\ "proxy" \in Kinds
  BY DEF TypeOK, ApiTypeOK, Kinds
<1>2. Deposed!Commit("proxy", n, store["proxy"][n])
  BY DEF Deposed!Commit
<1> QED BY <1>1, <1>2 DEF DeposedWrites

LEMMA DeposedIdle ==
  ASSUME oldWorker' = Idle
  PROVE  Deposed!WorkerTypeOK' /\ DeposedOwned'
  BY IdleType, DeposedNames DEF Deposed!WorkerTypeOK, DeposedOwned, Idle, PassSteps

LEMMA DeposedGoto ==
  ASSUME DeposedOK, oldWorker.pc # "idle",
         NEW pc \in {"idle"} \cup CleanupSteps \cup PassSteps,
         NEW obj \in ConfigMap \cup Deployment \cup {None},
         pc \in PassSteps => oldWorker.pc \in PassSteps,
         pc \in {"createCM", "updateCM"} => obj \in ConfigMap /\ (~Foreign => obj.owner # None),
         pc \in {"createDep", "updateDep"} => obj \in Deployment /\ (~Foreign => obj.owner # None),
         Deposed!Goto(pc, obj)
  PROVE  Deposed!WorkerTypeOK' /\ DeposedOwned'
<1>1. CASE pc = "idle"
  BY <1>1, DeposedIdle, DeposedNames DEF Deposed!Goto
<1>2. CASE pc # "idle"
  <2>1. oldWorker' = [oldWorker EXCEPT !.pc = pc, !.obj = obj]
    BY <1>2 DEF Deposed!Goto
  <2>2. oldWorker \in Worker
    BY DeposedNames DEF DeposedOK, Deposed!WorkerTypeOK
  <2>3. /\ oldWorker' \in Worker /\ oldWorker'.pc = pc /\ oldWorker'.obj = obj
        /\ oldWorker'.name = oldWorker.name /\ oldWorker'.page = oldWorker.page
    BY <2>1, <2>2 DEF Worker
  <2>4. Deposed!WorkerTypeOK'
    BY <1>2, <2>3, DeposedNames DEF DeposedOK, Deposed!WorkerTypeOK
  <2>5. DeposedOwned'
    BY <2>3 DEF DeposedOwned
  <2> QED BY <2>4, <2>5
<1> QED BY <1>1, <1>2

\* What is to be shown of each step of a deposed pass.
DeposedMoves ==
  /\ Deposed!WorkerTypeOK' /\ DeposedOwned'
  /\ oldQueue' \subseteq Names /\ oldBackoff' \subseteq Names /\ UNCHANGED oldCache
  /\ DeposedWrites /\ (spent' = spent \/ \E b \in Budgeted : Spend(b))

LEMMA DeposedWrite ==
  ASSUME FInv, oldWorker.pc \in PassSteps, NEW accepted, NEW k \in Kinds,
         NEW obj \in Objects(k) \cup {None},
         ~Foreign /\ k # "proxy" /\ obj # None => obj.owner # None,
         NEW pc \in {"getDep", "checkDep", "idle"},
         Deposed!Write(accepted, k, obj, pc)
  PROVE  DeposedMoves
<1>1. oldWorker.name \in Names /\ oldWorker.pc # "idle"
  BY DeposedPass DEF FInv
<1>2. spent' = spent \/ \E b \in Budgeted : Spend(b)
  BY DEF Deposed!Write, Deposed!Spend, Spend, Budgeted
<1>3. DeposedWrites
  <2>1. CASE Deposed!Commit(k, oldWorker.name, obj)
    BY <1>1, <2>1 DEF DeposedWrites
  <2>2. CASE UNCHANGED Deposed!apiVars
    BY <1>1, <2>2, DeposedReads DEF FInv
  <2> QED BY <2>1, <2>2 DEF Deposed!Write
<1>4. Deposed!WorkerTypeOK' /\ DeposedOwned' /\ oldBackoff' \subseteq Names
  <2>1. CASE Deposed!Goto(pc, None) /\ UNCHANGED oldBackoff
    BY <1>1, <2>1, DeposedGoto DEF FInv, DeposedOK, PassSteps
  <2>2. CASE Deposed!Retry
    BY <1>1, <2>2, DeposedIdle, DeposedNames DEF Deposed!Retry, FInv, DeposedOK
  <2> QED BY <2>1, <2>2 DEF Deposed!Write
<1>5. oldQueue' = oldQueue /\ oldCache' = oldCache
  BY DEF Deposed!Write, Deposed!Commit, Deposed!apiVars
<1> QED BY <1>2, <1>3, <1>4, <1>5 DEF DeposedMoves, FInv, DeposedOK

LEMMA DeposedDelete ==
  ASSUME FInv, oldWorker.pc \in CleanupSteps, NEW k \in Kinds,
         NEW pc \in {"deleteDep", "idle"}, Deposed!DeleteIgnoringErrors(k, pc)
  PROVE  DeposedMoves
<1>1. oldWorker.name \in Names /\ oldWorker.pc # "idle"
  BY DeposedNames DEF FInv, DeposedOK, Deposed!WorkerTypeOK, CleanupSteps
<1>2. spent' = spent \/ \E b \in Budgeted : Spend(b)
  BY DEF Deposed!DeleteIgnoringErrors, Deposed!Spend, Spend, Budgeted
<1>3. DeposedWrites
  <2>1. CASE Deposed!Commit(k, oldWorker.name, None)
    BY <1>1, <2>1 DEF DeposedWrites
  <2>2. CASE UNCHANGED Deposed!apiVars
    BY <1>1, <2>2, DeposedReads DEF FInv
  <2> QED BY <2>1, <2>2 DEF Deposed!DeleteIgnoringErrors
<1>4. Deposed!WorkerTypeOK' /\ DeposedOwned'
  BY <1>1, DeposedGoto DEF Deposed!DeleteIgnoringErrors, FInv, CleanupSteps, PassSteps
<1>5. UNCHANGED <<oldQueue, oldBackoff, oldCache>>
  BY DEF Deposed!DeleteIgnoringErrors, Deposed!Commit, Deposed!apiVars
<1> QED BY <1>2, <1>3, <1>4, <1>5 DEF DeposedMoves, FInv, DeposedOK

LEMMA DeposedGetConfigMap ==
  ASSUME FInv, Deposed!GetConfigMap
  PROVE  DeposedMoves
<1> DEFINE cm == Deposed!BuildConfigMap(oldWorker.page)
           existing == oldCache["cm"][oldWorker.name]
<1>1. oldWorker.pc = "getCM" /\ oldWorker.pc \in PassSteps
  BY DEF Deposed!GetConfigMap, PassSteps
<1>2. /\ oldWorker.name \in Names /\ oldWorker.pc # "idle"
      /\ cm \in ConfigMap /\ cm.owner # None
  BY <1>1, DeposedPass, DeposedBuild DEF FInv
<1>3. existing \in ConfigMap \cup {None} /\ (~Foreign /\ existing # None => existing.owner # None)
  BY <1>2 DEF FInv, DeposedOK, DeposedCacheOK, Kinds, Objects
<1>4. existing # None =>
        /\ [existing EXCEPT !.data = cm.data] \in ConfigMap
        /\ [existing EXCEPT !.data = cm.data].owner = existing.owner
  BY <1>2, <1>3 DEF ConfigMap
<1>5. Deposed!WorkerTypeOK' /\ DeposedOwned'
  <2>1. CASE Deposed!Goto("createCM", cm)
    BY <1>1, <1>2, <2>1, DeposedGoto DEF FInv, PassSteps
  <2>2. CASE existing # None /\ Deposed!Goto("updateCM", [existing EXCEPT !.data = cm.data])
    BY <1>1, <1>2, <1>3, <1>4, <2>2, DeposedGoto DEF FInv, PassSteps
  <2>3. CASE Deposed!Goto("getDep", None)
    BY <1>1, <1>2, <2>3, DeposedGoto DEF FInv, PassSteps
  <2> QED BY <2>1, <2>2, <2>3 DEF Deposed!GetConfigMap
<1>6. DeposedWrites
  BY <1>2, DeposedReads DEF Deposed!GetConfigMap, FInv
<1> QED BY <1>5, <1>6 DEF DeposedMoves, Deposed!GetConfigMap, Deposed!apiVars,
                              FInv, DeposedOK

LEMMA DeposedGetDeployment ==
  ASSUME FInv, Deposed!GetDeployment
  PROVE  DeposedMoves
<1> DEFINE dep == Deposed!BuildDeployment(oldWorker.page)
           existing == oldCache["dep"][oldWorker.name]
           updated == [existing EXCEPT !.replicas = dep.replicas, !.image = dep.image]
<1>1. oldWorker.pc = "getDep" /\ oldWorker.pc \in PassSteps
  BY DEF Deposed!GetDeployment, PassSteps
<1>2. /\ oldWorker.name \in Names /\ oldWorker.pc # "idle"
      /\ dep \in Deployment /\ dep.owner # None
  BY <1>1, DeposedPass, DeposedBuild DEF FInv
<1>3. existing \in Deployment \cup {None} /\ (~Foreign /\ existing # None => existing.owner # None)
  BY <1>2 DEF FInv, DeposedOK, DeposedCacheOK, Kinds, Objects
<1>4. dep.replicas \in Int /\ dep.image \in Images
  BY <1>2 DEF Deployment
<1>5. existing # None => updated \in Deployment /\ updated.owner = existing.owner
  BY <1>3, <1>4 DEF Deployment
<1>6. DeposedWrites
  BY <1>2, DeposedReads DEF Deposed!GetDeployment, FInv
<1>7. CASE Deposed!Retry
  BY <1>2, <1>6, <1>7, DeposedIdle, DeposedNames
     DEF Deposed!Retry, DeposedMoves, Deposed!GetDeployment, Deposed!apiVars, FInv, DeposedOK
<1>8. CASE ~Deposed!Retry
  <2>1. Deposed!Goto("createDep", dep) => Deposed!WorkerTypeOK' /\ DeposedOwned'
    BY <1>1, <1>2, DeposedGoto DEF FInv, PassSteps
  <2>2. existing # None /\ Deposed!Goto("updateDep", updated)
          => Deposed!WorkerTypeOK' /\ DeposedOwned'
    BY <1>1, <1>2, <1>3, <1>5, DeposedGoto DEF FInv, PassSteps
  <2>3. Deposed!Goto("checkDep", None) => Deposed!WorkerTypeOK' /\ DeposedOwned'
    BY <1>1, <1>2, DeposedGoto DEF FInv, PassSteps
  <2>4. Deposed!WorkerTypeOK' /\ DeposedOwned' /\ UNCHANGED oldBackoff
    BY <1>8, <2>1, <2>2, <2>3 DEF Deposed!GetDeployment
  <2> QED BY <1>6, <2>4
          DEF DeposedMoves, Deposed!GetDeployment, Deposed!apiVars, FInv, DeposedOK
<1> QED BY <1>7, <1>8

LEMMA DeposedCheckDeployment ==
  ASSUME FInv, Deposed!CheckDeployment
  PROVE  DeposedMoves
<1> DEFINE status == Deposed!StatusOf(oldCache["dep"][oldWorker.name])
<1>1. oldWorker.pc = "checkDep" /\ oldWorker.pc \in PassSteps
  BY DEF Deposed!CheckDeployment, PassSteps
<1>2. /\ oldWorker.name \in Names /\ oldWorker \in Worker /\ oldWorker.page \in Proxy
  BY <1>1, DeposedPass DEF FInv
<1>3. status \in Status
  <2>1. oldCache["dep"][oldWorker.name] \in Deployment \cup {None}
    BY <1>2 DEF FInv, DeposedOK, DeposedCacheOK, Kinds, Objects
  <2> QED BY <2>1, DeposedStatus
<1>4. [oldWorker.page EXCEPT !.status = status] \in Proxy
  BY <1>2, <1>3 DEF Proxy
<1>5. /\ oldWorker' \in Worker /\ oldWorker'.pc = "setStatus"
      /\ oldWorker'.name = oldWorker.name
      /\ oldWorker'.page = [oldWorker.page EXCEPT !.status = status]
  BY <1>2, <1>4 DEF Deposed!CheckDeployment, Worker, PassSteps
<1>6. Deposed!WorkerTypeOK' /\ DeposedOwned'
  BY <1>2, <1>4, <1>5, DeposedNames DEF Deposed!WorkerTypeOK, DeposedOwned
<1>7. DeposedWrites
  BY <1>2, DeposedReads DEF Deposed!CheckDeployment, FInv
<1> QED BY <1>6, <1>7
        DEF DeposedMoves, Deposed!CheckDeployment, Deposed!apiVars, FInv, DeposedOK

LEMMA DeposedContinue ==
  ASSUME FInv, Deposed!Continue
  PROVE  DeposedMoves
<1>1. CASE Deposed!DeleteConfigMap
  BY <1>1, DeposedDelete DEF Deposed!DeleteConfigMap, CleanupSteps, Kinds
<1>2. CASE Deposed!DeleteDeployment
  BY <1>2, DeposedDelete DEF Deposed!DeleteDeployment, CleanupSteps, Kinds
<1>3. CASE Deposed!CreateConfigMap
  <2>1. /\ oldWorker.pc = "createCM" /\ oldWorker.pc \in PassSteps
    BY <1>3 DEF Deposed!CreateConfigMap, PassSteps
  <2>2. oldWorker.obj \in Objects("cm") /\ (~Foreign => oldWorker.obj.owner # None)
    BY <2>1, DeposedPass DEF FInv, Objects
  <2> QED BY <1>3, <2>1, <2>2, DeposedWrite DEF Deposed!CreateConfigMap, Kinds
<1>4. CASE Deposed!UpdateConfigMap
  <2>1. /\ oldWorker.pc = "updateCM" /\ oldWorker.pc \in PassSteps
    BY <1>4 DEF Deposed!UpdateConfigMap, PassSteps
  <2>2. oldWorker.obj \in Objects("cm") /\ (~Foreign => oldWorker.obj.owner # None)
    BY <2>1, DeposedPass DEF FInv, Objects
  <2> QED BY <1>4, <2>1, <2>2, DeposedWrite DEF Deposed!UpdateConfigMap, Kinds
<1>5. CASE Deposed!CreateDeployment
  <2>1. /\ oldWorker.pc = "createDep" /\ oldWorker.pc \in PassSteps
    BY <1>5 DEF Deposed!CreateDeployment, PassSteps
  <2>2. oldWorker.obj \in Objects("dep") /\ (~Foreign => oldWorker.obj.owner # None)
    BY <2>1, DeposedPass DEF FInv, Objects
  <2> QED BY <1>5, <2>1, <2>2, DeposedWrite DEF Deposed!CreateDeployment, Kinds
<1>6. CASE Deposed!UpdateDeployment
  <2>1. /\ oldWorker.pc = "updateDep" /\ oldWorker.pc \in PassSteps
    BY <1>6 DEF Deposed!UpdateDeployment, PassSteps
  <2>2. oldWorker.obj \in Objects("dep") /\ (~Foreign => oldWorker.obj.owner # None)
    BY <2>1, DeposedPass DEF FInv, Objects
  <2> QED BY <1>6, <2>1, <2>2, DeposedWrite DEF Deposed!UpdateDeployment, Kinds
<1>7. CASE Deposed!SetStatus
  <2>1. /\ oldWorker.pc = "setStatus" /\ oldWorker.pc \in PassSteps
    BY <1>7 DEF Deposed!SetStatus, PassSteps
  <2>2. oldWorker.page \in Objects("proxy")
    BY <2>1, DeposedPass DEF FInv, Objects
  <2> QED BY <1>7, <2>1, <2>2, DeposedWrite DEF Deposed!SetStatus, Kinds
<1> QED BY <1>1, <1>2, <1>3, <1>4, <1>5, <1>6, <1>7, DeposedGetConfigMap,
           DeposedGetDeployment, DeposedCheckDeployment DEF Deposed!Continue

LEMMA DeposedBegin ==
  ASSUME FInv, NEW n \in Names, Deposed!BeginReconcile(n)
  PROVE  DeposedMoves
<1> DEFINE page == oldCache["proxy"][n]
<1>1. page \in Proxy \cup {None}
  BY DEF FInv, DeposedOK, DeposedCacheOK, Kinds, Objects
<1>2. /\ DeposedWrites /\ UNCHANGED oldCache
      /\ oldQueue' \subseteq Names /\ oldBackoff' \subseteq Names
  BY DeposedReads DEF Deposed!BeginReconcile, Deposed!apiVars, FInv, DeposedOK
<1>3. Deposed!WorkerTypeOK' /\ DeposedOwned'
  <2>1. CASE oldWorker' = [Idle EXCEPT !.pc = "deleteCM", !.name = n]
    BY <2>1, IdleType, DeposedNames
       DEF Deposed!WorkerTypeOK, DeposedOwned, Worker, Idle, CleanupSteps, PassSteps
  <2>2. CASE UNCHANGED oldWorker
    BY <2>2 DEF FInv, DeposedOK, Deposed!WorkerTypeOK, DeposedOwned
  <2>3. CASE /\ page # None
             /\ oldWorker' = [Idle EXCEPT !.pc = "getCM", !.name = n, !.page = page]
    BY <1>1, <2>3, IdleType, DeposedNames
       DEF Deposed!WorkerTypeOK, DeposedOwned, Worker, Idle, CleanupSteps, PassSteps
  <2> QED BY <2>1, <2>2, <2>3, DeposedNames DEF Deposed!BeginReconcile
<1> QED BY <1>2, <1>3 DEF DeposedMoves, Deposed!BeginReconcile

\* To the leader a step of the deposed process is a write by somebody else.
LEMMA DeposedInv ==
  ASSUME FInv, DeposedMoves, UNCHANGED <<cache, queue, backoff, worker>>
  PROVE  TypeOK' /\ (~Foreign => IInv')
<1>1. PICK k \in Kinds, n \in Names : \E obj \in Objects(k) \cup {None} :
        Deposed!Commit(k, n, obj) /\ (~Foreign /\ k # "proxy" /\ obj # None => obj.owner # None)
  BY DEF DeposedMoves, DeposedWrites
<1>2. PICK obj \in Objects(k) \cup {None} :
        Deposed!Commit(k, n, obj) /\ (~Foreign /\ k # "proxy" /\ obj # None => obj.owner # None)
  BY <1>1
<1>3. Commit(k, n, obj)
  BY <1>2 DEF Deposed!Commit, Commit, Deposed!Stamped, Stamped, Deposed!apiVars, apiVars
<1>4. External(k, n, obj)
  BY <1>3 DEF External
<1>5. spent' \in [Budgeted -> Nat] /\ SpentGrows
  BY SpendType, SpendGrows DEF DeposedMoves, FInv, TypeOK, SpentGrows
<1>6. TypeOK'
  BY <1>4, <1>5, ExternalType DEF FInv
<1> QED BY <1>2, <1>4, <1>5, <1>6, ExternalInv DEF FInv

LEMMA DeposedStepMoving ==
  ASSUME FInv, DeposedStep
  PROVE  DeposedMoves
<1>1. ASSUME NEW n \in Names, Deposed!BackoffExpires(n)
      PROVE  DeposedMoves
  <2>1. DeposedWrites
    BY <1>1, DeposedReads DEF Deposed!BackoffExpires, FInv
  <2> QED BY <1>1, <2>1
          DEF Deposed!BackoffExpires, Deposed!apiVars, DeposedMoves, FInv, DeposedOK,
              Deposed!WorkerTypeOK, DeposedOwned
<1> QED BY <1>1, DeposedContinue, DeposedBegin DEF DeposedStep

LEMMA DeposedStepInv ==
  ASSUME FInv, DeposedStep
  PROVE  FInv'
<1>1. DeposedMoves
  BY DeposedStepMoving
<1>2. TypeOK' /\ (~Foreign => IInv')
  BY <1>1, DeposedInv DEF DeposedStep
<1> QED BY <1>1, <1>2 DEF FInv, DeposedOK, DeposedMoves, DeposedCacheOK

-----------------------------------------------------------------------------
(* The theorems. *)

LEMMA FailoverStepInv ==
  ASSUME FInv, [FailoverNext]_failoverVars
  PROVE  FInv'
<1>1. CASE UNCHANGED failoverVars \/ LeaderStep
  <2>1. [Next]_vars /\ UNCHANGED old
    BY <1>1 DEF failoverVars, LeaderStep
  <2>2. TypeOK' /\ (~Foreign => IInv')
    BY <2>1, TypeStep, StepInv DEF FInv
  <2>3. DeposedOK'
    BY <2>1 DEF old, FInv, DeposedOK, DeposedOwned, DeposedCacheOK, Deposed!WorkerTypeOK
  <2> QED BY <2>2, <2>3 DEF FInv
<1>2. CASE DeposedStep
  BY <1>2, DeposedStepInv
<1>3. CASE TakeOver
  <2>1. TypeOK' /\ (~Foreign => IInv')
    BY <1>3, StartType, StartInv DEF TakeOver, FInv, TypeOK
  <2>2. Deposed!WorkerTypeOK' /\ DeposedOwned'
    BY <1>3, DeposedNames
       DEF TakeOver, FInv, TypeOK, IInv, WorkerTypeOK, WorkerOwned,
           Deposed!WorkerTypeOK, DeposedOwned
  <2>3. DeposedCacheOK'
    BY <1>3 DEF TakeOver, FInv, TypeOK, IInv, ApiTypeOK, ApiOwned, DeposedCacheOK
  <2> QED BY <1>3, <2>1, <2>2, <2>3 DEF TakeOver, FInv, TypeOK, DeposedOK
<1>4. CASE Exit
  <2>1. TypeOK' /\ (~Foreign => IInv')
    BY <1>4, TypeStep, StepInv DEF Exit, FInv
  <2>2. Deposed!WorkerTypeOK' /\ DeposedOwned'
    BY <1>4, DeposedIdle DEF Exit
  <2>3. DeposedCacheOK'
    BY <1>4 DEF Exit, NoObjects, DeposedCacheOK, Kinds
  <2> QED BY <1>4, <2>1, <2>2, <2>3 DEF Exit, FInv, DeposedOK
<1> QED BY <1>1, <1>2, <1>3, <1>4 DEF FailoverNext

LEMMA FailoverInitInv ==
  ASSUME FailoverInit
  PROVE  FInv
<1>1. TypeOK /\ IInv
  BY TypeInit, InitInv DEF FailoverInit
<1>2. Deposed!WorkerTypeOK /\ DeposedOwned
  BY IdleType, DeposedNames
     DEF FailoverInit, Exited, Deposed!WorkerTypeOK, DeposedOwned, Idle, PassSteps
<1>3. DeposedCacheOK
  BY DEF FailoverInit, NoObjects, DeposedCacheOK, Kinds
<1> QED BY <1>1, <1>2, <1>3 DEF FailoverInit, Exited, FInv, DeposedOK

\* Whoever leads, and however often that changes, its invariant holds.
THEOREM FailoverInvariance == FailoverSpec => []FInv
<1>1. FailoverInit => FInv
  BY FailoverInitInv
<1>2. FInv /\ [FailoverNext]_failoverVars => FInv'
  BY FailoverStepInv
<1> QED BY <1>1, <1>2, PTL DEF FailoverSpec

(***************************************************************************)
(* Whatever a deposed process still writes from what it read before it     *)
(* lost the lease (server.go, lines 120-152), and however many handovers   *)
(* and late passes there are: when the leader has nothing left to do,      *)
(* every proxy is as its spec asks and a deleted one has left nothing.     *)
(***************************************************************************)
THEOREM LeaderConverges ==
  ASSUME ~Foreign
  PROVE  FailoverSpec => []LeaderHasConverged
<1>1. FInv => LeaderHasConverged
  <2> SUFFICES ASSUME IInv, spent["relist"] = 0, NEW n \in Names, ~Pending(n)
               PROVE  /\ Converged(n)
                      /\ store["proxy"][n] = None /\ spent["fault"] = 0
                           => store["cm"][n] = None /\ store["dep"][n] = None
    BY DEF FInv, LeaderHasConverged
  <2>1. Converged(n)
    BY DEF IInv, IdleConverged
  <2> QED BY <2>1, IdleCleanedUp DEF QuiescentCleanedUp
<1> QED BY <1>1, FailoverInvariance, PTL

(***************************************************************************)
(* The leader's pass over a settled proxy still writes nothing (lines 316, *)
(* 356-366 and 411), so two processes do not keep each other busy.         *)
(***************************************************************************)
THEOREM LeaderIsQuiet ==
  ASSUME ~Foreign
  PROVE  FailoverSpec => QuietWhenSettled
<1>1. FInv /\ [FailoverNext]_failoverVars
        => [\A n \in Names : worker.name = n /\ Settled(n) /\ Continue => store' = store]_vars
  BY SettledStep DEF FInv
<1> QED BY <1>1, FailoverInvariance, PTL DEF FailoverSpec, QuietWhenSettled

-----------------------------------------------------------------------------
(* What a deposed process may overwrite is in its caches. *)

\* The caches it was left with, and the pass it was left in or began since.
DeposedFaithful ==
  \A k \in Kinds, n \in Names : Faithful(oldCache[k][n], store[k][n], rev[k][n])

DeposedLatest ==
  LET n == oldWorker.name
  IN /\ oldWorker.pc \in PassSteps =>
          Latest(oldWorker.page, oldCache["proxy"][n], store["proxy"][n], rev["proxy"][n])
     /\ oldWorker.pc = "updateCM" =>
          Latest(oldWorker.obj, oldCache["cm"][n], store["cm"][n], rev["cm"][n])
     /\ oldWorker.pc = "updateDep" =>
          Latest(oldWorker.obj, oldCache["dep"][n], store["dep"][n], rev["dep"][n])

HandoverInv == FInv /\ LatestInv /\ DeposedFaithful /\ DeposedLatest

DeposedReadsAhead(k, pc) ==
  /\ oldWorker'.pc = pc
  /\ oldCache[k][oldWorker.name] # None
  /\ oldWorker'.obj.rv = oldCache[k][oldWorker.name].rv

\* How a step may change the pass of the deposed process.
DeposedPassMoves ==
  \/ UNCHANGED oldWorker
  \/ oldWorker' = Idle
  \/ oldWorker'.pc \in CleanupSteps
  \/ \E n \in Names :
       /\ oldCache["proxy"][n] # None
       /\ oldWorker'.pc = "getCM" /\ oldWorker'.name = n
       /\ oldWorker'.page = oldCache["proxy"][n]
  \/ /\ oldWorker.pc \in PassSteps
     /\ oldWorker'.name = oldWorker.name /\ oldWorker'.page.rv = oldWorker.page.rv
     /\ \/ oldWorker'.pc \notin {"updateCM", "updateDep"}
        \/ DeposedReadsAhead("cm", "updateCM")
        \/ DeposedReadsAhead("dep", "updateDep")

LEMMA DeposedGotoKeeps ==
  ASSUME DeposedOK, NEW pc, NEW obj, Deposed!Goto(pc, obj), pc # "idle"
  PROVE  /\ oldWorker'.pc = pc /\ oldWorker'.obj = obj
         /\ oldWorker'.name = oldWorker.name /\ oldWorker'.page = oldWorker.page
<1>1. oldWorker \in Worker  BY DeposedNames DEF DeposedOK, Deposed!WorkerTypeOK
<1> QED  BY <1>1 DEF Deposed!Goto, Worker

LEMMA DeposedContinueMoves ==
  ASSUME DeposedOK, Deposed!Continue
  PROVE  DeposedPassMoves
<1>1. oldWorker \in Worker  BY DeposedNames DEF DeposedOK, Deposed!WorkerTypeOK
<1>2. ASSUME NEW pc \in {"getDep", "checkDep", "idle"}, NEW accepted, NEW k, NEW obj,
             Deposed!Write(accepted, k, obj, pc), oldWorker.pc \in PassSteps
      PROVE  DeposedPassMoves
  <2>1. CASE Deposed!Retry  BY <2>1, DeposedNames DEF Deposed!Retry, DeposedPassMoves
  <2>2. CASE Deposed!Goto(pc, None)
    <3>1. CASE pc = "idle"
      BY <2>2, <3>1, DeposedNames DEF Deposed!Goto, DeposedPassMoves
    <3>2. CASE pc # "idle"
      BY <1>2, <2>2, <3>2, DeposedGotoKeeps DEF DeposedPassMoves
    <3> QED  BY <3>1, <3>2
  <2> QED  BY <1>2, <2>1, <2>2 DEF Deposed!Write
<1>3. CASE Deposed!DeleteConfigMap
  <2>1. Deposed!Goto("deleteDep", None)
    BY <1>3 DEF Deposed!DeleteConfigMap, Deposed!DeleteIgnoringErrors
  <2>2. oldWorker'.pc = "deleteDep"  BY <2>1, DeposedGotoKeeps
  <2> QED  BY <2>2 DEF DeposedPassMoves, CleanupSteps
<1>4. CASE Deposed!DeleteDeployment
  BY <1>4, DeposedNames
     DEF Deposed!DeleteDeployment, Deposed!DeleteIgnoringErrors, Deposed!Goto, DeposedPassMoves
<1>5. CASE \/ Deposed!CreateConfigMap \/ Deposed!UpdateConfigMap
           \/ Deposed!CreateDeployment \/ Deposed!UpdateDeployment
           \/ Deposed!SetStatus
  BY <1>2, <1>5
     DEF Deposed!CreateConfigMap, Deposed!UpdateConfigMap, Deposed!CreateDeployment,
         Deposed!UpdateDeployment, Deposed!SetStatus, PassSteps
<1>6. CASE Deposed!GetConfigMap
  <2> DEFINE cm == Deposed!BuildConfigMap(oldWorker.page)
             existing == oldCache["cm"][oldWorker.name]
  <2>1. oldWorker.pc \in PassSteps /\ oldWorker.name \in Names
    BY <1>6, DeposedPass DEF Deposed!GetConfigMap, PassSteps
  <2>2. CASE Deposed!Goto("createCM", cm) \/ Deposed!Goto("getDep", None)
    BY <2>1, <2>2, DeposedGotoKeeps DEF DeposedPassMoves
  <2>3. CASE existing # None /\ Deposed!Goto("updateCM", [existing EXCEPT !.data = cm.data])
    <3>1. /\ oldWorker'.pc = "updateCM" /\ oldWorker'.obj = [existing EXCEPT !.data = cm.data]
          /\ oldWorker'.name = oldWorker.name /\ oldWorker'.page = oldWorker.page
      BY <2>3, DeposedGotoKeeps
    <3>2. existing \in ConfigMap
      BY <2>1, <2>3 DEF DeposedOK, DeposedCacheOK, Kinds, Objects
    <3>3. oldWorker'.obj.rv = existing.rv  BY <3>1, <3>2 DEF ConfigMap
    <3> QED  BY <2>1, <2>3, <3>1, <3>3 DEF DeposedPassMoves, DeposedReadsAhead
  <2> QED  BY <1>6, <2>2, <2>3 DEF Deposed!GetConfigMap
<1>7. CASE Deposed!GetDeployment
  <2> DEFINE dep == Deposed!BuildDeployment(oldWorker.page)
             existing == oldCache["dep"][oldWorker.name]
             update == [existing EXCEPT !.replicas = dep.replicas, !.image = dep.image]
  <2>1. oldWorker.pc \in PassSteps /\ oldWorker.name \in Names
    BY <1>7, DeposedPass DEF Deposed!GetDeployment, PassSteps
  <2>2. CASE Deposed!Goto("createDep", dep) \/ Deposed!Goto("checkDep", None)
    BY <2>1, <2>2, DeposedGotoKeeps DEF DeposedPassMoves
  <2>3. CASE existing # None /\ Deposed!Goto("updateDep", update)
    <3>1. /\ oldWorker'.pc = "updateDep" /\ oldWorker'.obj = update
          /\ oldWorker'.name = oldWorker.name /\ oldWorker'.page = oldWorker.page
      BY <2>3, DeposedGotoKeeps
    <3>2. existing \in Deployment
      BY <2>1, <2>3 DEF DeposedOK, DeposedCacheOK, Kinds, Objects
    <3>3. oldWorker'.obj.rv = existing.rv  BY <3>1, <3>2 DEF Deployment
    <3> QED  BY <2>1, <2>3, <3>1, <3>3 DEF DeposedPassMoves, DeposedReadsAhead
  <2>4. CASE Deposed!Retry  BY <2>4, DeposedNames DEF Deposed!Retry, DeposedPassMoves
  <2> QED  BY <1>7, <2>2, <2>3, <2>4 DEF Deposed!GetDeployment
<1>8. CASE Deposed!CheckDeployment
  <2>1. oldWorker.pc \in PassSteps /\ oldWorker.page \in Proxy
    BY <1>8, DeposedPass DEF Deposed!CheckDeployment, PassSteps
  <2>2. /\ oldWorker'.pc = "setStatus" /\ oldWorker'.name = oldWorker.name
        /\ oldWorker'.page.rv = oldWorker.page.rv
    BY <1>1, <1>8, <2>1 DEF Deposed!CheckDeployment, Worker, Proxy
  <2> QED  BY <2>1, <2>2 DEF DeposedPassMoves
<1> QED  BY <1>3, <1>4, <1>5, <1>6, <1>7, <1>8 DEF Deposed!Continue

LEMMA DeposedStepMoves ==
  ASSUME DeposedOK, DeposedStep
  PROVE  DeposedPassMoves
<1>1. ASSUME NEW n \in Names, Deposed!BeginReconcile(n)
      PROVE  DeposedPassMoves
  <2>1. CASE oldWorker' = [Idle EXCEPT !.pc = "deleteCM", !.name = n]
    BY <2>1 DEF Idle, DeposedPassMoves, CleanupSteps
  <2>2. CASE UNCHANGED oldWorker
    BY <2>2 DEF DeposedPassMoves
  <2>3. CASE /\ oldCache["proxy"][n] # None
             /\ oldWorker' = [Idle EXCEPT !.pc = "getCM", !.name = n,
                                          !.page = oldCache["proxy"][n]]
    BY <2>3 DEF Idle, DeposedPassMoves
  <2> QED  BY <1>1, <2>1, <2>2, <2>3, DeposedNames DEF Deposed!BeginReconcile
<1>2. ASSUME NEW n \in Names, Deposed!BackoffExpires(n)
      PROVE  DeposedPassMoves
  BY <1>2 DEF Deposed!BackoffExpires, DeposedPassMoves
<1> QED  BY <1>1, <1>2, DeposedContinueMoves DEF DeposedStep

\* Nothing that is written changes what a frozen cache is right about.
LEMMA OldLatestKept ==
  ASSUME ApiTypeOK, VersionsKept, NEW k \in Kinds, NEW n \in Names,
         NEW copy, copy.rv \in Nat, NEW cached,
         Latest(copy, cached, store[k][n], rev[k][n])
  PROVE  Latest(copy, cached, store'[k][n], rev'[k][n])
<1>1. rev[k][n] \in Nat  BY SlotTypes
<1> QED  BY <1>1 DEF Latest, VersionsKept

LEMMA DeposedLatestKept ==
  ASSUME FInv, DeposedFaithful, DeposedLatest, VersionsKept, UNCHANGED oldCache,
         DeposedPassMoves
  PROVE  DeposedFaithful' /\ DeposedLatest'
<1> DEFINE n == oldWorker.name
<1>1. ApiTypeOK /\ DeposedOK /\ Kinds = {"proxy", "cm", "dep"}
  BY DEF FInv, TypeOK, Kinds
<1>2. DeposedFaithful'
  <2>1. ASSUME NEW k \in Kinds, NEW m \in Names
        PROVE  Faithful(oldCache[k][m], store'[k][m], rev'[k][m])
    <3>1. oldCache[k][m] \in Objects(k) \cup {None}
      BY <1>1 DEF DeposedOK, DeposedCacheOK
    <3> QED  BY <1>1, <3>1, FaithfulKept DEF DeposedFaithful
  <2> QED  BY <2>1 DEF DeposedFaithful
<1>3. oldWorker.pc \in PassSteps => n \in Names /\ oldWorker.page.rv \in Nat
  BY <1>1, DeposedPass DEF Proxy
<1>4. /\ oldWorker.pc = "updateCM" => n \in Names /\ oldWorker.obj.rv \in Nat
      /\ oldWorker.pc = "updateDep" => n \in Names /\ oldWorker.obj.rv \in Nat
  BY <1>1, DeposedPass DEF ConfigMap, Deployment, PassSteps
<1>5. oldWorker.pc \in PassSteps =>
        Latest(oldWorker.page, oldCache["proxy"][n], store'["proxy"][n], rev'["proxy"][n])
  BY <1>1, <1>3, OldLatestKept DEF DeposedLatest
<1>6. /\ oldWorker.pc = "updateCM" =>
           Latest(oldWorker.obj, oldCache["cm"][n], store'["cm"][n], rev'["cm"][n])
      /\ oldWorker.pc = "updateDep" =>
           Latest(oldWorker.obj, oldCache["dep"][n], store'["dep"][n], rev'["dep"][n])
  BY <1>1, <1>4, OldLatestKept DEF DeposedLatest
<1>7. ASSUME NEW k \in Kinds, NEW m \in Names, oldCache[k][m] # None,
             NEW copy, copy.rv = oldCache[k][m].rv
      PROVE  Latest(copy, oldCache[k][m], store'[k][m], rev'[k][m])
  BY <1>2, <1>7 DEF DeposedFaithful, Faithful, Latest
<1>8. CASE UNCHANGED oldWorker
  BY <1>2, <1>5, <1>6, <1>8 DEF DeposedLatest
<1>9. CASE oldWorker' = Idle \/ oldWorker'.pc \in CleanupSteps
  BY <1>2, <1>9 DEF DeposedLatest, Idle, CleanupSteps, PassSteps
<1>10. ASSUME NEW m \in Names, oldCache["proxy"][m] # None, oldWorker'.pc = "getCM",
              oldWorker'.name = m, oldWorker'.page = oldCache["proxy"][m]
       PROVE  DeposedLatest'
  <2>1. Latest(oldWorker'.page, oldCache["proxy"][m], store'["proxy"][m], rev'["proxy"][m])
    BY <1>1, <1>7, <1>10
  <2> QED  BY <1>10, <2>1 DEF DeposedLatest
<1>11. CASE /\ oldWorker.pc \in PassSteps
            /\ oldWorker'.name = oldWorker.name /\ oldWorker'.page.rv = oldWorker.page.rv
            /\ \/ oldWorker'.pc \notin {"updateCM", "updateDep"}
               \/ DeposedReadsAhead("cm", "updateCM")
               \/ DeposedReadsAhead("dep", "updateDep")
  <2>1. Latest(oldWorker'.page, oldCache["proxy"][n], store'["proxy"][n], rev'["proxy"][n])
    BY <1>5, <1>11 DEF Latest
  <2>2. DeposedReadsAhead("cm", "updateCM") =>
          Latest(oldWorker'.obj, oldCache["cm"][n], store'["cm"][n], rev'["cm"][n])
    BY <1>1, <1>3, <1>7, <1>11 DEF DeposedReadsAhead
  <2>3. DeposedReadsAhead("dep", "updateDep") =>
          Latest(oldWorker'.obj, oldCache["dep"][n], store'["dep"][n], rev'["dep"][n])
    BY <1>1, <1>3, <1>7, <1>11 DEF DeposedReadsAhead
  <2>4. /\ oldWorker'.pc = "updateCM" => DeposedReadsAhead("cm", "updateCM")
        /\ oldWorker'.pc = "updateDep" => DeposedReadsAhead("dep", "updateDep")
    BY <1>11 DEF DeposedReadsAhead
  <2> QED  BY <1>2, <1>11, <2>1, <2>2, <2>3, <2>4 DEF DeposedLatest
<1> QED  BY <1>2, <1>8, <1>9, <1>10, <1>11 DEF DeposedPassMoves

\* The leader's copies, when the deposed process writes.
LEMMA LeaderLatest ==
  ASSUME FInv, LatestInv, DeposedStep
  PROVE  LatestInv' /\ VersionsKept /\ UNCHANGED oldCache
<1>1. DeposedMoves  BY DeposedStepMoving
<1>2. UNCHANGED <<cache, worker>>  BY DEF DeposedStep
<1>3. PICK k \in Kinds, n \in Names : \E obj \in Objects(k) \cup {None} :
        Deposed!Commit(k, n, obj)
  BY <1>1 DEF DeposedMoves, DeposedWrites
<1>4. PICK obj \in Objects(k) \cup {None} : Deposed!Commit(k, n, obj)  BY <1>3
<1>5. Commit(k, n, obj)
  BY <1>2, <1>4 DEF Deposed!Commit, Commit, Deposed!Stamped, Stamped, Deposed!apiVars, apiVars
<1>6. TypeOK'  BY DeposedStepInv DEF FInv
<1>7. ApiTypeOK /\ TypeOK /\ Copies /\ SeenOnce /\ PassLatest /\ CInv
  BY DEF LatestInv, CInv, TypeOK
<1>8. SeenOnce' /\ CachesAdvance /\ VersionsKept
  BY <1>5, <1>7, ApiStepSeen DEF ApiStep
<1>9. Copies' /\ DepCopy' /\ PageCopy'
  BY <1>2, <1>5, <1>7, <1>8, CommitCopies, AroundPass
<1>10. PassLatest'
  BY <1>2, <1>7, <1>8, PassLatestStep DEF PassMoves
<1> QED  BY <1>1, <1>6, <1>8, <1>9, <1>10 DEF LatestInv, CInv, DeposedMoves

LEMMA HandoverStep ==
  ASSUME HandoverInv, [FailoverNext]_failoverVars
  PROVE  HandoverInv'
<1>1. FInv /\ LatestInv /\ CInv /\ TypeOK /\ ApiTypeOK /\ FInv'
  BY FailoverStepInv DEF HandoverInv, LatestInv, CInv, TypeOK
<1>2. CASE UNCHANGED failoverVars \/ LeaderStep
  <2>1. [Next]_vars /\ UNCHANGED old  BY <1>2 DEF failoverVars, LeaderStep
  <2>2. LatestInv'  BY <1>1, <2>1, LatestStep
  <2>3. VersionsKept  BY <1>1, <2>1, StepShape, ApiStepSeen DEF LatestInv, CInv
  <2>4. DeposedFaithful' /\ DeposedLatest'
    BY <1>1, <2>1, <2>3, DeposedLatestKept DEF HandoverInv, DeposedPassMoves, old
  <2> QED  BY <1>1, <2>2, <2>4 DEF HandoverInv
<1>3. CASE DeposedStep
  BY <1>1, <1>3, LeaderLatest, DeposedStepMoves, DeposedLatestKept DEF HandoverInv, FInv
<1>4. CASE TakeOver
  <2>1. /\ StartController /\ UNCHANGED <<store, rev>> /\ worker' = Idle
        /\ oldCache' = cache /\ oldWorker' = worker
    BY <1>4 DEF TakeOver, StartController
  <2>2. SeenOnce' /\ VersionsKept
    BY <1>1, <2>1, ApiStepSeen DEF ApiStep, LatestInv, CInv
  <2>3. Copies'  BY <1>1, <2>1, StartCopies DEF CInv
  <2>4. DepCopy' /\ PageCopy' /\ PassLatest'
    BY <2>1 DEF Idle, DepCopy, PageCopy, PassLatest, PassSteps
  <2>5. LatestInv'  BY <1>1, <2>2, <2>3, <2>4 DEF LatestInv, CInv, FInv
  <2>6. DeposedFaithful'  BY <1>1, <2>1 DEF CInv, Copies, DeposedFaithful
  <2>7. DeposedLatest'  BY <1>1, <2>1 DEF LatestInv, PassLatest, DeposedLatest
  <2> QED  BY <1>1, <2>5, <2>6, <2>7 DEF HandoverInv
<1>5. CASE Exit
  <2>1. LatestInv'  BY <1>1, <1>5, LatestStep DEF Exit
  <2>2. DeposedFaithful'
    BY <1>5 DEF Exit, NoObjects, DeposedFaithful, Faithful
  <2>3. oldWorker' = Idle  BY <1>5, DeposedNames DEF Exit
  <2>4. DeposedLatest'  BY <2>3 DEF Idle, DeposedLatest, PassSteps
  <2> QED  BY <1>1, <2>1, <2>2, <2>4 DEF HandoverInv
<1> QED  BY <1>2, <1>3, <1>4, <1>5 DEF FailoverNext

\* A step of a deposed pass that overwrites something sends what it read.
LEMMA OverwritesWhatItSaw ==
  ASSUME HandoverInv, Deposed!Continue, NEW k \in Kinds, NEW n \in Names,
         store[k][n] # None, store'[k][n] \notin {None, store[k][n]}
  PROVE  store[k][n] = oldCache[k][n]
<1>1. FInv /\ DeposedOK /\ ApiTypeOK /\ DeposedLatest
  BY DEF HandoverInv, FInv, TypeOK
<1>2. ASSUME NEW accepted, NEW k2 \in Kinds, NEW obj, NEW pc,
             Deposed!Write(accepted, k2, obj, pc), oldWorker.name \in Names
      PROVE  accepted /\ k2 = k /\ n = oldWorker.name
  <2>1. accepted /\ Deposed!Commit(k2, oldWorker.name, obj)
    BY <1>2 DEF Deposed!Write, Deposed!apiVars
  <2>2. store' = [store EXCEPT ![k2][oldWorker.name] = Deposed!Stamped(k2, oldWorker.name, obj)]
    BY <2>1 DEF Deposed!Commit, Deposed!apiVars
  <2> QED  BY <1>1, <1>2, <2>1, <2>2 DEF ApiTypeOK
<1>3. CASE Deposed!GetConfigMap \/ Deposed!GetDeployment \/ Deposed!CheckDeployment
  BY <1>3 DEF Deposed!GetConfigMap, Deposed!GetDeployment, Deposed!CheckDeployment,
              Deposed!apiVars
<1>4. ASSUME NEW k2 \in Kinds, NEW pc, Deposed!DeleteIgnoringErrors(k2, pc),
             oldWorker.name \in Names
      PROVE  FALSE
  <2>1. Deposed!Commit(k2, oldWorker.name, None)
    BY <1>4 DEF Deposed!DeleteIgnoringErrors, Deposed!apiVars
  <2>2. Deposed!Stamped(k2, oldWorker.name, None) = None
    BY DEF Deposed!Stamped
  <2>3. store' = [store EXCEPT ![k2][oldWorker.name] = None]
    BY <2>1, <2>2 DEF Deposed!Commit, Deposed!apiVars
  <2> QED  BY <1>1, <1>4, <2>3 DEF ApiTypeOK
<1>5. oldWorker.pc # "idle" => oldWorker.name \in Names
  BY <1>1, DeposedNames DEF DeposedOK, Deposed!WorkerTypeOK
<1>6. CASE Deposed!DeleteConfigMap \/ Deposed!DeleteDeployment
  BY <1>4, <1>5, <1>6 DEF Deposed!DeleteConfigMap, Deposed!DeleteDeployment, Kinds
<1>7. CASE Deposed!CreateConfigMap
  BY <1>2, <1>5, <1>7 DEF Deposed!CreateConfigMap, Kinds
<1>8. CASE Deposed!CreateDeployment
  BY <1>2, <1>5, <1>8 DEF Deposed!CreateDeployment, Kinds
<1>9. CASE Deposed!UpdateConfigMap
  <2>1. k = "cm" /\ n = oldWorker.name /\ Deposed!Current("cm", n, oldWorker.obj)
    BY <1>2, <1>5, <1>9 DEF Deposed!UpdateConfigMap, Kinds
  <2> QED  BY <1>1, <1>9, <2>1
           DEF Deposed!UpdateConfigMap, Deposed!Current, DeposedLatest, Latest
<1>10. CASE Deposed!UpdateDeployment
  <2>1. k = "dep" /\ n = oldWorker.name /\ Deposed!Current("dep", n, oldWorker.obj)
    BY <1>2, <1>5, <1>10 DEF Deposed!UpdateDeployment, Kinds
  <2> QED  BY <1>1, <1>10, <2>1
           DEF Deposed!UpdateDeployment, Deposed!Current, DeposedLatest, Latest
<1>11. CASE Deposed!SetStatus
  <2>1. k = "proxy" /\ n = oldWorker.name /\ Deposed!Current("proxy", n, oldWorker.page)
    BY <1>2, <1>5, <1>11 DEF Deposed!SetStatus, Kinds
  <2> QED  BY <1>1, <1>11, <2>1
           DEF Deposed!SetStatus, Deposed!Current, DeposedLatest, Latest, PassSteps
<1> QED  BY <1>3, <1>6, <1>7, <1>8, <1>9, <1>10, <1>11 DEF Deposed!Continue

(***************************************************************************)
(* Whatever a process without the lease overwrites is what its caches      *)
(* showed when it lost it (server.go, lines 120-152): a write of the new   *)
(* leader, or of anybody else, since then makes the update a conflict.     *)
(* With any number of handovers and late passes, faults and restarts, and  *)
(* with foreign Deployments.                                               *)
(***************************************************************************)
THEOREM DeposedIsHarmless == FailoverSpec => DeposedOverwritesWhatItSaw
<1>1. FailoverInit => HandoverInv
  <2> SUFFICES ASSUME FailoverInit PROVE HandoverInv
    OBVIOUS
  <2>1. FInv  BY FailoverInitInv
  <2>2. LatestInv  BY LatestInit DEF FailoverInit
  <2>3. DeposedFaithful  BY DEF FailoverInit, NoObjects, DeposedFaithful, Faithful
  <2>4. oldWorker = Idle  BY DEF FailoverInit, Exited
  <2>5. DeposedLatest  BY <2>4 DEF Idle, DeposedLatest, PassSteps
  <2> QED  BY <2>1, <2>2, <2>3, <2>5 DEF HandoverInv
<1>2. HandoverInv /\ [FailoverNext]_failoverVars => HandoverInv'
  BY HandoverStep
<1>3. HandoverInv /\ [FailoverNext]_failoverVars
        => [Deposed!Continue =>
              \A k \in Kinds, n \in Names :
                store[k][n] # None /\ store'[k][n] \notin {None, store[k][n]}
                  => store[k][n] = oldCache[k][n]]_failoverVars
  BY OverwritesWhatItSaw
<1> QED  BY <1>1, <1>2, <1>3, PTL DEF FailoverSpec, DeposedOverwritesWhatItSaw
=============================================================================
