------------------------- MODULE ProxyCopiesProofs -------------------------
(***************************************************************************)
(* What the controller sends to the server is computed from copies that    *)
(* may be old.  A copy with the server's resourceVersion is the server's   *)
(* object, so an accepted update leaves alone what the controller does not *)
(* manage, whoever else writes, with or without foreign Deployments.       *)
(* What it overwrites is also what its cache still shows (LatestInv), for  *)
(* the sake of FailoverProofs, where that cache is frozen.                 *)
(***************************************************************************)
EXTENDS ProxyTypeProofs

\* A copy of an object whose slot now holds obj and was written version times.
Faithful(copy, obj, version) ==
  copy # None =>
    /\ copy.rv <= version
    /\ obj # None /\ obj.rv = copy.rv => obj = copy

\* In the store, in the caches and on the way to them.
Copies ==
  \A k \in Kinds, n \in Names :
    /\ Faithful(store[k][n], store[k][n], rev[k][n])
    /\ Faithful(cache[k][n], store[k][n], rev[k][n])
    /\ \A i \in 1 .. Len(watch[k][n]) : Faithful(watch[k][n][i], store[k][n], rev[k][n])

SameUnmanaged(dep1, dep2) ==
  /\ dep1.resources = dep2.resources
  /\ dep1.owner = dep2.owner
  /\ dep1.available = dep2.available

SameProxy(page1, page2) == page1.spec = page2.spec /\ page1.uid = page2.uid

\* The Deployment about to be sent is a cached one but for the managed fields.
DepCopy ==
  worker.pc = "updateDep" =>
    LET dep == store["dep"][worker.name]
    IN /\ worker.obj.rv <= rev["dep"][worker.name]
       /\ dep # None /\ dep.rv = worker.obj.rv => SameUnmanaged(worker.obj, dep)

\* The page of a pass is a cached proxy but for the status.
PageCopy ==
  worker.pc \in PassSteps =>
    LET proxy == store["proxy"][worker.name]
    IN /\ worker.page.rv <= rev["proxy"][worker.name]
       /\ proxy # None /\ proxy.rv = worker.page.rv => SameProxy(worker.page, proxy)

CInv == TypeOK /\ Copies /\ DepCopy /\ PageCopy

-----------------------------------------------------------------------------
(* Versions. *)

\* Objects are typed, and have a version, wherever they are.
LEMMA SlotTypes ==
  ASSUME ApiTypeOK, NEW k \in Kinds, NEW n \in Names
  PROVE  /\ rev[k][n] \in Nat
         /\ store[k][n] \in Objects(k) \cup {None}
         /\ cache[k][n] \in Objects(k) \cup {None}
         /\ watch[k][n] \in Seq(Objects(k) \cup {None})
         /\ store[k][n] # None => store[k][n].rv \in Nat
<1>1. rev \in [Kinds -> [Names -> Nat]]  BY DEF ApiTypeOK
<1>2. /\ store[k] \in [Names -> Objects(k) \cup {None}]
      /\ cache[k] \in [Names -> Objects(k) \cup {None}]
      /\ watch[k] \in [Names -> Seq(Objects(k) \cup {None})]
  BY DEF ApiTypeOK
<1>3. \A obj \in Objects(k) : obj.rv \in Nat
  BY DEF Kinds, Objects, Proxy, ConfigMap, Deployment
<1> QED  BY <1>1, <1>2, <1>3

\* Any object that is not absent has a version.
LEMMA ObjectVersion ==
  ASSUME NEW k \in Kinds, NEW obj \in Objects(k) \cup {None}, obj # None
  PROVE  obj.rv \in Nat
BY DEF Kinds, Objects, Proxy, ConfigMap, Deployment

\* What a step does to the versions: those a slot has had are not given to
\* another object.
VersionsKept ==
  \A k \in Kinds, n \in Names :
    /\ rev[k][n] <= rev'[k][n] /\ rev'[k][n] \in Nat
    /\ \/ store'[k][n] = store[k][n]
       \/ store'[k][n] = None
       \/ store'[k][n].rv \in Nat /\ rev[k][n] < store'[k][n].rv

LEMMA Unwritten ==
  ASSUME ApiTypeOK, UNCHANGED <<store, rev>>
  PROVE  VersionsKept
<1>1. \A k \in Kinds, n \in Names : rev[k][n] \in Nat  BY SlotTypes
<1> QED  BY <1>1 DEF VersionsKept

LEMMA CommitVersions ==
  ASSUME ApiTypeOK, NEW k \in Kinds, NEW n \in Names,
         NEW obj \in Objects(k) \cup {None}, Commit(k, n, obj)
  PROVE  /\ VersionsKept
         /\ store'[k][n] # None /\ store'[k][n] # store[k][n]
              => store'[k][n].rv = rev'[k][n]
<1>1. rev[k][n] \in Nat  BY SlotTypes
<1>2. CASE obj = store[k][n]
  <2>1. UNCHANGED <<store, rev>>  BY <1>2 DEF Commit, apiVars
  <2> QED  BY <2>1, Unwritten
<1>3. CASE obj # store[k][n]
  <2>1. rev'[k][n] = rev[k][n] + 1 /\ store'[k][n] = Stamped(k, n, obj)
    BY <1>3, CommitVersion, CommitEffect
  <2>2. store'[k][n] = None \/ store'[k][n].rv = rev[k][n] + 1
    <3>1. CASE obj = None  BY <2>1, <3>1 DEF Stamped
    <3>2. CASE obj # None
      BY <2>1, <3>2 DEF Stamped, Kinds, Objects, Proxy, ConfigMap, Deployment
    <3> QED  BY <3>1, <3>2
  <2>3. ASSUME NEW k2 \in Kinds, NEW n2 \in Names, k2 # k \/ n2 # n
        PROVE  rev'[k2][n2] = rev[k2][n2] /\ store'[k2][n2] = store[k2][n2]
                 /\ rev[k2][n2] \in Nat
    <3>1. rev'[k2][n2] = rev[k2][n2]  BY <2>3, CommitVersion
    <3>2. store'[k2][n2] = store[k2][n2]  BY <2>3, CommitEffect
    <3>3. rev[k2][n2] \in Nat  BY SlotTypes
    <3> QED  BY <3>1, <3>2, <3>3
  <2>4. VersionsKept  BY <1>1, <2>1, <2>2, <2>3 DEF VersionsKept
  <2> QED  BY <1>1, <2>1, <2>2, <2>4
<1> QED  BY <1>2, <1>3

\* A copy stays faithful through every step that keeps the versions.
LEMMA FaithfulKept ==
  ASSUME ApiTypeOK, VersionsKept, NEW k \in Kinds, NEW n \in Names,
         NEW copy \in Objects(k) \cup {None}, Faithful(copy, store[k][n], rev[k][n])
  PROVE  Faithful(copy, store'[k][n], rev'[k][n])
<1>1. rev[k][n] \in Nat  BY SlotTypes
<1>2. copy # None => copy.rv \in Nat  BY ObjectVersion
<1> QED  BY <1>1, <1>2 DEF Faithful, VersionsKept

-----------------------------------------------------------------------------
(* The copies in the store, the caches and the watches. *)

\* A write is its own faithful copy.
LEMMA CommitCopies ==
  ASSUME ApiTypeOK, Copies, NEW k \in Kinds, NEW n \in Names,
         NEW obj \in Objects(k) \cup {None}, Commit(k, n, obj)
  PROVE  Copies'
<1>1. VersionsKept  BY CommitVersions
<1>2. ApiTypeOK'  BY CommitType
<1>3. SUFFICES ASSUME NEW k2 \in Kinds, NEW n2 \in Names
               PROVE  /\ Faithful(store'[k2][n2], store'[k2][n2], rev'[k2][n2])
                      /\ Faithful(cache'[k2][n2], store'[k2][n2], rev'[k2][n2])
                      /\ \A i \in 1 .. Len(watch'[k2][n2]) :
                           Faithful(watch'[k2][n2][i], store'[k2][n2], rev'[k2][n2])
  BY DEF Copies
<1>4. /\ store[k2][n2] \in Objects(k2) \cup {None}
      /\ cache[k2][n2] \in Objects(k2) \cup {None}
      /\ watch[k2][n2] \in Seq(Objects(k2) \cup {None})
  BY SlotTypes
<1>5. \A copy \in Objects(k2) \cup {None} :
        Faithful(copy, store[k2][n2], rev[k2][n2])
          => Faithful(copy, store'[k2][n2], rev'[k2][n2])
  BY <1>1, FaithfulKept
<1>6. Faithful(store'[k2][n2], store'[k2][n2], rev'[k2][n2])
  <2>1. CASE store'[k2][n2] = store[k2][n2]
    <3>1. Faithful(store[k2][n2], store[k2][n2], rev[k2][n2])  BY DEF Copies
    <3>2. Faithful(store[k2][n2], store'[k2][n2], rev'[k2][n2])  BY <1>4, <1>5, <3>1
    <3> QED  BY <2>1, <3>2
  <2>2. CASE store'[k2][n2] # store[k2][n2]
    <3>1. k2 = k /\ n2 = n  BY <2>2, CommitEffect
    <3>2. store'[k2][n2] # None => store'[k2][n2].rv = rev'[k2][n2]
      BY <2>2, <3>1, CommitVersions
    <3>3. rev'[k2][n2] \in Nat  BY <1>1 DEF VersionsKept
    <3> QED  BY <3>2, <3>3 DEF Faithful
  <2> QED  BY <2>1, <2>2
<1>7. Faithful(cache'[k2][n2], store'[k2][n2], rev'[k2][n2])
  BY <1>4, <1>5, CommitEffect DEF Copies
<1>8. ASSUME NEW i \in 1 .. Len(watch'[k2][n2])
      PROVE  Faithful(watch'[k2][n2][i], store'[k2][n2], rev'[k2][n2])
  <2>1. CASE watch'[k2][n2] = watch[k2][n2]
    <3>1. i \in 1 .. Len(watch[k2][n2])  BY <2>1
    <3>2. watch[k2][n2][i] \in Objects(k2) \cup {None}  BY <1>4, <3>1
    <3>3. Faithful(watch[k2][n2][i], store[k2][n2], rev[k2][n2])  BY <3>1 DEF Copies
    <3> QED  BY <2>1, <1>5, <3>2, <3>3
  <2>2. CASE watch'[k2][n2] # watch[k2][n2]
    <3>1. k2 = k /\ n2 = n  BY <2>2, CommitEffect
    <3>2. store'[k2][n2] = Stamped(k, n, obj)
            /\ watch'[k2][n2] = Append(watch[k2][n2], Stamped(k, n, obj))
      BY <2>2, <3>1, CommitEffect
    <3>3. CASE i = Len(watch[k2][n2]) + 1
      BY <1>4, <1>6, <3>2, <3>3
    <3>4. CASE i \in 1 .. Len(watch[k2][n2])
      <4>1. watch'[k2][n2][i] = watch[k2][n2][i] /\ watch[k2][n2][i] \in Objects(k2) \cup {None}
        BY <1>4, <3>2, <3>4
      <4>2. Faithful(watch[k2][n2][i], store[k2][n2], rev[k2][n2])  BY <3>4 DEF Copies
      <4> QED  BY <1>5, <4>1, <4>2
    <3>5. i \in 1 .. Len(watch[k2][n2]) + 1  BY <1>4, <3>2
    <3>6. i = Len(watch[k2][n2]) + 1 \/ i \in 1 .. Len(watch[k2][n2])
      <4>1. Len(watch[k2][n2]) \in Nat  BY <1>4
      <4> QED  BY <3>5, <4>1
    <3> QED  BY <3>3, <3>4, <3>6
  <2> QED  BY <2>1, <2>2
<1> QED  BY <1>6, <1>7, <1>8

LEMMA DeliverEvent ==
  ASSUME ApiTypeOK, NEW k \in Kinds, NEW n \in Names, Deliver(k, n)
  PROVE  /\ cache'[k][n] = watch[k][n][1] /\ watch'[k][n] = Tail(watch[k][n])
         /\ \A k2 \in Kinds, n2 \in Names :
              k2 # k \/ n2 # n => cache'[k2][n2] = cache[k2][n2] /\ watch'[k2][n2] = watch[k2][n2]
<1>1. DOMAIN cache = Kinds /\ DOMAIN watch = Kinds  BY DEF ApiTypeOK
<1>2. \A x \in Kinds : DOMAIN cache[x] = Names /\ DOMAIN watch[x] = Names
  BY DEF ApiTypeOK
<1>3. watch[k][n] \in Seq(Objects(k) \cup {None}) /\ watch[k][n] # <<>>
  BY SlotTypes DEF Deliver
<1>4. Head(watch[k][n]) = watch[k][n][1]  BY <1>3
<1> QED  BY <1>1, <1>2, <1>4 DEF Deliver

\* An event on its way to the cache arrives there.
LEMMA DeliverCopies ==
  ASSUME ApiTypeOK, Copies, NEW k \in Kinds, NEW n \in Names, Deliver(k, n)
  PROVE  Copies'
<1>1. UNCHANGED <<store, rev>>  BY DEF Deliver
<1>2. watch[k][n] \in Seq(Objects(k) \cup {None}) /\ watch[k][n] # <<>>
  BY SlotTypes DEF Deliver
<1>3. /\ cache'[k][n] = watch[k][n][1] /\ watch'[k][n] = Tail(watch[k][n])
      /\ \A k2 \in Kinds, n2 \in Names :
           k2 # k \/ n2 # n => cache'[k2][n2] = cache[k2][n2] /\ watch'[k2][n2] = watch[k2][n2]
  BY DeliverEvent
<1>4. SUFFICES ASSUME NEW k2 \in Kinds, NEW n2 \in Names
               PROVE  /\ Faithful(store[k2][n2], store[k2][n2], rev[k2][n2])
                      /\ Faithful(cache'[k2][n2], store[k2][n2], rev[k2][n2])
                      /\ \A i \in 1 .. Len(watch'[k2][n2]) :
                           Faithful(watch'[k2][n2][i], store[k2][n2], rev[k2][n2])
  BY <1>1 DEF Copies
<1>5. CASE k2 # k \/ n2 # n
  BY <1>3, <1>5 DEF Copies
<1>6. CASE k2 = k /\ n2 = n
  <2>1. Len(watch[k][n]) \in Nat /\ 1 \in 1 .. Len(watch[k][n])  BY <1>2
  <2>2. \A i \in 1 .. Len(watch'[k][n]) :
          i + 1 \in 1 .. Len(watch[k][n]) /\ watch'[k][n][i] = watch[k][n][i + 1]
    BY <1>2, <1>3
  <2>3. \A i \in 1 .. Len(watch[k][n]) : Faithful(watch[k][n][i], store[k][n], rev[k][n])
    BY DEF Copies
  <2>4. Faithful(store[k][n], store[k][n], rev[k][n])  BY DEF Copies
  <2> QED  BY <1>3, <1>6, <2>1, <2>2, <2>3, <2>4
<1> QED  BY <1>5, <1>6

\* A List brings the store itself.
LEMMA RelistCopies ==
  ASSUME ApiTypeOK, Copies, NEW k \in Kinds, Relist(k)
  PROVE  Copies'
<1>1. UNCHANGED <<store, rev>>  BY DEF Relist
<1>2. /\ \A n \in Names : cache'[k][n] = store[k][n] /\ watch'[k][n] = <<>>
      /\ \A k2 \in Kinds : k2 # k => cache'[k2] = cache[k2] /\ watch'[k2] = watch[k2]
  BY DEF Relist, ApiTypeOK
<1>3. ASSUME NEW k2 \in Kinds, NEW n2 \in Names
      PROVE  /\ Faithful(cache'[k2][n2], store[k2][n2], rev[k2][n2])
             /\ \A i \in 1 .. Len(watch'[k2][n2]) :
                  Faithful(watch'[k2][n2][i], store[k2][n2], rev[k2][n2])
  BY <1>2 DEF Copies
<1> QED  BY <1>1, <1>3 DEF Copies

\* So does the start of a new process.
LEMMA StartCopies ==
  ASSUME ApiTypeOK, Copies, StartController
  PROVE  Copies'
<1>1. UNCHANGED <<store, rev>> /\ cache' = store  BY DEF StartController
<1>2. \A k \in Kinds, n \in Names : watch'[k][n] = <<>>  BY DEF StartController
<1> QED  BY <1>1, <1>2 DEF Copies

-----------------------------------------------------------------------------
(* The copies a pass holds. *)

\* Whatever happens around it, an unchanged pass holds faithful copies.
LEMMA PassKept ==
  ASSUME CInv, VersionsKept
  PROVE  /\ worker.pc \in PassSteps =>
              LET proxy == store'["proxy"][worker.name]
              IN /\ worker.page.rv <= rev'["proxy"][worker.name]
                 /\ proxy # None /\ proxy.rv = worker.page.rv
                      => SameProxy(worker.page, proxy)
         /\ worker.pc = "updateDep" =>
              LET dep == store'["dep"][worker.name]
              IN /\ worker.obj.rv <= rev'["dep"][worker.name]
                 /\ dep # None /\ dep.rv = worker.obj.rv
                      => SameUnmanaged(worker.obj, dep)
<1>1. ASSUME worker.pc \in PassSteps
      PROVE  LET proxy == store'["proxy"][worker.name]
             IN /\ worker.page.rv <= rev'["proxy"][worker.name]
                /\ proxy # None /\ proxy.rv = worker.page.rv
                     => SameProxy(worker.page, proxy)
  <2>1. worker.name \in Names /\ worker.page \in Proxy /\ "proxy" \in Kinds
    BY <1>1 DEF CInv, TypeOK, WorkerTypeOK, PassSteps, Kinds
  <2>2. worker.page.rv \in Nat /\ rev["proxy"][worker.name] \in Nat
    BY <2>1, SlotTypes DEF Proxy, CInv, TypeOK
  <2> QED  BY <1>1, <2>1, <2>2 DEF CInv, PageCopy, VersionsKept
<1>2. ASSUME worker.pc = "updateDep"
      PROVE  LET dep == store'["dep"][worker.name]
             IN /\ worker.obj.rv <= rev'["dep"][worker.name]
                /\ dep # None /\ dep.rv = worker.obj.rv
                     => SameUnmanaged(worker.obj, dep)
  <2>1. worker.name \in Names /\ worker.obj \in Deployment /\ "dep" \in Kinds
    BY <1>2 DEF CInv, TypeOK, WorkerTypeOK, Kinds
  <2>2. worker.obj.rv \in Nat /\ rev["dep"][worker.name] \in Nat
    BY <2>1, SlotTypes DEF Deployment, CInv, TypeOK
  <2> QED  BY <1>2, <2>1, <2>2 DEF CInv, DepCopy, VersionsKept
<1> QED  BY <1>1, <1>2

\* A step of somebody else.
LEMMA AroundPass ==
  ASSUME CInv, VersionsKept, UNCHANGED worker
  PROVE  DepCopy' /\ PageCopy'
BY PassKept DEF DepCopy, PageCopy

\* A step of the pass that goes on with the same page, or ends it.
LEMMA PassGoesOn ==
  ASSUME CInv, VersionsKept,
         \/ worker' = Idle
         \/ /\ worker'.name = worker.name
            /\ worker'.page.rv = worker.page.rv
            /\ SameProxy(worker'.page, worker.page)
            /\ worker'.pc # "updateDep"
            /\ worker'.pc \in PassSteps => worker.pc \in PassSteps
  PROVE  DepCopy' /\ PageCopy'
<1>1. CASE worker' = Idle
  BY <1>1 DEF DepCopy, PageCopy, Idle, PassSteps
<1>2. CASE worker' # Idle
  BY <1>2, PassKept DEF DepCopy, PageCopy, SameProxy
<1> QED  BY <1>1, <1>2

\* Goto changes neither the name nor the page.
LEMMA GotoKeeps ==
  ASSUME TypeOK, NEW pc, NEW obj, Goto(pc, obj), pc # "idle"
  PROVE  /\ worker'.pc = pc /\ worker'.obj = obj
         /\ worker'.name = worker.name /\ worker'.page = worker.page
<1>1. worker \in Worker  BY DEF TypeOK, WorkerTypeOK
<1> QED  BY <1>1 DEF Goto, Worker

\* An accepted, refused or failed write of a pass.
LEMMA WriteCopies ==
  ASSUME CInv, worker.pc \in PassSteps, NEW accepted, NEW k \in Kinds,
         NEW obj \in Objects(k) \cup {None},
         NEW pc \in {"getDep", "checkDep", "idle"},
         Write(accepted, k, obj, pc)
  PROVE  Copies' /\ DepCopy' /\ PageCopy'
<1>1. TypeOK /\ ApiTypeOK /\ Copies /\ worker.name \in Names
  BY DEF CInv, TypeOK, WorkerTypeOK, PassSteps
<1>2. Copies' /\ VersionsKept
  <2>1. CASE Commit(k, worker.name, obj)
    BY <1>1, <2>1, CommitCopies, CommitVersions
  <2>2. CASE UNCHANGED apiVars
    BY <1>1, <2>2, Unwritten DEF Copies, apiVars
  <2> QED  BY <2>1, <2>2 DEF Write
<1>3. CASE Goto(pc, None)
  <2>1. CASE pc = "idle"  BY <1>2, <1>3, <2>1, PassGoesOn DEF Goto
  <2>2. CASE pc # "idle"
    <3>1. worker'.pc = pc /\ worker'.name = worker.name /\ worker'.page = worker.page
      BY <1>1, <1>3, <2>2, GotoKeeps
    <3> QED  BY <1>2, <3>1, PassGoesOn DEF SameProxy
  <2> QED  BY <1>2, <2>1, <2>2
<1>4. CASE Retry
  BY <1>2, <1>4, PassGoesOn DEF Retry
<1> QED  BY <1>3, <1>4 DEF Write

\* A Delete of the cleanup, whose error is ignored.
LEMMA DeleteCopies ==
  ASSUME CInv, worker.pc \in CleanupSteps, NEW k \in Kinds,
         NEW pc \in {"deleteDep", "idle"}, DeleteIgnoringErrors(k, pc)
  PROVE  Copies' /\ DepCopy' /\ PageCopy'
<1>1. TypeOK /\ ApiTypeOK /\ Copies /\ worker.name \in Names
  BY DEF CInv, TypeOK, WorkerTypeOK, CleanupSteps
<1>2. Copies' /\ VersionsKept
  <2>1. CASE Commit(k, worker.name, None)
    BY <1>1, <2>1, CommitCopies, CommitVersions
  <2>2. CASE UNCHANGED apiVars
    BY <1>1, <2>2, Unwritten DEF Copies, apiVars
  <2> QED  BY <2>1, <2>2 DEF DeleteIgnoringErrors
<1>3. CASE pc = "idle"
  BY <1>2, <1>3, PassGoesOn DEF DeleteIgnoringErrors, Goto
<1>4. CASE pc = "deleteDep"
  <2>1. worker'.pc = "deleteDep"  BY <1>1, <1>4, GotoKeeps DEF DeleteIgnoringErrors
  <2> QED  BY <1>2, <2>1 DEF DepCopy, PageCopy, PassSteps
<1> QED  BY <1>3, <1>4

\* The pass begins with what the cache holds.
LEMMA BeginCopies ==
  ASSUME CInv, NEW n \in Names, BeginReconcile(n)
  PROVE  Copies' /\ DepCopy' /\ PageCopy'
<1>1. ApiTypeOK /\ Copies /\ "proxy" \in Kinds  BY DEF CInv, TypeOK, Kinds
<1>2. UNCHANGED <<store, rev, watch, cache>>  BY DEF BeginReconcile, apiVars
<1>3. Copies' /\ VersionsKept  BY <1>1, <1>2, Unwritten DEF Copies
<1>4. CASE worker'.pc = "deleteCM"
  BY <1>3, <1>4 DEF DepCopy, PageCopy, PassSteps
<1>5. CASE UNCHANGED worker
  BY <1>3, <1>5, AroundPass
<1>6. CASE /\ cache["proxy"][n] # None
           /\ worker' = [Idle EXCEPT !.pc = "getCM", !.name = n,
                                     !.page = cache["proxy"][n]]
  <2>1. worker'.pc = "getCM" /\ worker'.name = n /\ worker'.page = cache["proxy"][n]
    BY <1>6 DEF Idle
  <2>2. Faithful(cache["proxy"][n], store["proxy"][n], rev["proxy"][n])
    BY <1>1 DEF Copies
  <2> QED  BY <1>2, <1>3, <1>6, <2>1, <2>2 DEF DepCopy, PageCopy, Faithful, SameProxy
<1>7. worker'.pc = "deleteCM" \/ UNCHANGED worker
        \/ /\ cache["proxy"][n] # None
           /\ worker' = [Idle EXCEPT !.pc = "getCM", !.name = n,
                                     !.page = cache["proxy"][n]]
  BY DEF BeginReconcile, Idle
<1> QED  BY <1>3, <1>4, <1>5, <1>6, <1>7

\* A step of a pass that writes nothing.
LEMMA ReadCopies ==
  ASSUME CInv, GetConfigMap \/ GetDeployment \/ CheckDeployment
  PROVE  Copies' /\ DepCopy' /\ PageCopy'
<1>1. /\ TypeOK /\ ApiTypeOK /\ Copies /\ worker \in Worker
      /\ worker.pc \in PassSteps /\ worker.name \in Names /\ "dep" \in Kinds
  BY DEF CInv, TypeOK, WorkerTypeOK, PassSteps, Kinds, GetConfigMap, GetDeployment,
         CheckDeployment
<1>2. UNCHANGED <<store, rev, watch, cache>>
  BY DEF GetConfigMap, GetDeployment, CheckDeployment, apiVars
<1>3. Copies' /\ VersionsKept  BY <1>1, <1>2, Unwritten DEF Copies
<1>4. ASSUME NEW pc \in PassSteps \ {"updateDep"}, NEW obj, Goto(pc, obj)
      PROVE  DepCopy' /\ PageCopy'
  <2>1. pc # "idle"  BY DEF PassSteps
  <2>2. worker'.pc = pc /\ worker'.name = worker.name /\ worker'.page = worker.page
    BY <1>1, <1>4, <2>1, GotoKeeps
  <2> QED  BY <1>1, <1>3, <2>2, PassGoesOn DEF SameProxy
<1>5. CASE GetConfigMap
  BY <1>3, <1>4, <1>5 DEF GetConfigMap, PassSteps
<1>6. CASE GetDeployment
  <2> DEFINE dep == BuildDeployment(worker.page)
             existing == cache["dep"][worker.name]
             update == [existing EXCEPT !.replicas = dep.replicas, !.image = dep.image]
  <2>1. CASE Retry
    BY <1>3, <2>1, PassGoesOn DEF Retry
  <2>2. CASE Goto("createDep", dep) \/ Goto("checkDep", None)
    BY <1>3, <1>4, <2>2 DEF PassSteps
  <2>3. CASE existing # None /\ Goto("updateDep", update)
    <3>1. /\ worker'.pc = "updateDep" /\ worker'.obj = update
          /\ worker'.name = worker.name /\ worker'.page = worker.page
      BY <1>1, <2>3, GotoKeeps
    <3>2. existing \in Deployment
      <4>1. existing \in Objects("dep") \cup {None}  BY <1>1, SlotTypes
      <4> QED  BY <2>3, <4>1 DEF Objects
    <3>3. update.rv = existing.rv /\ SameUnmanaged(update, existing)
      BY <3>2 DEF Deployment, SameUnmanaged
    <3>4. Faithful(existing, store["dep"][worker.name], rev["dep"][worker.name])
      BY <1>1 DEF Copies
    <3> HIDE DEF existing, update
    <3>5. DepCopy'
      BY <1>2, <2>3, <3>1, <3>3, <3>4 DEF DepCopy, Faithful
    <3>6. PageCopy'
      BY <1>1, <1>3, <3>1, PassKept DEF PageCopy
    <3> QED  BY <1>3, <3>5, <3>6
  <2> QED  BY <1>6, <2>1, <2>2, <2>3 DEF GetDeployment
<1>7. CASE CheckDeployment
  <2>1. worker.page \in Proxy  BY <1>1 DEF TypeOK, WorkerTypeOK
  <2>2. /\ worker'.pc = "setStatus" /\ worker'.name = worker.name
        /\ worker'.page.rv = worker.page.rv /\ SameProxy(worker'.page, worker.page)
    BY <1>1, <1>7, <2>1 DEF CheckDeployment, Worker, Proxy, SameProxy
  <2> QED  BY <1>1, <1>3, <2>2, PassGoesOn
<1> QED  BY <1>3, <1>5, <1>6, <1>7

\* Every step of a pass.
LEMMA ContinueCopies ==
  ASSUME CInv, Continue
  PROVE  Copies' /\ DepCopy' /\ PageCopy'
<1>1. TypeOK /\ WorkerTypeOK  BY DEF CInv, TypeOK
<1>2. CASE DeleteConfigMap \/ DeleteDeployment
  BY <1>2, DeleteCopies DEF DeleteConfigMap, DeleteDeployment, CleanupSteps, Kinds
<1>3. CASE GetConfigMap \/ GetDeployment \/ CheckDeployment
  BY <1>3, ReadCopies
<1>4. CASE CreateConfigMap \/ UpdateConfigMap
  <2>1. worker.obj \in ConfigMap /\ worker.pc \in PassSteps
    BY <1>1, <1>4 DEF CreateConfigMap, UpdateConfigMap, WorkerTypeOK, PassSteps
  <2> QED  BY <1>4, <2>1, WriteCopies DEF CreateConfigMap, UpdateConfigMap, Kinds, Objects
<1>5. CASE CreateDeployment \/ UpdateDeployment
  <2>1. worker.obj \in Deployment /\ worker.pc \in PassSteps
    BY <1>1, <1>5 DEF CreateDeployment, UpdateDeployment, WorkerTypeOK, PassSteps
  <2> QED  BY <1>5, <2>1, WriteCopies DEF CreateDeployment, UpdateDeployment, Kinds, Objects
<1>6. CASE SetStatus
  <2>1. worker.page \in Proxy /\ worker.pc \in PassSteps
    BY <1>1, <1>6 DEF SetStatus, WorkerTypeOK, PassSteps
  <2> QED  BY <1>6, <2>1, WriteCopies DEF SetStatus, Kinds, Objects
<1> QED  BY <1>2, <1>3, <1>4, <1>5, <1>6 DEF Continue

\* Every step around the passes.
LEMMA EnvironmentCopies ==
  ASSUME CInv, Environment
  PROVE  Copies' /\ DepCopy' /\ PageCopy'
<1>1. TypeOK /\ ApiTypeOK /\ Copies  BY DEF CInv, TypeOK
<1>2. ASSUME NEW k \in Kinds, Relist(k)
      PROVE  Copies' /\ DepCopy' /\ PageCopy'
  <2>1. UNCHANGED <<store, rev>> /\ UNCHANGED worker  BY <1>2 DEF Relist
  <2> QED  BY <1>1, <1>2, <2>1, RelistCopies, Unwritten, AroundPass
<1>3. ASSUME Restart
      PROVE  Copies' /\ DepCopy' /\ PageCopy'
  <2>1. UNCHANGED <<store, rev>> /\ worker' = Idle  BY <1>3 DEF Restart, StartController
  <2> QED  BY <1>1, <1>3, <2>1, StartCopies, Unwritten, PassGoesOn DEF Restart
<1>4. ASSUME NEW n \in Names, BackoffExpires(n) \/ Resync(n)
      PROVE  Copies' /\ DepCopy' /\ PageCopy'
  <2>1. UNCHANGED <<store, rev>> /\ UNCHANGED <<watch, cache>> /\ UNCHANGED worker
    BY <1>4 DEF BackoffExpires, Resync, apiVars
  <2>2. Copies'  BY <1>1, <2>1 DEF Copies
  <2> QED  BY <1>1, <2>1, <2>2, Unwritten, AroundPass
<1>5. ASSUME NEW k \in Kinds, NEW n \in Names, Deliver(k, n)
      PROVE  Copies' /\ DepCopy' /\ PageCopy'
  <2>1. UNCHANGED <<store, rev>> /\ UNCHANGED worker  BY <1>5 DEF Deliver
  <2> QED  BY <1>1, <1>5, <2>1, DeliverCopies, Unwritten, AroundPass
<1>6. ASSUME NEW n \in Names, OtherWriter(n)
      PROVE  Copies' /\ DepCopy' /\ PageCopy'
  <2>1. PICK k \in Kinds : \E obj \in Objects(k) \cup {None} : External(k, n, obj)
    BY <1>1, <1>6, OtherWrites
  <2>2. PICK obj \in Objects(k) \cup {None} : External(k, n, obj)  BY <2>1
  <2>3. Commit(k, n, obj) /\ UNCHANGED worker  BY <2>2 DEF External
  <2> QED  BY <1>1, <2>3, CommitCopies, CommitVersions, AroundPass
<1> QED  BY <1>2, <1>3, <1>4, <1>5, <1>6 DEF Environment

LEMMA CopiesInit ==
  ASSUME Init
  PROVE  CInv
<1>1. TypeOK  BY TypeInit
<1>2. Copies  BY DEF Init, ApiInit, Copies, Faithful
<1>3. DepCopy /\ PageCopy  BY DEF Init, Idle, DepCopy, PageCopy, PassSteps
<1> QED  BY <1>1, <1>2, <1>3 DEF CInv

LEMMA CopiesStep ==
  ASSUME CInv, [Next]_vars
  PROVE  CInv'
<1>1. TypeOK'  BY TypeStep DEF CInv
<1>2. CASE UNCHANGED vars
  BY <1>1, <1>2 DEF CInv, vars, Copies, DepCopy, PageCopy
<1>3. ASSUME NEW n \in Names, BeginReconcile(n)  PROVE CInv'
  BY <1>1, <1>3, BeginCopies DEF CInv
<1>4. CASE Continue
  BY <1>1, <1>4, ContinueCopies DEF CInv
<1>5. CASE Environment
  BY <1>1, <1>5, EnvironmentCopies DEF CInv
<1> QED  BY <1>2, <1>3, <1>4, <1>5 DEF Next, Reconcile

\* The invariant that the theorem rests on.
LEMMA CopiesInvariant == Spec => []CInv
<1> QED  BY CopiesInit, CopiesStep, PTL DEF Spec

-----------------------------------------------------------------------------
(* What a pass may overwrite is in the cache. *)

\* A cache that shows the server's object has nothing more to learn of it.
SeenOnce ==
  \A k \in Kinds, n \in Names :
    store[k][n] # None /\ watch[k][n] # <<>> =>
      /\ cache[k][n] # store[k][n]
      /\ \A i \in 1 .. Len(watch[k][n]) - 1 : watch[k][n][i] # store[k][n]

\* If obj, of a slot written version times, is what copy was read from, then
\* the cache still shows it.
Latest(copy, cached, obj, version) ==
  /\ copy.rv <= version
  /\ obj # None /\ obj.rv = copy.rv => cached = obj

\* The copies of a pass that Current will be asked about.
PassLatest ==
  LET n == worker.name
  IN /\ worker.pc \in PassSteps =>
          Latest(worker.page, cache["proxy"][n], store["proxy"][n], rev["proxy"][n])
     /\ worker.pc = "updateCM" =>
          Latest(worker.obj, cache["cm"][n], store["cm"][n], rev["cm"][n])
     /\ worker.pc = "updateDep" =>
          Latest(worker.obj, cache["dep"][n], store["dep"][n], rev["dep"][n])

LatestInv == CInv /\ SeenOnce /\ PassLatest

\* All that a step may do to server, watches and caches.
ApiStep ==
  \/ UNCHANGED apiVars
  \/ \E k \in Kinds, n \in Names : \E obj \in Objects(k) \cup {None} : Commit(k, n, obj)
  \/ \E k \in Kinds, n \in Names : Deliver(k, n)
  \/ \E k \in Kinds : Relist(k)
  \/ StartController

\* A cache moves on to what the server has, or to an event it waited for.
CachesAdvance ==
  \A k \in Kinds, n \in Names :
    \/ cache'[k][n] = cache[k][n]
    \/ cache'[k][n] = store'[k][n]
    \/ watch[k][n] # <<>> /\ store'[k][n] = store[k][n]

LEMMA StepShape ==
  ASSUME TypeOK, [Next]_vars
  PROVE  ApiStep
<1>1. CASE UNCHANGED vars
  BY <1>1 DEF vars, apiVars, ApiStep
<1>2. ASSUME NEW n \in Names, BeginReconcile(n) \/ BackoffExpires(n) \/ Resync(n)
      PROVE  ApiStep
  BY <1>2 DEF BeginReconcile, BackoffExpires, Resync, ApiStep
<1>3. CASE GetConfigMap \/ GetDeployment \/ CheckDeployment
  BY <1>3 DEF GetConfigMap, GetDeployment, CheckDeployment, ApiStep
<1>4. CASE DeleteConfigMap \/ DeleteDeployment
  <2>1. worker.name \in Names  BY <1>4 DEF TypeOK, WorkerTypeOK, DeleteConfigMap, DeleteDeployment
  <2>2. UNCHANGED apiVars \/ Commit("cm", worker.name, None) \/ Commit("dep", worker.name, None)
    BY <1>4 DEF DeleteConfigMap, DeleteDeployment, DeleteIgnoringErrors
  <2> QED  BY <2>1, <2>2 DEF ApiStep, Kinds
<1>5. CASE CreateConfigMap \/ UpdateConfigMap
  <2>1. worker.name \in Names /\ worker.obj \in Objects("cm")
    BY <1>5 DEF TypeOK, WorkerTypeOK, CreateConfigMap, UpdateConfigMap, Objects
  <2>2. UNCHANGED apiVars \/ Commit("cm", worker.name, worker.obj)
    BY <1>5 DEF CreateConfigMap, UpdateConfigMap, Write
  <2> QED  BY <2>1, <2>2 DEF ApiStep, Kinds
<1>6. CASE CreateDeployment \/ UpdateDeployment
  <2>1. worker.name \in Names /\ worker.obj \in Objects("dep")
    BY <1>6 DEF TypeOK, WorkerTypeOK, CreateDeployment, UpdateDeployment, Objects
  <2>2. UNCHANGED apiVars \/ Commit("dep", worker.name, worker.obj)
    BY <1>6 DEF CreateDeployment, UpdateDeployment, Write
  <2> QED  BY <2>1, <2>2 DEF ApiStep, Kinds
<1>7. CASE SetStatus
  <2>1. worker.name \in Names /\ worker.page \in Objects("proxy")
    BY <1>7 DEF TypeOK, WorkerTypeOK, SetStatus, Objects, PassSteps
  <2>2. UNCHANGED apiVars \/ Commit("proxy", worker.name, worker.page)
    BY <1>7 DEF SetStatus, Write
  <2> QED  BY <2>1, <2>2 DEF ApiStep, Kinds
<1>8. ASSUME NEW n \in Names, OtherWriter(n)
      PROVE  ApiStep
  BY <1>8, OtherWrites DEF External, ApiStep
<1>9. CASE Restart
  BY <1>9 DEF Restart, ApiStep
<1>10. ASSUME NEW k \in Kinds, Relist(k) \/ \E n \in Names : Deliver(k, n)
       PROVE  ApiStep
  BY <1>10 DEF ApiStep
<1> QED  BY <1>1, <1>2, <1>3, <1>4, <1>5, <1>6, <1>7, <1>8, <1>9, <1>10
         DEF Next, Reconcile, Continue, Environment

\* A commit is an event nobody has seen, and a List is all there is to see.
LEMMA ApiStepSeen ==
  ASSUME ApiTypeOK, Copies, SeenOnce, ApiStep
  PROVE  SeenOnce' /\ CachesAdvance /\ VersionsKept
<1>1. CASE UNCHANGED apiVars
  BY <1>1, Unwritten DEF apiVars, SeenOnce, CachesAdvance
<1>2. ASSUME NEW k \in Kinds, NEW n \in Names, NEW obj \in Objects(k) \cup {None},
             Commit(k, n, obj)
      PROVE  SeenOnce' /\ CachesAdvance /\ VersionsKept
  <2>1. VersionsKept /\ CachesAdvance
    BY <1>2, CommitVersions, CommitEffect DEF CachesAdvance
  <2>2. ASSUME NEW k2 \in Kinds, NEW n2 \in Names,
               store'[k2][n2] # None, watch'[k2][n2] # <<>>
        PROVE  /\ cache'[k2][n2] # store'[k2][n2]
               /\ \A i \in 1 .. Len(watch'[k2][n2]) - 1 : watch'[k2][n2][i] # store'[k2][n2]
    <3>1. CASE store'[k2][n2] = store[k2][n2] /\ watch'[k2][n2] = watch[k2][n2]
      BY <1>2, <2>2, <3>1, CommitEffect DEF SeenOnce
    <3>2. CASE ~(store'[k2][n2] = store[k2][n2] /\ watch'[k2][n2] = watch[k2][n2])
      <4>1. k2 = k /\ n2 = n /\ obj # store[k][n]  BY <1>2, <3>2, CommitEffect
      <4>2. /\ cache'[k][n] = cache[k][n]
            /\ watch'[k][n] = Append(watch[k][n], Stamped(k, n, obj))
        BY <1>2, <4>1, CommitEffect
      <4>3. store'[k][n] = Stamped(k, n, obj) /\ rev'[k][n] = rev[k][n] + 1 /\ rev[k][n] \in Nat
        <5>1. store'[k][n] = Stamped(k, n, obj)  BY <1>2, <4>1, CommitEffect
        <5>2. rev'[k][n] = rev[k][n] + 1  BY <1>2, <4>1, CommitVersion
        <5>3. rev[k][n] \in Nat  BY SlotTypes
        <5> QED  BY <5>1, <5>2, <5>3
      <4>4. store'[k][n] # None => store'[k][n].rv = rev[k][n] + 1
        <5>1. obj # None  BY <2>2, <4>1, <4>3 DEF Stamped
        <5> QED  BY <1>2, <4>3, <5>1 DEF Stamped, Kinds, Objects, Proxy, ConfigMap, Deployment
      <4>5. \A copy : Faithful(copy, store[k][n], rev[k][n]) /\ copy \in Objects(k) \cup {None}
                        => copy # store'[k][n]
        <5> SUFFICES ASSUME NEW copy \in Objects(k) \cup {None}, copy # None,
                            Faithful(copy, store[k][n], rev[k][n]), copy = store'[k][n]
                     PROVE  FALSE
          BY <2>2, <4>1
        <5> QED  BY <4>3, <4>4 DEF Faithful
      <4>6. watch[k][n] \in Seq(Objects(k) \cup {None}) /\ cache[k][n] \in Objects(k) \cup {None}
        BY SlotTypes
      <4>7. /\ Faithful(cache[k][n], store[k][n], rev[k][n])
            /\ \A i \in 1 .. Len(watch[k][n]) : Faithful(watch[k][n][i], store[k][n], rev[k][n])
        BY DEF Copies
      <4>8. Len(watch'[k][n]) - 1 = Len(watch[k][n])
              /\ \A i \in 1 .. Len(watch[k][n]) :
                   watch'[k][n][i] = watch[k][n][i] /\ watch[k][n][i] \in Objects(k) \cup {None}
        BY <4>2, <4>6
      <4> QED  BY <4>1, <4>2, <4>5, <4>6, <4>7, <4>8
    <3> QED  BY <3>1, <3>2
  <2> QED  BY <2>1, <2>2 DEF SeenOnce
<1>3. ASSUME NEW k \in Kinds, NEW n \in Names, Deliver(k, n)
      PROVE  SeenOnce' /\ CachesAdvance /\ VersionsKept
  <2>1. /\ UNCHANGED <<store, rev>> /\ VersionsKept
        /\ watch[k][n] \in Seq(Objects(k) \cup {None}) /\ watch[k][n] # <<>>
    BY <1>3, Unwritten, SlotTypes DEF Deliver
  <2>2. /\ cache'[k][n] = watch[k][n][1] /\ watch'[k][n] = Tail(watch[k][n])
        /\ \A k2 \in Kinds, n2 \in Names :
             k2 # k \/ n2 # n => cache'[k2][n2] = cache[k2][n2] /\ watch'[k2][n2] = watch[k2][n2]
    BY <1>3, DeliverEvent
  <2>3. CachesAdvance  BY <2>1, <2>2 DEF CachesAdvance
  <2>4. ASSUME store[k][n] # None, watch'[k][n] # <<>>
        PROVE  /\ cache'[k][n] # store[k][n]
               /\ \A i \in 1 .. Len(watch'[k][n]) - 1 : watch'[k][n][i] # store[k][n]
    <3>1. \A i \in 1 .. Len(watch[k][n]) - 1 : watch[k][n][i] # store[k][n]
      BY <2>1, <2>4 DEF SeenOnce
    <3>2. 1 \in 1 .. Len(watch[k][n]) - 1  BY <2>1, <2>2, <2>4
    <3>3. \A i \in 1 .. Len(watch'[k][n]) - 1 :
            i + 1 \in 1 .. Len(watch[k][n]) - 1 /\ watch'[k][n][i] = watch[k][n][i + 1]
      BY <2>1, <2>2
    <3> QED  BY <2>2, <3>1, <3>2, <3>3
  <2>5. ASSUME NEW k2 \in Kinds, NEW n2 \in Names,
               store[k2][n2] # None, watch'[k2][n2] # <<>>
        PROVE  /\ cache'[k2][n2] # store[k2][n2]
               /\ \A i \in 1 .. Len(watch'[k2][n2]) - 1 : watch'[k2][n2][i] # store[k2][n2]
    <3>1. CASE k2 = k /\ n2 = n  BY <2>4, <2>5, <3>1
    <3>2. CASE k2 # k \/ n2 # n  BY <2>2, <2>5, <3>2 DEF SeenOnce
    <3> QED  BY <3>1, <3>2
  <2> QED  BY <2>1, <2>3, <2>5 DEF SeenOnce
<1>4. ASSUME NEW k \in Kinds, Relist(k)
      PROVE  SeenOnce' /\ CachesAdvance /\ VersionsKept
  <2>1. UNCHANGED <<store, rev>>  BY <1>4 DEF Relist
  <2>2. /\ \A n \in Names : cache'[k][n] = store[k][n] /\ watch'[k][n] = <<>>
        /\ \A k2 \in Kinds : k2 # k => cache'[k2] = cache[k2] /\ watch'[k2] = watch[k2]
    BY <1>4 DEF Relist, ApiTypeOK
  <2> QED  BY <2>1, <2>2, Unwritten DEF SeenOnce, CachesAdvance
<1>5. CASE StartController
  <2>1. UNCHANGED <<store, rev>> /\ cache' = store  BY <1>5 DEF StartController
  <2>2. \A k \in Kinds, n \in Names : watch'[k][n] = <<>>  BY <1>5 DEF StartController
  <2>3. VersionsKept  BY <2>1, Unwritten
  <2> QED  BY <2>1, <2>2, <2>3 DEF SeenOnce, CachesAdvance
<1> QED  BY <1>1, <1>2, <1>3, <1>4, <1>5 DEF ApiStep

\* No step takes from the cache what a copy with the current version was read from.
LEMMA LatestKept ==
  ASSUME ApiTypeOK, SeenOnce, VersionsKept, CachesAdvance,
         NEW k \in Kinds, NEW n \in Names, NEW copy, copy.rv \in Nat,
         Latest(copy, cache[k][n], store[k][n], rev[k][n])
  PROVE  Latest(copy, cache'[k][n], store'[k][n], rev'[k][n])
<1>1. rev[k][n] \in Nat  BY SlotTypes
<1> QED  BY <1>1 DEF Latest, SeenOnce, VersionsKept, CachesAdvance

\* How a step may change the pass: what it holds then comes from the cache.
ReadsAhead(k, pc) ==
  /\ UNCHANGED apiVars
  /\ worker'.pc = pc
  /\ cache[k][worker.name] # None
  /\ worker'.obj.rv = cache[k][worker.name].rv

PassMoves ==
  \/ UNCHANGED worker
  \/ worker' = Idle
  \/ worker'.pc \in CleanupSteps
  \/ \E n \in Names :
       /\ UNCHANGED apiVars
       /\ cache["proxy"][n] # None
       /\ worker'.pc = "getCM" /\ worker'.name = n /\ worker'.page = cache["proxy"][n]
  \/ /\ worker.pc \in PassSteps
     /\ worker'.name = worker.name /\ worker'.page.rv = worker.page.rv
     /\ \/ worker'.pc \notin {"updateCM", "updateDep"}
        \/ ReadsAhead("cm", "updateCM")
        \/ ReadsAhead("dep", "updateDep")

LEMMA ContinueMoves ==
  ASSUME TypeOK, Continue
  PROVE  PassMoves
<1>1. worker \in Worker  BY DEF TypeOK, WorkerTypeOK
<1>2. ASSUME NEW pc \in {"getDep", "checkDep", "idle"}, NEW accepted, NEW k, NEW obj,
             Write(accepted, k, obj, pc), worker.pc \in PassSteps
      PROVE  PassMoves
  <2>1. CASE Retry  BY <2>1 DEF Retry, PassMoves
  <2>2. CASE Goto(pc, None)
    <3>1. CASE pc = "idle"  BY <2>2, <3>1 DEF Goto, PassMoves
    <3>2. CASE pc # "idle"
      BY <1>2, <2>2, <3>2, GotoKeeps DEF PassMoves
    <3> QED  BY <3>1, <3>2
  <2> QED  BY <1>2, <2>1, <2>2 DEF Write
<1>3. CASE DeleteConfigMap
  <2>1. Goto("deleteDep", None)  BY <1>3 DEF DeleteConfigMap, DeleteIgnoringErrors
  <2>2. worker'.pc = "deleteDep"  BY <2>1, GotoKeeps
  <2> QED  BY <2>2 DEF PassMoves, CleanupSteps
<1>4. CASE DeleteDeployment
  BY <1>4 DEF DeleteDeployment, DeleteIgnoringErrors, Goto, PassMoves
<1>5. CASE CreateConfigMap \/ UpdateConfigMap \/ CreateDeployment \/ UpdateDeployment \/ SetStatus
  BY <1>2, <1>5
     DEF CreateConfigMap, UpdateConfigMap, CreateDeployment, UpdateDeployment, SetStatus, PassSteps
<1>6. CASE GetConfigMap
  <2> DEFINE cm == BuildConfigMap(worker.page)
             existing == cache["cm"][worker.name]
  <2>1. worker.pc \in PassSteps /\ worker.name \in Names /\ UNCHANGED apiVars
    BY <1>6 DEF GetConfigMap, PassSteps, TypeOK, WorkerTypeOK
  <2>2. CASE Goto("createCM", cm) \/ Goto("getDep", None)
    BY <2>1, <2>2, GotoKeeps DEF PassMoves
  <2>3. CASE existing # None /\ Goto("updateCM", [existing EXCEPT !.data = cm.data])
    <3>1. /\ worker'.pc = "updateCM" /\ worker'.obj = [existing EXCEPT !.data = cm.data]
          /\ worker'.name = worker.name /\ worker'.page = worker.page
      BY <2>3, GotoKeeps
    <3>2. existing \in ConfigMap
      BY <2>1, <2>3 DEF TypeOK, ApiTypeOK, Kinds, Objects
    <3>3. worker'.obj.rv = existing.rv  BY <3>1, <3>2 DEF ConfigMap
    <3> QED  BY <2>1, <2>3, <3>1, <3>3 DEF PassMoves, ReadsAhead
  <2> QED  BY <1>6, <2>2, <2>3 DEF GetConfigMap
<1>7. CASE GetDeployment
  <2> DEFINE dep == BuildDeployment(worker.page)
             existing == cache["dep"][worker.name]
             update == [existing EXCEPT !.replicas = dep.replicas, !.image = dep.image]
  <2>1. worker.pc \in PassSteps /\ worker.name \in Names /\ UNCHANGED apiVars
    BY <1>7 DEF GetDeployment, PassSteps, TypeOK, WorkerTypeOK
  <2>2. CASE Goto("createDep", dep) \/ Goto("checkDep", None)
    BY <2>1, <2>2, GotoKeeps DEF PassMoves
  <2>3. CASE existing # None /\ Goto("updateDep", update)
    <3>1. /\ worker'.pc = "updateDep" /\ worker'.obj = update
          /\ worker'.name = worker.name /\ worker'.page = worker.page
      BY <2>3, GotoKeeps
    <3>2. existing \in Deployment
      BY <2>1, <2>3 DEF TypeOK, ApiTypeOK, Kinds, Objects
    <3>3. worker'.obj.rv = existing.rv  BY <3>1, <3>2 DEF Deployment
    <3> QED  BY <2>1, <2>3, <3>1, <3>3 DEF PassMoves, ReadsAhead
  <2>4. CASE Retry  BY <2>4 DEF Retry, PassMoves
  <2> QED  BY <1>7, <2>2, <2>3, <2>4 DEF GetDeployment
<1>8. CASE CheckDeployment
  <2>1. worker.pc \in PassSteps /\ worker.page \in Proxy
    BY <1>8 DEF CheckDeployment, PassSteps, TypeOK, WorkerTypeOK
  <2>2. /\ worker'.pc = "setStatus" /\ worker'.name = worker.name
        /\ worker'.page.rv = worker.page.rv
    BY <1>1, <1>8, <2>1 DEF CheckDeployment, Worker, Proxy
  <2> QED  BY <2>1, <2>2 DEF PassMoves
<1> QED  BY <1>3, <1>4, <1>5, <1>6, <1>7, <1>8 DEF Continue

LEMMA StepMoves ==
  ASSUME TypeOK, [Next]_vars
  PROVE  PassMoves
<1>1. ASSUME NEW n \in Names, BeginReconcile(n)
      PROVE  PassMoves
  <2>1. CASE worker' = [Idle EXCEPT !.pc = "deleteCM", !.name = n]
    BY <2>1 DEF Idle, PassMoves, CleanupSteps
  <2>2. CASE UNCHANGED worker
    BY <2>2 DEF PassMoves
  <2>3. CASE /\ cache["proxy"][n] # None
             /\ worker' = [Idle EXCEPT !.pc = "getCM", !.name = n, !.page = cache["proxy"][n]]
    BY <1>1, <2>3 DEF BeginReconcile, Idle, PassMoves
  <2> QED  BY <1>1, <2>1, <2>2, <2>3 DEF BeginReconcile
<1>2. ASSUME NEW n \in Names, OtherWriter(n)
      PROVE  PassMoves
  BY <1>2, OtherWrites DEF External, PassMoves
<1>3. ASSUME NEW k \in Kinds, Relist(k) \/ \E n \in Names : Deliver(k, n)
      PROVE  PassMoves
  BY <1>3 DEF Relist, Deliver, PassMoves
<1>4. ASSUME NEW n \in Names, BackoffExpires(n) \/ Resync(n)
      PROVE  PassMoves
  BY <1>4 DEF BackoffExpires, Resync, PassMoves
<1>5. CASE Restart
  BY <1>5 DEF Restart, StartController, PassMoves
<1>6. CASE UNCHANGED vars
  BY <1>6 DEF vars, PassMoves
<1> QED  BY <1>1, <1>2, <1>3, <1>4, <1>5, <1>6, ContinueMoves DEF Next, Reconcile, Environment

\* What a step leaves in the hands of a pass is what the cache shows.
LEMMA PassLatestStep ==
  ASSUME TypeOK, Copies, SeenOnce, PassLatest, VersionsKept, CachesAdvance, PassMoves
  PROVE  PassLatest'
<1> DEFINE n == worker.name
<1>1. worker.pc \in PassSteps => n \in Names /\ worker.page.rv \in Nat
  BY DEF TypeOK, WorkerTypeOK, Proxy, PassSteps
<1>2. /\ worker.pc = "updateCM" => n \in Names /\ worker.obj.rv \in Nat
      /\ worker.pc = "updateDep" => n \in Names /\ worker.obj.rv \in Nat
  BY DEF TypeOK, WorkerTypeOK, ConfigMap, Deployment
<1>3. ApiTypeOK /\ Kinds = {"proxy", "cm", "dep"}
  BY DEF TypeOK, Kinds
<1>4. worker.pc \in PassSteps =>
        Latest(worker.page, cache'["proxy"][n], store'["proxy"][n], rev'["proxy"][n])
  BY <1>1, <1>3, LatestKept DEF PassLatest
<1>5. /\ worker.pc = "updateCM" =>
           Latest(worker.obj, cache'["cm"][n], store'["cm"][n], rev'["cm"][n])
      /\ worker.pc = "updateDep" =>
           Latest(worker.obj, cache'["dep"][n], store'["dep"][n], rev'["dep"][n])
  BY <1>2, <1>3, LatestKept DEF PassLatest
<1>6. ASSUME NEW k \in Kinds, NEW m \in Names, cache[k][m] # None, UNCHANGED apiVars,
             NEW copy, copy.rv = cache[k][m].rv
      PROVE  Latest(copy, cache'[k][m], store'[k][m], rev'[k][m])
  BY <1>6 DEF Copies, Faithful, Latest, apiVars
<1>7. CASE UNCHANGED worker
  BY <1>4, <1>5, <1>7 DEF PassLatest
<1>8. CASE worker' = Idle \/ worker'.pc \in CleanupSteps
  BY <1>8 DEF PassLatest, Idle, CleanupSteps, PassSteps
<1>9. ASSUME NEW m \in Names, UNCHANGED apiVars, cache["proxy"][m] # None,
             worker'.pc = "getCM", worker'.name = m, worker'.page = cache["proxy"][m]
      PROVE  PassLatest'
  <2>1. Latest(worker'.page, cache'["proxy"][m], store'["proxy"][m], rev'["proxy"][m])
    BY <1>3, <1>6, <1>9
  <2> QED  BY <1>9, <2>1 DEF PassLatest
<1>10. CASE /\ worker.pc \in PassSteps
            /\ worker'.name = worker.name /\ worker'.page.rv = worker.page.rv
            /\ \/ worker'.pc \notin {"updateCM", "updateDep"}
               \/ ReadsAhead("cm", "updateCM")
               \/ ReadsAhead("dep", "updateDep")
  <2>1. Latest(worker'.page, cache'["proxy"][n], store'["proxy"][n], rev'["proxy"][n])
    BY <1>4, <1>10 DEF Latest
  <2>2. ReadsAhead("cm", "updateCM") =>
          Latest(worker'.obj, cache'["cm"][n], store'["cm"][n], rev'["cm"][n])
    BY <1>1, <1>3, <1>6, <1>10 DEF ReadsAhead
  <2>3. ReadsAhead("dep", "updateDep") =>
          Latest(worker'.obj, cache'["dep"][n], store'["dep"][n], rev'["dep"][n])
    BY <1>1, <1>3, <1>6, <1>10 DEF ReadsAhead
  <2>4. /\ worker'.pc = "updateCM" => ReadsAhead("cm", "updateCM")
        /\ worker'.pc = "updateDep" => ReadsAhead("dep", "updateDep")
    BY <1>10 DEF ReadsAhead
  <2> QED  BY <1>10, <2>1, <2>2, <2>3, <2>4 DEF PassLatest
<1> QED  BY <1>7, <1>8, <1>9, <1>10 DEF PassMoves

LEMMA LatestInit ==
  ASSUME Init
  PROVE  LatestInv
<1>1. CInv  BY CopiesInit
<1>2. SeenOnce  BY DEF Init, ApiInit, SeenOnce
<1>3. PassLatest  BY DEF Init, Idle, PassLatest, PassSteps
<1> QED  BY <1>1, <1>2, <1>3 DEF LatestInv

LEMMA LatestStep ==
  ASSUME LatestInv, [Next]_vars
  PROVE  LatestInv'
<1>1. CInv'  BY CopiesStep DEF LatestInv
<1>2. SeenOnce' /\ CachesAdvance /\ VersionsKept
  BY StepShape, ApiStepSeen DEF LatestInv, CInv, TypeOK
<1>3. PassLatest'
  BY <1>2, StepMoves, PassLatestStep DEF LatestInv, CInv
<1> QED  BY <1>1, <1>2, <1>3 DEF LatestInv

-----------------------------------------------------------------------------
(* What an accepted write leaves alone. *)

KeepsDeployment(n) ==
  store["dep"][n] # None /\ store'["dep"][n] # None =>
    /\ store'["dep"][n].resources = store["dep"][n].resources
    /\ store'["dep"][n].owner = store["dep"][n].owner
    /\ store'["dep"][n].available = store["dep"][n].available

KeepsProxy(n) ==
  store["proxy"][n] # None =>
    /\ store'["proxy"][n] # None
    /\ store'["proxy"][n].spec = store["proxy"][n].spec
    /\ store'["proxy"][n].uid = store["proxy"][n].uid

\* A write of another kind, or none at all, keeps both.
LEMMA KeptByOthers ==
  ASSUME ApiTypeOK, NEW k \in Kinds, NEW m \in Names, NEW obj,
         Commit(k, m, obj) \/ UNCHANGED store, NEW n \in Names
  PROVE  /\ k # "dep" => KeepsDeployment(n)
         /\ k # "proxy" => KeepsProxy(n)
         /\ n # m => KeepsDeployment(n) /\ KeepsProxy(n)
<1>1. "dep" \in Kinds /\ "proxy" \in Kinds  BY DEF Kinds
<1>2. CASE Commit(k, m, obj)
  BY <1>1, <1>2, CommitEffect DEF KeepsDeployment, KeepsProxy
<1>3. CASE UNCHANGED store
  BY <1>3 DEF KeepsDeployment, KeepsProxy
<1> QED  BY <1>2, <1>3

\* A write of a pass either commits its object, accepted, or changes nothing.
LEMMA WriteOutcome ==
  ASSUME NEW accepted, NEW k, NEW obj, NEW pc, Write(accepted, k, obj, pc)
  PROVE  (accepted /\ Commit(k, worker.name, obj)) \/ UNCHANGED store
BY DEF Write, apiVars

\* No step of a pass undoes what others wrote.
LEMMA ContinueKeeps ==
  ASSUME CInv, Continue, NEW n \in Names
  PROVE  KeepsDeployment(n) /\ KeepsProxy(n)
<1>1. TypeOK /\ ApiTypeOK /\ WorkerTypeOK /\ {"dep", "proxy", "cm"} \subseteq Kinds
  BY DEF CInv, TypeOK, Kinds
<1>2. CASE UNCHANGED store
  BY <1>2 DEF KeepsDeployment, KeepsProxy
<1>3. CASE store' # store
  <2>1. worker.pc # "idle" /\ worker.name \in Names
    BY <1>1 DEF WorkerTypeOK, Continue, DeleteConfigMap, DeleteDeployment, GetConfigMap,
         CreateConfigMap, UpdateConfigMap, GetDeployment, CreateDeployment,
         UpdateDeployment, CheckDeployment, SetStatus
  <2>2. CASE DeleteConfigMap
    <3>1. Commit("cm", worker.name, None)
      BY <1>3, <2>2 DEF DeleteConfigMap, DeleteIgnoringErrors, apiVars
    <3> QED  BY <1>1, <2>1, <3>1, KeptByOthers
  <2>3. CASE DeleteDeployment
    <3>1. Commit("dep", worker.name, None)
      BY <1>3, <2>3 DEF DeleteDeployment, DeleteIgnoringErrors, apiVars
    <3>2. store'["dep"][worker.name] = None
      <4>1. Stamped("dep", worker.name, None) = None  BY DEF Stamped
      <4>2. \/ None = store["dep"][worker.name] /\ store' = store
            \/ store'["dep"][worker.name] = Stamped("dep", worker.name, None)
        BY <1>1, <2>1, <3>1, CommitEffect
      <4> QED  BY <4>1, <4>2
    <3>3. KeepsDeployment(worker.name)  BY <3>2 DEF KeepsDeployment
    <3> QED  BY <1>1, <2>1, <3>1, <3>3, KeptByOthers
  <2>4. CASE CreateConfigMap \/ UpdateConfigMap
    <3>1. Commit("cm", worker.name, worker.obj)
      BY <1>3, <2>4, WriteOutcome DEF CreateConfigMap, UpdateConfigMap
    <3> QED  BY <1>1, <2>1, <3>1, KeptByOthers
  <2>5. CASE CreateDeployment
    <3>1. Commit("dep", worker.name, worker.obj) /\ store["dep"][worker.name] = None
      BY <1>3, <2>5, WriteOutcome DEF CreateDeployment
    <3>2. KeepsDeployment(worker.name)  BY <3>1 DEF KeepsDeployment
    <3> QED  BY <1>1, <2>1, <3>1, <3>2, KeptByOthers
  <2>6. CASE UpdateDeployment
    <3> DEFINE dep == store["dep"][worker.name]
               new == store'["dep"][worker.name]
    <3>1. Commit("dep", worker.name, worker.obj) /\ Current("dep", worker.name, worker.obj)
      BY <1>3, <2>6, WriteOutcome DEF UpdateDeployment
    <3>2. worker.obj \in Deployment /\ worker.pc = "updateDep"
      BY <1>1, <2>6 DEF UpdateDeployment, WorkerTypeOK
    <3>3. SameUnmanaged(worker.obj, dep)
      BY <3>1, <3>2 DEF Current, CInv, DepCopy
    <3>4. new = dep \/ new = Stamped("dep", worker.name, worker.obj)
      BY <1>1, <2>1, <3>1, CommitEffect
    <3>5. worker.obj # None  BY <3>2, NoneAssumption
    <3>6. SameUnmanaged(Stamped("dep", worker.name, worker.obj), worker.obj)
      BY <3>2, <3>5 DEF Stamped, Deployment, SameUnmanaged
    <3>7. KeepsDeployment(worker.name)
      BY <3>3, <3>4, <3>6 DEF KeepsDeployment, SameUnmanaged
    <3> QED  BY <1>1, <2>1, <3>1, <3>7, KeptByOthers
  <2>7. CASE SetStatus
    <3> DEFINE proxy == store["proxy"][worker.name]
               new == store'["proxy"][worker.name]
    <3>1. Commit("proxy", worker.name, worker.page) /\ Current("proxy", worker.name, worker.page)
      BY <1>3, <2>7, WriteOutcome DEF SetStatus
    <3>2. worker.page \in Proxy /\ worker.pc \in PassSteps
      BY <1>1, <2>7 DEF SetStatus, WorkerTypeOK, PassSteps
    <3>3. SameProxy(worker.page, proxy)
      BY <3>1, <3>2 DEF Current, CInv, PageCopy
    <3>4. new = proxy \/ new = Stamped("proxy", worker.name, worker.page)
      BY <1>1, <2>1, <3>1, CommitEffect
    <3>5. worker.page # None  BY <3>2, NoneAssumption
    <3>6. Stamped("proxy", worker.name, worker.page) # None
      <4>1. worker.page \in Objects("proxy") \cup {None}  BY <3>2 DEF Objects
      <4> QED  BY <1>1, <2>1, <3>5, <4>1, StampedType
    <3>7. SameProxy(Stamped("proxy", worker.name, worker.page), worker.page)
      BY <3>2, <3>5 DEF Stamped, Proxy, SameProxy
    <3>8. KeepsProxy(worker.name)
      BY <3>3, <3>4, <3>6, <3>7 DEF KeepsProxy, SameProxy
    <3> QED  BY <1>1, <2>1, <3>1, <3>8, KeptByOthers
  <2>8. CASE GetConfigMap \/ GetDeployment \/ CheckDeployment
    BY <1>3, <2>8 DEF GetConfigMap, GetDeployment, CheckDeployment, apiVars
  <2> QED  BY <2>2, <2>3, <2>4, <2>5, <2>6, <2>7, <2>8 DEF Continue
<1> QED  BY <1>2, <1>3

(***************************************************************************)
(* An update from a cached copy (lines 303-330, 340-375 and 411) undoes    *)
(* nothing somebody else wrote to a Deployment's resources, owner or pods, *)
(* or to a proxy's spec: with any edits, faults, restarts and foreign      *)
(* Deployments in between.                                                 *)
(***************************************************************************)
THEOREM UnmanagedKept == Spec => UnmanagedFieldsKept
<1>1. CInv /\ [Next]_vars
        => [Continue =>
             \A n \in Names :
               /\ store["dep"][n] # None /\ store'["dep"][n] # None =>
                    /\ store'["dep"][n].resources = store["dep"][n].resources
                    /\ store'["dep"][n].owner = store["dep"][n].owner
                    /\ store'["dep"][n].available = store["dep"][n].available
               /\ store["proxy"][n] # None =>
                    /\ store'["proxy"][n] # None
                    /\ store'["proxy"][n].spec = store["proxy"][n].spec
                    /\ store'["proxy"][n].uid = store["proxy"][n].uid]_vars
  BY ContinueKeeps DEF KeepsDeployment, KeepsProxy
<1> QED  BY <1>1, CopiesInvariant, PTL DEF Spec, UnmanagedFieldsKept
=============================================================================
