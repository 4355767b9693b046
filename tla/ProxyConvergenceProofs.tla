----------------------- MODULE ProxyConvergenceProofs -----------------------
(***************************************************************************)
(* The two invariants of ProxyInvariant are inductive, and what            *)
(* follows from them: QuiescentConverged, QuiescentCleanedUp and           *)
(* QuietWhenSettled, for any number of proxies, specs and environment      *)
(* events, when nobody else creates a Deployment with a proxy's name.      *)
(***************************************************************************)
EXTENDS ProxyTypeProofs

ApiInv == Echo /\ DeletesSomething /\ ApiOwned

\* A write keeps the invariant of the watches.
LEMMA CommitInv ==
  ASSUME ApiTypeOK, ApiInv, NEW k \in Kinds, NEW n \in Names,
         NEW obj \in Objects(k) \cup {None},
         k # "proxy" /\ obj # None => obj.owner # None,
         Commit(k, n, obj)
  PROVE  ApiInv'
<1> DEFINE new == Stamped(k, n, obj)
<1>1. CASE store' = store /\ watch' = watch
  BY <1>1, CommitEffect DEF ApiInv, Echo, DeletesSomething, ApiOwned
<1>2. CASE /\ obj # store[k][n]
           /\ store'[k][n] = new
           /\ watch'[k][n] = Append(watch[k][n], new)
  <2>1. /\ cache' = cache
        /\ \A k2 \in Kinds, n2 \in Names :
             k2 # k \/ n2 # n => /\ store'[k2][n2] = store[k2][n2]
                                 /\ watch'[k2][n2] = watch[k2][n2]
    BY CommitEffect
  <2>2. /\ watch[k][n] \in Seq(Objects(k) \cup {None})
        /\ new \in Objects(k) \cup {None}
        /\ new = None <=> obj = None
    BY StampedType DEF ApiTypeOK
  <2>3. /\ Len(watch'[k][n]) = Len(watch[k][n]) + 1
        /\ Len(watch[k][n]) \in Nat
        /\ watch'[k][n] # <<>>
        /\ watch'[k][n][Len(watch[k][n]) + 1] = new
        /\ \A i \in 1 .. Len(watch[k][n]) : watch'[k][n][i] = watch[k][n][i]
    BY <1>2, <2>2
  <2>4. Echo'
    <3>1. ASSUME NEW k2 \in Kinds, NEW n2 \in Names
          PROVE  IF watch'[k2][n2] = <<>>
                 THEN cache'[k2][n2] = store'[k2][n2]
                 ELSE watch'[k2][n2][Len(watch'[k2][n2])] = store'[k2][n2]
      <4>1. CASE k2 = k /\ n2 = n
        BY <1>2, <2>3, <4>1
      <4>2. CASE k2 # k \/ n2 # n
        BY <2>1, <4>2 DEF ApiInv, Echo
      <4> QED BY <4>1, <4>2
    <3> QED BY <3>1 DEF Echo
  <2>5. DeletesSomething'
    <3>1. ASSUME NEW k2 \in Kinds, NEW n2 \in Names,
                 NEW i \in 1 .. Len(watch'[k2][n2]), watch'[k2][n2][i] = None
          PROVE  IF i = 1 THEN cache'[k2][n2] # None
                 ELSE watch'[k2][n2][i - 1] # None
      <4>1. CASE k2 # k \/ n2 # n
        BY <2>1, <3>1, <4>1 DEF ApiInv, DeletesSomething
      <4>2. CASE k2 = k /\ n2 = n /\ i \in 1 .. Len(watch[k][n])
        <5>1. watch[k][n][i] = None
          BY <2>3, <3>1, <4>2
        <5>2. IF i = 1 THEN cache[k][n] # None ELSE watch[k][n][i - 1] # None
          BY <4>2, <5>1 DEF ApiInv, DeletesSomething
        <5>3. i # 1 => i - 1 \in 1 .. Len(watch[k][n])
          BY <2>3, <4>2
        <5> QED BY <2>1, <2>3, <4>2, <5>2, <5>3
      <4>3. CASE k2 = k /\ n2 = n /\ i = Len(watch[k][n]) + 1
        <5>1. obj = None /\ store[k][n] # None
          BY <1>2, <2>2, <2>3, <3>1, <4>3
        <5>2. CASE watch[k][n] = <<>>
          BY <2>1, <2>3, <4>3, <5>1, <5>2 DEF ApiInv, Echo
        <5>3. CASE watch[k][n] # <<>>
          <6>1. Len(watch[k][n]) \in 1 .. Len(watch[k][n]) /\ i # 1
            BY <2>2, <2>3, <4>3, <5>3
          <6>2. watch[k][n][Len(watch[k][n])] # None
            BY <5>1, <5>3 DEF ApiInv, Echo
          <6> QED BY <2>3, <4>3, <6>1, <6>2
        <5> QED BY <5>2, <5>3
      <4>4. i \in 1 .. Len(watch[k][n]) \/ i = Len(watch[k][n]) + 1
               \/ k2 # k \/ n2 # n
        BY <2>3, <3>1
      <4> QED BY <4>1, <4>2, <4>3, <4>4
    <3> QED BY <3>1 DEF DeletesSomething
  <2>6. ApiOwned'
    <3>1. new # None /\ k # "proxy" => new.owner # None
      <4>1. SUFFICES ASSUME new # None, k # "proxy" PROVE new.owner # None
        OBVIOUS
      <4>2. obj # None /\ obj.owner # None
        BY <2>2, <4>1
      <4>3. new = [obj EXCEPT !.rv = rev[k][n] + 1]
        BY <4>2 DEF Stamped
      <4>4. obj \in ConfigMap \cup Deployment
        BY <4>1, <4>2 DEF Objects, Kinds
      <4>5. new.owner = obj.owner
        BY <4>3, <4>4 DEF ConfigMap, Deployment
      <4> QED BY <4>2, <4>5
    <3>2. ASSUME NEW k2 \in {"cm", "dep"}, NEW n2 \in Names
          PROVE  /\ store'[k2][n2] # None => store'[k2][n2].owner # None
                 /\ cache'[k2][n2] # None => cache'[k2][n2].owner # None
                 /\ \A i \in 1 .. Len(watch'[k2][n2]) :
                      watch'[k2][n2][i] # None => watch'[k2][n2][i].owner # None
      <4>1. CASE k2 = k /\ n2 = n
        <5>1. ASSUME NEW i \in 1 .. Len(watch'[k][n])
              PROVE  i \in 1 .. Len(watch[k][n]) \/ i = Len(watch[k][n]) + 1
          BY <2>3
        <5> QED BY <1>2, <2>1, <2>3, <3>1, <4>1, <5>1 DEF ApiInv, ApiOwned
      <4>2. CASE k2 # k \/ n2 # n
        BY <2>1, <4>2 DEF ApiInv, ApiOwned, Kinds
      <4> QED BY <4>1, <4>2
    <3> QED BY <3>2 DEF ApiOwned
  <2> QED BY <2>4, <2>5, <2>6 DEF ApiInv
<1> QED BY <1>1, <1>2, CommitEffect

-----------------------------------------------------------------------------
(* What a step leaves alone. *)

\* The step only adds to watches, and a store it changes has an event.
ApiMoves ==
  /\ cache' = cache
  /\ \A k \in Kinds, n \in Names :
       watch'[k][n] = <<>> => /\ watch[k][n] = <<>>
                              /\ store'[k][n] = store[k][n]

SpentGrows == \A b \in Budgeted : spent'[b] = 0 => spent[b] = 0

LEMMA CommitMoves ==
  ASSUME ApiTypeOK, NEW k \in Kinds, NEW n \in Names,
         NEW obj \in Objects(k) \cup {None}, Commit(k, n, obj)
  PROVE  ApiMoves
<1>1. CASE store' = store /\ watch' = watch
  BY <1>1, CommitEffect DEF ApiMoves
<1>2. CASE watch'[k][n] = Append(watch[k][n], Stamped(k, n, obj))
  <2>1. watch[k][n] \in Seq(Objects(k) \cup {None})
        /\ Stamped(k, n, obj) \in Objects(k) \cup {None}
    BY StampedType DEF ApiTypeOK
  <2>2. watch'[k][n] # <<>>
    BY <1>2, <2>1
  <2> QED BY <2>2, CommitEffect DEF ApiMoves
<1> QED BY <1>1, <1>2, CommitEffect

LEMMA StutterMoves ==
  ASSUME UNCHANGED apiVars
  PROVE  ApiMoves
  BY DEF ApiMoves, apiVars

LEMMA StutterApiInv ==
  ASSUME ApiInv, UNCHANGED apiVars
  PROVE  ApiInv'
  BY DEF ApiInv, Echo, DeletesSomething, ApiOwned, apiVars

LEMMA SpendGrows ==
  ASSUME spent \in [Budgeted -> Nat], NEW b \in Budgeted,
         Spend(b) \/ UNCHANGED spent
  PROVE  SpentGrows
<1>1. CASE UNCHANGED spent
  BY <1>1 DEF SpentGrows
<1>2. CASE Spend(b)
  BY <1>2 DEF Spend, SpentGrows
<1> QED BY <1>1, <1>2

\* A name with nothing left to do had nothing left to do before such a step.
LEMMA StaysConverged ==
  ASSUME ApiMoves, NEW n \in Names, ~Pending(n)',
         n \notin queue \cup backoff, worker.name # n,
         ~Pending(n) => Converged(n)
  PROVE  Converged(n)'
<1>1. \A k \in Kinds : watch[k][n] = <<>> /\ store'[k][n] = store[k][n]
  BY DEF Pending, InSync, ApiMoves
<1>2. Converged(n)
  BY <1>1 DEF Pending, InSync
<1> QED BY <1>1, <1>2 DEF Converged, Applied, Kinds

\* A name no pass of this step concerns keeps what is known of it.
LEMMA OthersConverged ==
  ASSUME IdleConverged, SpentGrows, ApiMoves, NEW n \in Names,
         spent'["relist"] = 0, ~Pending(n)', 
         n \notin queue \cup backoff, worker.name # n
  PROVE  Converged(n)'
<1>1. ~Pending(n) => Converged(n)
  BY DEF IdleConverged, SpentGrows, Budgeted
<1> QED BY <1>1, StaysConverged

LEMMA OthersClean ==
  ASSUME IdleClean, SpentGrows, ApiMoves, NEW n \in Names,
         spent'["fault"] = 0, cache'["proxy"][n] = None,
         n \notin queue \cup backoff, worker.name # n
  PROVE  Gone("cm", n)' /\ Gone("dep", n)'
<1>1. Gone("cm", n) /\ Gone("dep", n)
  BY DEF IdleClean, SpentGrows, ApiMoves, Budgeted
<1> QED BY <1>1 DEF Gone, ApiMoves, Kinds

-----------------------------------------------------------------------------
(* Steps of everybody else. *)

LEMMA ExternalInv ==
  ASSUME IInv, TypeOK', NEW k \in Kinds, NEW n \in Names,
         NEW obj \in Objects(k) \cup {None},
         k # "proxy" /\ obj # None => obj.owner # None,
         External(k, n, obj), SpentGrows
  PROVE  IInv'
<1>1. ApiInv'
  BY CommitInv DEF IInv, ApiInv, External, TypeOK
<1>2. ApiMoves
  BY CommitMoves DEF IInv, External, TypeOK
<1>3. UNCHANGED <<queue, backoff, worker>>
  BY DEF External
<1>4. WorkerOwned'
  BY <1>3 DEF IInv, WorkerOwned
<1>5. PassApplies'
  BY <1>2, <1>3 DEF IInv, PassApplies, ApiMoves, SpentGrows, Budgeted, TypeOK,
                    WorkerTypeOK, PassSteps, Kinds
<1>6. PassCleans'
  BY <1>2, <1>3 DEF IInv, PassCleans, Gone, ApiMoves, SpentGrows, Budgeted, TypeOK,
                    WorkerTypeOK, CleanupSteps, Kinds
<1>7. IdleClean'
  BY <1>2, <1>3, OthersClean DEF IInv, IdleClean
<1>8. IdleConverged'
  BY <1>2, <1>3, OthersConverged DEF IInv, IdleConverged, Pending
<1> QED BY <1>1, <1>4, <1>5, <1>6, <1>7, <1>8 DEF IInv, ApiInv

-----------------------------------------------------------------------------
(* Steps of the worker. *)

\* The pass fails and is retried: nothing need be known of its name.
LEMMA RetryInv ==
  ASSUME IInv, TypeOK', ApiInv', ApiMoves, SpentGrows,
         worker.pc \in PassSteps, Retry, UNCHANGED queue
  PROVE  IInv'
<1>1. worker' = Idle /\ backoff' = backoff \cup {worker.name} /\ queue' = queue
  BY DEF Retry
<1>2. WorkerOwned' /\ PassApplies' /\ PassCleans'
  BY <1>1 DEF WorkerOwned, PassApplies, PassCleans, Idle, PassSteps, CleanupSteps
<1>3. IdleClean'
  BY <1>1, OthersClean DEF IInv, IdleClean
<1>4. IdleConverged'
  <2>1. ASSUME NEW n \in Names, spent'["relist"] = 0, ~Pending(n)'
        PROVE  Converged(n)'
    <3>1. n \notin queue' \cup backoff'
      BY <2>1 DEF Pending
    <3>2. n \notin queue \cup backoff /\ worker.name # n
      BY <1>1, <3>1
    <3> QED BY <2>1, <3>2, OthersConverged DEF IInv
  <2> QED BY <2>1 DEF IdleConverged
<1> QED BY <1>2, <1>3, <1>4 DEF IInv, ApiInv

\* The pass goes on: only what it knows at its next step is to be shown.
LEMMA GoOnInv ==
  ASSUME IInv, TypeOK', ApiInv', ApiMoves, SpentGrows,
         worker'.name = worker.name, UNCHANGED <<queue, backoff>>,
         WorkerOwned', PassApplies', PassCleans'
  PROVE  IInv'
<1>1. IdleClean'
  BY OthersClean DEF IInv, IdleClean
<1>2. IdleConverged'
  BY OthersConverged DEF IInv, IdleConverged, Pending
<1> QED BY <1>1, <1>2 DEF IInv, ApiInv

\* The pass is over: what it leaves behind is to be shown for its name.
LEMMA EndInv ==
  ASSUME IInv, TypeOK', ApiInv', ApiMoves, SpentGrows,
         NEW m \in Names, worker.name = m,
         worker.pc # "idle", worker' = Idle, UNCHANGED <<queue, backoff>>,
         spent'["fault"] = 0 /\ m \notin queue /\ cache["proxy"][m] = None
           => Gone("cm", m)' /\ Gone("dep", m)',
         spent'["relist"] = 0 /\ ~Pending(m)' => Converged(m)'
  PROVE  IInv'
<1>1. WorkerOwned' /\ PassApplies' /\ PassCleans'
  BY DEF WorkerOwned, PassApplies, PassCleans, Idle, PassSteps, CleanupSteps
<1>2. IdleClean'
  <2>1. ASSUME NEW n \in Names, spent'["fault"] = 0, n \notin queue \cup backoff,
               cache'["proxy"][n] = None
        PROVE  Gone("cm", n)' /\ Gone("dep", n)'
    <3>1. CASE n = worker.name
      BY <2>1, <3>1 DEF ApiMoves
    <3>2. CASE n # worker.name
      BY <2>1, <3>2, OthersClean DEF IInv
    <3> QED BY <3>1, <3>2
  <2> QED BY <2>1 DEF IdleClean
<1>3. IdleConverged'
  <2>1. ASSUME NEW n \in Names, spent'["relist"] = 0, ~Pending(n)'
        PROVE  Converged(n)'
    <3>1. CASE n = worker.name
      BY <2>1, <3>1
    <3>2. CASE n # worker.name
      <4>1. n \notin queue \cup backoff
        BY <2>1 DEF Pending
      <4> QED BY <2>1, <3>2, <4>1, OthersConverged DEF IInv
    <3> QED BY <3>1, <3>2
  <2> QED BY <2>1 DEF IdleConverged
<1> QED BY <1>1, <1>2, <1>3 DEF IInv, ApiInv

(***************************************************************************)
(* A Create or an Update: when it is refused or fails the pass is retried, *)
(* when it is accepted the pass goes on.                                   *)
(***************************************************************************)
LEMMA WriteCases ==
  ASSUME IInv, TypeOK', worker.pc \in PassSteps, NEW accepted,
         NEW k \in Kinds, NEW obj \in Objects(k) \cup {None},
         k # "proxy" /\ obj # None => obj.owner # None,
         NEW pc, Write(accepted, k, obj, pc)
  PROVE  /\ ApiInv' /\ ApiMoves /\ SpentGrows
         /\ \/ IInv'
            \/ /\ accepted
               /\ Commit(k, worker.name, obj)
               /\ Goto(pc, None)
               /\ UNCHANGED <<queue, backoff, spent>>
<1>1. worker.name \in Names /\ ApiTypeOK /\ spent \in [Budgeted -> Nat]
  BY DEF IInv, TypeOK, WorkerTypeOK, PassSteps
<1>2. ApiInv /\ "fault" \in Budgeted
  BY DEF IInv, ApiInv, Budgeted
<1>3. ApiInv' /\ ApiMoves
  <2>1. CASE Commit(k, worker.name, obj)
    BY <1>1, <1>2, <2>1, CommitInv, CommitMoves
  <2>2. CASE UNCHANGED apiVars
    BY <1>2, <2>2, StutterMoves, StutterApiInv
  <2> QED BY <2>1, <2>2 DEF Write
<1>4. SpentGrows
  BY <1>1, <1>2, SpendGrows DEF Write
<1>5. CASE Retry
  BY <1>3, <1>4, <1>5, RetryInv DEF Write
<1> QED BY <1>3, <1>4, <1>5 DEF Write

\* A write nobody needs to be told of has changed nothing.
LEMMA CommitSeen ==
  ASSUME ApiTypeOK, ApiInv', NEW k \in Kinds, NEW n \in Names,
         NEW obj \in Objects(k) \cup {None}, Commit(k, n, obj),
         watch'[k][n] = <<>>
  PROVE  store[k][n] = obj /\ store'[k][n] = obj /\ cache'[k][n] = obj
<1>1. CASE watch'[k][n] = Append(watch[k][n], Stamped(k, n, obj))
  <2>1. watch[k][n] \in Seq(Objects(k) \cup {None})
        /\ Stamped(k, n, obj) \in Objects(k) \cup {None}
    BY StampedType DEF ApiTypeOK
  <2>2. watch'[k][n] # <<>>
    BY <1>1, <2>1
  <2> QED BY <2>2
<1>2. CASE obj = store[k][n] /\ store' = store
  BY <1>2 DEF ApiInv, Echo
<1> QED BY <1>1, <1>2, CommitEffect

\* A Delete whose error is ignored.
LEMMA DeleteEffect ==
  ASSUME IInv, worker.pc \in CleanupSteps, NEW k \in {"cm", "dep"},
         NEW n \in Names, worker.name = n,
         NEW pc, DeleteIgnoringErrors(k, pc)
  PROVE  /\ ApiInv' /\ ApiMoves /\ SpentGrows
         /\ spent'["fault"] = 0 => Gone(k, n)'
<1>1. /\ ApiTypeOK /\ spent \in [Budgeted -> Nat] /\ ApiInv
      /\ "fault" \in Budgeted /\ k \in Kinds /\ spent["fault"] \in Nat
  BY DEF IInv, ApiInv, TypeOK, Budgeted, Kinds
<1>2. CASE Commit(k, n, None) /\ UNCHANGED spent
  <2>1. ApiInv' /\ ApiMoves
    BY <1>1, <1>2, CommitInv, CommitMoves
  <2>2. Gone(k, n)'
    BY <1>1, <1>2, <2>1, CommitSeen DEF Gone
  <2> QED BY <1>1, <1>2, <2>1, <2>2, SpendGrows
<1>3. CASE Spend("fault") /\ UNCHANGED apiVars
  <2>1. spent'["fault"] # 0
    BY <1>1, <1>3 DEF Spend
  <2> QED BY <1>1, <1>3, <2>1, StutterMoves, StutterApiInv, SpendGrows
<1> QED BY <1>2, <1>3 DEF DeleteIgnoringErrors

LEMMA CleanupInv ==
  ASSUME IInv, TypeOK', DeleteConfigMap \/ DeleteDeployment
  PROVE  IInv'
<1>1. worker.pc \in CleanupSteps /\ worker.name \in Names /\ worker \in Worker
      /\ worker.pc # "idle"
  BY DEF IInv, TypeOK, WorkerTypeOK, DeleteConfigMap, DeleteDeployment, CleanupSteps
<1>2. PICK m \in Names : worker.name = m
  BY <1>1
<1>3. CASE DeleteConfigMap
  <2>1. worker.pc = "deleteCM" /\ DeleteIgnoringErrors("cm", "deleteDep")
    BY <1>3 DEF DeleteConfigMap
  <2>2. /\ ApiInv' /\ ApiMoves /\ SpentGrows
        /\ spent'["fault"] = 0 => Gone("cm", m)'
    BY <1>1, <1>2, <2>1, DeleteEffect
  <2>3. /\ worker'.name = m /\ worker'.pc = "deleteDep"
        /\ UNCHANGED <<queue, backoff>>
    BY <1>1, <1>2, <2>1 DEF DeleteIgnoringErrors, Goto, Worker
  <2>4. WorkerOwned' /\ PassApplies'
    BY <2>3 DEF WorkerOwned, PassApplies, PassSteps
  <2>5. PassCleans'
    BY <1>1, <1>2, <2>2, <2>3 DEF PassCleans, ApiMoves, IInv
  <2> QED BY <1>2, <2>2, <2>3, <2>4, <2>5, GoOnInv
<1>4. CASE DeleteDeployment
  <2>1. worker.pc = "deleteDep" /\ DeleteIgnoringErrors("dep", "idle")
    BY <1>4 DEF DeleteDeployment
  <2>2. /\ ApiInv' /\ ApiMoves /\ SpentGrows
        /\ spent'["fault"] = 0 => Gone("dep", m)'
    BY <1>1, <1>2, <2>1, DeleteEffect
  <2>3. worker' = Idle /\ UNCHANGED <<queue, backoff>>
    BY <2>1 DEF DeleteIgnoringErrors, Goto
  <2>4. ASSUME spent'["fault"] = 0, m \notin queue
        PROVE  Gone("cm", m)'
    <3>1. Gone("cm", m)
      BY <1>1, <1>2, <2>1, <2>2, <2>4 DEF IInv, PassCleans, SpentGrows, Budgeted
    <3> QED BY <2>2, <3>1 DEF Gone, ApiMoves, Kinds
  <2>5. ASSUME ~Pending(m)'
        PROVE  Converged(m)'
    <3>1. m \notin queue /\ watch'["proxy"][m] = <<>>
      BY <2>3, <2>5 DEF Pending, InSync, Kinds
    <3>2. cache["proxy"][m] = None
      BY <1>1, <1>2, <3>1 DEF IInv, PassCleans
    <3>3. store'["proxy"][m] = None
      BY <2>2, <3>1, <3>2 DEF ApiInv, Echo, ApiMoves, Kinds
    <3> QED BY <3>3 DEF Converged
  <2> QED BY <1>1, <1>2, <2>2, <2>3, <2>4, <2>5, EndInv
<1> QED BY <1>3, <1>4

\* A step of a pass that only reads.
LEMMA ReadInv ==
  ASSUME IInv, TypeOK', UNCHANGED <<apiVars, queue, backoff, spent>>,
         worker'.name = worker.name, worker'.pc \in PassSteps,
         WorkerOwned', PassApplies'
  PROVE  IInv'
<1>1. ApiInv' /\ ApiMoves
  BY StutterMoves, StutterApiInv DEF IInv, ApiInv
<1>2. SpentGrows
  BY DEF SpentGrows
<1>3. PassCleans'
  BY DEF PassCleans, PassSteps, CleanupSteps
<1> QED BY <1>1, <1>2, <1>3, GoOnInv

\* What a pass that no event has overtaken still knows after a read.
LEMMA PassPage ==
  ASSUME IInv, worker.pc \in PassSteps
  PROVE  /\ worker \in Worker /\ worker.name \in Names /\ worker.page \in Proxy
         /\ worker.pc # "idle" /\ ApiTypeOK
         /\ BuildConfigMap(worker.page) \in ConfigMap
         /\ BuildDeployment(worker.page) \in Deployment
  BY BuiltObjects DEF IInv, TypeOK, WorkerTypeOK, PassSteps

LEMMA GetConfigMapInv ==
  ASSUME IInv, TypeOK', GetConfigMap
  PROVE  IInv'
<1> DEFINE cm == BuildConfigMap(worker.page)
           existing == cache["cm"][worker.name]
<1>1. worker.pc = "getCM" /\ worker.pc \in PassSteps
  BY DEF GetConfigMap, PassSteps
<1>2. UNCHANGED <<apiVars, queue, backoff, spent>> /\ UNCHANGED cache /\ UNCHANGED watch
  BY DEF GetConfigMap, apiVars
<1>3. existing # None => existing \in ConfigMap /\ existing.owner # None
  BY <1>1, PassPage DEF IInv, ApiOwned, ApiTypeOK, Kinds, Objects
<1>4. ASSUME NEW pc \in PassSteps, NEW obj, Goto(pc, obj)
      PROVE  /\ worker'.pc = pc /\ worker'.obj = obj
             /\ worker'.name = worker.name /\ worker'.page = worker.page
  BY <1>1, <1>4, PassPage DEF Goto, Worker, PassSteps
<1>5. CASE existing = None /\ Goto("createCM", cm)
  <2>1. /\ worker'.pc = "createCM" /\ worker'.obj = cm
        /\ worker'.name = worker.name /\ worker'.page = worker.page
    BY <1>4, <1>5 DEF PassSteps
  <2>2. WorkerOwned'
    BY <1>1, <2>1, PassPage, BuiltObjects DEF WorkerOwned
  <2>3. PassApplies'
    BY <1>1, <1>2, <1>5, <2>1
       DEF IInv, PassApplies, HasConfig, AfterConfigMap, AfterDeployment
  <2> QED BY <1>2, <2>1, <2>2, <2>3, ReadInv DEF PassSteps
<1>6. CASE /\ existing # None /\ existing.data # cm.data
           /\ Goto("updateCM", [existing EXCEPT !.data = cm.data])
  <2>1. /\ worker'.pc = "updateCM" /\ worker'.obj = [existing EXCEPT !.data = cm.data]
        /\ worker'.name = worker.name /\ worker'.page = worker.page
    BY <1>4, <1>6 DEF PassSteps
  <2>2. worker'.obj.owner = existing.owner /\ worker'.obj.data = cm.data
    BY <1>3, <1>6, <2>1 DEF ConfigMap
  <2>3. WorkerOwned'
    BY <1>3, <1>6, <2>2 DEF WorkerOwned
  <2>4. PassApplies'
    BY <1>1, <1>2, <1>6, <2>1, <2>2
       DEF IInv, PassApplies, HasConfig, AfterConfigMap, AfterDeployment
  <2> QED BY <1>2, <2>1, <2>3, <2>4, ReadInv DEF PassSteps
<1>7. CASE existing # None /\ existing.data = cm.data /\ Goto("getDep", None)
  <2>1. /\ worker'.pc = "getDep"
        /\ worker'.name = worker.name /\ worker'.page = worker.page
    BY <1>4, <1>7 DEF PassSteps
  <2>2. WorkerOwned'
    BY <2>1 DEF WorkerOwned
  <2>3. PassApplies'
    BY <1>1, <1>2, <1>7, <2>1
       DEF IInv, PassApplies, HasConfig, AfterConfigMap, AfterDeployment
  <2> QED BY <1>2, <2>1, <2>2, <2>3, ReadInv DEF PassSteps
<1> QED BY <1>5, <1>6, <1>7 DEF GetConfigMap

LEMMA WriteConfigMapInv ==
  ASSUME IInv, TypeOK', CreateConfigMap \/ UpdateConfigMap
  PROVE  IInv'
<1>1. /\ worker.pc \in {"createCM", "updateCM"} /\ worker.pc \in PassSteps
      /\ worker.obj \in ConfigMap /\ worker.obj.owner # None /\ worker.obj # None
  BY NoneAssumption
     DEF IInv, TypeOK, WorkerTypeOK, WorkerOwned, CreateConfigMap, UpdateConfigMap, PassSteps
<1>2. PICK m \in Names : worker.name = m
  BY <1>1, PassPage
<1>3. worker.obj \in Objects("cm") \cup {None} /\ "cm" \in Kinds
  BY <1>1 DEF Objects, Kinds
<1>4. /\ ApiInv' /\ ApiMoves /\ SpentGrows
      /\ \/ IInv'
         \/ /\ worker.pc = "createCM" => store["cm"][m] = None
            /\ Commit("cm", m, worker.obj)
            /\ Goto("getDep", None)
            /\ UNCHANGED <<queue, backoff, spent>>
  <2>1. CASE CreateConfigMap
    BY <1>1, <1>2, <1>3, <2>1, WriteCases DEF CreateConfigMap
  <2>2. CASE UpdateConfigMap
    BY <1>1, <1>2, <1>3, <2>2, WriteCases DEF UpdateConfigMap
  <2> QED BY <2>1, <2>2
<1>5. CASE /\ worker.pc = "createCM" => store["cm"][m] = None
           /\ Commit("cm", m, worker.obj)
           /\ Goto("getDep", None)
           /\ UNCHANGED <<queue, backoff, spent>>
  <2>1. /\ worker'.pc = "getDep"
        /\ worker'.name = worker.name /\ worker'.page = worker.page
    BY <1>1, <1>5, PassPage DEF Goto, Worker
  <2>2. WorkerOwned' /\ PassCleans'
    BY <2>1 DEF WorkerOwned, PassCleans, CleanupSteps
  <2>3. ASSUME m \notin queue, watch'["cm"][m] = <<>>
        PROVE  HasConfig(cache'["cm"][m], worker.page)
    <3>1. store["cm"][m] = worker.obj /\ cache'["cm"][m] = worker.obj
      BY <1>1, <1>3, <1>4, <1>5, <2>3, CommitSeen, PassPage
    <3>2. worker.obj.data = BuildConfigMap(worker.page).data
      BY <1>1, <1>2, <2>3 DEF IInv, PassApplies
    <3> QED BY <1>1, <3>1, <3>2 DEF HasConfig
  <2>4. PassApplies'
    BY <1>1, <1>2, <1>4, <1>5, <2>1, <2>3
       DEF IInv, PassApplies, AfterConfigMap, AfterDeployment, ApiMoves
  <2> QED BY <1>4, <1>5, <2>1, <2>2, <2>4, GoOnInv
<1> QED BY <1>4, <1>5

LEMMA GetDeploymentInv ==
  ASSUME IInv, TypeOK', GetDeployment
  PROVE  IInv'
<1> DEFINE dep == BuildDeployment(worker.page)
           existing == cache["dep"][worker.name]
           updated == [existing EXCEPT !.replicas = dep.replicas, !.image = dep.image]
<1>1. worker.pc = "getDep" /\ worker.pc \in PassSteps
  BY DEF GetDeployment, PassSteps
<1>2. UNCHANGED <<apiVars, queue, spent>> /\ UNCHANGED cache /\ UNCHANGED watch
  BY DEF GetDeployment, apiVars
<1>3. existing # None => existing \in Deployment /\ existing.owner # None
  BY <1>1, PassPage DEF IInv, ApiOwned, ApiTypeOK, Kinds, Objects
<1>4. ASSUME NEW pc \in PassSteps, NEW obj, Goto(pc, obj)
      PROVE  /\ worker'.pc = pc /\ worker'.obj = obj
             /\ worker'.name = worker.name /\ worker'.page = worker.page
  BY <1>1, <1>4, PassPage DEF Goto, Worker, PassSteps
<1>5. CASE Retry
  <2>1. ApiInv' /\ ApiMoves /\ SpentGrows
    BY <1>2, StutterMoves, StutterApiInv DEF IInv, ApiInv, SpentGrows
  <2> QED BY <1>1, <1>2, <1>5, <2>1, RetryInv
<1>6. CASE existing = None /\ Goto("createDep", dep) /\ UNCHANGED backoff
  <2>1. /\ worker'.pc = "createDep" /\ worker'.obj = dep
        /\ worker'.name = worker.name /\ worker'.page = worker.page
    BY <1>4, <1>6 DEF PassSteps
  <2>2. WorkerOwned'
    BY <1>1, <2>1, PassPage, BuiltObjects DEF WorkerOwned
  <2>3. PassApplies'
    BY <1>1, <1>2, <1>6, <2>1
       DEF IInv, PassApplies, HasDeployment, DeploymentUpToDate,
           AfterConfigMap, AfterDeployment
  <2> QED BY <1>2, <1>6, <2>1, <2>2, <2>3, ReadInv DEF PassSteps
<1>7. CASE /\ existing # None /\ ~DeploymentUpToDate(existing, dep)
           /\ Goto("updateDep", updated) /\ UNCHANGED backoff
  <2>1. /\ worker'.pc = "updateDep" /\ worker'.obj = updated
        /\ worker'.name = worker.name /\ worker'.page = worker.page
    BY <1>4, <1>7 DEF PassSteps
  <2>2. /\ updated.owner = existing.owner
        /\ DeploymentUpToDate(updated, dep)
    BY <1>3, <1>7 DEF Deployment, DeploymentUpToDate
  <2>3. WorkerOwned'
    BY <1>3, <1>7, <2>1, <2>2 DEF WorkerOwned
  <2>4. PassApplies'
    BY <1>1, <1>2, <1>7, <2>1, <2>2
       DEF IInv, PassApplies, HasDeployment, AfterConfigMap, AfterDeployment
  <2> QED BY <1>2, <1>7, <2>1, <2>3, <2>4, ReadInv DEF PassSteps
<1>8. CASE /\ existing # None /\ DeploymentUpToDate(existing, dep)
           /\ Goto("checkDep", None) /\ UNCHANGED backoff
  <2>1. /\ worker'.pc = "checkDep"
        /\ worker'.name = worker.name /\ worker'.page = worker.page
    BY <1>4, <1>8 DEF PassSteps
  <2>2. WorkerOwned'
    BY <2>1 DEF WorkerOwned
  <2>3. PassApplies'
    BY <1>1, <1>2, <1>8, <2>1
       DEF IInv, PassApplies, HasDeployment, AfterConfigMap, AfterDeployment
  <2> QED BY <1>2, <1>8, <2>1, <2>2, <2>3, ReadInv DEF PassSteps
<1> QED BY <1>5, <1>6, <1>7, <1>8 DEF GetDeployment

LEMMA WriteDeploymentInv ==
  ASSUME IInv, TypeOK', CreateDeployment \/ UpdateDeployment
  PROVE  IInv'
<1>1. /\ worker.pc \in {"createDep", "updateDep"} /\ worker.pc \in PassSteps
      /\ worker.obj \in Deployment /\ worker.obj.owner # None /\ worker.obj # None
  BY NoneAssumption
     DEF IInv, TypeOK, WorkerTypeOK, WorkerOwned, CreateDeployment, UpdateDeployment, PassSteps
<1>2. PICK m \in Names : worker.name = m
  BY <1>1, PassPage
<1>3. worker.obj \in Objects("dep") \cup {None} /\ "dep" \in Kinds
  BY <1>1 DEF Objects, Kinds
<1>4. /\ ApiInv' /\ ApiMoves /\ SpentGrows
      /\ \/ IInv'
         \/ /\ Commit("dep", m, worker.obj)
            /\ Goto("checkDep", None)
            /\ UNCHANGED <<queue, backoff, spent>>
  <2>1. CASE CreateDeployment
    BY <1>1, <1>2, <1>3, <2>1, WriteCases DEF CreateDeployment
  <2>2. CASE UpdateDeployment
    BY <1>1, <1>2, <1>3, <2>2, WriteCases DEF UpdateDeployment
  <2> QED BY <2>1, <2>2
<1>5. CASE /\ Commit("dep", m, worker.obj)
           /\ Goto("checkDep", None)
           /\ UNCHANGED <<queue, backoff, spent>>
  <2>1. /\ worker'.pc = "checkDep"
        /\ worker'.name = worker.name /\ worker'.page = worker.page
    BY <1>1, <1>5, PassPage DEF Goto, Worker
  <2>2. WorkerOwned' /\ PassCleans'
    BY <2>1 DEF WorkerOwned, PassCleans, CleanupSteps
  <2>3. ASSUME m \notin queue, watch'["dep"][m] = <<>>
        PROVE  HasDeployment(cache'["dep"][m], worker.page)
    <3>1. cache'["dep"][m] = worker.obj
      BY <1>1, <1>3, <1>4, <1>5, <2>3, CommitSeen, PassPage
    <3>2. DeploymentUpToDate(worker.obj, BuildDeployment(worker.page))
      BY <1>1, <1>2, <2>3 DEF IInv, PassApplies
    <3> QED BY <1>1, <3>1, <3>2 DEF HasDeployment
  <2>4. ASSUME m \notin queue, spent["relist"] = 0, watch'["cm"][m] = <<>>
        PROVE  HasConfig(cache'["cm"][m], worker.page)
    BY <1>1, <1>2, <1>4, <2>4 DEF IInv, PassApplies, AfterConfigMap, ApiMoves, Kinds
  <2>5. PassApplies'
    BY <1>1, <1>2, <1>4, <1>5, <2>1, <2>3, <2>4
       DEF IInv, PassApplies, AfterConfigMap, AfterDeployment, ApiMoves
  <2> QED BY <1>4, <1>5, <2>1, <2>2, <2>5, GoOnInv
<1> QED BY <1>4, <1>5

LEMMA CheckDeploymentInv ==
  ASSUME IInv, TypeOK', CheckDeployment
  PROVE  IInv'
<1> DEFINE status == StatusOf(cache["dep"][worker.name])
<1>1. worker.pc = "checkDep" /\ worker.pc \in PassSteps
  BY DEF CheckDeployment, PassSteps
<1>2. UNCHANGED <<apiVars, queue, backoff, spent>> /\ UNCHANGED cache /\ UNCHANGED watch
  BY DEF CheckDeployment, apiVars
<1>3. /\ worker'.pc = "setStatus" /\ worker'.name = worker.name
      /\ worker'.page = [worker.page EXCEPT !.status = status]
  BY <1>1, PassPage DEF CheckDeployment, Worker
<1>4. /\ worker'.page.rv = worker.page.rv /\ worker'.page.uid = worker.page.uid
      /\ worker'.page.spec = worker.page.spec /\ worker'.page.status = status
  BY <1>1, <1>3, PassPage DEF Proxy
<1>5. /\ BuildConfigMap(worker'.page) = BuildConfigMap(worker.page)
      /\ BuildDeployment(worker'.page) = BuildDeployment(worker.page)
  BY <1>4 DEF BuildConfigMap, BuildDeployment
<1>6. WorkerOwned'
  BY <1>3 DEF WorkerOwned
<1>7. PassApplies'
  BY <1>1, <1>2, <1>3, <1>4, <1>5
     DEF IInv, PassApplies, HasConfig, HasDeployment, AfterConfigMap, AfterDeployment
<1> QED BY <1>2, <1>3, <1>6, <1>7, ReadInv DEF PassSteps

LEMMA SetStatusInv ==
  ASSUME IInv, TypeOK', SetStatus
  PROVE  IInv'
<1>1. /\ worker.pc = "setStatus" /\ worker.pc \in PassSteps
      /\ worker.page \in Objects("proxy") \cup {None} /\ "proxy" \in Kinds
      /\ worker.page # None
  BY PassPage, NoneAssumption DEF SetStatus, PassSteps, Objects, Kinds
<1>2. PICK m \in Names : worker.name = m
  BY <1>1, PassPage
<1>3. /\ ApiInv' /\ ApiMoves /\ SpentGrows
      /\ \/ IInv'
         \/ /\ Commit("proxy", m, worker.page)
            /\ Goto("idle", None)
            /\ UNCHANGED <<queue, backoff, spent>>
  BY <1>1, <1>2, WriteCases DEF SetStatus
<1>4. CASE /\ Commit("proxy", m, worker.page)
           /\ Goto("idle", None)
           /\ UNCHANGED <<queue, backoff, spent>>
  <2>1. worker' = Idle /\ UNCHANGED <<queue, backoff>>
    BY <1>4 DEF Goto
  <2>2. m \notin queue => cache["proxy"][m] # None
    BY <1>1, <1>2 DEF IInv, PassApplies
  <2>3. ASSUME spent'["relist"] = 0, ~Pending(m)'
        PROVE  Converged(m)'
    <3>1. m \notin queue /\ \A k \in Kinds : watch'[k][m] = <<>>
      BY <2>1, <2>3 DEF Pending, InSync
    <3>2. store'["proxy"][m] = worker.page
      BY <1>1, <1>3, <1>4, <3>1, CommitSeen, PassPage
    <3>3. \A k \in Kinds : watch[k][m] = <<>> /\ cache[k][m] = store'[k][m]
      BY <1>3, <3>1 DEF ApiMoves, ApiInv, Echo
    <3>4. /\ HasConfig(cache["cm"][m], worker.page)
          /\ HasDeployment(cache["dep"][m], worker.page)
          /\ worker.page.status = StatusOf(cache["dep"][m])
      BY <1>1, <1>2, <1>4, <2>3, <3>1, <3>3
         DEF IInv, PassApplies, AfterConfigMap, AfterDeployment, Kinds
    <3>5. Applied(m)'
      BY <3>2, <3>3, <3>4
         DEF Applied, HasConfig, HasDeployment, BuildConfigMap, Kinds
    <3> QED BY <3>2, <3>3, <3>4, <3>5 DEF Converged, Kinds
  <2> QED BY <1>1, <1>2, <1>3, <2>1, <2>2, <2>3, EndInv
<1> QED BY <1>3, <1>4

LEMMA ContinueInv ==
  ASSUME IInv, TypeOK', Continue
  PROVE  IInv'
  BY CleanupInv, GetConfigMapInv, WriteConfigMapInv, GetDeploymentInv,
     WriteDeploymentInv, CheckDeploymentInv, SetStatusInv DEF Continue

LEMMA BeginInv ==
  ASSUME IInv, TypeOK', NEW m \in Names, BeginReconcile(m)
  PROVE  IInv'
<1>1. /\ worker = Idle /\ worker.name = None
      /\ queue' = queue \ {m} /\ m \in queue
      /\ UNCHANGED <<store, watch, cache, rev, spent>>
  BY DEF IInv, TypeOK, WorkerTypeOK, BeginReconcile, apiVars, Idle
<1>2. ApiInv' /\ ApiMoves /\ SpentGrows
  BY <1>1, StutterMoves, StutterApiInv DEF IInv, ApiInv, SpentGrows, apiVars
<1>3. m \in backoff' \/ worker'.name = m
  BY DEF BeginReconcile, Idle
<1>4. backoff \subseteq backoff' /\ backoff' \subseteq backoff \cup {m}
  BY DEF BeginReconcile
<1>5. ASSUME NEW n \in Names, n \notin queue' \cup backoff', worker'.name # n
      PROVE  n \notin queue \cup backoff /\ worker.name # n
  BY <1>1, <1>3, <1>4, <1>5, NamesAssumption
<1>6. IdleClean'
  BY <1>2, <1>5, OthersClean DEF IInv, IdleClean
<1>7. IdleConverged'
  BY <1>2, <1>5, OthersConverged DEF IInv, IdleConverged, Pending
<1>8. WorkerOwned' /\ PassApplies' /\ PassCleans'
  <2>1. CASE UNCHANGED worker
    BY <1>1, <2>1 DEF WorkerOwned, PassApplies, PassCleans, Idle, PassSteps, CleanupSteps
  <2>2. CASE /\ cache["proxy"][m] = None
             /\ worker' = [Idle EXCEPT !.pc = "deleteCM", !.name = m]
    BY <1>1, <2>2 DEF WorkerOwned, PassApplies, PassCleans, Idle, PassSteps, CleanupSteps
  <2>3. CASE /\ cache["proxy"][m] # None
             /\ worker' = [Idle EXCEPT !.pc = "getCM", !.name = m,
                                       !.page = cache["proxy"][m]]
    BY <1>1, <2>3 DEF WorkerOwned, PassApplies, PassCleans, Idle, PassSteps, CleanupSteps,
                      AfterConfigMap, AfterDeployment
  <2> QED BY <2>1, <2>2, <2>3 DEF BeginReconcile
<1> QED BY <1>2, <1>6, <1>7, <1>8 DEF IInv, ApiInv

-----------------------------------------------------------------------------
(* Steps of the informers and of the process. *)

\* Every change of an owned object, and of a proxy, asks for a pass.
LEMMA Requested ==
  ASSUME NEW k \in Kinds, NEW n, NEW old, NEW new,
         k # "proxy" /\ old # None => old.owner # None,
         k # "proxy" /\ new # None => new.owner # None
  PROVE  n \in Requests(k, n, old, new) \/ (old = None /\ new = None)
  BY DEF Requests, Owned, Kinds

LEMMA EmptySeq ==
  ASSUME NEW S, NEW t \in Seq(S)
  PROVE  (t = <<>>) <=> (Len(t) = 0)
  OBVIOUS

LEMMA HeadTail ==
  ASSUME NEW S, NEW w \in Seq(S), w # <<>>
  PROVE  /\ Head(w) = w[1] /\ Len(w) \in Nat /\ 1 \in 1 .. Len(w)
         /\ Len(Tail(w)) = Len(w) - 1
         /\ \A i \in 1 .. Len(Tail(w)) : Tail(w)[i] = w[i + 1]
         /\ (Tail(w) = <<>>) <=> (Len(w) = 1)
<1>1. /\ Len(w) \in Nat /\ Len(w) # 0 /\ Head(w) = w[1]
      /\ Tail(w) \in Seq(S) /\ Len(Tail(w)) = Len(w) - 1
  OBVIOUS
<1>2. \A i \in 1 .. Len(Tail(w)) : Tail(w)[i] = w[i + 1]
  BY <1>1
<1>3. (Tail(w) = <<>>) <=> (Len(Tail(w)) = 0)
  BY <1>1, EmptySeq
<1> QED BY <1>1, <1>2, <1>3

\* An event replaces one object of the cache, and asks for its name.
LEMMA DeliverEffect ==
  ASSUME IInv, NEW k \in Kinds, NEW m \in Names, Deliver(k, m)
  PROVE  /\ UNCHANGED <<store, backoff, worker, spent>>
         /\ \A k2 \in Kinds, n2 \in Names :
              k2 # k \/ n2 # m => /\ cache'[k2][n2] = cache[k2][n2]
                                  /\ watch'[k2][n2] = watch[k2][n2]
         /\ cache'[k][m] = watch[k][m][1]
         /\ Len(watch[k][m]) \in Nat /\ 1 \in 1 .. Len(watch[k][m])
         /\ Len(watch'[k][m]) = Len(watch[k][m]) - 1
         /\ \A i \in 1 .. Len(watch'[k][m]) : watch'[k][m][i] = watch[k][m][i + 1]
         /\ (watch'[k][m] = <<>>) <=> (Len(watch[k][m]) = 1)
         /\ watch[k][m] # <<>>
         /\ queue \subseteq queue' /\ m \in queue'
         /\ \A n \in Names : n # m => (n \in queue' <=> n \in queue)
<1> DEFINE new == Head(watch[k][m])
<1>1. /\ watch[k][m] \in Seq(Objects(k) \cup {None}) /\ watch[k][m] # <<>>
      /\ DOMAIN cache = Kinds /\ DOMAIN watch = Kinds
      /\ \A x \in Kinds : DOMAIN cache[x] = Names /\ DOMAIN watch[x] = Names
  <2>1. ApiTypeOK /\ watch[k][m] # <<>>
    BY DEF Deliver, IInv, TypeOK
  <2>2. watch[k][m] \in Seq(Objects(k) \cup {None})
    BY <2>1 DEF ApiTypeOK
  <2>3. \A x \in Kinds : DOMAIN cache[x] = Names /\ DOMAIN watch[x] = Names
    BY <2>1 DEF ApiTypeOK
  <2> QED BY <2>1, <2>2, <2>3 DEF ApiTypeOK
<1>2. /\ UNCHANGED <<store, backoff, worker, spent>>
      /\ cache'[k][m] = new /\ watch'[k][m] = Tail(watch[k][m])
      /\ \A k2 \in Kinds, n2 \in Names :
           k2 # k \/ n2 # m => /\ cache'[k2][n2] = cache[k2][n2]
                               /\ watch'[k2][n2] = watch[k2][n2]
      /\ queue' = queue \cup Requests(k, m, cache[k][m], new)
  BY <1>1 DEF Deliver
<1>3. /\ new = watch[k][m][1] /\ Len(watch[k][m]) \in Nat /\ 1 \in 1 .. Len(watch[k][m])
      /\ Len(watch'[k][m]) = Len(watch[k][m]) - 1
      /\ \A i \in 1 .. Len(watch'[k][m]) : watch'[k][m][i] = watch[k][m][i + 1]
      /\ (watch'[k][m] = <<>>) <=> (Len(watch[k][m]) = 1)
  BY <1>1, <1>2, HeadTail
<1>4. m \in queue' /\ \A n \in Names : n # m => (n \in queue' <=> n \in queue)
  <2>1. k # "proxy" => /\ cache[k][m] # None => cache[k][m].owner # None
                       /\ new # None => new.owner # None
    BY <1>3 DEF IInv, ApiOwned, Kinds
  <2>2. ~(cache[k][m] = None /\ new = None)
    BY <1>3 DEF IInv, DeletesSomething
  <2>3. m \in Requests(k, m, cache[k][m], new)
    BY <2>1, <2>2, Requested
  <2> QED BY <1>2, <2>3 DEF Requests
<1> QED BY <1>1, <1>2, <1>3, <1>4

LEMMA DeliverInv ==
  ASSUME IInv, TypeOK', NEW k \in Kinds, NEW m \in Names, Deliver(k, m)
  PROVE  IInv'
<1> DEFINE new == watch[k][m][1]
<1>2. /\ UNCHANGED <<store, backoff, worker, spent>>
      /\ cache'[k][m] = new
      /\ \A k2 \in Kinds, n2 \in Names :
           k2 # k \/ n2 # m => /\ cache'[k2][n2] = cache[k2][n2]
                               /\ watch'[k2][n2] = watch[k2][n2]
  BY DeliverEffect
<1>3. /\ Len(watch[k][m]) \in Nat /\ 1 \in 1 .. Len(watch[k][m])
      /\ Len(watch'[k][m]) = Len(watch[k][m]) - 1
      /\ \A i \in 1 .. Len(watch'[k][m]) : watch'[k][m][i] = watch[k][m][i + 1]
      /\ (watch'[k][m] = <<>>) <=> (Len(watch[k][m]) = 1)
      /\ watch[k][m] # <<>>
  BY DeliverEffect
<1>4. Echo'
  <2>1. ASSUME NEW k2 \in Kinds, NEW n2 \in Names
        PROVE  IF watch'[k2][n2] = <<>>
               THEN cache'[k2][n2] = store'[k2][n2]
               ELSE watch'[k2][n2][Len(watch'[k2][n2])] = store'[k2][n2]
    <3>1. CASE k2 = k /\ n2 = m
      <4>1. watch[k][m][Len(watch[k][m])] = store[k][m]
        BY <1>3 DEF IInv, Echo
      <4>2. CASE watch'[k][m] = <<>>
        BY <1>2, <1>3, <3>1, <4>1, <4>2
      <4>3. CASE watch'[k][m] # <<>>
        <5>1. /\ Len(watch'[k][m]) \in 1 .. Len(watch'[k][m])
              /\ Len(watch'[k][m]) + 1 = Len(watch[k][m])
          BY <1>3, <4>3
        <5>2. watch'[k][m][Len(watch'[k][m])] = watch[k][m][Len(watch[k][m])]
          BY <1>3, <5>1
        <5> QED BY <1>2, <3>1, <4>1, <4>3, <5>2
      <4> QED BY <4>2, <4>3
    <3>2. CASE k2 # k \/ n2 # m
      BY <1>2, <3>2 DEF IInv, Echo
    <3> QED BY <3>1, <3>2
  <2> QED BY <2>1 DEF Echo
<1>5. DeletesSomething'
  <2>1. ASSUME NEW k2 \in Kinds, NEW n2 \in Names,
               NEW i \in 1 .. Len(watch'[k2][n2]), watch'[k2][n2][i] = None
        PROVE  IF i = 1 THEN cache'[k2][n2] # None ELSE watch'[k2][n2][i - 1] # None
    <3>1. CASE k2 = k /\ n2 = m
      <4>1. /\ i \in Nat /\ i + 1 \in 1 .. Len(watch[k][m]) /\ i + 1 # 1
            /\ watch[k][m][i + 1] = None
            /\ i # 1 => i - 1 \in 1 .. Len(watch'[k][m])
        BY <1>3, <2>1, <3>1
      <4>2. watch[k][m][(i + 1) - 1] # None
        BY <4>1 DEF IInv, DeletesSomething
      <4>3. (i + 1) - 1 = i /\ (i # 1 => (i - 1) + 1 = i)
        BY <4>1
      <4>4. watch[k][m][i] # None
        BY <4>2, <4>3
      <4>5. i # 1 => watch'[k][m][i - 1] = watch[k][m][i]
        BY <1>3, <4>1, <4>3
      <4> QED BY <1>2, <1>3, <3>1, <4>4, <4>5
    <3>2. CASE k2 # k \/ n2 # m
      BY <1>2, <2>1, <3>2 DEF IInv, DeletesSomething
    <3> QED BY <3>1, <3>2
  <2> QED BY <2>1 DEF DeletesSomething
<1>6. ApiOwned'
  <2>1. ASSUME NEW k2 \in {"cm", "dep"}, NEW n2 \in Names
        PROVE  /\ store'[k2][n2] # None => store'[k2][n2].owner # None
               /\ cache'[k2][n2] # None => cache'[k2][n2].owner # None
               /\ \A i \in 1 .. Len(watch'[k2][n2]) :
                    watch'[k2][n2][i] # None => watch'[k2][n2][i].owner # None
    <3>1. CASE k2 = k /\ n2 = m
      <4>1. ASSUME NEW i \in 1 .. Len(watch'[k][m])
            PROVE  i + 1 \in 1 .. Len(watch[k][m])
        BY <1>3
      <4>2. ASSUME NEW i \in 1 .. Len(watch'[k][m]), watch'[k][m][i] # None
            PROVE  watch'[k][m][i].owner # None
        <5>1. watch'[k][m][i] = watch[k][m][i + 1]
          BY <1>3
        <5> QED BY <3>1, <4>1, <4>2, <5>1 DEF IInv, ApiOwned
      <4>3. cache'[k][m] # None => cache'[k][m].owner # None
        BY <1>2, <1>3, <3>1 DEF IInv, ApiOwned
      <4>4. store'[k][m] # None => store'[k][m].owner # None
        BY <1>2, <3>1 DEF IInv, ApiOwned
      <4> QED BY <3>1, <4>2, <4>3, <4>4
    <3>2. CASE k2 # k \/ n2 # m
      BY <1>2, <3>2 DEF IInv, ApiOwned, Kinds
    <3> QED BY <3>1, <3>2
  <2> QED BY <2>1 DEF ApiOwned
<1>7. m \in queue' /\ \A n \in Names : n # m => (n \in queue' <=> n \in queue)
  BY DeliverEffect
<1>8. WorkerOwned'
  BY <1>2 DEF IInv, WorkerOwned
<1>9. PassApplies' /\ PassCleans'
  <2>1. CASE worker.name = m
    BY <1>2, <1>7, <2>1 DEF PassApplies, PassCleans
  <2>2. CASE worker.name # m
    <3>1. worker.pc \in PassSteps \cup CleanupSteps => worker.name \in Names
      BY DEF IInv, TypeOK, WorkerTypeOK, PassSteps, CleanupSteps
    <3>2. PassApplies'
      BY <1>2, <1>7, <2>2, <3>1 DEF IInv, PassApplies, Kinds
    <3>3. PassCleans'
      BY <1>2, <1>7, <2>2, <3>1 DEF IInv, PassCleans, Gone, Kinds
    <3> QED BY <3>2, <3>3
  <2> QED BY <2>1, <2>2
<1>10. IdleClean'
  BY <1>2, <1>7 DEF IInv, IdleClean, Gone, Kinds
<1>11. IdleConverged'
  <2>1. ASSUME NEW n \in Names, spent'["relist"] = 0, ~Pending(n)'
        PROVE  Converged(n)'
    <3>1. n # m /\ n \notin queue
      BY <1>7, <2>1 DEF Pending
    <3>2. ~Pending(n)
      BY <1>2, <2>1, <3>1 DEF Pending, InSync
    <3>3. Converged(n)
      BY <1>2, <2>1, <3>2 DEF IInv, IdleConverged
    <3> QED BY <1>2, <3>3 DEF Converged, Applied
  <2> QED BY <2>1 DEF IdleConverged
<1> QED BY <1>4, <1>5, <1>6, <1>8, <1>9, <1>10, <1>11 DEF IInv

\* A step that only puts names into the queue.
LEMMA EnqueueInv ==
  ASSUME IInv, TypeOK', UNCHANGED <<apiVars, worker, spent>>,
         queue \subseteq queue', queue \cup backoff \subseteq queue' \cup backoff'
  PROVE  IInv'
<1>1. ApiInv' /\ ApiMoves /\ SpentGrows
  BY StutterMoves, StutterApiInv DEF IInv, ApiInv, SpentGrows
<1>2. WorkerOwned'
  BY DEF IInv, WorkerOwned
<1>3. PassApplies' /\ PassCleans'
  BY DEF IInv, PassApplies, PassCleans, Gone, apiVars
<1>4. IdleClean'
  BY <1>1, OthersClean DEF IInv, IdleClean
<1>5. IdleConverged'
  BY <1>1, OthersConverged DEF IInv, IdleConverged, Pending
<1> QED BY <1>1, <1>2, <1>3, <1>4, <1>5 DEF IInv, ApiInv

\* Replacing a cache by a List asks for every name whose object changes.
LEMMA RelistInv ==
  ASSUME IInv, TypeOK', NEW k \in Kinds, Relist(k)
  PROVE  IInv'
<1>1. /\ DOMAIN cache = Kinds /\ DOMAIN watch = Kinds
      /\ spent \in [Budgeted -> Nat] /\ "relist" \in Budgeted
      /\ DOMAIN watch[k] = Names
  BY DEF IInv, TypeOK, ApiTypeOK, Budgeted
<1>2. /\ UNCHANGED <<store, backoff, worker>>
      /\ \A n \in Names : cache'[k][n] = store[k][n] /\ watch'[k][n] = <<>>
      /\ \A k2 \in Kinds : k2 # k => cache'[k2] = cache[k2] /\ watch'[k2] = watch[k2]
      /\ queue \subseteq queue'
      /\ \A n \in Names : Requests(k, n, cache[k][n], store[k][n]) \subseteq queue'
  BY <1>1 DEF Relist
<1>3. spent'["relist"] # 0 /\ SpentGrows
  <2>1. spent'["relist"] = spent["relist"] + 1 /\ spent["relist"] \in Nat
    BY <1>1 DEF Relist, Spend
  <2> QED BY <1>1, <2>1, SpendGrows DEF Relist
<1>4. Echo' /\ DeletesSomething'
  BY <1>2 DEF IInv, Echo, DeletesSomething
<1>5. ApiOwned'
  BY <1>2 DEF IInv, ApiOwned, Kinds
<1>6. ASSUME NEW n \in Names, n \notin queue'
      PROVE  /\ cache'[k][n] = None
             /\ n \notin queue
             /\ cache[k][n] = None
             /\ \A k2 \in Kinds : cache'[k2][n] = cache[k2][n]
  <2>1. k # "proxy" => /\ cache[k][n] # None => cache[k][n].owner # None
                       /\ store[k][n] # None => store[k][n].owner # None
    BY DEF IInv, ApiOwned, Kinds
  <2>2. cache[k][n] = None /\ store[k][n] = None
    BY <1>2, <1>6, <2>1, Requested
  <2> QED BY <1>2, <1>6, <2>2
<1>7. ASSUME NEW n \in Names, NEW k2 \in Kinds, n \notin queue', Gone(k2, n)
      PROVE  Gone(k2, n)'
  BY <1>2, <1>6, <1>7 DEF Gone
<1>8. worker.pc \in PassSteps \cup CleanupSteps => worker.name \in Names
  BY DEF IInv, TypeOK, WorkerTypeOK, PassSteps, CleanupSteps
<1>9. WorkerOwned'
  BY <1>2 DEF IInv, WorkerOwned
<1>10. PassApplies'
  <2>1. SUFFICES ASSUME worker.pc \in PassSteps, worker.name \notin queue'
                 PROVE  PassApplies'
    BY <1>2 DEF PassApplies
  <2>2. /\ worker.name \notin queue
        /\ \A k2 \in Kinds : cache'[k2][worker.name] = cache[k2][worker.name]
    BY <1>6, <1>8, <2>1
  <2> QED BY <1>2, <1>3, <2>1, <2>2 DEF IInv, PassApplies, Kinds
<1>11. PassCleans'
  <2>1. SUFFICES ASSUME NEW n \in Names, worker.name = n,
                        worker.pc \in CleanupSteps, n \notin queue'
                 PROVE  PassCleans'
    BY <1>2, <1>8 DEF PassCleans
  <2>2. n \notin queue /\ cache'["proxy"][n] = cache["proxy"][n]
    BY <1>6, <2>1 DEF Kinds
  <2>3. Gone("cm", n) => Gone("cm", n)'
    BY <1>7, <2>1 DEF Kinds
  <2> QED BY <1>2, <1>3, <2>1, <2>2, <2>3 DEF IInv, PassCleans, SpentGrows, Budgeted
<1>12. IdleClean'
  <2>1. ASSUME NEW n \in Names, spent'["fault"] = 0, n \notin queue' \cup backoff',
               worker'.name # n, cache'["proxy"][n] = None
        PROVE  Gone("cm", n)' /\ Gone("dep", n)'
    <3>1. n \notin queue \cup backoff /\ worker.name # n /\ cache["proxy"][n] = None
      BY <1>2, <1>6, <2>1 DEF Kinds
    <3>2. Gone("cm", n) /\ Gone("dep", n)
      BY <1>3, <2>1, <3>1 DEF IInv, IdleClean, SpentGrows, Budgeted
    <3> QED BY <1>7, <2>1, <3>2 DEF Kinds
  <2> QED BY <2>1 DEF IdleClean
<1>13. IdleConverged'
  BY <1>3 DEF IdleConverged
<1> QED BY <1>4, <1>5, <1>9, <1>10, <1>11, <1>12, <1>13 DEF IInv

\* A new process starts from what the server has and queues all of it.
LEMMA StartInv ==
  ASSUME IInv, TypeOK', StartController
  PROVE  IInv'
<1>1. /\ store' = store /\ cache' = store /\ worker' = Idle
      /\ \A k \in Kinds, n \in Names : watch'[k][n] = <<>>
      /\ \A k \in Kinds, n \in Names : Requests(k, n, None, store[k][n]) \subseteq queue'
  BY DEF StartController
<1>2. Echo' /\ DeletesSomething'
  BY <1>1 DEF Echo, DeletesSomething
<1>3. ApiOwned'
  BY <1>1 DEF IInv, ApiOwned, Kinds
<1>4. WorkerOwned' /\ PassApplies' /\ PassCleans'
  BY <1>1 DEF WorkerOwned, PassApplies, PassCleans, Idle, PassSteps, CleanupSteps
<1>5. ASSUME NEW n \in Names, n \notin queue', NEW k \in Kinds
      PROVE  store[k][n] = None
  <2>1. k # "proxy" => (store[k][n] # None => store[k][n].owner # None)
    BY DEF IInv, ApiOwned, Kinds
  <2> QED BY <1>1, <1>5, <2>1, Requested
<1>6. IdleClean'
  BY <1>1, <1>5 DEF IdleClean, Gone, Kinds
<1>7. IdleConverged'
  BY <1>1, <1>5 DEF IdleConverged, Pending, Converged, Kinds
<1> QED BY <1>2, <1>3, <1>4, <1>6, <1>7 DEF IInv

LEMMA EnvironmentInv ==
  ASSUME ~Foreign, IInv, TypeOK', Environment
  PROVE  IInv'
<1>1. ASSUME NEW n \in Names, BackoffExpires(n)
      PROVE  IInv'
  BY <1>1, EnqueueInv DEF BackoffExpires
<1>2. ASSUME NEW n \in Names, Resync(n)
      PROVE  IInv'
  BY <1>2, EnqueueInv DEF Resync
<1>3. ASSUME NEW n \in Names, OtherWriter(n)
      PROVE  IInv'
  <2>1. TypeOK
    BY DEF IInv
  <2>2. PICK k \in Kinds : \E obj \in Objects(k) \cup {None} :
          External(k, n, obj) /\ KeepsOwner(k, n, obj)
    BY <1>3, <2>1, OtherWrites
  <2>3. PICK obj \in Objects(k) \cup {None} :
          External(k, n, obj) /\ KeepsOwner(k, n, obj)
    BY <2>2
  <2>4. k # "proxy" /\ obj # None => obj.owner # None
    BY <2>3 DEF KeepsOwner, IInv, ApiOwned, Kinds
  <2>5. SpentGrows
    BY <1>3, <2>1, OtherWrites, SpendGrows DEF SpendsSomething, SpentGrows, TypeOK
  <2> QED BY <2>3, <2>4, <2>5, ExternalInv
<1> QED BY <1>1, <1>2, <1>3, RelistInv, StartInv, DeliverInv DEF Environment, Restart

LEMMA InitInv ==
  ASSUME Init
  PROVE  IInv
<1>1. Echo /\ DeletesSomething /\ ApiOwned
  BY DEF Init, ApiInit, Echo, DeletesSomething, ApiOwned, Kinds
<1>2. WorkerOwned /\ PassApplies /\ PassCleans
  BY DEF Init, WorkerOwned, PassApplies, PassCleans, Idle, PassSteps, CleanupSteps
<1>3. IdleClean /\ IdleConverged
  BY DEF Init, ApiInit, IdleClean, IdleConverged, Gone, Converged, Kinds
<1> QED BY <1>1, <1>2, <1>3, TypeInit DEF IInv

LEMMA StepInv ==
  ASSUME ~Foreign, IInv, [Next]_vars
  PROVE  IInv'
<1>1. TypeOK'
  BY TypeStep DEF IInv
<1>2. CASE UNCHANGED vars
  BY <1>1, <1>2, EnqueueInv DEF vars, apiVars
<1>3. CASE Next
  BY <1>1, <1>3, BeginInv, ContinueInv, EnvironmentInv DEF Next, Reconcile
<1> QED BY <1>2, <1>3

-----------------------------------------------------------------------------
(***************************************************************************)
(* The same after an expired watch, as long as only the controller and the *)
(* garbage collector delete: HInv, given IInv.                             *)
(***************************************************************************)

\* A pass over n is under way or in a queue.
Busy(n) == n \in queue \cup backoff \/ worker.name = n

\* What HInv says of a name nobody is working on.
Rests(n) ==
  /\ cache["proxy"][n] # None /\ watch["proxy"][n] = <<>>
       => Held("cm", n) /\ Held("dep", n)
  /\ ~Pending(n) => Converged(n)

LEMMA HoldRests ==
  ASSUME HInv, spent["delete"] = 0, NEW n \in Names, ~Busy(n)
  PROVE  Rests(n)
  BY DEF HInv, IdleHolds, IdleSettled, Busy, Rests, Pending

\* A step that concerns m only.
LEMMA HoldElsewhere ==
  ASSUME HInv, SpentGrows, NEW m \in Names,
         \A n \in Names \ {m}, k \in Kinds :
           /\ store'[k][n] = store[k][n] /\ cache'[k][n] = cache[k][n]
           /\ watch'[k][n] = <<>> => watch[k][n] = <<>>,
         \A n \in Names \ {m} : Busy(n) => Busy(n)',
         BuiltForPage', spent'["delete"] = 0 => PassHolds',
         spent'["delete"] = 0 /\ ~Busy(m)' => Rests(m)'
  PROVE  HInv'
<1>1. ASSUME NEW n \in Names \ {m}, spent["delete"] = 0, ~Busy(n)'
      PROVE  Rests(n)'
  <2>1. Rests(n)
    BY <1>1, HoldRests
  <2>2. ~Pending(n)' => ~Pending(n)
    BY <1>1 DEF Pending, InSync, Busy
  <2>3. \A k \in Kinds : store'[k][n] = store[k][n] /\ cache'[k][n] = cache[k][n]
    OBVIOUS
  <2>4. Converged(n) => Converged(n)'
    BY <2>3 DEF Converged, Applied, Kinds
  <2> QED BY <2>1, <2>2, <2>3, <2>4 DEF Rests, Held, Kinds
<1>2. spent'["delete"] = 0 => spent["delete"] = 0
  BY DEF SpentGrows, Budgeted
<1>3. spent'["delete"] = 0 => \A n \in Names : ~Busy(n)' => Rests(n)'
  BY <1>1, <1>2
<1>4. spent'["delete"] = 0 => IdleHolds' /\ IdleSettled'
  BY <1>3 DEF IdleHolds, IdleSettled, Busy, Rests, Pending
<1> QED BY <1>4 DEF HInv

-----------------------------------------------------------------------------
(* Steps of the informers, of the process and of everybody else. *)

LEMMA EnqueueHold ==
  ASSUME HInv, UNCHANGED <<apiVars, worker, spent>>,
         queue \subseteq queue', queue \cup backoff \subseteq queue' \cup backoff'
  PROVE  HInv'
<1>1. BuiltForPage' /\ (spent["delete"] = 0 => PassHolds')
  BY DEF HInv, BuiltForPage, PassHolds, Held, apiVars
<1>2. ASSUME NEW n \in Names, spent["delete"] = 0
      PROVE  ~Pending(n)' => Converged(n)'
  BY <1>2 DEF HInv, IdleSettled, Pending, InSync, Converged, Applied, apiVars
<1>3. spent["delete"] = 0 => IdleHolds'
  BY DEF HInv, IdleHolds, Held, apiVars
<1> QED BY <1>1, <1>2, <1>3 DEF HInv, IdleSettled

LEMMA DeliverHold ==
  ASSUME IInv, HInv, NEW k \in Kinds, NEW m \in Names, Deliver(k, m)
  PROVE  HInv'
<1>1. /\ UNCHANGED <<store, backoff, worker, spent>>
      /\ \A k2 \in Kinds, n2 \in Names :
           n2 # m => cache'[k2][n2] = cache[k2][n2] /\ watch'[k2][n2] = watch[k2][n2]
      /\ queue \subseteq queue' /\ m \in queue'
  BY DeliverEffect
<1>2. BuiltForPage' /\ SpentGrows
  BY <1>1 DEF HInv, BuiltForPage, SpentGrows
<1>3. spent["delete"] = 0 => PassHolds'
  <2>1. worker.pc \in PassSteps => worker.name \in Names
    BY DEF IInv, TypeOK, WorkerTypeOK, PassSteps
  <2> QED BY <1>1, <2>1 DEF HInv, PassHolds, Held, Kinds
<1>4. \A n \in Names : Busy(n) => Busy(n)'
  BY <1>1 DEF Busy
<1>5. Busy(m)'
  BY <1>1 DEF Busy
<1> QED BY <1>1, <1>2, <1>3, <1>4, <1>5, HoldElsewhere

LEMMA RelistHold ==
  ASSUME IInv, IInv', HInv, NEW k \in Kinds, Relist(k)
  PROVE  HInv'
<1>1. /\ UNCHANGED <<store, backoff, worker>>
      /\ \A n \in Names : cache'[k][n] = store[k][n] /\ watch'[k][n] = <<>>
      /\ \A k2 \in Kinds : k2 # k => cache'[k2] = cache[k2] /\ watch'[k2] = watch[k2]
      /\ queue \subseteq queue'
      /\ spent'["delete"] = spent["delete"]
  <2>1. spent' = [spent EXCEPT !["relist"] = @ + 1]
    BY DEF Relist, Spend
  <2>2. spent'["delete"] = spent["delete"]
    BY <2>1
  <2>3. UNCHANGED <<store, backoff, worker>> /\ queue \subseteq queue'
    BY DEF Relist
  <2>4. /\ DOMAIN cache = Kinds /\ DOMAIN watch = Kinds
        /\ cache' = [cache EXCEPT ![k] = store[k]]
        /\ watch' = [watch EXCEPT ![k] = [n \in Names |-> <<>>]]
    BY DEF Relist, IInv, TypeOK, ApiTypeOK
  <2> QED BY <2>2, <2>3, <2>4
<1>2. ASSUME NEW n \in Names, n \notin queue'
      PROVE  cache[k][n] = None /\ store[k][n] = None
  <2>1. k # "proxy" => /\ cache[k][n] # None => cache[k][n].owner # None
                       /\ store[k][n] # None => store[k][n].owner # None
    BY DEF IInv, ApiOwned, Kinds
  <2>2. Requests(k, n, cache[k][n], store[k][n]) \subseteq queue'
    BY DEF Relist
  <2> QED BY <1>2, <2>1, <2>2, Requested
<1>3. BuiltForPage'
  BY <1>1 DEF HInv, BuiltForPage
\* Nothing a resting proxy needs is what this List says has gone.
<1>4. ASSUME NEW n \in Names, n \notin queue', cache["proxy"][n] # None,
             watch["proxy"][n] = <<>>, Held("cm", n), Held("dep", n)
      PROVE  FALSE
  <2>1. k # "proxy"
    BY <1>2, <1>4
  <2>2. k \in {"cm", "dep"} /\ ~Held(k, n)
    BY <1>2, <1>4, <2>1 DEF Held, Kinds
  <2> QED BY <1>4, <2>2
<1>5. ASSUME spent["delete"] = 0
      PROVE  PassHolds'
  <2> DEFINE n == worker.name
  <2> SUFFICES ASSUME worker.pc \in PassSteps, n \notin queue'
               PROVE  PassHolds'
    BY <1>1 DEF PassHolds
  <2>1. n \in Names /\ n \notin queue
    BY <1>1 DEF IInv, TypeOK, WorkerTypeOK, PassSteps
  <2>2. cache["proxy"][n] # None /\ k # "proxy"
    BY <1>2, <2>1 DEF IInv, PassApplies
  <2>3. cache'["proxy"] = cache["proxy"] /\ watch'["proxy"] = watch["proxy"]
    BY <1>1, <2>2 DEF Kinds
  <2>4. cache[k][n] = None /\ store[k][n] = None
    BY <1>2, <2>1
  <2>5. PassHolds
    BY <1>5 DEF HInv
  <2>6. CASE k = "cm"
    <3>1. cache'["dep"] = cache["dep"] /\ watch'["dep"] = watch["dep"]
      BY <1>1, <2>6 DEF Kinds
    <3> QED BY <1>1, <2>1, <2>3, <2>4, <2>5, <2>6, <3>1
            DEF PassHolds, Held, AfterConfigMap, AfterDeployment
  <2>7. CASE k = "dep"
    <3>1. cache'["cm"] = cache["cm"] /\ watch'["cm"] = watch["cm"]
      BY <1>1, <2>7 DEF Kinds
    <3> QED BY <1>1, <2>1, <2>3, <2>4, <2>5, <2>7, <3>1
            DEF PassHolds, Held, AfterConfigMap, AfterDeployment
  <2> QED BY <2>2, <2>6, <2>7 DEF Kinds
<1>6. ASSUME spent["delete"] = 0, NEW n \in Names, ~Busy(n)'
      PROVE  Rests(n)'
  <2>1. n \notin queue' /\ ~Busy(n)
    BY <1>1, <1>6 DEF Busy
  <2>2. Rests(n)
    BY <1>6, <2>1, HoldRests
  <2>3. ASSUME cache'["proxy"][n] # None, watch'["proxy"][n] = <<>>
        PROVE  FALSE
    <3>1. k # "proxy"
      BY <1>1, <1>2, <2>1, <2>3
    <3>2. cache["proxy"][n] # None /\ watch["proxy"][n] = <<>>
      BY <1>1, <2>3, <3>1 DEF Kinds
    <3> QED BY <1>4, <2>1, <2>2, <3>2 DEF Rests
  <2>4. ~Pending(n)' => watch'["proxy"][n] = <<>> /\ cache'["proxy"][n] = store'["proxy"][n]
    BY DEF Pending, InSync, IInv, Echo, Kinds
  <2> QED BY <2>3, <2>4 DEF Rests, Converged
<1>7. spent'["delete"] = 0 => IdleHolds' /\ IdleSettled'
  BY <1>1, <1>6 DEF IdleHolds, IdleSettled, Busy, Rests, Pending
<1> QED BY <1>1, <1>3, <1>5, <1>7 DEF HInv

LEMMA StartHold ==
  ASSUME IInv, StartController
  PROVE  HInv'
<1>1. /\ store' = store /\ cache' = store /\ worker' = Idle
      /\ \A n \in Names : Requests("proxy", n, None, store["proxy"][n]) \subseteq queue'
  BY DEF StartController, Kinds
<1>2. ASSUME NEW n \in Names, n \notin queue'
      PROVE  store["proxy"][n] = None
  BY <1>1, <1>2, Requested DEF Kinds
<1>3. BuiltForPage' /\ PassHolds'
  BY <1>1 DEF BuiltForPage, PassHolds, Idle, PassSteps
<1>4. IdleHolds' /\ IdleSettled'
  BY <1>1, <1>2 DEF IdleHolds, IdleSettled, Pending, Converged
<1> QED BY <1>3, <1>4 DEF HInv

\* What a write by somebody else leaves of what is held.
LEMMA HeldKept ==
  ASSUME ~Foreign, IInv, NEW k \in Kinds, NEW n \in Names,
         NEW obj \in Objects(k) \cup {None},
         External(k, n, obj), KeepsOwner(k, n, obj), spent'["delete"] = 0,
         NEW k2 \in {"cm", "dep"}, NEW n2 \in Names,
         cache["proxy"][n2] # None, watch'["proxy"][n2] = <<>>, Held(k2, n2)
  PROVE  Held(k2, n2)'
<1>1. ApiTypeOK /\ Commit(k, n, obj)
  BY DEF External, IInv, TypeOK
<1>2. CASE cache[k2][n2] # None
  BY <1>1, <1>2, CommitEffect DEF Held
<1>3. CASE (k2 # k \/ n2 # n) \/ store' = store
  BY <1>1, <1>3, CommitEffect DEF Held, Kinds
<1>4. CASE /\ cache[k2][n2] = None /\ k2 = k /\ n2 = n
           /\ store'[k][n] = Stamped(k, n, obj)
  <2>1. store[k][n] # None /\ store[k][n].owner = cache["proxy"][n].uid
    BY <1>4 DEF Held
  <2>2. watch["proxy"][n] = <<>> /\ cache["proxy"][n] = store["proxy"][n]
    BY <1>1, <1>4, CommitMoves DEF ApiMoves, IInv, Echo, Kinds
  <2>3. obj # None
    <3>1. ~GarbageCollect(k, n)
      BY <2>1, <2>2, <1>4 DEF GarbageCollect
    <3>2. ASSUME RemoveObject(k, n)
          PROVE  FALSE
      <4>1. spent' = [spent EXCEPT !["delete"] = @ + 1] /\ spent \in [Budgeted -> Nat]
        BY <3>2 DEF RemoveObject, Spend, IInv, TypeOK
      <4> QED BY <4>1 DEF Budgeted
    <3> QED BY <1>4, <3>1, <3>2 DEF KeepsOwner
  <2>4. obj.owner = store[k][n].owner
    BY <1>4, <2>3 DEF KeepsOwner
  <2>5. obj \in ConfigMap \cup Deployment
    BY <1>4, <2>3 DEF Objects, Kinds
  <2>6. store'[k][n] # None /\ store'[k][n].owner = obj.owner
    BY <1>1, <1>4, <2>3, <2>5, StampedType DEF Stamped, ConfigMap, Deployment
  <2>7. cache' = cache
    BY <1>1, CommitEffect
  <2> QED BY <1>4, <2>1, <2>4, <2>6, <2>7 DEF Held
<1> QED BY <1>1, <1>2, <1>3, <1>4, CommitEffect

LEMMA ExternalHold ==
  ASSUME ~Foreign, IInv, HInv, NEW k \in Kinds, NEW n \in Names,
         NEW obj \in Objects(k) \cup {None},
         External(k, n, obj), KeepsOwner(k, n, obj), SpentGrows
  PROVE  HInv'
<1>1. ApiMoves
  BY CommitMoves DEF IInv, External, TypeOK
<1>2. UNCHANGED <<cache, queue, backoff, worker>>
  BY <1>1 DEF External, ApiMoves
<1>3. BuiltForPage'
  BY <1>2 DEF HInv, BuiltForPage
<1>4. spent'["delete"] = 0 => spent["delete"] = 0
  BY DEF SpentGrows, Budgeted
<1>5. ASSUME NEW m \in Names, spent'["delete"] = 0, cache["proxy"][m] # None,
             watch'["proxy"][m] = <<>>
      PROVE  (Held("cm", m) => Held("cm", m)') /\ (Held("dep", m) => Held("dep", m)')
  BY <1>5, HeldKept
<1>6. ASSUME spent'["delete"] = 0
      PROVE  PassHolds'
  <2> SUFFICES ASSUME NEW m \in Names, worker.name = m, worker.pc \in PassSteps,
                      m \notin queue
               PROVE  PassHolds'
    BY <1>2 DEF PassHolds, IInv, TypeOK, WorkerTypeOK, PassSteps
  <2>1. cache["proxy"][m] # None
    BY DEF IInv, PassApplies
  <2>2. PassHolds
    BY <1>4, <1>6 DEF HInv
  <2>3. \A k2 \in Kinds : watch'[k2][m] = <<>> => watch[k2][m] = <<>>
    BY <1>1 DEF ApiMoves
  <2> QED BY <1>2, <1>5, <1>6, <2>1, <2>2, <2>3
          DEF PassHolds, Kinds, AfterConfigMap, AfterDeployment
<1>7. ASSUME spent'["delete"] = 0, NEW m \in Names, ~Busy(m)'
      PROVE  Rests(m)'
  <2>1. ~Busy(m) /\ Rests(m)
    BY <1>2, <1>4, <1>7, HoldRests DEF Busy
  <2>2. ~Pending(m)' => Converged(m)'
    BY <1>1, <2>1, StaysConverged DEF Rests, Busy
  <2>3. watch'["proxy"][m] = <<>> => watch["proxy"][m] = <<>>
    BY <1>1 DEF ApiMoves, Kinds
  <2> QED BY <1>2, <1>5, <1>7, <2>1, <2>2, <2>3 DEF Rests
<1>8. spent'["delete"] = 0 => IdleHolds' /\ IdleSettled'
  BY <1>7 DEF IdleHolds, IdleSettled, Busy, Rests, Pending
<1> QED BY <1>3, <1>6, <1>8 DEF HInv

LEMMA EnvironmentHold ==
  ASSUME ~Foreign, IInv, IInv', HInv, Environment
  PROVE  HInv'
<1>1. ASSUME NEW n \in Names, BackoffExpires(n) \/ Resync(n)
      PROVE  HInv'
  BY <1>1, EnqueueHold DEF BackoffExpires, Resync
<1>2. ASSUME NEW n \in Names, OtherWriter(n)
      PROVE  HInv'
  <2>1. TypeOK
    BY DEF IInv
  <2>2. PICK k \in Kinds : \E obj \in Objects(k) \cup {None} :
          External(k, n, obj) /\ KeepsOwner(k, n, obj)
    BY <1>2, <2>1, OtherWrites
  <2>3. PICK obj \in Objects(k) \cup {None} :
          External(k, n, obj) /\ KeepsOwner(k, n, obj)
    BY <2>2
  <2>4. SpentGrows
    BY <1>2, <2>1, OtherWrites, SpendGrows DEF SpendsSomething, SpentGrows, TypeOK
  <2> QED BY <2>3, <2>4, ExternalHold
<1> QED BY <1>1, <1>2, RelistHold, StartHold, DeliverHold DEF Environment, Restart

-----------------------------------------------------------------------------
(* Steps of the worker. *)

LEMMA BeginHold ==
  ASSUME IInv, HInv, NEW m \in Names, BeginReconcile(m)
  PROVE  HInv'
<1>1. /\ worker = Idle /\ queue' = queue \ {m}
      /\ UNCHANGED <<store, watch, cache, spent>>
  BY DEF IInv, TypeOK, WorkerTypeOK, BeginReconcile, apiVars
<1>2. Busy(m)' /\ \A n \in Names \ {m} : Busy(n) => Busy(n)'
  BY <1>1, NamesAssumption DEF BeginReconcile, Busy, Idle
<1>3. worker'.pc \in {"idle", "deleteCM", "getCM"}
  BY <1>1 DEF BeginReconcile, Idle
<1>4. BuiltForPage' /\ PassHolds'
  BY <1>3 DEF BuiltForPage, PassHolds, PassSteps, AfterConfigMap, AfterDeployment
<1> QED BY <1>1, <1>2, <1>4, HoldElsewhere DEF SpentGrows

\* A step of the pass over m that goes on, or ends in a retry.
LEMMA PassHold ==
  ASSUME HInv, ApiMoves, SpentGrows, NEW m \in Names, worker.name = m,
         \A n \in Names \ {m}, k \in Kinds : store'[k][n] = store[k][n],
         UNCHANGED queue, backoff \subseteq backoff',
         m \in backoff' \/ worker'.name = m,
         BuiltForPage', spent'["delete"] = 0 => PassHolds'
  PROVE  HInv'
<1>1. Busy(m)' /\ \A n \in Names \ {m} : Busy(n) => Busy(n)'
  BY DEF Busy
<1> QED BY <1>1, HoldElsewhere DEF ApiMoves

LEMMA RetryHold ==
  ASSUME HInv, ApiMoves, SpentGrows, NEW m \in Names, worker.name = m,
         \A n \in Names \ {m}, k \in Kinds : store'[k][n] = store[k][n],
         Retry, UNCHANGED queue
  PROVE  HInv'
<1>1. worker' = Idle /\ backoff' = backoff \cup {m}
  BY DEF Retry
<1>2. BuiltForPage' /\ PassHolds'
  BY <1>1 DEF BuiltForPage, PassHolds, Idle, PassSteps
<1> QED BY <1>1, <1>2, PassHold

\* The last step of the pass over m: what it leaves of m is to be shown.
LEMMA EndHold ==
  ASSUME HInv, ApiMoves, SpentGrows, NEW m \in Names, worker.name = m,
         \A n \in Names \ {m}, k \in Kinds : store'[k][n] = store[k][n],
         worker' = Idle, UNCHANGED <<queue, backoff>>,
         spent'["delete"] = 0 /\ m \notin queue => Rests(m)'
  PROVE  HInv'
<1>1. BuiltForPage' /\ PassHolds'
  BY DEF BuiltForPage, PassHolds, Idle, PassSteps
<1>2. \A n \in Names \ {m} : Busy(n) => Busy(n)'
  BY DEF Busy
<1>3. ~Busy(m)' => m \notin queue
  BY DEF Busy
<1> QED BY <1>1, <1>2, <1>3, HoldElsewhere DEF ApiMoves

\* A write of the pass over m concerns m only.
LEMMA WriteElsewhere ==
  ASSUME ApiTypeOK, NEW k \in Kinds, NEW m \in Names, NEW obj,
         Commit(k, m, obj) \/ UNCHANGED apiVars
  PROVE  \A n \in Names \ {m}, k2 \in Kinds : store'[k2][n] = store[k2][n]
  BY CommitEffect DEF apiVars

\* A Create or an Update concerns the name of the pass only, and is retried or
\* accepted.
LEMMA WriteHolds ==
  ASSUME IInv, TypeOK', HInv, worker.pc \in PassSteps,
         NEW m \in Names, worker.name = m, NEW accepted,
         NEW k \in Kinds, NEW obj \in Objects(k) \cup {None},
         k # "proxy" /\ obj # None => obj.owner # None,
         NEW pc, Write(accepted, k, obj, pc)
  PROVE  /\ ApiInv' /\ ApiMoves /\ SpentGrows
         /\ \A n \in Names \ {m}, k2 \in Kinds : store'[k2][n] = store[k2][n]
         /\ \/ HInv'
            \/ /\ accepted
               /\ Commit(k, m, obj)
               /\ Goto(pc, None)
               /\ UNCHANGED <<queue, backoff, spent>>
<1>1. ApiInv' /\ ApiMoves /\ SpentGrows
  BY WriteCases
<1>2. \A n \in Names \ {m}, k2 \in Kinds : store'[k2][n] = store[k2][n]
  <2>1. Commit(k, m, obj) \/ UNCHANGED apiVars
    BY DEF Write
  <2> QED BY <2>1, WriteElsewhere, PassPage
<1>3. CASE Retry
  BY <1>1, <1>2, <1>3, RetryHold DEF Write
<1> QED BY <1>1, <1>2, <1>3 DEF Write

LEMMA CleanupHold ==
  ASSUME IInv, IInv', HInv, DeleteConfigMap \/ DeleteDeployment
  PROVE  HInv'
<1>1. worker.pc \in CleanupSteps /\ worker.name \in Names /\ worker \in Worker
      /\ worker.pc # "idle"
  BY DEF IInv, TypeOK, WorkerTypeOK, DeleteConfigMap, DeleteDeployment, CleanupSteps
<1>2. PICK m \in Names : worker.name = m
  BY <1>1
<1>3. CASE DeleteConfigMap
  <2>1. DeleteIgnoringErrors("cm", "deleteDep")
    BY <1>3 DEF DeleteConfigMap
  <2>2. /\ ApiMoves /\ SpentGrows
        /\ \A n \in Names \ {m}, k \in Kinds : store'[k][n] = store[k][n]
    BY <1>1, <1>2, <2>1, DeleteEffect, WriteElsewhere
       DEF DeleteIgnoringErrors, IInv, TypeOK, Kinds
  <2>3. worker'.pc = "deleteDep" /\ worker'.name = m /\ UNCHANGED <<queue, backoff>>
    BY <1>1, <1>2, <2>1 DEF DeleteIgnoringErrors, Goto, Worker
  <2>4. BuiltForPage' /\ PassHolds'
    BY <2>3 DEF BuiltForPage, PassHolds, PassSteps
  <2> QED BY <1>2, <2>2, <2>3, <2>4, PassHold
<1>4. CASE DeleteDeployment
  <2>1. DeleteIgnoringErrors("dep", "idle")
    BY <1>4 DEF DeleteDeployment
  <2>2. /\ ApiMoves /\ SpentGrows
        /\ \A n \in Names \ {m}, k \in Kinds : store'[k][n] = store[k][n]
    BY <1>1, <1>2, <2>1, DeleteEffect, WriteElsewhere
       DEF DeleteIgnoringErrors, IInv, TypeOK, Kinds
  <2>3. worker' = Idle /\ UNCHANGED <<queue, backoff>>
    BY <2>1 DEF DeleteIgnoringErrors, Goto
  <2>4. m \notin queue => Rests(m)'
    <3>1. m \notin queue => cache'["proxy"][m] = None
      BY <1>1, <1>2, <2>2 DEF IInv, PassCleans, ApiMoves
    <3>2. ~Pending(m)' => cache'["proxy"][m] = store'["proxy"][m]
      BY DEF Pending, InSync, IInv, Echo, Kinds
    <3> QED BY <3>1, <3>2 DEF Rests, Converged
  <2> QED BY <1>2, <2>2, <2>3, <2>4, EndHold
<1> QED BY <1>3, <1>4

\* A step of a pass that only reads.
LEMMA ReadHold ==
  ASSUME IInv, HInv, worker.pc \in PassSteps, UNCHANGED <<apiVars, queue, spent>>,
         backoff \subseteq backoff',
         worker.name \in backoff' \/ worker'.name = worker.name,
         BuiltForPage', spent'["delete"] = 0 => PassHolds'
  PROVE  HInv'
<1>1. PICK m \in Names : worker.name = m
  BY PassPage
<1>2. ApiMoves /\ SpentGrows
  BY StutterMoves DEF SpentGrows
<1> QED BY <1>1, <1>2, PassHold DEF apiVars

LEMMA GetConfigMapHold ==
  ASSUME IInv, HInv, GetConfigMap
  PROVE  HInv'
<1> DEFINE cm == BuildConfigMap(worker.page)
           existing == cache["cm"][worker.name]
<1>1. worker.pc = "getCM" /\ worker.pc \in PassSteps
  BY DEF GetConfigMap, PassSteps
<1>2. UNCHANGED <<apiVars, queue, backoff, spent>> /\ UNCHANGED cache /\ UNCHANGED watch
  BY DEF GetConfigMap, apiVars
<1>3. ASSUME NEW pc \in PassSteps, NEW obj, Goto(pc, obj)
      PROVE  /\ worker'.pc = pc /\ worker'.obj = obj
             /\ worker'.name = worker.name /\ worker'.page = worker.page
  BY <1>1, <1>3, PassPage DEF Goto, Worker, PassSteps
<1>4. CASE existing = None /\ Goto("createCM", cm)
  <2>1. /\ worker'.pc = "createCM" /\ worker'.obj = cm
        /\ worker'.name = worker.name /\ worker'.page = worker.page
    BY <1>3, <1>4 DEF PassSteps
  <2>2. BuiltForPage'
    BY <2>1 DEF BuiltForPage, BuildConfigMap
  <2>3. PassHolds'
    BY <2>1 DEF PassHolds, AfterConfigMap, AfterDeployment
  <2> QED BY <1>1, <1>2, <2>1, <2>2, <2>3, ReadHold
<1>5. CASE /\ existing # None
           /\ Goto("updateCM", [existing EXCEPT !.data = cm.data])
  <2>1. worker'.pc = "updateCM" /\ worker'.name = worker.name
    BY <1>3, <1>5 DEF PassSteps
  <2>2. BuiltForPage'
    BY <2>1 DEF BuiltForPage
  <2>3. PassHolds'
    BY <1>2, <1>5, <2>1 DEF PassHolds, AfterConfigMap, AfterDeployment
  <2> QED BY <1>1, <1>2, <2>1, <2>2, <2>3, ReadHold
<1>6. CASE existing # None /\ existing.data = cm.data /\ Goto("getDep", None)
  <2>1. /\ worker'.pc = "getDep"
        /\ worker'.name = worker.name /\ worker'.page = worker.page
    BY <1>3, <1>6 DEF PassSteps
  <2>2. BuiltForPage'
    BY <2>1 DEF BuiltForPage
  <2>3. PassHolds'
    BY <1>2, <1>6, <2>1
       DEF PassHolds, Held, HasConfig, AfterConfigMap, AfterDeployment
  <2> QED BY <1>1, <1>2, <2>1, <2>2, <2>3, ReadHold
<1> QED BY <1>4, <1>5, <1>6 DEF GetConfigMap

LEMMA GetDeploymentHold ==
  ASSUME IInv, HInv, GetDeployment
  PROVE  HInv'
<1> DEFINE dep == BuildDeployment(worker.page)
           existing == cache["dep"][worker.name]
           updated == [existing EXCEPT !.replicas = dep.replicas, !.image = dep.image]
<1>1. worker.pc = "getDep" /\ worker.pc \in PassSteps /\ worker.pc \in AfterConfigMap
  BY DEF GetDeployment, PassSteps, AfterConfigMap
<1>2. /\ UNCHANGED <<apiVars, queue, spent>> /\ UNCHANGED cache /\ UNCHANGED watch
      /\ UNCHANGED store
  BY DEF GetDeployment, apiVars
<1>3. ASSUME NEW pc \in PassSteps, NEW obj, Goto(pc, obj)
      PROVE  /\ worker'.pc = pc /\ worker'.obj = obj
             /\ worker'.name = worker.name /\ worker'.page = worker.page
  BY <1>1, <1>3, PassPage DEF Goto, Worker, PassSteps
<1>4. CASE Retry
  <2>1. worker' = Idle /\ backoff' = backoff \cup {worker.name}
    BY <1>4 DEF Retry
  <2>2. BuiltForPage' /\ PassHolds'
    BY <2>1 DEF BuiltForPage, PassHolds, Idle, PassSteps
  <2> QED BY <1>1, <1>2, <2>1, <2>2, ReadHold
<1>5. CASE existing = None /\ Goto("createDep", dep) /\ UNCHANGED backoff
  <2>1. /\ worker'.pc = "createDep" /\ worker'.obj = dep
        /\ worker'.name = worker.name /\ worker'.page = worker.page
    BY <1>3, <1>5 DEF PassSteps
  <2>2. BuiltForPage'
    BY <2>1 DEF BuiltForPage, BuildDeployment
  <2>3. spent'["delete"] = 0 => PassHolds'
    BY <1>1, <1>2, <2>1 DEF HInv, PassHolds, Held, AfterDeployment
  <2> QED BY <1>1, <1>2, <1>5, <2>1, <2>2, <2>3, ReadHold
<1>6. CASE existing # None /\ Goto("updateDep", updated) /\ UNCHANGED backoff
  <2>1. /\ worker'.pc = "updateDep"
        /\ worker'.name = worker.name /\ worker'.page = worker.page
    BY <1>3, <1>6 DEF PassSteps
  <2>2. BuiltForPage'
    BY <2>1 DEF BuiltForPage
  <2>3. spent'["delete"] = 0 => PassHolds'
    BY <1>1, <1>2, <1>6, <2>1 DEF HInv, PassHolds, Held, AfterDeployment
  <2> QED BY <1>1, <1>2, <1>6, <2>1, <2>2, <2>3, ReadHold
<1>7. CASE /\ existing # None /\ DeploymentUpToDate(existing, dep)
           /\ Goto("checkDep", None) /\ UNCHANGED backoff
  <2>1. /\ worker'.pc = "checkDep"
        /\ worker'.name = worker.name /\ worker'.page = worker.page
    BY <1>3, <1>7 DEF PassSteps
  <2>2. BuiltForPage'
    BY <2>1 DEF BuiltForPage
  <2>3. spent'["delete"] = 0 => PassHolds'
    BY <1>1, <1>2, <1>7, <2>1 DEF HInv, PassHolds, Held, HasDeployment
  <2> QED BY <1>1, <1>2, <1>7, <2>1, <2>2, <2>3, ReadHold
<1> QED BY <1>4, <1>5, <1>6, <1>7 DEF GetDeployment

LEMMA CheckDeploymentHold ==
  ASSUME IInv, HInv, CheckDeployment
  PROVE  HInv'
<1> DEFINE status == StatusOf(cache["dep"][worker.name])
<1>1. worker.pc = "checkDep" /\ worker.pc \in PassSteps
  BY DEF CheckDeployment, PassSteps
<1>2. /\ UNCHANGED <<apiVars, queue, backoff, spent>> /\ UNCHANGED cache
      /\ UNCHANGED watch /\ UNCHANGED store
  BY DEF CheckDeployment, apiVars
<1>3. /\ worker'.pc = "setStatus" /\ worker'.name = worker.name
      /\ worker'.page = [worker.page EXCEPT !.status = status]
  BY <1>1, PassPage DEF CheckDeployment, Worker
<1>4. /\ BuildConfigMap(worker'.page) = BuildConfigMap(worker.page)
      /\ BuildDeployment(worker'.page) = BuildDeployment(worker.page)
  BY <1>1, <1>3, PassPage DEF BuildConfigMap, BuildDeployment, Proxy
<1>5. BuiltForPage'
  BY <1>3 DEF BuiltForPage
<1>6. spent'["delete"] = 0 => PassHolds'
  BY <1>1, <1>2, <1>3, <1>4
     DEF HInv, PassHolds, Held, HasConfig, HasDeployment, AfterConfigMap, AfterDeployment
<1> QED BY <1>1, <1>2, <1>3, <1>5, <1>6, ReadHold

\* What is created for the proxy in the cache is held.
LEMMA CreateHeld ==
  ASSUME ApiTypeOK, NEW k \in {"cm", "dep"}, NEW m \in Names,
         NEW obj \in Objects(k), store[k][m] = None, Commit(k, m, obj),
         obj.owner = cache["proxy"][m].uid
  PROVE  Held(k, m)'
<1>1. obj # None /\ k \in Kinds
  BY NoneIsNoObject DEF Kinds
<1>2. cache' = cache /\ store'[k][m] = Stamped(k, m, obj)
  BY <1>1, CommitEffect
<1>3. Stamped(k, m, obj) # None
  BY <1>1, StampedType
<1>4. Stamped(k, m, obj).owner = obj.owner
  BY <1>1 DEF Stamped, Objects, ConfigMap, Deployment
<1> QED BY <1>2, <1>3, <1>4 DEF Held

LEMMA WriteConfigMapHold ==
  ASSUME IInv, TypeOK', HInv, CreateConfigMap \/ UpdateConfigMap
  PROVE  HInv'
<1>1. /\ worker.pc \in {"createCM", "updateCM"} /\ worker.pc \in PassSteps
      /\ worker.obj \in ConfigMap /\ worker.obj.owner # None /\ worker.obj # None
  BY NoneAssumption
     DEF IInv, TypeOK, WorkerTypeOK, WorkerOwned, CreateConfigMap, UpdateConfigMap, PassSteps
<1>2. PICK m \in Names : worker.name = m
  BY <1>1, PassPage
<1>3. worker.obj \in Objects("cm") \cup {None} /\ "cm" \in Kinds
  BY <1>1 DEF Objects, Kinds
<1>4. /\ ApiInv' /\ ApiMoves /\ SpentGrows
      /\ \A n \in Names \ {m}, k \in Kinds : store'[k][n] = store[k][n]
      /\ \/ HInv'
         \/ /\ worker.pc = "createCM" => store["cm"][m] = None
            /\ Commit("cm", m, worker.obj)
            /\ Goto("getDep", None)
            /\ UNCHANGED <<queue, backoff, spent>>
  <2>1. CASE CreateConfigMap
    <3>1. Write(store["cm"][m] = None, "cm", worker.obj, "getDep")
      BY <1>2, <2>1 DEF CreateConfigMap
    <3> QED BY <1>1, <1>2, <1>3, <2>1, <3>1, WriteHolds DEF CreateConfigMap
  <2>2. CASE UpdateConfigMap
    <3>1. Write(Current("cm", m, worker.obj), "cm", worker.obj, "getDep")
      BY <1>2, <2>2 DEF UpdateConfigMap
    <3> QED BY <1>1, <1>2, <1>3, <2>2, <3>1, WriteHolds DEF UpdateConfigMap
  <2> QED BY <2>1, <2>2
<1>5. CASE /\ worker.pc = "createCM" => store["cm"][m] = None
           /\ Commit("cm", m, worker.obj)
           /\ Goto("getDep", None)
           /\ UNCHANGED <<queue, backoff, spent>>
  <2>1. /\ worker'.pc = "getDep"
        /\ worker'.name = worker.name /\ worker'.page = worker.page
    BY <1>1, <1>5, PassPage DEF Goto, Worker
  <2>2. BuiltForPage'
    BY <2>1 DEF BuiltForPage
  <2>3. ASSUME m \notin queue, watch'["cm"][m] = <<>>
        PROVE  HasConfig(cache'["cm"][m], worker.page)
    <3>1. cache'["cm"][m] = worker.obj
      BY <1>1, <1>3, <1>4, <1>5, <2>3, CommitSeen, PassPage
    <3>2. worker.obj.data = BuildConfigMap(worker.page).data
      BY <1>1, <1>2, <2>3 DEF IInv, PassApplies
    <3> QED BY <1>1, <3>1, <3>2 DEF HasConfig
  <2>4. ASSUME m \notin queue, spent["delete"] = 0
        PROVE  Held("cm", m)'
    <3>1. CASE worker.pc = "createCM"
      <4>1. worker.obj.owner = cache["proxy"][m].uid
        BY <1>1, <1>2, <2>4, <3>1 DEF HInv, BuiltForPage, IInv, PassApplies
      <4> QED BY <1>1, <1>5, <3>1, <4>1, CreateHeld, PassPage DEF Objects
    <3>2. CASE worker.pc = "updateCM"
      BY <1>1, <1>2, <1>4, <2>4, <3>2 DEF HInv, PassHolds, Held, ApiMoves
    <3> QED BY <1>1, <3>1, <3>2
  <2>5. spent'["delete"] = 0 => PassHolds'
    BY <1>2, <1>5, <2>1, <2>3, <2>4 DEF PassHolds, AfterDeployment
  <2> QED BY <1>2, <1>4, <1>5, <2>1, <2>2, <2>5, PassHold
<1> QED BY <1>4, <1>5

LEMMA WriteDeploymentHold ==
  ASSUME IInv, TypeOK', HInv, CreateDeployment \/ UpdateDeployment
  PROVE  HInv'
<1>1. /\ worker.pc \in {"createDep", "updateDep"} /\ worker.pc \in PassSteps
      /\ worker.obj \in Deployment /\ worker.obj.owner # None /\ worker.obj # None
  BY NoneAssumption
     DEF IInv, TypeOK, WorkerTypeOK, WorkerOwned, CreateDeployment, UpdateDeployment, PassSteps
<1>2. PICK m \in Names : worker.name = m
  BY <1>1, PassPage
<1>3. worker.obj \in Objects("dep") \cup {None} /\ "dep" \in Kinds
  BY <1>1 DEF Objects, Kinds
<1>4. /\ ApiInv' /\ ApiMoves /\ SpentGrows
      /\ \A n \in Names \ {m}, k \in Kinds : store'[k][n] = store[k][n]
      /\ \/ HInv'
         \/ /\ worker.pc = "createDep" => store["dep"][m] = None
            /\ Commit("dep", m, worker.obj)
            /\ Goto("checkDep", None)
            /\ UNCHANGED <<queue, backoff, spent>>
  <2>1. CASE CreateDeployment
    <3>1. Write(store["dep"][m] = None /\ worker.obj.replicas >= 0, "dep", worker.obj, "checkDep")
      BY <1>2, <2>1 DEF CreateDeployment
    <3> QED BY <1>1, <1>2, <1>3, <2>1, <3>1, WriteHolds DEF CreateDeployment
  <2>2. CASE UpdateDeployment
    <3>1. Write(Current("dep", m, worker.obj) /\ worker.obj.replicas >= 0, "dep", worker.obj, "checkDep")
      BY <1>2, <2>2 DEF UpdateDeployment
    <3> QED BY <1>1, <1>2, <1>3, <2>2, <3>1, WriteHolds DEF UpdateDeployment
  <2> QED BY <2>1, <2>2
<1>5. CASE /\ worker.pc = "createDep" => store["dep"][m] = None
           /\ Commit("dep", m, worker.obj)
           /\ Goto("checkDep", None)
           /\ UNCHANGED <<queue, backoff, spent>>
  <2>1. /\ worker'.pc = "checkDep"
        /\ worker'.name = worker.name /\ worker'.page = worker.page
    BY <1>1, <1>5, PassPage DEF Goto, Worker
  <2>2. BuiltForPage'
    BY <2>1 DEF BuiltForPage
  <2>3. ASSUME m \notin queue, watch'["dep"][m] = <<>>
        PROVE  HasDeployment(cache'["dep"][m], worker.page)
    <3>1. cache'["dep"][m] = worker.obj
      BY <1>1, <1>3, <1>4, <1>5, <2>3, CommitSeen, PassPage
    <3>2. DeploymentUpToDate(worker.obj, BuildDeployment(worker.page))
      BY <1>1, <1>2, <2>3 DEF IInv, PassApplies
    <3> QED BY <1>1, <3>1, <3>2 DEF HasDeployment
  <2>4. ASSUME m \notin queue, spent["delete"] = 0
        PROVE  Held("dep", m)'
    <3>1. CASE worker.pc = "createDep"
      <4>1. worker.obj.owner = cache["proxy"][m].uid
        BY <1>1, <1>2, <2>4, <3>1 DEF HInv, BuiltForPage, IInv, PassApplies
      <4> QED BY <1>1, <1>5, <3>1, <4>1, CreateHeld, PassPage DEF Objects
    <3>2. CASE worker.pc = "updateDep"
      BY <1>1, <1>2, <1>4, <2>4, <3>2 DEF HInv, PassHolds, Held, ApiMoves
    <3> QED BY <1>1, <3>1, <3>2
  <2>5. /\ cache' = cache /\ store'["cm"][m] = store["cm"][m]
        /\ \A k \in Kinds : watch'[k][m] = <<>> => watch[k][m] = <<>>
    BY <1>3, <1>4, <1>5, CommitEffect, PassPage DEF ApiMoves, Kinds, IInv, TypeOK
  <2>6. ASSUME m \notin queue, spent["delete"] = 0, watch'["proxy"][m] = <<>>
        PROVE  /\ Held("cm", m)'
               /\ watch'["cm"][m] # <<>> \/ HasConfig(cache'["cm"][m], worker.page)
    BY <1>1, <1>2, <2>5, <2>6 DEF HInv, PassHolds, Held, AfterConfigMap, Kinds
  <2>7. spent'["delete"] = 0 => PassHolds'
    BY <1>2, <1>5, <2>1, <2>3, <2>4, <2>6 DEF PassHolds
  <2> QED BY <1>2, <1>4, <1>5, <2>1, <2>2, <2>7, PassHold
<1> QED BY <1>4, <1>5

LEMMA SetStatusHold ==
  ASSUME IInv, TypeOK', HInv, SetStatus
  PROVE  HInv'
<1>1. /\ worker.pc = "setStatus" /\ worker.pc \in PassSteps
      /\ worker.page \in Objects("proxy") \cup {None} /\ "proxy" \in Kinds
      /\ worker.page # None
  BY PassPage, NoneAssumption DEF SetStatus, PassSteps, Objects, Kinds
<1>2. PICK m \in Names : worker.name = m
  BY <1>1, PassPage
<1>3. /\ ApiInv' /\ ApiMoves /\ SpentGrows
      /\ \A n \in Names \ {m}, k \in Kinds : store'[k][n] = store[k][n]
      /\ \/ HInv'
         \/ /\ Commit("proxy", m, worker.page)
            /\ Goto("idle", None)
            /\ UNCHANGED <<queue, backoff, spent>>
  <2>1. Write(Current("proxy", m, worker.page), "proxy", worker.page, "idle")
    BY <1>2 DEF SetStatus
  <2> QED BY <1>1, <1>2, <2>1, WriteHolds
<1>4. CASE /\ Commit("proxy", m, worker.page)
           /\ Goto("idle", None)
           /\ UNCHANGED <<queue, backoff, spent>>
  <2>1. worker' = Idle /\ UNCHANGED <<queue, backoff>>
    BY <1>4 DEF Goto
  <2>2. /\ cache' = cache
        /\ \A k \in {"cm", "dep"} : store'[k][m] = store[k][m]
        /\ \A k \in Kinds : watch'[k][m] = <<>> => watch[k][m] = <<>>
    BY <1>1, <1>3, <1>4, CommitEffect, PassPage DEF ApiMoves, Kinds
  <2>3. ASSUME m \notin queue, spent'["delete"] = 0, watch'["proxy"][m] = <<>>
        PROVE  /\ Held("cm", m) /\ Held("dep", m)
               /\ watch["cm"][m] # <<>> \/ HasConfig(cache["cm"][m], worker.page)
               /\ watch["dep"][m] # <<>> \/ HasDeployment(cache["dep"][m], worker.page)
    BY <1>1, <1>2, <1>4, <2>2, <2>3
       DEF HInv, PassHolds, AfterConfigMap, AfterDeployment, Kinds
  <2>4. ASSUME spent'["delete"] = 0, ~Pending(m)'
        PROVE  Converged(m)'
    <3>1. m \notin queue /\ \A k \in Kinds : watch'[k][m] = <<>>
      BY <2>1, <2>4 DEF Pending, InSync
    <3>2. store'["proxy"][m] = worker.page
      BY <1>1, <1>3, <1>4, <3>1, CommitSeen, PassPage
    <3>3. \A k \in Kinds : watch[k][m] = <<>> /\ cache[k][m] = store'[k][m]
      BY <1>3, <3>1 DEF ApiMoves, ApiInv, Echo
    <3>4. /\ HasConfig(cache["cm"][m], worker.page)
          /\ HasDeployment(cache["dep"][m], worker.page)
      BY <2>3, <2>4, <3>1, <3>3 DEF Kinds
    <3>5. worker.page.status = StatusOf(cache["dep"][m])
      BY <1>1, <1>2, <3>1 DEF IInv, PassApplies
    <3>6. Applied(m)'
      BY <3>2, <3>3, <3>4
         DEF Applied, HasConfig, HasDeployment, BuildConfigMap, Kinds
    <3> QED BY <3>2, <3>3, <3>5, <3>6 DEF Converged, Kinds
  <2>5. spent'["delete"] = 0 /\ m \notin queue => Rests(m)'
    BY <2>2, <2>3, <2>4 DEF Rests, Held
  <2> QED BY <1>2, <1>3, <2>1, <2>5, EndHold
<1> QED BY <1>3, <1>4

LEMMA StepHold ==
  ASSUME ~Foreign, IInv, IInv', HInv, [Next]_vars
  PROVE  HInv'
<1>1. TypeOK'
  BY DEF IInv
<1>2. CASE UNCHANGED vars
  BY <1>2, EnqueueHold DEF vars, apiVars
<1>3. CASE Continue
  BY <1>1, <1>3, CleanupHold, GetConfigMapHold, WriteConfigMapHold, GetDeploymentHold,
     WriteDeploymentHold, CheckDeploymentHold, SetStatusHold DEF Continue
<1> QED BY <1>2, <1>3, BeginHold, EnvironmentHold DEF Next, Reconcile

LEMMA InitHold ==
  ASSUME Init
  PROVE  HInv
<1>1. BuiltForPage /\ PassHolds
  BY DEF Init, BuiltForPage, PassHolds, Idle, PassSteps
<1>2. IdleHolds /\ IdleSettled
  BY DEF Init, ApiInit, IdleHolds, IdleSettled, Converged, Kinds
<1> QED BY <1>1, <1>2 DEF HInv

-----------------------------------------------------------------------------
(* The theorems. *)

\* The invariant holds in every reachable state.
THEOREM Invariance ==
  ASSUME ~Foreign
  PROVE  Spec => []IInv
<1>1. Init => IInv
  BY InitInv
<1>2. IInv /\ [Next]_vars => IInv'
  BY StepInv
<1> QED BY <1>1, <1>2, PTL DEF Spec

\* So does what a pass may rely on after an expired watch.
THEOREM HoldInvariance ==
  ASSUME ~Foreign
  PROVE  Spec => [](IInv /\ HInv)
<1>1. Init => IInv /\ HInv
  BY InitInv, InitHold
<1>2. IInv /\ HInv /\ [Next]_vars => (IInv /\ HInv)'
  BY StepInv, StepHold
<1> QED BY <1>1, <1>2, PTL DEF Spec

(***************************************************************************)
(* However edits, deletions, collections, faults, pods, restarts, late     *)
(* events and expired watches interleave with the passes of lines 270-422: *)
(* when nothing is left to do, every proxy has the ConfigMap, the          *)
(* Deployment and the status its spec asks for, unless somebody deleted    *)
(* one of its objects while a watch was down.                              *)
(***************************************************************************)
THEOREM Convergence ==
  ASSUME ~Foreign
  PROVE  Spec => []QuiescentConverged
<1>1. IInv /\ HInv => QuiescentConverged
  BY DEF IInv, IdleConverged, HInv, IdleSettled, QuiescentConverged, Watched
<1> QED BY <1>1, HoldInvariance, PTL

LEMMA IdleCleanedUp == IInv => QuiescentCleanedUp
<1> SUFFICES ASSUME IInv, spent["fault"] = 0, NEW n \in Names,
                    ~Pending(n), store["proxy"][n] = None
             PROVE  store["cm"][n] = None /\ store["dep"][n] = None
  BY DEF QuiescentCleanedUp
<1>1. \A k \in Kinds : watch[k][n] = <<>> /\ cache[k][n] = store[k][n]
  BY DEF Pending, InSync, IInv, Echo
<1>2. Gone("cm", n) /\ Gone("dep", n)
  BY <1>1 DEF IInv, IdleClean, Pending, Kinds
<1> QED BY <1>1, <1>2 DEF Gone, Kinds

(***************************************************************************)
(* Lines 274-285: when no call has failed and nothing is left to do, a     *)
(* deleted proxy has left no ConfigMap and no Deployment behind, even when *)
(* watches were relisted and the process restarted.                        *)
(***************************************************************************)
THEOREM CleanUp ==
  ASSUME ~Foreign
  PROVE  Spec => []QuiescentCleanedUp
  BY Invariance, IdleCleanedUp, PTL

\* What the next write of a pass is meant to change is not there yet.
LEMMA SettledStep ==
  ASSUME IInv, NEW n \in Names, worker.name = n, Settled(n), Continue
  PROVE  store' = store
<1>1. /\ n \notin queue /\ store["proxy"][n] # None
      /\ \A k \in Kinds : cache[k][n] = store[k][n]
      /\ Applied(n) /\ store["proxy"][n].status = StatusOf(store["dep"][n])
  BY DEF Settled, InSync, IInv, Echo, Converged
<1>2. ASSUME worker.pc \in PassSteps
      PROVE  /\ store["proxy"][n].spec = worker.page.spec
             /\ store["proxy"][n].uid = worker.page.uid
             /\ HasConfig(cache["cm"][n], worker.page)
             /\ HasDeployment(cache["dep"][n], worker.page)
  <2>1. /\ store["proxy"][n].spec = worker.page.spec
        /\ store["proxy"][n].uid = worker.page.uid
    BY <1>1, <1>2 DEF IInv, PassApplies, Kinds
  <2> QED BY <1>1, <2>1
          DEF Applied, HasConfig, HasDeployment, BuildConfigMap, BuildDeployment, Kinds
<1>3. CASE DeleteConfigMap \/ DeleteDeployment
  BY <1>1, <1>3
     DEF IInv, PassCleans, DeleteConfigMap, DeleteDeployment, CleanupSteps, Kinds
<1>4. CASE GetConfigMap \/ GetDeployment \/ CheckDeployment
  BY <1>4 DEF GetConfigMap, GetDeployment, CheckDeployment, apiVars
<1>5. CASE CreateConfigMap \/ UpdateConfigMap
  BY <1>1, <1>2, <1>5
     DEF IInv, PassApplies, CreateConfigMap, UpdateConfigMap, PassSteps
<1>6. CASE CreateDeployment \/ UpdateDeployment
  BY <1>1, <1>2, <1>6
     DEF IInv, PassApplies, CreateDeployment, UpdateDeployment, PassSteps
<1>7. CASE SetStatus
  <2>1. worker.pc = "setStatus" /\ worker.pc \in PassSteps
    BY <1>7 DEF SetStatus, PassSteps
  <2>2. /\ worker.page \in Proxy
        /\ store["proxy"][n] \in Proxy
    BY <1>1, <2>1, PassPage DEF ApiTypeOK, Kinds, Objects
  <2>3. /\ store["proxy"][n].rv = worker.page.rv
        /\ store["proxy"][n].status = worker.page.status
    BY <1>1, <2>1 DEF IInv, PassApplies, Kinds
  <2>4. store["proxy"][n] = worker.page
    BY <1>2, <2>1, <2>2, <2>3 DEF Proxy
  <2>5. Commit("proxy", n, worker.page) => UNCHANGED apiVars
    BY <2>4 DEF Commit
  <2> QED BY <1>7, <2>5 DEF SetStatus, Write, apiVars
<1> QED BY <1>3, <1>4, <1>5, <1>6, <1>7 DEF Continue

(***************************************************************************)
(* No hot loop: a pass over a proxy that is as its spec asks, and that no  *)
(* event has overtaken, writes nothing (lines 316, 356-366 and 411).       *)
(***************************************************************************)
THEOREM Quiet ==
  ASSUME ~Foreign
  PROVE  Spec => QuietWhenSettled
<1>1. IInv /\ [Next]_vars
        => [\A n \in Names : worker.name = n /\ Settled(n) /\ Continue => store' = store]_vars
  BY SettledStep
<1> QED BY <1>1, Invariance, PTL DEF Spec, QuietWhenSettled
=============================================================================
