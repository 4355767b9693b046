---------------------- MODULE DeploymentInformerProofs ----------------------
(***************************************************************************)
(* The proof that listings are exact and that no handler reads the map of  *)
(* namespaces while it is filled, for any Deployments, namespaces,         *)
(* settings and number of requests.                                        *)
(***************************************************************************)
EXTENDS DeploymentInformer, TLAPS

\* What a handler lets through is what was asked for, once the filter is set.
LEMMA FilterIsExact ==
  ASSUME TypeOK, FilterReady, NEW d \in Deployments, Watched(d)
  PROVE  IsNamespaceAllowed(Current, d) <=> Wanted(d)
<1>1. setting \in Setting /\ NamespaceOf[d] \in Namespaces
  BY SettingsAssumption, NamespaceAssumption DEF TypeOK
<1>2. CASE setting.kind = "list"
  <2>1. setting.namespaces \in SUBSET Namespaces
    BY <1>1, <1>2 DEF Setting
  <2>2. Current = setting.namespaces /\ Current # None
    BY <1>2, <2>1, NilAssumption DEF FilterReady
  <2> QED BY <2>2 DEF IsNamespaceAllowed, Wanted
<1>3. CASE setting.kind = "one"
  <2>1. Current = None
    BY <1>3 DEF FilterReady
  <2> QED BY <1>3, <2>1 DEF IsNamespaceAllowed, Wanted, Watched
<1>4. CASE setting.kind = "all"
  <2>1. Current = None /\ setting.namespaces = Namespaces
    BY <1>1, <1>4 DEF FilterReady, Setting
  <2> QED BY <1>1, <2>1 DEF IsNamespaceAllowed, Wanted
<1> QED BY <1>1, <1>2, <1>3, <1>4 DEF Setting

LEMMA AppendLast ==
  ASSUME TypeOK, NEW value \in {None} \cup SUBSET Namespaces,
         allowed' = Append(allowed, value)
  PROVE  /\ Current' = value
         /\ allowed' \in Seq({None} \cup SUBSET Namespaces) /\ allowed' # <<>>
         /\ Len(allowed') = Len(allowed) + 1
<1> DEFINE S == {None} \cup SUBSET Namespaces
<1>1. allowed \in Seq(S) /\ value \in S
  BY DEF TypeOK
<1> HIDE DEF S
<1>2. /\ Append(allowed, value) \in Seq(S)
      /\ Len(Append(allowed, value)) = Len(allowed) + 1
      /\ Append(allowed, value)[Len(allowed) + 1] = value
      /\ Append(allowed, value) # <<>>
  BY <1>1
<1> QED BY <1>2 DEF Current, S

\* The steps of the boot before the reflector runs find no object anywhere.
LEMMA BootStep ==
  ASSUME InformerInv, StartDeploymentInformer
  PROVE  InformerInv'
<1>0. TypeOK /\ BootInv /\ setting' = setting
  BY DEF InformerInv, StartDeploymentInformer, ChooseFactory, MakeMap, Fill,
         CreateInformer, StartFactory
<1>1. boot # "running"
  BY DEF StartDeploymentInformer, ChooseFactory, MakeMap, Fill, CreateInformer, StartFactory
<1>2. published = 0 /\ store = {} /\ \A h \in Handlers : handler[h].objects = {}
  BY <1>1 DEF InformerInv, BootInv, HandlerInv
<1>3. UNCHANGED <<store, handler, cluster>>
  BY DEF StartDeploymentInformer, ChooseFactory, MakeMap, Fill, CreateInformer, StartFactory
<1>4. ASSUME TypeOK', BootInv'
      PROVE  InformerInv'
  BY <1>0, <1>2, <1>3, <1>4 DEF InformerInv, HandlerInv, Watched, Wanted
<1>5. setting \in Setting
  BY <1>0, SettingsAssumption DEF TypeOK
<1>6. CASE ChooseFactory
  <2>1. /\ UNCHANGED <<informer, allowed, published>> /\ boot = "choose"
        /\ boot' = IF setting.kind = "list" THEN "makeMap" ELSE "create"
    BY <1>6 DEF ChooseFactory, After
  <2>2. TypeOK'
    BY <1>0, <1>3, <2>1 DEF TypeOK
  <2>3. BootInv'
    BY <1>0, <1>2, <2>1 DEF BootInv, FilterReady, Current
  <2> QED BY <1>4, <2>2, <2>3
<1>7. CASE MakeMap
  <2>1. /\ UNCHANGED <<informer, published>> /\ boot' = "fill"
        /\ allowed' = Append(allowed, {}) /\ boot = "makeMap"
    BY <1>7 DEF MakeMap, After
  <2>2. TypeOK'
    BY <1>0, <1>2, <1>3, <2>1, AppendLast DEF TypeOK
  <2>3. setting.kind = "list" /\ Current' = {}
    BY <1>0, <2>1, AppendLast DEF BootInv
  <2>4. BootInv'
    BY <1>0, <1>2, <2>1, <2>3 DEF BootInv
  <2> QED BY <1>4, <2>2, <2>4
<1>8. CASE Fill
  <2>1. UNCHANGED <<informer, published>> /\ boot = "fill"
    BY <1>8 DEF Fill
  <2>2. setting.kind = "list" /\ Current \subseteq setting.namespaces
    BY <1>0, <2>1 DEF BootInv
  <2>3. setting.namespaces \in SUBSET Namespaces
    BY <1>5, <2>2 DEF Setting
  <2>4. CASE \E n \in setting.namespaces \ Current :
               allowed' = Append(allowed, Current \cup {n}) /\ boot' = boot
    <3>1. PICK n \in setting.namespaces :
            allowed' = Append(allowed, Current \cup {n}) /\ boot' = boot
      BY <2>4
    <3>2. Current \cup {n} \in {None} \cup SUBSET Namespaces
      BY <2>2, <2>3
    <3>3. /\ Current' = Current \cup {n}
          /\ allowed' \in Seq({None} \cup SUBSET Namespaces) /\ allowed' # <<>>
      BY <1>0, <3>1, <3>2, AppendLast
    <3>4. TypeOK'
      BY <1>0, <1>2, <1>3, <2>1, <3>1, <3>2, <3>3, AppendLast DEF TypeOK
    <3>5. BootInv'
      BY <1>0, <1>2, <2>1, <2>2, <3>1, <3>3 DEF BootInv
    <3> QED BY <1>4, <3>4, <3>5
  <2>5. CASE setting.namespaces \subseteq Current /\ boot' = "create" /\ allowed' = allowed
    <3>1. Current' = setting.namespaces
      BY <2>2, <2>5 DEF Current
    <3>2. TypeOK'
      BY <1>0, <1>3, <2>1, <2>5 DEF TypeOK
    <3>3. BootInv'
      BY <1>0, <1>2, <2>1, <2>2, <2>5, <3>1 DEF BootInv, FilterReady
    <3> QED BY <1>4, <3>2, <3>3
  <2> QED BY <1>8, <2>4, <2>5 DEF Fill, After
<1>9. CASE CreateInformer
  <2>1. /\ UNCHANGED <<allowed, published>> /\ boot = "create"
        /\ boot' = "start" /\ informer' = TRUE
    BY <1>9 DEF CreateInformer, After
  <2>2. TypeOK'
    BY <1>0, <1>3, <2>1 DEF TypeOK
  <2>3. BootInv'
    BY <1>0, <1>2, <2>1 DEF BootInv, FilterReady, Current
  <2> QED BY <1>4, <2>2, <2>3
<1>10. CASE StartFactory
  <2>1. /\ UNCHANGED <<informer, allowed>> /\ boot = "start"
        /\ boot' = "running" /\ published' = Len(allowed)
    BY <1>10 DEF StartFactory, After
  <2>2. Len(allowed) \in 0 .. Len(allowed) /\ Len(allowed) # 0
    <3>1. allowed \in Seq({None} \cup SUBSET Namespaces) /\ allowed # <<>>
      BY <1>0 DEF TypeOK
    <3> HIDE DEF TypeOK
    <3> QED BY <3>1
  <2>3. TypeOK'
    BY <1>0, <1>3, <2>1, <2>2 DEF TypeOK
  <2>4. BootInv'
    BY <1>0, <2>1 DEF BootInv, FilterReady, Current
  <2> QED BY <1>0, <1>2, <1>3, <2>1, <2>2, <2>3, <2>4
          DEF InformerInv, HandlerInv, Watched, Wanted
<1> QED BY <1>6, <1>7, <1>8, <1>9, <1>10 DEF StartDeploymentInformer

\* A step of one handler that keeps its part of the invariant keeps the whole.
LEMMA HandlerStep ==
  ASSUME InformerInv, NEW h \in Handlers,
         UNCHANGED <<setting, boot, informer, allowed, published, cluster, store>>,
         NEW r \in Handler, HandlerInv(r), handler' = [handler EXCEPT ![h] = r]
  PROVE  InformerInv'
<1>1. TypeOK'
  BY DEF InformerInv, TypeOK
<1>2. BootInv'
  BY DEF InformerInv, BootInv, FilterReady, Current
<1>3. handler \in [Handlers -> Handler]
  BY DEF InformerInv, TypeOK
<1>4. ASSUME NEW g \in Handlers
      PROVE  HandlerInv(handler[g])'
  <2>1. HandlerInv(handler'[g])
    BY <1>3 DEF InformerInv
  <2> QED BY <2>1 DEF HandlerInv, Watched, Wanted
<1> QED BY <1>1, <1>2, <1>4 DEF InformerInv, Watched

\* What one handler does keeps the invariant.
LEMMA HandleStep ==
  ASSUME InformerInv, NEW h \in Handlers, Handle(h)
  PROVE  InformerInv'
<1>1. TypeOK /\ BootInv /\ HandlerInv(handler[h]) /\ handler[h] \in Handler
  BY DEF InformerInv, TypeOK
<1>2. CASE Enter(h)
  <2> DEFINE r == [Idle EXCEPT !.pc = "enter"]
  <2>1. r \in Handler /\ HandlerInv(r)
    BY DEF Handler, Idle, HandlerInv
  <2> QED BY <1>2, <2>1, HandlerStep DEF Enter
<1>3. CASE SeeNoInformer(h)
  <2> DEFINE r == [handler[h] EXCEPT !.pc = "done"]
  <2>1. r \in Handler /\ HandlerInv(r)
    BY <1>1, <1>3 DEF SeeNoInformer, Handler, HandlerInv
  <2> QED BY <1>3, <2>1, HandlerStep DEF SeeNoInformer
<1>4. CASE ListStore(h)
  <2> DEFINE r == [handler[h] EXCEPT !.pc = "filter", !.objects = store, !.left = store]
  <2>1. store \subseteq Deployments /\ handler[h].names = {}
        /\ (published = 0 => store = {}) /\ \A d \in store : Watched(d)
    BY <1>1, <1>4 DEF InformerInv, TypeOK, HandlerInv, ListStore
  <2>2. r \in Handler /\ HandlerInv(r)
    BY <1>1, <2>1 DEF Handler, HandlerInv
  <2> QED BY <1>4, <2>2, HandlerStep DEF ListStore
<1>5. CASE Filter(h)
  <2>1. PICK d \in handler[h].left, i \in published .. Len(allowed) :
          handler' = [handler EXCEPT
            ![h].left = @ \ {d},
            ![h].names = IF IsNamespaceAllowed(allowed[i], d) THEN @ \cup {d} ELSE @]
    BY <1>5 DEF Filter
  <2> DEFINE r == [handler[h] EXCEPT
            !.left = @ \ {d},
            !.names = IF IsNamespaceAllowed(allowed[i], d) THEN @ \cup {d} ELSE @]
  <2>2. d \in Deployments /\ d \in handler[h].objects /\ Watched(d)
    BY <1>1 DEF Handler, HandlerInv
  <2>3. published = Len(allowed) /\ boot = "running" /\ FilterReady
    BY <1>1, <2>2 DEF HandlerInv, BootInv
  <2>4. allowed[i] = Current
    BY <1>1, <2>3 DEF TypeOK, Current
  <2>5. IsNamespaceAllowed(allowed[i], d) <=> Wanted(d)
    BY <1>1, <2>2, <2>3, <2>4, FilterIsExact
  <2>6. handler[h].pc = "filter"
    BY <1>5 DEF Filter
  <2>7. r \in Handler
    BY <1>1, <2>2 DEF Handler
  <2>8. HandlerInv(r)
    BY <1>1, <2>2, <2>5, <2>6 DEF Handler, HandlerInv
  <2>9. handler' = [handler EXCEPT ![h] = r]
    BY <2>1
  <2> HIDE DEF r
  <2> QED BY <1>5, <2>7, <2>8, <2>9, HandlerStep DEF Filter
<1>6. CASE Answer(h)
  <2> DEFINE r == [handler[h] EXCEPT !.pc = "done"]
  <2>1. r \in Handler /\ HandlerInv(r)
    BY <1>1, <1>6 DEF Answer, Handler, HandlerInv
  <2> QED BY <1>6, <2>1, HandlerStep DEF Answer
<1>7. CASE SeeTornInformer(h)
  <2>1. /\ setting' = setting /\ boot' = "choose" /\ allowed' = <<None>>
        /\ published' = 0 /\ store' = {} /\ cluster' = cluster /\ informer' = FALSE
        /\ handler' = [g \in Handlers |-> Idle]
    BY <1>7 DEF SeeTornInformer
  <2>2. allowed' \in Seq({None} \cup SUBSET Namespaces) /\ allowed' # <<>> /\ Len(allowed') = 1
    BY <2>1
  <2>3. Idle \in Handler
    BY DEF Idle, Handler
  <2>4. TypeOK'
    <3>1. handler' \in [Handlers -> Handler]
      BY <2>1, <2>3
    <3>2. published' \in 0 .. Len(allowed')
      BY <2>1, <2>2
    <3>3. setting' \in Settings /\ cluster' \subseteq Deployments
      BY <1>1, <2>1 DEF TypeOK
    <3> QED BY <2>1, <2>2, <3>1, <3>2, <3>3 DEF TypeOK
  <2>5. BootInv'
    BY <2>1 DEF BootInv, Current
  <2>6. ASSUME NEW g \in Handlers
        PROVE  HandlerInv(handler[g])'
    BY <2>1 DEF HandlerInv, Idle
  <2> QED BY <2>1, <2>4, <2>5, <2>6 DEF InformerInv
<1> QED BY <1>2, <1>3, <1>4, <1>5, <1>6, <1>7 DEF Handle

\* Every step keeps the invariant.
LEMMA Inductive ==
  ASSUME InformerInv, [Next]_vars
  PROVE  InformerInv'
<1>1. CASE StartDeploymentInformer
  BY <1>1, BootStep
<1>2. ASSUME NEW h \in Handlers, Handle(h)
      PROVE  InformerInv'
  BY <1>2, HandleStep
<1>3. ASSUME NEW d \in Deployments, Reflect(d)
      PROVE  InformerInv'
  <2>1. /\ UNCHANGED <<setting, boot, informer, allowed, published, cluster, handler>>
        /\ published # 0 /\ store' \subseteq store \cup {d} /\ Watched(d)
    BY <1>3 DEF Reflect
  <2>2. TypeOK'
    BY <2>1 DEF InformerInv, TypeOK
  <2> QED BY <2>1, <2>2 DEF InformerInv, BootInv, FilterReady, Current, HandlerInv,
                            Watched, Wanted
<1>4. ASSUME NEW d \in Deployments, ChangeCluster(d)
      PROVE  InformerInv'
  <2>1. /\ UNCHANGED <<setting, boot, informer, allowed, published, store, handler>>
        /\ cluster' \subseteq cluster \cup {d}
    BY <1>4 DEF ChangeCluster
  <2>2. TypeOK'
    BY <2>1 DEF InformerInv, TypeOK
  <2> QED BY <2>1, <2>2 DEF InformerInv, BootInv, FilterReady, Current, HandlerInv,
                            Watched, Wanted
<1>5. CASE UNCHANGED vars
  BY <1>5 DEF vars, InformerInv, TypeOK, BootInv, FilterReady, Current, HandlerInv,
              Watched, Wanted
<1> QED BY <1>1, <1>2, <1>3, <1>4, <1>5 DEF Next

\* TypeOK, the filter's completeness and each handler's partial answer hold
\* of every process that starts the informer and answers /deployments.
THEOREM InformerCorrect == Spec => []InformerInv
<1>1. ASSUME Init
      PROVE  InformerInv
  <2>1. /\ setting \in Settings /\ boot = "choose" /\ allowed = <<None>>
        /\ published = 0 /\ store = {} /\ cluster \subseteq Deployments /\ informer = FALSE
        /\ handler = [g \in Handlers |-> Idle]
    BY <1>1 DEF Init
  <2>2. allowed \in Seq({None} \cup SUBSET Namespaces) /\ allowed # <<>> /\ Len(allowed) = 1
    BY <2>1
  <2>3. Idle \in Handler /\ HandlerInv(Idle)
    BY DEF Idle, Handler, HandlerInv
  <2>4. published \in 0 .. Len(allowed)
    BY <2>1, <2>2
  <2>5. TypeOK
    <3>1. handler \in [Handlers -> Handler]
      BY <2>1, <2>3
    <3> QED BY <2>1, <2>2, <2>4, <3>1 DEF TypeOK
  <2>6. BootInv
    BY <2>1 DEF BootInv, Current
  <2> QED BY <2>1, <2>3, <2>5, <2>6 DEF InformerInv
<1> QED BY <1>1, Inductive, PTL DEF Spec

\* An answer of /deployments holds exactly the Deployments of the namespaces
\* asked for, among those the store held when the request listed it.
THEOREM Exact == Spec => []ListingIsExact
<1>1. ASSUME InformerInv
      PROVE  ListingIsExact
  <2>1. ASSUME NEW h \in Handlers, handler[h].pc = "done"
        PROVE  handler[h].names = {d \in handler[h].objects : Wanted(d)}
    BY <1>1, <2>1 DEF InformerInv, HandlerInv
  <2> QED BY <2>1 DEF ListingIsExact
<1> QED BY <1>1, InformerCorrect, PTL

\* No request reads allowedNamespaces while setAllowedNamespaces fills it.
THEOREM Raceless == Spec => []NoMapRace
<1>1. ASSUME InformerInv
      PROVE  NoMapRace
  BY <1>1 DEF InformerInv, BootInv, HandlerInv, NoMapRace
<1> QED BY <1>1, InformerCorrect, PTL
=============================================================================
