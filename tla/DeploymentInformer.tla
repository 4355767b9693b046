------------------------- MODULE DeploymentInformer -------------------------
(***************************************************************************)
(* pkg/informer/informer.go, and the handlers of /deployments in           *)
(* cmd/server.go.  One goroutine starts the informer: it assigns two       *)
(* package variables, allowedNamespaces and deploymentInformer, and starts *)
(* the reflector that fills the informer's store.  Every request runs in a *)
(* goroutine of its own and reads both variables without a lock.           *)
(*                                                                         *)
(* The reads race with the assignments, so that a handler may see          *)
(* deploymentInformer unassigned, assigned or with one of its two words    *)
(* only; a call through the latter panics and ends the process.  The store *)
(* has a lock: who finds an object in it sees everything that was assigned *)
(* before the reflector was started.                                       *)
(***************************************************************************)
EXTENDS Integers, Sequences

CONSTANTS
  None,         \* the nil map
  Deployments,  \* Deployments that may exist in the cluster
  Namespaces,
  NamespaceOf,  \* the namespace of each Deployment
  Settings,     \* values of --namespaces, and of --namespace without it
  Handlers      \* requests at a time

Setting == [kind : {"all"}, namespaces : {Namespaces}]
      \cup [kind : {"one"}, namespaces : {{n} : n \in Namespaces}]
      \cup [kind : {"list"}, namespaces : SUBSET Namespaces]

ASSUME NamespaceAssumption == NamespaceOf \in [Deployments -> Namespaces]
ASSUME SettingsAssumption == Settings \subseteq Setting
ASSUME NilAssumption == \A namespaces \in SUBSET Namespaces : None # namespaces

VARIABLES
  setting,   \* what this process was asked to list
  boot,      \* the next step of StartDeploymentInformer
  informer,  \* has deploymentInformer been assigned?
  allowed,   \* the values allowedNamespaces has had, the last one is current
  published, \* how many of them when the reflector was started; 0 before
  cluster,   \* the Deployments that exist
  store,     \* the informer's store
  handler    \* the handlers of /deployments

vars == <<setting, boot, informer, allowed, published, cluster, store, handler>>

Idle == [pc |-> "idle", objects |-> {}, left |-> {}, names |-> {}]

Handler == [pc : {"idle", "enter", "filter", "done"}, objects : SUBSET Deployments,
            left : SUBSET Deployments, names : SUBSET Deployments]

TypeOK ==
  /\ setting \in Settings
  /\ boot \in {"choose", "makeMap", "fill", "create", "start", "running"}
  /\ informer \in BOOLEAN
  /\ allowed \in Seq({None} \cup SUBSET Namespaces) /\ allowed # <<>>
  /\ published \in 0 .. Len(allowed)
  /\ cluster \subseteq Deployments /\ store \subseteq Deployments
  /\ handler \in [Handlers -> Handler]

\* A process that has just started, in a cluster that may be old.
Init ==
  /\ setting \in Settings
  /\ cluster \in SUBSET Deployments
  /\ boot = "choose"
  /\ informer = FALSE
  /\ allowed = <<None>>
  /\ published = 0
  /\ store = {}
  /\ handler = [h \in Handlers |-> Idle]

\* What the factory watches: a list of namespaces is filtered by the handlers.
Watched(d) == setting.kind = "one" => NamespaceOf[d] \in setting.namespaces

Wanted(d) == NamespaceOf[d] \in setting.namespaces

Current == allowed[Len(allowed)]

-----------------------------------------------------------------------------
(* StartDeploymentInformer. *)

\* Defective variant: the informer is started first, the filter is set later.
AfterEager(step) ==
  CASE step = "choose" -> "create"
    [] step = "create" -> "start"
    [] step = "start" -> IF setting.kind = "list" THEN "makeMap" ELSE "running"
    [] step = "makeMap" -> "fill"
    [] step = "fill" -> "running"

\* The order of the steps: only a list of namespaces sets the filter.
After(step) ==
  CASE step = "choose" -> IF setting.kind = "list" THEN "makeMap" ELSE "create"
    [] step = "makeMap" -> "fill"
    [] step = "fill" -> "create"
    [] step = "create" -> "start"
    [] step = "start" -> "running"

ChooseFactory ==
  /\ boot = "choose"
  /\ boot' = After("choose")
  /\ UNCHANGED <<setting, informer, allowed, published, cluster, store, handler>>

\* setAllowedNamespaces: an empty map, then one entry after the other.
MakeMap ==
  /\ boot = "makeMap"
  /\ allowed' = Append(allowed, {})
  /\ boot' = After("makeMap")
  /\ UNCHANGED <<setting, informer, published, cluster, store, handler>>

Fill ==
  /\ boot = "fill"
  /\ \/ /\ \E n \in setting.namespaces \ Current :
             allowed' = Append(allowed, Current \cup {n})
        /\ UNCHANGED boot
     \/ /\ setting.namespaces \subseteq Current
        /\ boot' = After("fill")
        /\ UNCHANGED allowed
  /\ UNCHANGED <<setting, informer, published, cluster, store, handler>>

CreateInformer ==
  /\ boot = "create"
  /\ informer' = TRUE
  /\ boot' = After("create")
  /\ UNCHANGED <<setting, allowed, published, cluster, store, handler>>

\* factory.Start: what is assigned by now is visible to the reflector.
StartFactory ==
  /\ boot = "start"
  /\ published' = Len(allowed)
  /\ boot' = After("start")
  /\ UNCHANGED <<setting, informer, allowed, cluster, store, handler>>

StartDeploymentInformer ==
  ChooseFactory \/ MakeMap \/ Fill \/ CreateInformer \/ StartFactory

-----------------------------------------------------------------------------
(* The reflector and the cluster. *)

\* The store learns what has become of a Deployment.
Reflect(d) ==
  /\ published # 0
  /\ Watched(d)
  /\ store' = IF d \in cluster THEN store \cup {d} ELSE store \ {d}
  /\ UNCHANGED <<setting, boot, informer, allowed, published, cluster, handler>>

ChangeCluster(d) ==
  /\ cluster' = IF d \in cluster THEN cluster \ {d} ELSE cluster \cup {d}
  /\ UNCHANGED <<setting, boot, informer, allowed, published, store, handler>>

-----------------------------------------------------------------------------
(* GetDeploymentNames and GetDeploymentNamesWithNamespace. *)

Enter(h) ==
  /\ handler[h].pc \in {"idle", "done"}
  /\ handler' = [handler EXCEPT ![h] = [Idle EXCEPT !.pc = "enter"]]
  /\ UNCHANGED <<setting, boot, informer, allowed, published, cluster, store>>

\* The handler sees no informer: it answers an empty list.
SeeNoInformer(h) ==
  /\ handler[h].pc = "enter"
  /\ handler' = [handler EXCEPT ![h].pc = "done"]
  /\ UNCHANGED <<setting, boot, informer, allowed, published, cluster, store>>

\* It sees the informer: a copy of the store, taken under its lock.
ListStore(h) ==
  /\ handler[h].pc = "enter"
  /\ informer
  /\ handler' = [handler EXCEPT ![h].pc = "filter", ![h].objects = store,
                                ![h].left = store]
  /\ UNCHANGED <<setting, boot, informer, allowed, published, cluster, store>>

\* It sees half of the informer: the call panics, and a new process starts.
SeeTornInformer(h) ==
  /\ handler[h].pc = "enter"
  /\ informer
  /\ boot' = "choose"
  /\ informer' = FALSE
  /\ allowed' = <<None>>
  /\ published' = 0
  /\ store' = {}
  /\ handler' = [g \in Handlers |-> Idle]
  /\ UNCHANGED <<setting, cluster>>

\* Defective variant: nil means nothing is allowed.
AllowedByMap(namespaces, d) == namespaces # None /\ NamespaceOf[d] \in namespaces

IsNamespaceAllowed(namespaces, d) ==
  namespaces = None \/ NamespaceOf[d] \in namespaces

\* Any value allowedNamespaces has had since the reflector was started.
Filter(h) ==
  /\ handler[h].pc = "filter"
  /\ \E d \in handler[h].left, i \in published .. Len(allowed) :
       handler' = [handler EXCEPT
         ![h].left = @ \ {d},
         ![h].names = IF IsNamespaceAllowed(allowed[i], d) THEN @ \cup {d} ELSE @]
  /\ UNCHANGED <<setting, boot, informer, allowed, published, cluster, store>>

Answer(h) ==
  /\ handler[h].pc = "filter"
  /\ handler[h].left = {}
  /\ handler' = [handler EXCEPT ![h].pc = "done"]
  /\ UNCHANGED <<setting, boot, informer, allowed, published, cluster, store>>

Handle(h) ==
  \/ Enter(h) \/ SeeNoInformer(h) \/ SeeTornInformer(h)
  \/ ListStore(h) \/ Filter(h) \/ Answer(h)

Next ==
  \/ StartDeploymentInformer
  \/ \E d \in Deployments : Reflect(d) \/ ChangeCluster(d)
  \/ \E h \in Handlers : Handle(h)

Spec == Init /\ [][Next]_vars

-----------------------------------------------------------------------------
(***************************************************************************)
(* Why the race on allowedNamespaces is harmless: the filter is complete   *)
(* before the reflector starts, so that whoever has an object to filter    *)
(* sees the complete filter (lines 63 and 167).                            *)
(***************************************************************************)
FilterReady ==
  Current = IF setting.kind = "list" THEN setting.namespaces ELSE None

BootInv ==
  /\ published # 0 => boot = "running" /\ published = Len(allowed)
  /\ boot \in {"create", "start", "running"} => FilterReady
  /\ boot \in {"makeMap", "fill"} => setting.kind = "list"
  /\ boot = "choose" => Current = None
  /\ boot = "fill" => Current \subseteq setting.namespaces

HandlerInv(r) ==
  /\ r.left \subseteq r.objects
  /\ \A d \in r.objects : Watched(d)
  /\ published = 0 => r.objects = {}
  /\ r.pc = "enter" => r.objects = {}
  /\ r.pc # "filter" => r.left = {}
  /\ r.names = {d \in r.objects \ r.left : Wanted(d)}

InformerInv ==
  /\ TypeOK
  /\ BootInv
  /\ published = 0 => store = {}
  /\ \A d \in store : Watched(d)
  /\ \A h \in Handlers : HandlerInv(handler[h])

(***************************************************************************)
(* From the first request on, a listing holds exactly the Deployments of   *)
(* the namespaces asked for among those the store held: none of another    *)
(* namespace slips through before the filter is set, and none is hidden by *)
(* a filter that is half filled (lines 63, 77, 181-189, 197-210).          *)
(***************************************************************************)
ListingIsExact ==
  \A h \in Handlers :
    handler[h].pc = "done" => handler[h].names = {d \in handler[h].objects : Wanted(d)}

(***************************************************************************)
(* No handler reads the map while an entry is being added, which the Go    *)
(* runtime answers by ending the process (lines 197-201 and 209).          *)
(***************************************************************************)
NoMapRace ==
  boot = "fill" => \A h \in Handlers : handler[h].left = {}
=============================================================================
