----------------------------- MODULE ApiServer ------------------------------
(***************************************************************************)
(* The Kubernetes API server and the informer caches of one controller     *)
(* process, as the code in src/ uses them through the client of            *)
(* mgr.GetClient(): writes go to the server, Get and List are answered     *)
(* from the process's caches, and a watch per kind carries every committed *)
(* change to the cache in order, arbitrarily late.                         *)
(*                                                                         *)
(* Everything here is outside src/ and modelled from its use.              *)
(***************************************************************************)
EXTENDS ProxyObjects, Sequences

Kinds == {"proxy", "cm", "dep"}

VARIABLES
  store,   \* store[k][n]: the object of kind k named n, or None
  rev,     \* rev[k][n]: how often that slot was written (resourceVersion)
  watch,   \* watch[k][n]: the committed changes the cache has not seen yet
  cache    \* cache[k][n]: what a Get answers

apiVars == <<store, rev, watch, cache>>

Objects(k) == CASE k = "proxy" -> Proxy
                [] k = "cm"    -> ConfigMap
                [] k = "dep"   -> Deployment

ApiTypeOK ==
  /\ DOMAIN store = Kinds /\ DOMAIN watch = Kinds /\ DOMAIN cache = Kinds
  /\ rev \in [Kinds -> [Names -> Nat]]
  /\ \A k \in Kinds :
       /\ store[k] \in [Names -> Objects(k) \cup {None}]
       /\ cache[k] \in [Names -> Objects(k) \cup {None}]
       /\ watch[k] \in [Names -> Seq(Objects(k) \cup {None})]

ApiInit ==
  /\ store = [k \in Kinds |-> [n \in Names |-> None]]
  /\ cache = [k \in Kinds |-> [n \in Names |-> None]]
  /\ watch = [k \in Kinds |-> [n \in Names |-> <<>>]]
  /\ rev = [k \in Kinds |-> [n \in Names |-> 0]]

Stamped(k, n, obj) ==
  IF obj = None THEN None ELSE [obj EXCEPT !.rv = rev[k][n] + 1]

(***************************************************************************)
(* The server accepts obj (None: a deletion).  A write that changes        *)
(* nothing keeps the resourceVersion and makes no watch event.             *)
(***************************************************************************)
Commit(k, n, obj) ==
  IF obj = store[k][n]
  THEN UNCHANGED apiVars
  ELSE /\ store' = [store EXCEPT ![k][n] = Stamped(k, n, obj)]
       /\ rev' = [rev EXCEPT ![k][n] = @ + 1]
       /\ watch' = [watch EXCEPT ![k][n] = Append(@, Stamped(k, n, obj))]
       /\ UNCHANGED cache

\* Optimistic concurrency: an update must carry the current resourceVersion.
Current(k, n, obj) == store[k][n] # None /\ store[k][n].rv = obj.rv

\* The controller reference that maps an object to the request for its owner.
Owned(obj) == obj # None /\ obj.owner # None

\* A cache holding nothing older than the server's state.
InSync(n) == \A k \in Kinds : watch[k][n] = <<>>
=============================================================================
