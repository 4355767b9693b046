-------------------------- MODULE ApiServerProofs --------------------------
(***************************************************************************)
(* What a write to the API server does to the state of the watches and     *)
(* caches, as facts the proofs about the controllers cite.                 *)
(***************************************************************************)
EXTENDS ApiServer, TLAPS

LEMMA NoneIsNoObject ==
  ASSUME NEW k \in Kinds
  PROVE  None \notin Objects(k) /\ None \notin Nat
  BY NoneAssumption DEF Kinds, Objects

\* Stamping gives an object of the same kind a version, and absence nothing.
LEMMA StampedType ==
  ASSUME ApiTypeOK, NEW k \in Kinds, NEW n \in Names,
         NEW obj \in Objects(k) \cup {None}
  PROVE  /\ Stamped(k, n, obj) \in Objects(k) \cup {None}
         /\ (Stamped(k, n, obj) = None) <=> (obj = None)
<1>0. rev[k][n] + 1 \in Nat
  <2>1. rev \in [Kinds -> [Names -> Nat]]
    BY DEF ApiTypeOK
  <2>2. rev[k][n] \in Nat
    BY <2>1
  <2> QED BY <2>2
<1>1. CASE obj = None
  BY <1>1 DEF Stamped
<1>2. CASE obj # None
  <2>1. Stamped(k, n, obj) = [obj EXCEPT !.rv = rev[k][n] + 1]
    BY <1>2 DEF Stamped
  <2>2. CASE k = "proxy"
    BY <1>0, <1>2, <2>1, <2>2, NoneIsNoObject DEF Objects, Proxy
  <2>3. CASE k = "cm"
    BY <1>0, <1>2, <2>1, <2>3, NoneIsNoObject DEF Objects, ConfigMap
  <2>4. CASE k = "dep"
    BY <1>0, <1>2, <2>1, <2>4, NoneIsNoObject DEF Objects, Deployment
  <2> QED BY <2>2, <2>3, <2>4 DEF Kinds
<1> QED BY <1>1, <1>2

(***************************************************************************)
(* A commit changes one slot of the store, if anything, and appends the    *)
(* new object to that slot's watch; no cache sees it yet.                  *)
(***************************************************************************)
LEMMA CommitEffect ==
  ASSUME ApiTypeOK, NEW k \in Kinds, NEW n \in Names, NEW obj, Commit(k, n, obj)
  PROVE  /\ cache' = cache
         /\ \A k2 \in Kinds, n2 \in Names :
              k2 # k \/ n2 # n => /\ store'[k2][n2] = store[k2][n2]
                                  /\ watch'[k2][n2] = watch[k2][n2]
         /\ \/ obj = store[k][n] /\ store' = store /\ watch' = watch
            \/ /\ obj # store[k][n]
               /\ store'[k][n] = Stamped(k, n, obj)
               /\ watch'[k][n] = Append(watch[k][n], Stamped(k, n, obj))
<1>1. CASE obj = store[k][n]
  BY <1>1 DEF Commit, apiVars
<1>2. CASE obj # store[k][n]
  <2>1. /\ store' = [store EXCEPT ![k][n] = Stamped(k, n, obj)]
        /\ watch' = [watch EXCEPT ![k][n] = Append(@, Stamped(k, n, obj))]
        /\ cache' = cache
    BY <1>2 DEF Commit
  <2>2. DOMAIN store = Kinds /\ DOMAIN watch = Kinds
    BY DEF ApiTypeOK
  <2>3. ASSUME NEW x \in Kinds
        PROVE  DOMAIN store[x] = Names /\ DOMAIN watch[x] = Names
    BY DEF ApiTypeOK
  <2>4. /\ store'[k][n] = Stamped(k, n, obj)
        /\ watch'[k][n] = Append(watch[k][n], Stamped(k, n, obj))
    BY <2>1, <2>2, <2>3
  <2>5. ASSUME NEW k2 \in Kinds, NEW n2 \in Names, k2 # k \/ n2 # n
        PROVE  /\ store'[k2][n2] = store[k2][n2]
               /\ watch'[k2][n2] = watch[k2][n2]
    BY <2>1, <2>2, <2>3, <2>5
  <2> QED BY <1>2, <2>1, <2>4, <2>5
<1> QED BY <1>1, <1>2

LEMMA CommitType ==
  ASSUME ApiTypeOK, NEW k \in Kinds, NEW n \in Names,
         NEW obj \in Objects(k) \cup {None}, Commit(k, n, obj)
  PROVE  ApiTypeOK'
<1>1. CASE obj = store[k][n]
  BY <1>1 DEF Commit, apiVars, ApiTypeOK
<1>2. CASE obj # store[k][n]
  <2>1. /\ store' = [store EXCEPT ![k][n] = Stamped(k, n, obj)]
        /\ rev' = [rev EXCEPT ![k][n] = @ + 1]
        /\ watch' = [watch EXCEPT ![k][n] = Append(@, Stamped(k, n, obj))]
        /\ cache' = cache
    BY <1>2 DEF Commit
  <2>2. Stamped(k, n, obj) \in Objects(k) \cup {None}
    BY StampedType
  <2>3. DOMAIN store' = Kinds /\ DOMAIN watch' = Kinds /\ DOMAIN cache' = Kinds
    BY <2>1 DEF ApiTypeOK
  <2>4. rev' \in [Kinds -> [Names -> Nat]]
    BY <2>1 DEF ApiTypeOK
  <2>5. ASSUME NEW k2 \in Kinds
        PROVE  /\ store'[k2] \in [Names -> Objects(k2) \cup {None}]
               /\ cache'[k2] \in [Names -> Objects(k2) \cup {None}]
    BY <2>1, <2>2 DEF ApiTypeOK
  <2>6. ASSUME NEW k2 \in Kinds
        PROVE  watch'[k2] \in [Names -> Seq(Objects(k2) \cup {None})]
    <3>1. watch[k2] \in [Names -> Seq(Objects(k2) \cup {None})]
      BY DEF ApiTypeOK
    <3>2. CASE k2 = k
      <4>1. Append(watch[k][n], Stamped(k, n, obj)) \in Seq(Objects(k) \cup {None})
        BY <2>2, <3>1, <3>2
      <4>2. watch'[k] = [watch[k] EXCEPT ![n] = Append(watch[k][n], Stamped(k, n, obj))]
        BY <2>1 DEF ApiTypeOK
      <4> QED BY <3>1, <3>2, <4>1, <4>2
    <3>3. CASE k2 # k
      BY <2>1, <3>1, <3>3 DEF ApiTypeOK
    <3> QED BY <3>2, <3>3
  <2> QED BY <2>3, <2>4, <2>5, <2>6 DEF ApiTypeOK
<1> QED BY <1>1, <1>2

\* The version of a slot counts the writes of it.
LEMMA CommitVersion ==
  ASSUME ApiTypeOK, NEW k \in Kinds, NEW n \in Names, NEW obj, Commit(k, n, obj)
  PROVE  /\ obj = store[k][n] => rev' = rev
         /\ obj # store[k][n] => rev'[k][n] = rev[k][n] + 1
         /\ \A k2 \in Kinds, n2 \in Names :
              k2 # k \/ n2 # n => rev'[k2][n2] = rev[k2][n2]
<1>0. rev \in [Kinds -> [Names -> Nat]]
  BY DEF ApiTypeOK
<1>1. CASE obj = store[k][n]
  BY <1>1 DEF Commit, apiVars
<1>2. CASE obj # store[k][n]
  <2>1. rev' = [rev EXCEPT ![k][n] = @ + 1]
    BY <1>2 DEF Commit
  <2> QED BY <1>0, <1>2, <2>1
<1> QED BY <1>1, <1>2
=============================================================================
