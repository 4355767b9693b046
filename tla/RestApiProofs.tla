---------------------------- MODULE RestApiProofs ----------------------------
(***************************************************************************)
(* The proof that the handlers of RestApi implement the table of           *)
(* ProxyTable, for any number of clients, proxies, requests and failures.  *)
(*                                                                         *)
(* A write of PUT or PATCH is computed from a cached copy.  It acts on the *)
(* proxy as it is on the server because the server compares                *)
(* resourceVersions and, by RestInv, a copy that has the current one is    *)
(* the current object.  Every other step is a Submit, a Refuse, a Read, a  *)
(* Break, a write Elsewhere, or leaves the table, calls and answers alone. *)
(***************************************************************************)
EXTENDS RestApi, ApiServerProofs

-----------------------------------------------------------------------------
(* Facts about the data. *)

\* A proxy is not the absent object, and its fields are where they belong.
LEMMA ProxyFields ==
  ASSUME NEW obj \in Proxy
  PROVE  /\ obj # None /\ obj.rv \in Nat /\ obj.spec \in ProxySpec
         /\ obj.spec # None
  BY NoneAssumption, BodyAssumption DEF Proxy

\* What ProxyTable computes is what the handlers compute.
LEMMA SameOutcome ==
  ASSUME NEW request_, NEW spec
  PROVE  /\ Table!Outcome(request_, spec) = Outcome(request_, spec)
         /\ Table!Success(request_) = Success(request_)
         /\ Table!Failure(request_) = Failure(request_)
         /\ Table!Creates(request_) = Creates(request_)
  BY DEF Table!Outcome, Outcome, Table!Success, Success, Table!Failure, Failure,
         Table!Creates, Creates, Table!ApplyPartialSpecUpdate, ApplyPartialSpecUpdate,
         Table!CompleteSpec, CompleteSpec, Table!Pick, Pick

LEMMA CallFields ==
  ASSUME NEW call \in Calls
  PROVE  /\ call # None /\ call.name \in Names
         /\ call.op \in {"POST", "PUT", "PATCH", "tool", "GET", "DELETE"}
  BY CallsAssumption DEF Call

\* A patched or completed spec is a spec.
LEMMA PatchType ==
  ASSUME NEW patch \in Patches, NEW spec \in ProxySpec
  PROVE  ApplyPartialSpecUpdate(spec, patch) \in ProxySpec
<1>1. ASSUME NEW f \in Fields, f \in DOMAIN patch
      PROVE  patch[f] \in ValuesOf(f)
  BY <1>1, PatchesAssumption
<1>2. Pick(patch, "replicaCount", spec.replicaCount) \in Int
  BY <1>1 DEF Pick, Fields, ValuesOf, ProxySpec
<1>3. Pick(patch, "image", spec.image) \in Images
  BY <1>1 DEF Pick, Fields, ValuesOf, ProxySpec
<1>4. Pick(patch, "resources", spec.resources) \in Quantities
  BY <1>1 DEF Pick, Fields, ValuesOf, ProxySpec
<1>5. (IF Pick(patch, "routes", NoPorts) = NoPorts THEN spec.routes
       ELSE patch["routes"]) \in Routes
  <2>1. CASE Pick(patch, "routes", NoPorts) = NoPorts
    BY <2>1 DEF ProxySpec
  <2>2. CASE Pick(patch, "routes", NoPorts) # NoPorts
    <3>1. "routes" \in DOMAIN patch
      BY <2>2 DEF Pick
    <3> QED BY <1>1, <2>2, <3>1 DEF Fields, ValuesOf
  <2> QED BY <2>1, <2>2
<1> QED BY <1>2, <1>3, <1>4, <1>5 DEF ApplyPartialSpecUpdate, ProxySpec

\* The spec a request that can act leads to.
LEMMA OutcomeType ==
  ASSUME NEW call \in Calls, call.body # Malformed,
         call.op \notin {"GET", "DELETE"},
         NEW spec, Modifies(call) => spec \in ProxySpec
  PROVE  Outcome(call, spec) \in ProxySpec
<1>0. call \in Call
  BY CallsAssumption
<1>1. CASE call.op \in {"POST", "PUT"}
  <2>1. call.body \in ProxySpec
    BY <1>0, <1>1 DEF Call
  <2> QED BY <1>1, <2>1 DEF Outcome
<1>2. CASE call.op = "PATCH"
  <2>1. call.body \in Patches /\ spec \in ProxySpec
    BY <1>0, <1>2 DEF Call, Modifies
  <2>2. Outcome(call, spec) = ApplyPartialSpecUpdate(spec, call.body)
    BY <1>2 DEF Outcome
  <2> QED BY <2>1, <2>2, PatchType
<1>3. CASE call.op = "tool"
  <2>1. call.body \in Patches
    BY <1>0, <1>3 DEF Call
  <2>2. Outcome(call, spec) = ApplyPartialSpecUpdate(DefaultSpec, call.body)
    BY <1>3 DEF Outcome, CompleteSpec
  <2> QED BY <2>1, <2>2, PatchType, DefaultAssumption
<1> QED BY <1>1, <1>2, <1>3, CallFields

-----------------------------------------------------------------------------
(* Facts about a write of a proxy. *)

\* The objects a cache, a watch and the server hold are proxies.
LEMMA ProxyKind ==
  /\ "proxy" \in Kinds
  /\ Objects("proxy") = Proxy
  BY DEF Kinds, Objects

\* A stamped proxy differs in its version only.
LEMMA StampedProxy ==
  ASSUME ApiTypeOK, NEW n \in Names, NEW obj \in Proxy
  PROVE  /\ Stamped("proxy", n, obj) \in Proxy
         /\ Stamped("proxy", n, obj).rv = rev["proxy"][n] + 1
         /\ Stamped("proxy", n, obj).spec = obj.spec
<1>1. rev["proxy"][n] + 1 \in Nat
  <2>1. rev \in [Kinds -> [Names -> Nat]]
    BY DEF ApiTypeOK
  <2>2. rev["proxy"][n] \in Nat
    BY <2>1, ProxyKind
  <2> QED BY <2>2
<1>2. Stamped("proxy", n, obj) = [obj EXCEPT !.rv = rev["proxy"][n] + 1]
  BY ProxyFields DEF Stamped
<1> QED BY <1>1, <1>2 DEF Proxy

\* What a committed write does to the table the clients see.
LEMMA CommitTable ==
  ASSUME ApiTypeOK, NEW n \in Names, NEW obj \in Proxy \cup {None},
         Commit("proxy", n, obj)
  PROVE  ServedTable' = [ServedTable EXCEPT ![n] = SpecIn(obj)]
<1>1. \A m \in Names : m # n => store'["proxy"][m] = store["proxy"][m]
  BY CommitEffect, ProxyKind
<1>2. SpecIn(store'["proxy"][n]) = SpecIn(obj)
  <2>1. CASE obj = store["proxy"][n]
    BY <2>1, CommitEffect, ProxyKind
  <2>2. CASE obj # store["proxy"][n]
    <3>1. store'["proxy"][n] = Stamped("proxy", n, obj)
      BY <2>2, CommitEffect, ProxyKind
    <3>2. CASE obj = None
      BY <3>1, <3>2 DEF Stamped, SpecIn
    <3>3. CASE obj \in Proxy
      <4>1. store'["proxy"][n] \in Proxy /\ store'["proxy"][n].spec = obj.spec
        BY <3>1, <3>3, StampedProxy
      <4> QED BY <3>3, <4>1, ProxyFields DEF SpecIn
    <3> QED BY <3>2, <3>3
  <2> QED BY <2>1, <2>2
<1>3. ServedTable' = [m \in Names |-> SpecIn(store'["proxy"][m])]
  BY DEF ServedTable, SpecIn
<1>4. ASSUME NEW m \in Names
      PROVE  SpecIn(store'["proxy"][m])
               = [ServedTable EXCEPT ![n] = SpecIn(obj)][m]
  <2>1. CASE m = n
    BY <1>2, <2>1 DEF ServedTable
  <2>2. CASE m # n
    BY <1>1, <2>2 DEF ServedTable
  <2> QED BY <2>1, <2>2
<1> QED BY <1>3, <1>4 DEF ServedTable

\* A copy stays faithful through a write of whatever object.
LEMMA CommitFaithful ==
  ASSUME ApiTypeOK, NEW k \in Kinds, NEW n \in Names, NEW obj, Commit(k, n, obj),
         NEW m \in Names, NEW copy \in Proxy \cup {None}, Faithful(m, copy)
  PROVE  Faithful(m, copy)'
<1>0. rev["proxy"][m] \in Nat
  <2>1. rev \in [Kinds -> [Names -> Nat]]
    BY DEF ApiTypeOK
  <2> QED BY <2>1, ProxyKind
<1>1. CASE k # "proxy" \/ m # n
  <2>1. /\ rev'["proxy"][m] = rev["proxy"][m]
        /\ store'["proxy"][m] = store["proxy"][m]
    BY <1>1, CommitVersion, CommitEffect, ProxyKind
  <2> QED BY <2>1 DEF Faithful
<1>2. CASE k = "proxy" /\ m = n /\ obj = store[k][n]
  <2>1. rev' = rev /\ store' = store
    BY <1>2, CommitVersion, CommitEffect
  <2> QED BY <2>1 DEF Faithful
<1>3. CASE k = "proxy" /\ m = n /\ obj # store[k][n]
  <2>1. rev'["proxy"][m] = rev["proxy"][m] + 1
    BY <1>3, CommitVersion
  <2>2. CASE copy = None
    BY <2>2 DEF Faithful
  <2>3. CASE copy \in Proxy
    <3>1. copy.rv \in Nat /\ copy.rv <= rev["proxy"][m]
      BY <2>3, ProxyFields DEF Faithful
    <3> QED BY <1>0, <2>1, <3>1 DEF Faithful
  <2> QED BY <2>2, <2>3
<1> QED BY <1>1, <1>2, <1>3

LEMMA CacheType ==
  ASSUME ApiTypeOK, NEW n \in Names
  PROVE  /\ store["proxy"][n] \in Proxy \cup {None}
         /\ cache["proxy"][n] \in Proxy \cup {None}
         /\ watch["proxy"][n] \in Seq(Proxy \cup {None})
         /\ rev["proxy"][n] \in Nat
<1>1. /\ store["proxy"] \in [Names -> Proxy \cup {None}]
      /\ cache["proxy"] \in [Names -> Proxy \cup {None}]
      /\ watch["proxy"] \in [Names -> Seq(Proxy \cup {None})]
      /\ rev \in [Kinds -> [Names -> Nat]]
  BY ProxyKind DEF ApiTypeOK
<1> QED BY <1>1, ProxyKind

\* A committed proxy, stamped with a new version, is its own faithful copy.
LEMMA CommitCopies ==
  ASSUME ApiTypeOK, CopiesFaithful, NEW n \in Names, NEW obj \in Proxy \cup {None},
         Commit("proxy", n, obj)
  PROVE  CopiesFaithful'
<1>1. ApiTypeOK'
  BY CommitType, ProxyKind
<1>2. ASSUME NEW m \in Names
      PROVE  store'["proxy"][m] # None => store'["proxy"][m].rv = rev'["proxy"][m]
  <2>1. CASE m # n \/ obj = store["proxy"][n]
    BY <2>1, CommitEffect, CommitVersion, ProxyKind DEF CopiesFaithful
  <2>2. CASE m = n /\ obj # store["proxy"][n]
    <3>1. /\ store'["proxy"][n] = Stamped("proxy", n, obj)
          /\ rev'["proxy"][n] = rev["proxy"][n] + 1
      BY <2>2, CommitEffect, CommitVersion, ProxyKind
    <3>2. CASE obj = None
      BY <2>2, <3>1, <3>2 DEF Stamped
    <3>3. CASE obj \in Proxy
      BY <2>2, <3>1, <3>3, StampedProxy
    <3> QED BY <3>2, <3>3
  <2> QED BY <2>1, <2>2
<1>3. ASSUME NEW m \in Names
      PROVE  Faithful(m, cache["proxy"][m])'
  <2>1. cache'["proxy"][m] = cache["proxy"][m]
    BY CommitEffect, ProxyKind
  <2>2. cache["proxy"][m] \in Proxy \cup {None} /\ Faithful(m, cache["proxy"][m])
    BY CacheType DEF CopiesFaithful
  <2>3. \A copy \in Proxy \cup {None} : Faithful(m, copy) => Faithful(m, copy)'
    BY CommitFaithful, ProxyKind
  <2> QED BY <2>1, <2>2, <2>3 DEF Faithful
<1>4. ASSUME NEW m \in Names, NEW i \in 1..Len(watch'["proxy"][m])
      PROVE  Faithful(m, watch["proxy"][m][i])'
  <2>0. watch["proxy"][m] \in Seq(Proxy \cup {None})
    BY CacheType
  <2>1. \A copy \in Proxy \cup {None} : Faithful(m, copy) => Faithful(m, copy)'
    BY CommitFaithful, ProxyKind
  <2>2. ASSUME i \in 1..Len(watch["proxy"][m]),
               watch'["proxy"][m][i] = watch["proxy"][m][i]
        PROVE  Faithful(m, watch["proxy"][m][i])'
    <3>1. /\ watch["proxy"][m][i] \in Proxy \cup {None}
          /\ Faithful(m, watch["proxy"][m][i])
      BY <2>0, <2>2 DEF CopiesFaithful
    <3> QED BY <2>1, <2>2, <3>1 DEF Faithful
  <2>3. CASE m # n \/ obj = store["proxy"][n]
    <3>1. watch'["proxy"][m] = watch["proxy"][m]
      BY <2>3, CommitEffect, ProxyKind
    <3> QED BY <2>2, <3>1
  <2>4. CASE m = n /\ obj # store["proxy"][n]
    <3>1. /\ store'["proxy"][n] = Stamped("proxy", n, obj)
          /\ watch'["proxy"][n] = Append(watch["proxy"][n], Stamped("proxy", n, obj))
      BY <2>4, CommitEffect, ProxyKind
    <3>2. CASE i = Len(watch["proxy"][n]) + 1
      <4>1. watch'["proxy"][m][i] = store'["proxy"][m]
        BY <2>0, <2>4, <3>1, <3>2
      <4>2. store'["proxy"][m] \in Proxy \cup {None} /\ rev'["proxy"][m] \in Nat
        BY <1>1, CacheType, ProxyKind DEF ApiTypeOK
      <4> QED BY <1>2, <4>1, <4>2, ProxyFields DEF Faithful
    <3>3. CASE i # Len(watch["proxy"][n]) + 1
      <4>1. /\ i \in 1..Len(watch["proxy"][m])
            /\ watch'["proxy"][m][i] = watch["proxy"][m][i]
        BY <2>0, <2>4, <3>1, <3>3
      <4> QED BY <2>2, <4>1
    <3> QED BY <3>2, <3>3
  <2> QED BY <2>3, <2>4
<1> QED BY <1>2, <1>3, <1>4 DEF CopiesFaithful, Faithful

-----------------------------------------------------------------------------
(* Facts about an answer. *)

\* A request that is not done is one its client waits for.
LEMMA Pending ==
  ASSUME RestTypeOK, NEW c \in Clients, request[c].pc # "done"
  PROVE  /\ request[c].call \in Calls
         /\ request[c].call # None /\ request[c].call.name \in Names
         /\ Table!Waiting(c)
<1>1. RequestOK(request[c])
  BY DEF RestTypeOK
<1>2. request[c].call \in Calls \cup {None} /\ request[c].call # None
      /\ request[c].code = 0
  BY <1>1 DEF RequestOK, Request
<1> QED BY <1>2, CallFields DEF Table!Waiting, ServedCalls, ServedAnswers

\* An answer ends the request and shows nothing but its code.
LEMMA AnswerEffect ==
  ASSUME RestTypeOK, NEW c \in Clients, request[c].pc # "done",
         NEW code \in Codes \ {0}, Answer(c, code)
  PROVE  /\ DOMAIN request' = Clients
         /\ \A d \in Clients : RequestOK(request'[d])
         /\ \A d \in Clients : d # c => request'[d] = request[d]
         /\ request'[c].pc = "done"
         /\ ServedCalls' = ServedCalls
         /\ ServedAnswers' = [ServedAnswers EXCEPT ![c] = code]
<1>0. DOMAIN request = Clients /\ \A d \in Clients : RequestOK(request[d])
  BY DEF RestTypeOK
<1>1. request' = [request EXCEPT ![c] =
                    [request[c] EXCEPT !.pc = "done", !.base = 0,
                                       !.existing = None, !.code = code]]
  BY <1>0 DEF Answer
<1>2. request[c] \in Request /\ request[c].call # None
  BY <1>0, Pending DEF RequestOK
<1>3. /\ request'[c] = [request[c] EXCEPT !.pc = "done", !.base = 0,
                                          !.existing = None, !.code = code]
      /\ \A d \in Clients : d # c => request'[d] = request[d]
      /\ DOMAIN request' = Clients
  BY <1>0, <1>1
<1>4. /\ request'[c].pc = "done" /\ request'[c].code = code
      /\ request'[c].call = request[c].call
      /\ request'[c] \in Request
  <2>1. request[c].call \in Calls \cup {None} /\ code \in Codes /\ 0 \in Nat
    BY <1>2 DEF Request
  <2>2. request'[c] = [pc |-> "done", call |-> request[c].call, base |-> 0,
                       existing |-> None, code |-> code]
    BY <1>2, <1>3 DEF Request
  <2> QED BY <2>1, <2>2 DEF Request
<1>5. RequestOK(request'[c])
  BY <1>2, <1>4 DEF RequestOK
<1>6. ServedCalls' = ServedCalls
  BY <1>3, <1>4 DEF ServedCalls
<1>7. ServedAnswers' = [ServedAnswers EXCEPT ![c] = code]
  BY <1>3, <1>4 DEF ServedAnswers
<1> QED BY <1>0, <1>3, <1>4, <1>5, <1>6, <1>7

\* An answer without a write is a refusal, or a GET's.
LEMMA AnswerOnly ==
  ASSUME RestInv, NEW c \in Clients, request[c].pc # "done",
         NEW code \in Codes \ {0}, Answer(c, code),
         UNCHANGED <<apiVars, started, used>>
  PROVE  /\ RestInv'
         /\ code \in {400, 404, 500} => Table!Refuse(c)
         /\ code = 200 /\ request[c].call.op = "GET" => Table!Read(c)
<1>0. RestTypeOK
  BY DEF RestInv
<1>1. ServedTable' = ServedTable
  BY DEF ServedTable, apiVars, SpecIn
<1>2. RestTypeOK'
  BY <1>0, AnswerEffect DEF RestTypeOK, ApiTypeOK, apiVars
<1>3. CopiesFaithful'
  BY DEF RestInv, CopiesFaithful, Faithful, apiVars
<1>4. RequestsFaithful'
  <2>1. \A d \in Clients : d # c => request'[d] = request[d]
    BY <1>0, AnswerEffect
  <2>2. request'[c].pc = "done"
    BY <1>0, AnswerEffect
  <2> QED BY <2>1, <2>2 DEF RestInv, RequestsFaithful, Faithful, apiVars
<1>5. code \in {400, 404, 500} => Table!Refuse(c)
  BY <1>0, <1>1, AnswerEffect, Pending DEF Table!Refuse
<1>6. code = 200 /\ request[c].call.op = "GET" => Table!Read(c)
  BY <1>0, <1>1, AnswerEffect, Pending DEF Table!Read, ServedCalls
<1> QED BY <1>2, <1>3, <1>4, <1>5, <1>6 DEF RestInv

\* A write that took effect performs the request, whatever is answered.
LEMMA WriteAndAnswer ==
  ASSUME RestInv, NEW c \in Clients, request[c].pc # "done",
         request[c].call.op # "GET", request[c].call.body # Malformed,
         NEW obj \in Proxy \cup {None},
         Creates(request[c].call) <=> store["proxy"][request[c].call.name] = None,
         SpecIn(obj) = Outcome(request[c].call,
                               SpecIn(store["proxy"][request[c].call.name])),
         Commit("proxy", request[c].call.name, obj),
         NEW code \in {Success(request[c].call), Failure(request[c].call)},
         Answer(c, code), UNCHANGED <<started, used>>
  PROVE  RestInv' /\ Table!Perform(c)
<1> DEFINE n == request[c].call.name
<1>0. RestTypeOK /\ ApiTypeOK /\ n \in Names /\ code \in Codes \ {0}
  <2>1. code \in Codes \ {0}
    BY DEF Success, Failure, Codes
  <2> QED BY <2>1, Pending DEF RestInv, RestTypeOK
<1>1. ApiTypeOK'
  BY <1>0, CommitType, ProxyKind
<1>2. RestTypeOK'
  BY <1>0, <1>1, AnswerEffect DEF RestTypeOK
<1>3. CopiesFaithful'
  BY <1>0, CommitCopies DEF RestInv
<1>4. RequestsFaithful'
  <2>1. \A d \in Clients : d # c => request'[d] = request[d]
    BY <1>0, AnswerEffect
  <2>2. request'[c].pc = "done"
    BY <1>0, AnswerEffect
  <2>3. SUFFICES ASSUME NEW d \in Clients, request[d].pc = "update",
                        request'[d] = request[d]
                 PROVE  Faithful(request[d].call.name, request[d].existing)'
    BY <2>1, <2>2, <2>3 DEF RequestsFaithful
  <2>4. RequestOK(request[d]) /\ request[d].call.name \in Names
    BY <1>0, <2>3, Pending DEF RestTypeOK
  <2>5. request[d].existing \in Proxy
    BY <2>3, <2>4 DEF RequestOK
  <2>6. Faithful(request[d].call.name, request[d].existing)
    BY <2>3 DEF RestInv, RequestsFaithful
  <2>7. \A m \in Names, copy \in Proxy \cup {None} :
          Faithful(m, copy) => Faithful(m, copy)'
    BY <1>0, CommitFaithful, ProxyKind
  <2> QED BY <2>3, <2>4, <2>5, <2>6, <2>7 DEF Faithful
<1>5. ServedTable' = [ServedTable EXCEPT ![n] = SpecIn(obj)]
  BY <1>0, CommitTable
<1>6. ServedTable[n] = SpecIn(store["proxy"][n])
  BY <1>0 DEF ServedTable
<1>7. ServedTable[n] = None <=> store["proxy"][n] = None
  BY <1>0, <1>6, CacheType, ProxyFields DEF SpecIn
<1>8. ServedCalls[c] = request[c].call
  BY DEF ServedCalls
<1>9. Table!Act(c)
  <2>1. Creates(request[c].call) <=> ServedTable[n] = None
    BY <1>7
  <2>2. ServedTable' = [ServedTable EXCEPT
          ![n] = Outcome(request[c].call, ServedTable[n])]
    BY <1>5, <1>6
  <2>3. /\ Table!Creates(request[c].call) = Creates(request[c].call)
        /\ Table!Outcome(request[c].call, ServedTable[n])
             = Outcome(request[c].call, ServedTable[n])
    BY SameOutcome
  <2> QED BY <1>8, <2>1, <2>2, <2>3 DEF Table!Act
<1>10. /\ ServedCalls' = ServedCalls
       /\ ServedAnswers' = [ServedAnswers EXCEPT ![c] = code]
  BY <1>0, AnswerEffect
<1>11. Table!Perform(c)
  BY <1>0, <1>8, <1>9, <1>10, Pending, SameOutcome DEF Table!Perform
<1> QED BY <1>2, <1>3, <1>4, <1>11 DEF RestInv

-----------------------------------------------------------------------------
(* The steps of the handlers. *)

LEMMA UseType ==
  ASSUME RestTypeOK, NEW b \in ApiBudgeted, Use(b)
  PROVE  used' \in [ApiBudgeted -> Nat]
  BY DEF RestTypeOK, Use

\* A copy in the cache is a proxy the server holds or held.
LEMMA FoundCopy ==
  ASSUME RestInv, NEW n \in Names
  PROVE  /\ Found(n) \in Proxy \cup {None}
         /\ Faithful(n, Found(n))
<1>1. ApiTypeOK
  BY DEF RestInv, RestTypeOK
<1>2. CASE started
  BY <1>1, <1>2, CacheType DEF Found, RestInv, CopiesFaithful
<1>3. CASE ~started
  BY <1>3 DEF Found, Faithful
<1> QED BY <1>2, <1>3

LEMMA ArriveStep ==
  ASSUME RestInv, NEW c \in Clients, Arrive(c)
  PROVE  RestInv' /\ Table!Submit(c)
<1>0. RestTypeOK /\ ApiTypeOK /\ request[c].pc = "done"
  BY DEF RestInv, RestTypeOK, Arrive
<1>1. PICK call \in Calls :
        request' = [request EXCEPT ![c] =
          [pc |-> "begin", call |-> call,
           base |-> IF call.op = "PUT" /\ Found(call.name) # None
                    THEN Found(call.name).rv ELSE 0,
           existing |-> None, code |-> 0]]
  BY DEF Arrive
<1> DEFINE base == IF call.op = "PUT" /\ Found(call.name) # None
                   THEN Found(call.name).rv ELSE 0
           new == [pc |-> "begin", call |-> call, base |-> base,
                   existing |-> None, code |-> 0]
<1>2. base \in Nat
  <2>1. Found(call.name) \in Proxy \cup {None}
    BY FoundCopy, CallFields
  <2> QED BY <2>1, ProxyFields
<1>3. request' = [request EXCEPT ![c] = new]
  BY <1>1
<1>4. /\ DOMAIN request' = Clients /\ request'[c] = new
      /\ \A d \in Clients : d # c => request'[d] = request[d]
  BY <1>0, <1>3 DEF RestTypeOK
<1>5. RequestOK(new)
  <2>1. new \in Request
    BY <1>2 DEF Request, Codes
  <2> QED BY <2>1, CallFields DEF RequestOK
<1>6. RestTypeOK'
  <2>1. /\ UNCHANGED apiVars /\ started' = started
        /\ used' \in [ApiBudgeted -> Nat]
    BY <1>0, UseType DEF Arrive, ApiBudgeted
  <2>2. \A d \in Clients : RequestOK(request'[d])
    BY <1>0, <1>4, <1>5 DEF RestTypeOK
  <2> QED BY <1>0, <1>4, <2>1, <2>2 DEF RestTypeOK, ApiTypeOK, apiVars
<1>7. CopiesFaithful' /\ RequestsFaithful'
  BY <1>4 DEF RestInv, CopiesFaithful, RequestsFaithful, Faithful, Arrive, apiVars
<1>8. ServedTable' = ServedTable
  BY DEF ServedTable, SpecIn, Arrive, apiVars
<1>9. /\ ServedCalls' = [ServedCalls EXCEPT ![c] = call]
      /\ ServedAnswers' = [ServedAnswers EXCEPT ![c] = 0]
  <2>1. request'[c].call = call /\ request'[c].code = 0
    BY <1>4
  <2> QED BY <1>4, <2>1 DEF ServedCalls, ServedAnswers
<1>10. ~Table!Waiting(c)
  <2>1. RequestOK(request[c])
    BY <1>0 DEF RestTypeOK
  <2> QED BY <1>0, <2>1 DEF RequestOK, Table!Waiting, ServedCalls, ServedAnswers
<1> QED BY <1>6, <1>7, <1>8, <1>9, <1>10 DEF RestInv, Table!Submit

LEMMA GetStep ==
  ASSUME RestInv, NEW c \in Clients, GetJaegerNginxProxy(c)
  PROVE  RestInv' /\ (Table!Read(c) \/ Table!Refuse(c))
<1>1. /\ request[c].pc # "done" /\ request[c].call.op = "GET"
      /\ UNCHANGED <<apiVars, started, used>>
  BY DEF GetJaegerNginxProxy
<1>2. CASE Answer(c, 404)
  BY <1>1, <1>2, AnswerOnly DEF Codes
<1>3. CASE Answer(c, 200)
  BY <1>1, <1>3, AnswerOnly DEF Codes
<1> QED BY <1>2, <1>3 DEF GetJaegerNginxProxy

\* POST and the tool: a name that is free is taken with the spec asked for.
LEMMA CreateStep ==
  ASSUME RestInv, NEW c \in Clients, CreateJaegerNginxProxy(c)
  PROVE  RestInv' /\ (Table!Perform(c) \/ Table!Refuse(c))
<1> DEFINE call == request[c].call
           n == call.name
           new == [rv |-> 0, uid |-> rev["proxy"][n] + 1,
                   spec |-> Outcome(call, None), status |-> NoStatus]
<1>0. /\ RestTypeOK /\ ApiTypeOK /\ request[c].pc # "done" /\ Creates(call)
      /\ call \in Calls /\ n \in Names
  BY Pending DEF RestInv, RestTypeOK, CreateJaegerNginxProxy
<1>1. CASE call.body = Malformed
  <2>1. Answer(c, 400) /\ UNCHANGED <<apiVars, started, used>>
    BY <1>1 DEF CreateJaegerNginxProxy
  <2> QED BY <1>0, <2>1, AnswerOnly DEF Codes
<1>2. CASE call.body # Malformed
  <2>1. HandlerWrite(c, store["proxy"][n] = None, new)
    BY <1>2 DEF CreateJaegerNginxProxy
  <2>2. call.op \notin {"GET", "DELETE"} /\ ~Modifies(call)
    BY <1>0 DEF Creates, Modifies
  <2>3. new \in Proxy
    <3>1. Outcome(call, None) \in ProxySpec
      BY <1>0, <1>2, <2>2, OutcomeType
    <3>2. NoStatus \in Status
      BY DEF NoStatus, Status, Reasons
    <3>3. rev["proxy"][n] + 1 \in Nat
      BY <1>0, CacheType
    <3> QED BY <3>1, <3>2, <3>3 DEF Proxy
  <2>4. CASE /\ store["proxy"][n] = None /\ Commit("proxy", n, new)
             /\ Answer(c, Success(call)) \/ Answer(c, Failure(call))
             /\ UNCHANGED <<started, used>>
    <3>1. SpecIn(new) = Outcome(call, SpecIn(store["proxy"][n]))
      BY <2>3, <2>4, ProxyFields DEF SpecIn
    <3> QED BY <1>0, <1>2, <2>2, <2>3, <2>4, <3>1, WriteAndAnswer
  <2>5. CASE Answer(c, Failure(call)) /\ UNCHANGED <<apiVars, started, used>>
    <3>1. Failure(call) \in {404, 500}
      BY DEF Failure
    <3> QED BY <1>0, <2>5, <3>1, AnswerOnly DEF Codes
  <2> QED BY <2>1, <2>4, <2>5 DEF HandlerWrite
<1> QED BY <1>1, <1>2

\* PUT and PATCH: the copy a handler keeps is as faithful as the cache.
LEMMA FetchStep ==
  ASSUME RestInv, NEW c \in Clients, FetchExisting(c)
  PROVE  RestInv' /\ (Table!Refuse(c) \/ UNCHANGED Table!tableVars)
<1> DEFINE call == request[c].call
           existing == Found(call.name)
<1>0. /\ RestTypeOK /\ request[c].pc = "begin" /\ Modifies(call)
      /\ call \in Calls /\ call.name \in Names
      /\ UNCHANGED <<apiVars, started, used>>
  BY Pending DEF RestInv, FetchExisting
<1>1. CASE Answer(c, 404)
  BY <1>0, <1>1, AnswerOnly DEF Codes
<1>2. CASE Answer(c, 400)
  BY <1>0, <1>2, AnswerOnly DEF Codes
<1>3. CASE /\ existing # None /\ call.body # Malformed
           /\ request' = [request EXCEPT ![c].pc = "update", ![c].existing = existing]
  <2>1. existing \in Proxy /\ Faithful(call.name, existing)
    BY <1>0, <1>3, FoundCopy
  <2>2. /\ DOMAIN request = Clients /\ RequestOK(request[c])
        /\ \A d \in Clients : RequestOK(request[d])
    BY <1>0 DEF RestTypeOK
  <2>3. /\ DOMAIN request' = Clients
        /\ request'[c] = [request[c] EXCEPT !.pc = "update", !.existing = existing]
        /\ \A d \in Clients : d # c => request'[d] = request[d]
    BY <1>3, <2>2
  <2>4. /\ request'[c].pc = "update" /\ request'[c].existing = existing
        /\ request'[c].call = call /\ request'[c].code = request[c].code
        /\ request'[c] \in Request
    BY <2>1, <2>2, <2>3 DEF RequestOK, Request
  <2>5. RequestOK(request'[c])
    BY <1>0, <1>3, <2>1, <2>2, <2>4 DEF RequestOK
  <2>6. RestTypeOK'
    BY <1>0, <2>2, <2>3, <2>5 DEF RestTypeOK, ApiTypeOK, apiVars
  <2>7. CopiesFaithful'
    BY <1>0 DEF RestInv, CopiesFaithful, Faithful, apiVars
  <2>8. RequestsFaithful'
    BY <1>0, <2>1, <2>3, <2>4 DEF RestInv, RequestsFaithful, Faithful, apiVars
  <2>9. UNCHANGED Table!tableVars
    <3>1. ServedTable' = ServedTable
      BY <1>0 DEF ServedTable, SpecIn, apiVars
    <3>2. ServedCalls' = ServedCalls /\ ServedAnswers' = ServedAnswers
      BY <2>3, <2>4 DEF ServedCalls, ServedAnswers
    <3> QED BY <3>1, <3>2 DEF Table!tableVars
  <2> QED BY <2>6, <2>7, <2>8, <2>9 DEF RestInv
<1> QED BY <1>1, <1>2, <1>3 DEF FetchExisting

(***************************************************************************)
(* The Update is accepted when the copy has the version of the server's    *)
(* object; then it is that object, and the spec the request leads to was   *)
(* computed from what the table holds now.                                 *)
(***************************************************************************)
LEMMA UpdateStep ==
  ASSUME RestInv, NEW c \in Clients, UpdateExisting(c)
  PROVE  RestInv' /\ (Table!Perform(c) \/ Table!Refuse(c))
<1> DEFINE call == request[c].call
           n == call.name
           existing == request[c].existing
<1>0. /\ RestTypeOK /\ ApiTypeOK /\ request[c].pc = "update"
      /\ call \in Calls /\ n \in Names
  BY Pending DEF RestInv, RestTypeOK, UpdateExisting
<1>1. Modifies(call) /\ call.body # Malformed /\ existing \in Proxy
  <2>1. RequestOK(request[c])
    BY <1>0 DEF RestTypeOK
  <2> QED BY <1>0, <2>1 DEF RequestOK
<1>2. call.op \notin {"GET", "DELETE"} /\ ~Creates(call)
  BY <1>1 DEF Modifies, Creates
<1>3. HandlerWrite(c, Current("proxy", n, existing), Updated(c))
  BY DEF UpdateExisting
<1>4. Updated(c) \in Proxy /\ Updated(c).spec = Outcome(call, existing.spec)
  <2>1. Updated(c) = [existing EXCEPT !.spec = Outcome(call, existing.spec)]
    BY <1>1 DEF Updated, Proxy
  <2>2. Outcome(call, existing.spec) \in ProxySpec
    BY <1>0, <1>1, <1>2, OutcomeType, ProxyFields
  <2> QED BY <1>1, <2>1, <2>2 DEF Proxy
<1>5. CASE /\ Current("proxy", n, existing) /\ Commit("proxy", n, Updated(c))
           /\ Answer(c, Success(call)) \/ Answer(c, Failure(call))
           /\ UNCHANGED <<started, used>>
  <2>1. existing = store["proxy"][n]
    <3>1. Faithful(n, existing)
      BY <1>0 DEF RestInv, RequestsFaithful
    <3>2. store["proxy"][n] # None /\ store["proxy"][n].rv = existing.rv
      BY <1>5 DEF Current
    <3>3. store["proxy"][n].rv = rev["proxy"][n]
      BY <1>0, <3>2 DEF RestInv, CopiesFaithful
    <3> QED BY <1>1, <3>1, <3>2, <3>3, ProxyFields DEF Faithful
  <2>2. SpecIn(Updated(c)) = Outcome(call, SpecIn(store["proxy"][n]))
    BY <1>1, <1>4, <2>1, ProxyFields DEF SpecIn
  <2>3. store["proxy"][n] # None
    BY <1>1, <2>1, ProxyFields
  <2> QED BY <1>0, <1>1, <1>2, <1>4, <1>5, <2>2, <2>3, WriteAndAnswer
<1>6. CASE Answer(c, Failure(call)) /\ UNCHANGED <<apiVars, started, used>>
  <2>1. Failure(call) \in {404, 500}
    BY DEF Failure
  <2> QED BY <1>0, <1>6, <2>1, AnswerOnly DEF Codes
<1> QED BY <1>3, <1>5, <1>6 DEF HandlerWrite

LEMMA DeleteStep ==
  ASSUME RestInv, NEW c \in Clients, DeleteJaegerNginxProxy(c)
  PROVE  RestInv' /\ (Table!Perform(c) \/ Table!Refuse(c))
<1> DEFINE call == request[c].call
           n == call.name
<1>0. /\ RestTypeOK /\ request[c].pc # "done" /\ call.op = "DELETE"
      /\ call \in Calls /\ n \in Names
      /\ HandlerWrite(c, store["proxy"][n] # None, None)
  BY Pending DEF RestInv, DeleteJaegerNginxProxy
<1>1. call.body # Malformed
  BY <1>0, CallsAssumption, BodyAssumption DEF Call
<1>2. CASE /\ store["proxy"][n] # None /\ Commit("proxy", n, None)
           /\ Answer(c, Success(call)) \/ Answer(c, Failure(call))
           /\ UNCHANGED <<started, used>>
  <2>1. ~Creates(call)
    BY <1>0 DEF Creates
  <2>2. SpecIn(None) = Outcome(call, SpecIn(store["proxy"][n]))
    BY <1>0 DEF SpecIn, Outcome
  <2> QED BY <1>0, <1>1, <1>2, <2>1, <2>2, WriteAndAnswer
<1>3. CASE Answer(c, Failure(call)) /\ UNCHANGED <<apiVars, started, used>>
  <2>1. Failure(call) \in {404, 500}
    BY DEF Failure
  <2> QED BY <1>0, <1>3, <2>1, AnswerOnly DEF Codes
<1> QED BY <1>0, <1>2, <1>3 DEF HandlerWrite

-----------------------------------------------------------------------------
(* The steps around the handlers. *)

\* A write that is not a handler's.
LEMMA WriteAround ==
  ASSUME RestInv, NEW n \in Names, NEW obj \in Proxy \cup {None},
         Commit("proxy", n, obj), NEW b \in ApiBudgeted, Use(b),
         UNCHANGED <<request, started>>
  PROVE  /\ RestInv'
         /\ ServedTable' = [ServedTable EXCEPT ![n] = SpecIn(obj)]
         /\ UNCHANGED <<ServedCalls, ServedAnswers>>
<1>0. RestTypeOK /\ ApiTypeOK
  BY DEF RestInv, RestTypeOK
<1>1. RestTypeOK'
  <2>1. ApiTypeOK' /\ used' \in [ApiBudgeted -> Nat]
    BY <1>0, CommitType, ProxyKind, UseType
  <2> QED BY <1>0, <2>1 DEF RestTypeOK, RequestOK
<1>2. CopiesFaithful'
  BY <1>0, CommitCopies DEF RestInv
<1>3. RequestsFaithful'
  <2>1. SUFFICES ASSUME NEW d \in Clients, request[d].pc = "update"
                 PROVE  Faithful(request[d].call.name, request[d].existing)'
    BY DEF RequestsFaithful
  <2>2. RequestOK(request[d]) /\ request[d].call.name \in Names
    BY <1>0, <2>1, Pending DEF RestTypeOK
  <2>3. request[d].existing \in Proxy
    BY <2>1, <2>2 DEF RequestOK
  <2>4. Faithful(request[d].call.name, request[d].existing)
    BY <2>1 DEF RestInv, RequestsFaithful
  <2>5. \A m \in Names, copy \in Proxy \cup {None} :
          Faithful(m, copy) => Faithful(m, copy)'
    BY <1>0, CommitFaithful, ProxyKind
  <2> QED BY <2>2, <2>3, <2>4, <2>5 DEF Faithful
<1>4. ServedTable' = [ServedTable EXCEPT ![n] = SpecIn(obj)]
  BY <1>0, CommitTable
<1>5. UNCHANGED <<ServedCalls, ServedAnswers>>
  BY DEF ServedCalls, ServedAnswers
<1> QED BY <1>1, <1>2, <1>3, <1>4, <1>5 DEF RestInv

LEMMA StatusStep ==
  ASSUME RestInv, NEW n \in Names, WriteStatus(n)
  PROVE  RestInv' /\ UNCHANGED Table!tableVars
<1> DEFINE old == store["proxy"][n]
           new == [old EXCEPT !.status.ready = ~@]
<1>1. /\ old # None /\ Commit("proxy", n, new) /\ Use("status")
      /\ UNCHANGED <<request, started>>
  BY DEF WriteStatus
<1>2. old \in Proxy
  BY <1>1, CacheType DEF RestInv, RestTypeOK
<1>3. new \in Proxy /\ new.spec = old.spec
  BY <1>2 DEF Proxy, Status
<1>4. "status" \in ApiBudgeted
  BY DEF ApiBudgeted
<1>5. /\ RestInv'
      /\ ServedTable' = [ServedTable EXCEPT ![n] = SpecIn(new)]
      /\ UNCHANGED <<ServedCalls, ServedAnswers>>
  BY <1>1, <1>3, <1>4, WriteAround
<1>6. SpecIn(new) = ServedTable[n]
  BY <1>2, <1>3, ProxyFields DEF SpecIn, ServedTable
<1> QED BY <1>5, <1>6 DEF ServedTable, Table!tableVars

LEMMA ElsewhereStep ==
  ASSUME RestInv, NEW n \in Names, WriteElsewhere(n)
  PROVE  RestInv' /\ Table!Elsewhere
<1>0. /\ Use("other") /\ "other" \in ApiBudgeted /\ UNCHANGED <<request, started>>
      /\ ApiTypeOK /\ NoStatus \in Status
  <2>1. Use("other") /\ UNCHANGED <<request, started>>
    BY DEF WriteElsewhere
  <2>2. NoStatus \in Status
    BY DEF NoStatus, Status, Reasons
  <2> QED BY <2>1, <2>2 DEF ApiBudgeted, RestInv, RestTypeOK
<1>1. PICK obj \in Proxy \cup {None} : Commit("proxy", n, obj)
  <2>1. CASE store["proxy"][n] # None /\ Commit("proxy", n, None)
    BY <2>1
  <2>2. CASE /\ store["proxy"][n] # None
             /\ \E spec \in Specs \ {store["proxy"][n].spec} :
                  Commit("proxy", n, [store["proxy"][n] EXCEPT !.spec = spec])
    <3>1. PICK spec \in Specs : Commit("proxy", n, [store["proxy"][n] EXCEPT !.spec = spec])
      BY <2>2
    <3>2. store["proxy"][n] \in Proxy
      BY <1>0, <2>2, CacheType
    <3>3. [store["proxy"][n] EXCEPT !.spec = spec] \in Proxy
      BY <3>2, SpecsAssumption DEF Proxy
    <3> QED BY <3>1, <3>3
  <2>3. CASE \E spec \in Specs :
               Commit("proxy", n, [rv |-> 0, uid |-> rev["proxy"][n] + 1,
                                   spec |-> spec, status |-> NoStatus])
    <3>1. PICK spec \in Specs :
            Commit("proxy", n, [rv |-> 0, uid |-> rev["proxy"][n] + 1,
                                spec |-> spec, status |-> NoStatus])
      BY <2>3
    <3>2. rev["proxy"][n] + 1 \in Nat
      BY <1>0, CacheType
    <3>3. [rv |-> 0, uid |-> rev["proxy"][n] + 1,
           spec |-> spec, status |-> NoStatus] \in Proxy
      BY <1>0, <3>2, SpecsAssumption DEF Proxy
    <3> QED BY <3>1, <3>3
  <2> QED BY <2>1, <2>2, <2>3 DEF WriteElsewhere
<1>2. /\ RestInv'
      /\ ServedTable' = [ServedTable EXCEPT ![n] = SpecIn(obj)]
      /\ UNCHANGED <<ServedCalls, ServedAnswers>>
  BY <1>0, <1>1, WriteAround
<1>3. ServedTable'[n] = SpecIn(obj)
  BY <1>2 DEF ServedTable
<1> QED BY <1>2, <1>3 DEF Table!Elsewhere

\* The cache is replaced by a List, at the start or after an expired watch.
LEMMA ListStep ==
  ASSUME RestInv, started' = TRUE, UNCHANGED <<store, rev, request, used>>,
         cache' = [cache EXCEPT !["proxy"] = store["proxy"]],
         watch' = [watch EXCEPT !["proxy"] = [n \in Names |-> <<>>]]
  PROVE  RestInv' /\ UNCHANGED Table!tableVars
<1>0. RestTypeOK /\ ApiTypeOK
  BY DEF RestInv, RestTypeOK
<1>1. /\ cache'["proxy"] = store["proxy"]
      /\ watch'["proxy"] = [n \in Names |-> <<>>]
      /\ DOMAIN cache' = Kinds /\ DOMAIN watch' = Kinds
      /\ \A k \in Kinds : k # "proxy" =>
           cache'[k] = cache[k] /\ watch'[k] = watch[k]
  BY <1>0, ProxyKind DEF ApiTypeOK
<1>2. ApiTypeOK'
  <2>1. ASSUME NEW k \in Kinds
        PROVE  /\ store'[k] \in [Names -> Objects(k) \cup {None}]
               /\ cache'[k] \in [Names -> Objects(k) \cup {None}]
               /\ watch'[k] \in [Names -> Seq(Objects(k) \cup {None})]
    <3>1. CASE k # "proxy"
      BY <1>0, <1>1, <3>1 DEF ApiTypeOK
    <3>2. CASE k = "proxy"
      <4>1. store[k] \in [Names -> Objects(k) \cup {None}]
        BY <1>0 DEF ApiTypeOK
      <4>2. <<>> \in Seq(Objects(k) \cup {None})
        OBVIOUS
      <4>3. [n \in Names |-> <<>>] \in [Names -> Seq(Objects(k) \cup {None})]
        BY <4>2
      <4> QED BY <1>1, <3>2, <4>1, <4>3
    <3> QED BY <3>1, <3>2
  <2> QED BY <1>0, <1>1, <2>1 DEF ApiTypeOK
<1>3. RestTypeOK'
  BY <1>0, <1>2 DEF RestTypeOK, RequestOK
<1>4. CopiesFaithful'
  <2>1. ASSUME NEW n \in Names
        PROVE  Faithful(n, store["proxy"][n])'
    <3>1. store["proxy"][n] \in Proxy \cup {None} /\ rev["proxy"][n] \in Nat
      BY <1>0, CacheType
    <3> QED BY <3>1, ProxyFields DEF RestInv, CopiesFaithful, Faithful
  <2>2. \A n \in Names : Len(watch'["proxy"][n]) = 0
    BY <1>1
  <2> QED BY <1>1, <2>1, <2>2 DEF RestInv, CopiesFaithful, Faithful
<1>5. RequestsFaithful'
  BY DEF RestInv, RequestsFaithful, Faithful
<1>6. UNCHANGED Table!tableVars
  BY DEF Table!tableVars, ServedTable, ServedCalls, ServedAnswers, SpecIn
<1> QED BY <1>3, <1>4, <1>5, <1>6 DEF RestInv

LEMMA DeliverStep ==
  ASSUME RestInv, NEW n \in Names, DeliverProxy(n)
  PROVE  RestInv' /\ UNCHANGED Table!tableVars
<1>0. /\ RestTypeOK /\ ApiTypeOK /\ watch["proxy"][n] # <<>>
      /\ cache' = [cache EXCEPT !["proxy"][n] = Head(watch["proxy"][n])]
      /\ watch' = [watch EXCEPT !["proxy"][n] = Tail(@)]
      /\ UNCHANGED <<store, rev, request, started, used>>
  BY DEF RestInv, RestTypeOK, DeliverProxy
<1>1. watch["proxy"][n] \in Seq(Proxy \cup {None})
  BY <1>0, CacheType
<1>2. /\ cache'["proxy"] = [cache["proxy"] EXCEPT ![n] = Head(watch["proxy"][n])]
      /\ watch'["proxy"] = [watch["proxy"] EXCEPT ![n] = Tail(watch["proxy"][n])]
      /\ DOMAIN cache' = Kinds /\ DOMAIN watch' = Kinds
      /\ \A k \in Kinds : k # "proxy" =>
           cache'[k] = cache[k] /\ watch'[k] = watch[k]
  BY <1>0, ProxyKind DEF ApiTypeOK
<1>3. /\ Head(watch["proxy"][n]) \in Proxy \cup {None}
      /\ Tail(watch["proxy"][n]) \in Seq(Proxy \cup {None})
      /\ Head(watch["proxy"][n]) = watch["proxy"][n][1]
      /\ Len(Tail(watch["proxy"][n])) = Len(watch["proxy"][n]) - 1
      /\ \A i \in 1..Len(Tail(watch["proxy"][n])) :
           Tail(watch["proxy"][n])[i] = watch["proxy"][n][i + 1]
  BY <1>0, <1>1
<1>4. ApiTypeOK'
  <2>1. ASSUME NEW k \in Kinds
        PROVE  /\ store'[k] \in [Names -> Objects(k) \cup {None}]
               /\ cache'[k] \in [Names -> Objects(k) \cup {None}]
               /\ watch'[k] \in [Names -> Seq(Objects(k) \cup {None})]
    BY <1>0, <1>2, <1>3, ProxyKind DEF ApiTypeOK
  <2> QED BY <1>0, <1>2, <2>1 DEF ApiTypeOK
<1>5. RestTypeOK'
  BY <1>0, <1>4 DEF RestTypeOK, RequestOK
<1>6. CopiesFaithful'
  <2>1. ASSUME NEW m \in Names
        PROVE  Faithful(m, cache'["proxy"][m])
    <3>1. 1 \in 1..Len(watch["proxy"][n])
      BY <1>0, <1>1
    <3>2. Faithful(n, watch["proxy"][n][1])
      BY <3>1 DEF RestInv, CopiesFaithful
    <3>3. DOMAIN cache["proxy"] = Names
      BY <1>0, ProxyKind DEF ApiTypeOK
    <3> QED BY <1>2, <1>3, <3>2, <3>3 DEF RestInv, CopiesFaithful
  <2>2. ASSUME NEW m \in Names, NEW i \in 1..Len(watch'["proxy"][m])
        PROVE  Faithful(m, watch'["proxy"][m][i])
    <3>1. DOMAIN watch["proxy"] = Names
      BY <1>0, ProxyKind DEF ApiTypeOK
    <3>2. CASE m # n
      BY <1>2, <3>1, <3>2 DEF RestInv, CopiesFaithful
    <3>3. CASE m = n
      <4>1. /\ i \in 1..(Len(watch["proxy"][n]) - 1)
            /\ watch'["proxy"][m][i] = watch["proxy"][n][i + 1]
        BY <1>2, <1>3, <3>1, <3>3
      <4>2. i + 1 \in 1..Len(watch["proxy"][n])
        BY <1>1, <4>1
      <4>3. Faithful(n, watch["proxy"][n][i + 1])
        BY <4>2 DEF RestInv, CopiesFaithful
      <4> QED BY <3>3, <4>1, <4>3
    <3> QED BY <3>2, <3>3
  <2> QED BY <1>0, <2>1, <2>2 DEF RestInv, CopiesFaithful, Faithful
<1>7. RequestsFaithful'
  BY <1>0 DEF RestInv, RequestsFaithful, Faithful
<1>8. UNCHANGED Table!tableVars
  BY <1>0 DEF Table!tableVars, ServedTable, ServedCalls, ServedAnswers, SpecIn
<1> QED BY <1>5, <1>6, <1>7, <1>8 DEF RestInv

\* The process dies: what it had not answered is not answered by a success.
LEMMA RestartStep ==
  ASSUME RestInv, RestartServer
  PROVE  RestInv' /\ Table!Break
<1> DEFINE broken(c) == [request[c] EXCEPT !.pc = "done", !.base = 0,
                                           !.existing = None, !.code = 500]
<1>0. /\ RestTypeOK /\ UNCHANGED <<store, rev, watch, cache, used>>
      /\ started' = FALSE
  BY DEF RestInv, RestartServer, apiVars
<1>1. /\ DOMAIN request' = Clients
      /\ \A c \in Clients :
           request'[c] = IF request[c].pc = "done" THEN request[c] ELSE broken(c)
  BY DEF RestartServer
<1>2. ASSUME NEW c \in Clients
      PROVE  /\ request[c] \in Request
             /\ request[c].pc = "done" <=> request[c].call = None \/ request[c].code # 0
  BY <1>0 DEF RestTypeOK, RequestOK
<1>3. ASSUME NEW c \in Clients, request[c].pc # "done"
      PROVE  /\ request'[c].pc = "done" /\ request'[c].call = request[c].call
             /\ request'[c].code = 500 /\ request'[c] \in Request
  <2>0. request'[c] = [request[c] EXCEPT !.pc = "done", !.base = 0,
                                         !.existing = None, !.code = 500]
    BY <1>1, <1>3
  <2>1. request'[c] = [pc |-> "done", call |-> request[c].call, base |-> 0,
                       existing |-> None, code |-> 500]
    <3>1. request[c] \in Request
      BY <1>2
    <3>2. /\ request'[c].pc = "done" /\ request'[c].base = 0
          /\ request'[c].existing = None /\ request'[c].code = 500
          /\ request'[c].call = request[c].call
      BY <2>0, <3>1 DEF Request
    <3>3. DOMAIN request'[c] = {"pc", "call", "base", "existing", "code"}
      BY <2>0, <3>1 DEF Request
    <3> QED BY <2>0, <3>1, <3>2, <3>3 DEF Request
  <2>2. request[c].call \in Calls \cup {None}
    BY <1>2 DEF Request
  <2> QED BY <2>1, <2>2 DEF Request, Codes
<1>4. RestTypeOK'
  <2>1. ASSUME NEW c \in Clients
        PROVE  RequestOK(request'[c])
    <3>1. CASE request[c].pc = "done"
      BY <1>0, <1>1, <3>1 DEF RestTypeOK
    <3>2. CASE request[c].pc # "done"
      BY <1>3, <3>2 DEF RequestOK
    <3> QED BY <3>1, <3>2
  <2> QED BY <1>0, <1>1, <2>1 DEF RestTypeOK, ApiTypeOK
<1>5. CopiesFaithful'
  BY <1>0 DEF RestInv, CopiesFaithful, Faithful
<1>6. RequestsFaithful'
  <2>1. ASSUME NEW c \in Clients
        PROVE  request'[c].pc = "done"
    <3>1. CASE request[c].pc = "done"
      BY <1>1, <3>1
    <3>2. CASE request[c].pc # "done"
      BY <1>3, <3>2
    <3> QED BY <3>1, <3>2
  <2> QED BY <2>1 DEF RequestsFaithful
<1>7. ServedTable' = ServedTable
  BY <1>0 DEF ServedTable, SpecIn
<1>8. ASSUME NEW c \in Clients
      PROVE  /\ request'[c].call = request[c].call
             /\ request'[c].code = IF Table!Waiting(c) THEN 500 ELSE request[c].code
  <2>1. Table!Waiting(c) <=> request[c].pc # "done"
    BY <1>2 DEF Table!Waiting, ServedCalls, ServedAnswers
  <2> QED BY <1>1, <1>3, <2>1
<1>9. ServedCalls' = ServedCalls
  BY <1>8 DEF ServedCalls
<1>10. ServedAnswers' = [c \in Clients |-> IF Table!Waiting(c) THEN 500
                                           ELSE ServedAnswers[c]]
  BY <1>8 DEF ServedAnswers
<1> QED BY <1>4, <1>5, <1>6, <1>7, <1>9, <1>10 DEF RestInv, Table!Break

-----------------------------------------------------------------------------
LEMMA RestInitially ==
  ASSUME RestInit
  PROVE  RestInv /\ Table!TableInit
<1>1. ApiTypeOK
  BY ProxyKind DEF RestInit, ApiInit, ApiTypeOK
<1>2. NoRequest \in Request
  BY DEF NoRequest, Request, Codes
<1>3. RestTypeOK
  BY <1>1, <1>2 DEF RestInit, RestTypeOK, RequestOK, NoRequest
<1>4. CopiesFaithful /\ RequestsFaithful
  BY ProxyKind DEF RestInit, ApiInit, CopiesFaithful, RequestsFaithful, Faithful, NoRequest
<1>5. Table!TableInit
  BY ProxyKind DEF RestInit, ApiInit, NoRequest, Table!TableInit,
     ServedTable, ServedCalls, ServedAnswers, SpecIn
<1> QED BY <1>3, <1>4, <1>5 DEF RestInv

\* Every step keeps the invariant and is a step of the table, or none.
LEMMA RestStep ==
  ASSUME RestInv, [RestNext]_restVars
  PROVE  RestInv' /\ [Table!TableNext]_(Table!tableVars)
<1>1. ASSUME NEW c \in Clients, Arrive(c)
      PROVE  RestInv' /\ Table!TableNext
  BY <1>1, ArriveStep DEF Table!TableNext
<1>2. ASSUME NEW c \in Clients, Handle(c)
      PROVE  RestInv' /\ [Table!TableNext]_(Table!tableVars)
  BY <1>2, GetStep, CreateStep, FetchStep, UpdateStep, DeleteStep
     DEF Handle, Table!TableNext
<1>3. CASE StartCaches \/ RelistProxies
  BY <1>3, ListStep DEF StartCaches, RelistProxies
<1>4. CASE RestartServer
  BY <1>4, RestartStep DEF Table!TableNext
<1>5. ASSUME NEW n \in Names, DeliverProxy(n) \/ WriteStatus(n)
      PROVE  RestInv' /\ UNCHANGED Table!tableVars
  BY <1>5, DeliverStep, StatusStep
<1>6. ASSUME NEW n \in Names, WriteElsewhere(n)
      PROVE  RestInv' /\ Table!TableNext
  BY <1>6, ElsewhereStep DEF Table!TableNext
<1>7. CASE UNCHANGED restVars
  <2>1. UNCHANGED <<store, rev, watch, cache, request, started, used>>
    BY <1>7 DEF restVars
  <2>2. RestInv'
    BY <2>1 DEF RestInv, RestTypeOK, RequestOK, ApiTypeOK, CopiesFaithful,
       RequestsFaithful, Faithful
  <2>3. UNCHANGED Table!tableVars
    BY <2>1 DEF Table!tableVars, ServedTable, ServedCalls, ServedAnswers, SpecIn
  <2> QED BY <2>2, <2>3
<1> QED BY <1>1, <1>2, <1>3, <1>4, <1>5, <1>6, <1>7 DEF RestNext

(***************************************************************************)
(* Every copy a handler keeps, a cache holds or a watch carries is the     *)
(* server's object if it has the server's version (lines 131-149).         *)
(***************************************************************************)
THEOREM CopiesAreFaithful == RestSpec => []RestInv
<1>1. RestInit => RestInv
  BY RestInitially
<1>2. RestInv /\ [RestNext]_restVars => RestInv'
  BY RestStep
<1> QED BY <1>1, <1>2, PTL DEF RestSpec

(***************************************************************************)
(* The handlers implement the table: each write acts once, at one instant, *)
(* on the spec the server holds then, and a success is answered only to a  *)
(* write that took effect (lines 42-333).                                  *)
(***************************************************************************)
THEOREM Atomicity == RestSpec => AtomicRequests
<1>1. RestInit => Table!TableInit
  BY RestInitially
<1>2. RestInv /\ [RestNext]_restVars => [Table!TableNext]_(Table!tableVars)
  BY RestStep
<1>3. RestSpec => []RestInv
  BY CopiesAreFaithful
<1> QED BY <1>1, <1>2, <1>3, PTL DEF RestSpec, AtomicRequests, Table!TableSpec
=============================================================================
