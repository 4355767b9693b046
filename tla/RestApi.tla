------------------------------ MODULE RestApi -------------------------------
(***************************************************************************)
(* The REST handlers of pkg/api/jaegernginxproxy_api.go, and the MCP tool  *)
(* that creates a proxy (cmd/mcp.go), as cmd/server.go runs them: every    *)
(* request in a goroutine of its own, on the client of mgr.GetClient(),    *)
(* which reads from the manager's cache and writes to the API server.      *)
(*                                                                         *)
(* The HTTP server listens before the manager has started its caches; a    *)
(* Get answered by a cache that is not started is an error.                *)
(***************************************************************************)
EXTENDS ApiServer, ProxyRequests

CONSTANTS
  Clients,   \* clients, each with one request at a time
  ApiBudget  \* how many requests, status updates and writes of others

ApiBudgeted == {"call", "status", "other"}

ASSUME ClientsAssumption == Clients # {}
ASSUME ApiBudgetAssumption == ApiBudget \in [ApiBudgeted -> Nat]

VARIABLES
  request,  \* request[c]: the last request of client c and how far it got
  started,  \* has the manager started its caches?
  used      \* how much of each budget is used

restVars == <<store, rev, watch, cache, request, started, used>>

(***************************************************************************)
(* existing is the copy of the proxy a PUT or a PATCH has read; base, of a *)
(* PUT, the resourceVersion its client had seen and sent in the body.      *)
(***************************************************************************)
NoRequest == [pc |-> "done", call |-> None, base |-> 0, existing |-> None, code |-> 0]

Request == [pc : {"begin", "update", "done"}, call : Calls \cup {None}, base : Nat,
            existing : Proxy \cup {None}, code : Codes]

\* A handler about to update has a copy and a body that parses.
RequestOK(r) ==
  /\ r \in Request
  /\ r.pc = "done" <=> r.call = None \/ r.code # 0
  /\ r.pc = "update" => /\ Modifies(r.call)
                        /\ r.call.body # Malformed
                        /\ r.existing \in Proxy

RestTypeOK ==
  /\ ApiTypeOK
  /\ DOMAIN request = Clients
  /\ \A c \in Clients : RequestOK(request[c])
  /\ started \in BOOLEAN
  /\ used \in [ApiBudgeted -> Nat]

RestInit ==
  /\ ApiInit
  /\ request = [c \in Clients |-> NoRequest]
  /\ started = FALSE
  /\ used = [b \in ApiBudgeted |-> 0]

Use(b) ==
  /\ used[b] < ApiBudget[b]
  /\ used' = [used EXCEPT ![b] = @ + 1]

Answer(c, code) ==
  request' = [request EXCEPT ![c].pc = "done", ![c].base = 0,
                             ![c].existing = None, ![c].code = code]

(***************************************************************************)
(* A write of a handler: accepted; refused by the server, or failing for   *)
(* another reason before it took effect; failing after it took effect.     *)
(***************************************************************************)
HandlerWrite(c, accepted, obj) ==
  LET n == request[c].call.name
      success == Success(request[c].call)
      failure == Failure(request[c].call)
  IN /\ UNCHANGED <<started, used>>
     /\ \/ accepted /\ Commit("proxy", n, obj) /\ Answer(c, success)
        \/ Answer(c, failure) /\ UNCHANGED apiVars
        \/ accepted /\ Commit("proxy", n, obj) /\ Answer(c, failure)

-----------------------------------------------------------------------------
(* The handlers. *)

\* What a Get finds: nothing at all before the caches are started.
Found(n) == IF started THEN cache["proxy"][n] ELSE None

\* A client sends a request; what it has seen of the proxy is what a GET answers.
Arrive(c) ==
  /\ Use("call")
  /\ request[c].pc = "done"
  /\ \E call \in Calls :
       LET seen == Found(call.name)
       IN request' = [request EXCEPT ![c] =
            [pc |-> "begin", call |-> call,
             base |-> IF call.op = "PUT" /\ seen # None THEN seen.rv ELSE 0,
             existing |-> None, code |-> 0]]
  /\ UNCHANGED <<apiVars, started>>

GetJaegerNginxProxy(c) ==
  /\ request[c].pc = "begin"
  /\ request[c].call.op = "GET"
  /\ Answer(c, IF Found(request[c].call.name) = None THEN 404 ELSE 200)
  /\ UNCHANGED <<apiVars, started, used>>

\* POST and the MCP tool.
CreateJaegerNginxProxy(c) ==
  /\ request[c].pc = "begin"
  /\ Creates(request[c].call)
  /\ LET call == request[c].call
         n == call.name
     IN \/ /\ call.body = Malformed
           /\ Answer(c, 400)
           /\ UNCHANGED <<apiVars, started, used>>
        \/ /\ call.body # Malformed
           /\ HandlerWrite(c, store["proxy"][n] = None,
                [rv |-> 0, uid |-> rev["proxy"][n] + 1,
                 spec |-> Outcome(call, None), status |-> NoStatus])

\* Defective variant: the spec is replaced in the object the cache still holds.
FetchInPlace(c) ==
  /\ request[c].pc = "begin"
  /\ Modifies(request[c].call)
  /\ LET call == request[c].call
         existing == Found(call.name)
         changed == [existing EXCEPT !.spec = Outcome(call, @)]
     IN IF existing = None THEN Answer(c, 404) /\ UNCHANGED cache
        ELSE IF call.body = Malformed THEN Answer(c, 400) /\ UNCHANGED cache
        ELSE /\ cache' = [cache EXCEPT !["proxy"][call.name] = changed]
             /\ request' = [request EXCEPT ![c].pc = "update", ![c].existing = changed]
  /\ UNCHANGED <<store, rev, watch, started, used>>

\* PUT and PATCH, up to the Update.
FetchExisting(c) ==
  /\ request[c].pc = "begin"
  /\ Modifies(request[c].call)
  /\ LET existing == Found(request[c].call.name)
     IN IF existing = None THEN Answer(c, 404)
        ELSE IF request[c].call.body = Malformed THEN Answer(c, 400)
        ELSE request' = [request EXCEPT ![c].pc = "update", ![c].existing = existing]
  /\ UNCHANGED <<apiVars, started, used>>

Updated(c) ==
  [request[c].existing EXCEPT !.spec = Outcome(request[c].call, @)]

\* Defective variant: the resourceVersion of the copy is not sent.
UpdateBlindly(c) ==
  /\ request[c].pc = "update"
  /\ HandlerWrite(c, store["proxy"][request[c].call.name] # None, Updated(c))

\* PUT and PATCH: the Update, with the resourceVersion of the copy.
UpdateExisting(c) ==
  /\ request[c].pc = "update"
  /\ HandlerWrite(c, Current("proxy", request[c].call.name, request[c].existing),
                  Updated(c))

DeleteJaegerNginxProxy(c) ==
  /\ request[c].pc = "begin"
  /\ request[c].call.op = "DELETE"
  /\ HandlerWrite(c, store["proxy"][request[c].call.name] # None, None)

Handle(c) ==
  \/ GetJaegerNginxProxy(c) \/ CreateJaegerNginxProxy(c)
  \/ FetchExisting(c) \/ UpdateExisting(c) \/ DeleteJaegerNginxProxy(c)

-----------------------------------------------------------------------------
(* Everything around them. *)

\* mgr.Start: the cache is filled before a Get is answered from it.
StartCaches ==
  /\ ~started
  /\ started' = TRUE
  /\ cache' = [cache EXCEPT !["proxy"] = store["proxy"]]
  /\ watch' = [watch EXCEPT !["proxy"] = [n \in Names |-> <<>>]]
  /\ UNCHANGED <<store, rev, request, used>>

DeliverProxy(n) ==
  /\ started
  /\ watch["proxy"][n] # <<>>
  /\ cache' = [cache EXCEPT !["proxy"][n] = Head(watch["proxy"][n])]
  /\ watch' = [watch EXCEPT !["proxy"][n] = Tail(@)]
  /\ UNCHANGED <<store, rev, request, started, used>>

RelistProxies ==
  /\ started
  /\ cache' = [cache EXCEPT !["proxy"] = store["proxy"]]
  /\ watch' = [watch EXCEPT !["proxy"] = [n \in Names |-> <<>>]]
  /\ UNCHANGED <<store, rev, request, started, used>>

\* The process dies, with every handler in it; its clients see an error.
RestartServer ==
  /\ started' = FALSE
  /\ request' = [c \in Clients |->
       IF request[c].pc = "done" THEN request[c]
       ELSE [request[c] EXCEPT !.pc = "done", !.base = 0, !.existing = None,
                               !.code = 500]]
  /\ UNCHANGED <<apiVars, used>>

\* The controller writes the status of a proxy.
WriteStatus(n) ==
  /\ Use("status")
  /\ store["proxy"][n] # None
  /\ Commit("proxy", n, [store["proxy"][n] EXCEPT !.status.ready = ~@])
  /\ UNCHANGED <<request, started>>

\* kubectl creates, replaces or deletes a proxy.
WriteElsewhere(n) ==
  /\ Use("other")
  /\ \/ store["proxy"][n] # None /\ Commit("proxy", n, None)
     \/ /\ store["proxy"][n] # None
        /\ \E spec \in Specs \ {store["proxy"][n].spec} :
             Commit("proxy", n, [store["proxy"][n] EXCEPT !.spec = spec])
     \/ /\ store["proxy"][n] = None
        /\ \E spec \in Specs :
             Commit("proxy", n, [rv |-> 0, uid |-> rev["proxy"][n] + 1,
                                 spec |-> spec, status |-> NoStatus])
  /\ UNCHANGED <<request, started>>

RestNext ==
  \/ \E c \in Clients : Arrive(c) \/ Handle(c)
  \/ StartCaches \/ RelistProxies \/ RestartServer
  \/ \E n \in Names : DeliverProxy(n) \/ WriteStatus(n) \/ WriteElsewhere(n)

RestSpec == RestInit /\ [][RestNext]_restVars

-----------------------------------------------------------------------------
SpecIn(obj) == IF obj = None THEN None ELSE obj.spec

\* The table the clients see themselves acting on, their calls and answers.
ServedTable == [n \in Names |-> SpecIn(store["proxy"][n])]
ServedCalls == [c \in Clients |-> request[c].call]
ServedAnswers == [c \in Clients |-> request[c].code]

Table == INSTANCE ProxyTable WITH table <- ServedTable, call <- ServedCalls,
                                  answer <- ServedAnswers

(***************************************************************************)
(* Why a write never acts on an old copy: a copy that has the              *)
(* resourceVersion of the server's object is that object (line 149).       *)
(***************************************************************************)
Faithful(n, copy) ==
  copy # None => /\ copy.rv <= rev["proxy"][n]
                 /\ copy.rv = rev["proxy"][n] => copy = store["proxy"][n]

CopiesFaithful ==
  \A n \in Names :
    /\ store["proxy"][n] # None => store["proxy"][n].rv = rev["proxy"][n]
    /\ Faithful(n, cache["proxy"][n])
    /\ \A i \in 1..Len(watch["proxy"][n]) : Faithful(n, watch["proxy"][n][i])

RequestsFaithful ==
  \A c \in Clients :
    request[c].pc = "update" => Faithful(request[c].call.name, request[c].existing)

RestInv == RestTypeOK /\ CopiesFaithful /\ RequestsFaithful

(***************************************************************************)
(* However the handlers interleave with each other, with the controller's  *)
(* status updates, with late watch events and with restarts, every write   *)
(* they make acts on the proxy as it is on the server at that instant: no  *)
(* PATCH resurrects fields from the cached copy it started from, none is   *)
(* applied twice, and a success is answered only when the write took       *)
(* effect (lines 42-333).                                                  *)
(***************************************************************************)
AtomicRequests == Table!TableSpec

(***************************************************************************)
(* The end-to-end test of the API fetches a proxy "to get its              *)
(* resourceVersion" and sends it in the body of the PUT (lines 188-204 of  *)
(* jaegernginxproxy_api_test.go), which implies, but does not assert, that *)
(* a PUT that succeeds has replaced the version its client had seen; the   *)
(* handler takes the version from its own cache instead (lines 131-149).   *)
(***************************************************************************)
PutReplacesWhatWasSeen ==
  [][\A c \in Clients :
       /\ request[c].pc = "update" /\ request[c].base # 0
       /\ request'[c].code = 200
       => store["proxy"][request[c].call.name].rv = request[c].base]_restVars
=============================================================================
