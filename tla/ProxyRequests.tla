--------------------------- MODULE ProxyRequests ---------------------------
(***************************************************************************)
(* What the clients of pkg/api/jaegernginxproxy_api.go and of the MCP tool *)
(* in cmd/mcp.go ask for: requests, their answers, and the pure functions  *)
(* that compute the spec a request leads to.                               *)
(*                                                                         *)
(* A spec is the record of ProxyObjects, so that "image" or "resources" of *)
(* a patch stands for the whole group of fields.                           *)
(***************************************************************************)
EXTENDS ProxyObjects

CONSTANTS
  Malformed,    \* a body that does not parse
  NoPorts,      \* the routes of a spec whose array of ports is empty
  DefaultSpec,  \* what the create_jaegernginxproxy tool fills in
  Patches,      \* partial specs: what a PATCH and the tool carry
  Calls         \* the requests clients make in this instance

Fields == {"replicaCount", "image", "routes", "resources"}
ValuesOf(f) == CASE f = "replicaCount" -> Int
                 [] f = "image"        -> Images
                 [] f = "routes"       -> Routes
                 [] f = "resources"    -> Quantities

ASSUME PatchesAssumption ==
  \A patch \in Patches :
    DOMAIN patch \subseteq Fields /\ \A f \in DOMAIN patch : patch[f] \in ValuesOf(f)

ASSUME DefaultAssumption == DefaultSpec \in ProxySpec

Call == [op : {"POST", "PUT"}, name : Names, body : ProxySpec \cup {Malformed}]
   \cup [op : {"PATCH"}, name : Names, body : Patches \cup {Malformed}]
   \cup [op : {"tool"}, name : Names, body : Patches]
   \cup [op : {"GET", "DELETE"}, name : Names, body : {None}]

ASSUME CallsAssumption == Calls \subseteq Call /\ None \notin Call
ASSUME BodyAssumption == None \notin ProxySpec \cup {Malformed}

Pick(patch, f, old) == IF f \in DOMAIN patch THEN patch[f] ELSE old

\* An empty array of ports in a patch changes nothing (line 296).
ApplyPartialSpecUpdate(spec, patch) ==
  [replicaCount |-> Pick(patch, "replicaCount", spec.replicaCount),
   image        |-> Pick(patch, "image", spec.image),
   routes       |-> IF Pick(patch, "routes", NoPorts) = NoPorts
                    THEN spec.routes ELSE patch["routes"],
   resources    |-> Pick(patch, "resources", spec.resources)]

\* The create_jaegernginxproxy tool: every argument is optional.
CompleteSpec(args) == ApplyPartialSpecUpdate(DefaultSpec, args)

Creates(call) == call.op \in {"POST", "tool"}
Modifies(call) == call.op \in {"PUT", "PATCH"}

\* The spec after the call, of a proxy that had the given one before.
Outcome(call, spec) ==
  CASE call.op \in {"POST", "PUT"} -> call.body
    [] call.op = "PATCH"           -> ApplyPartialSpecUpdate(spec, call.body)
    [] call.op = "tool"            -> CompleteSpec(call.body)
    [] call.op = "DELETE"          -> None

\* Status codes; 0 while there is no answer yet.
Success(call) == CASE Creates(call)       -> 201
                   [] call.op = "DELETE"  -> 204
                   [] OTHER               -> 200

\* What the handler makes of any error of the write.
Failure(call) == IF call.op = "DELETE" THEN 404 ELSE 500

Codes == {0, 200, 201, 204, 400, 404, 500}
=============================================================================
