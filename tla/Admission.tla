----------------------------- MODULE Admission ------------------------------
(***************************************************************************)
(* One submitted JaegerNginxProxy, on its way through the validating       *)
(* webhook (pkg/webhook/validator.go) and the pass of the controller that  *)
(* builds its objects (pkg/ctrl/jaeger_nginx_proxy.go, lines 81-140 and    *)
(* 199-268).  Create and update are validated alike.                       *)
(*                                                                         *)
(* The cluster is one where the webhook is registered as its marker        *)
(* (validator.go, line 24) describes; no command of the program does that. *)
(***************************************************************************)
EXTENDS NginxConfig

CONSTANTS
  Specs,     \* the specs submitted in this instance
  BadTexts,  \* the texts resource.MustParse panics on
  MaxPort,   \* 65535 in the program
  HalfRange  \* 2^31 in the program

QuantityNames == {"limits.cpu", "limits.memory", "requests.cpu", "requests.memory"}
ImageParts == {"repository", "tag"}

ProxySpec == [replicaCount : Int, containerPort : Int, collectorHost : Texts,
              ports : Seq(Port), image : [ImageParts -> Texts],
              resources : [QuantityNames -> Texts]]

ASSUME SpecsAssumption == Specs \subseteq ProxySpec
ASSUME BadTextsAssumption == Empty \in BadTexts
ASSUME NumbersAssumption == MaxPort \in Nat /\ HalfRange \in Nat \ {0}

VARIABLES
  spec,       \* what was submitted
  by,         \* who works on it: the webhook or the controller
  pc,         \* what is next, or how it ended
  valid,      \* is allErrs empty?
  portNames,  \* the names seen so far
  i,          \* the next port, or the next line
  braceCount, \* the blocks open so far
  replicas    \* of the Deployment that was built

vars == <<spec, by, pc, valid, portNames, i, braceCount, replicas>>

Outcomes == {"refused", "retried", "panicked", "rejected", "built"}

AdmissionTypeOK ==
  /\ spec \in Specs
  /\ by \in {"webhook", "controller"}
  /\ pc \in {"fields", "ports", "lines", "build"} \cup Outcomes
  /\ valid \in BOOLEAN
  /\ portNames \subseteq Texts
  /\ i \in Nat \ {0}
  /\ braceCount \in Nat
  /\ replicas \in Int

Init ==
  /\ spec \in Specs
  /\ by = "webhook"
  /\ pc = "fields"
  /\ valid = TRUE
  /\ portNames = {}
  /\ i = 1
  /\ braceCount = 0
  /\ replicas = 0

-----------------------------------------------------------------------------
(* The webhook. *)

PortInRange(port) == 0 < port /\ port <= MaxPort

\* Every field outside the array of ports.
ValidateFields ==
  /\ pc = "fields"
  /\ valid' = /\ spec.replicaCount > 0
              /\ PortInRange(spec.containerPort)
              /\ spec.collectorHost # Empty
              /\ spec.ports # <<>>
              /\ \A part \in ImageParts : spec.image[part] # Empty
              /\ \A q \in QuantityNames : spec.resources[q] # Empty
  /\ pc' = "ports"
  /\ UNCHANGED <<spec, by, portNames, i, braceCount, replicas>>

\* Defective variant: the map of names stays empty.
ValidatePortAlone ==
  /\ pc = "ports" /\ i <= Len(spec.ports)
  /\ LET port == spec.ports[i]
     IN valid' = /\ valid
                 /\ port.name # Empty
                 /\ PortInRange(port.port) /\ port.path # Empty
  /\ i' = i + 1
  /\ UNCHANGED <<spec, by, pc, portNames, braceCount, replicas>>

\* One turn of the loop over the ports.
ValidatePort ==
  /\ pc = "ports" /\ i <= Len(spec.ports)
  /\ LET port == spec.ports[i]
     IN /\ valid' = /\ valid
                    /\ port.name \notin {Empty} \cup portNames
                    /\ PortInRange(port.port) /\ port.path # Empty
        /\ portNames' = portNames \cup ({port.name} \ {Empty})
  /\ i' = i + 1
  /\ UNCHANGED <<spec, by, pc, braceCount, replicas>>

\* Defective variant: the configuration is not looked at.
AdmitFields ==
  /\ pc = "ports" /\ i > Len(spec.ports)
  /\ pc' = IF valid THEN "lines" ELSE "refused"
  /\ by' = IF valid THEN "controller" ELSE by
  /\ i' = 1
  /\ UNCHANGED <<spec, valid, portNames, braceCount, replicas>>

\* The configuration is generated and validated only if no field is wrong.
EndOfPorts ==
  /\ pc = "ports" /\ i > Len(spec.ports)
  /\ pc' = IF valid THEN "lines" ELSE "refused"
  /\ i' = 1
  /\ UNCHANGED <<spec, by, valid, portNames, braceCount, replicas>>

-----------------------------------------------------------------------------
(* ValidateNginxConfig, called by the webhook and by buildConfigMap. *)

\* A nil error: the spec is persisted and a pass begins, or the pass goes on.
Accept ==
  /\ i' = 1 /\ braceCount' = 0
  /\ by' = "controller"
  /\ pc' = IF by = "webhook" THEN "lines" ELSE "build"

\* An error: the webhook refuses the spec, the controller retries the pass.
Reject ==
  /\ pc' = IF by = "webhook" THEN "refused" ELSE "retried"
  /\ UNCHANGED <<by, i, braceCount>>

\* Defective variant: a block may not be closed down to the top level.
ValidateLineStrictly ==
  /\ pc = "lines" /\ i <= Len(GenerateNginxConfig(spec))
  /\ LET line == GenerateNginxConfig(spec)[i]
         count == braceCount + LineOpens(line) - LineCloses(line)
     IN IF count <= 0 THEN Reject
        ELSE braceCount' = count /\ i' = i + 1 /\ UNCHANGED <<by, pc>>
  /\ UNCHANGED <<spec, valid, portNames, replicas>>

\* Defective variant: only the total is checked.
ValidateLineTotal ==
  /\ pc = "lines" /\ i <= Len(GenerateNginxConfig(spec))
  /\ LET line == GenerateNginxConfig(spec)[i]
     IN braceCount' = braceCount + LineOpens(line) - LineCloses(line)
  /\ i' = i + 1
  /\ UNCHANGED <<spec, by, pc, valid, portNames, replicas>>

\* One turn of the loop over the lines.
ValidateLine ==
  /\ pc = "lines" /\ i <= Len(GenerateNginxConfig(spec))
  /\ LET line == GenerateNginxConfig(spec)[i]
         count == braceCount + LineOpens(line) - LineCloses(line)
     IN IF count < 0 THEN Reject
        ELSE braceCount' = count /\ i' = i + 1 /\ UNCHANGED <<by, pc>>
  /\ UNCHANGED <<spec, valid, portNames, replicas>>

EndOfConfig ==
  /\ pc = "lines" /\ i > Len(GenerateNginxConfig(spec))
  /\ IF braceCount # 0 THEN Reject ELSE Accept
  /\ UNCHANGED <<spec, valid, portNames, replicas>>

-----------------------------------------------------------------------------
(* buildDeployment, and the Create that follows. *)

\* The conversion int32(x): two's complement wrap-around.
ToInt32(x) == ((x + HalfRange) % (2 * HalfRange)) - HalfRange

Parses(resources) == \A q \in QuantityNames : resources[q] \notin BadTexts

\* MustParse panics; the server refuses a negative number of replicas.
BuildDeployment ==
  /\ pc = "build"
  /\ replicas' = ToInt32(spec.replicaCount)
  /\ pc' = IF ~Parses(spec.resources) THEN "panicked"
           ELSE IF replicas' < 0 THEN "rejected" ELSE "built"
  /\ UNCHANGED <<spec, by, valid, portNames, i, braceCount>>

Next == ValidateFields \/ ValidatePort \/ EndOfPorts
          \/ ValidateLine \/ EndOfConfig \/ BuildDeployment

Spec == Init /\ [][Next]_vars

-----------------------------------------------------------------------------
(* What admission promises. *)

(***************************************************************************)
(* What the webhook admits, the controller can use (lines 289-295, 337):   *)
(* its configuration is never refused, and it is built with the number of  *)
(* replicas it asks for.  Precisely two things are missing from the        *)
(* webhook: that the quantities parse and that the count fits 32 bits.     *)
(***************************************************************************)
AdmittedIsBuilt ==
  /\ pc # "retried"
  /\ pc \in {"panicked", "rejected", "built"} =>
       (pc = "built" /\ replicas = spec.replicaCount
          <=> Parses(spec.resources) /\ spec.replicaCount < HalfRange)

(***************************************************************************)
(* The configuration the controller writes declares no upstream twice:     *)
(* the webhook has compared each name with all earlier ones (validator.go, *)
(* lines 93-107), across the turns of its loop.                            *)
(***************************************************************************)
UpstreamsDistinct ==
  LET config == GenerateNginxConfig(spec)
      Upstreams == {k \in DOMAIN config : config[k].directive = "upstream"}
  IN by = "controller" =>
       \A k1, k2 \in Upstreams : config[k1].text = config[k2].text => k1 = k2

\* Every text of the configuration closes the braces it opens.
Balanced == \A text \in ConfigTexts(spec) : Opens[text] = Closes[text]

(***************************************************************************)
(* The validation of the configuration refuses nothing it should not: if   *)
(* every text in it is balanced it passes, however many ports there are,   *)
(* in the webhook and in the controller (lines 81-140).                    *)
(***************************************************************************)
BalancedPasses ==
  Balanced => pc # "retried" /\ (pc = "refused" => ~valid)
=============================================================================
