---------------------------- MODULE MCAdmission -----------------------------
(***************************************************************************)
(* A small instance of Admission: up to three ports, with names and paths  *)
(* that are absent, shared or unbalanced, and every boundary of a number.  *)
(***************************************************************************)
EXTENDS Admission

CONSTANTS empty, a, b, open, close, badQ

SomeTexts == {empty, a, b, open, close, badQ}
SomeOpens == [t \in SomeTexts |-> IF t = open THEN 1 ELSE 0]
SomeCloses == [t \in SomeTexts |-> IF t = close THEN 1 ELSE 0]

At(name, port, path) == [name |-> name, port |-> port, path |-> path]

Good == [replicaCount |-> 1, containerPort |-> 1, collectorHost |-> a,
         ports |-> <<At(a, 1, a), At(b, 1, b)>>,
         image |-> [part \in ImageParts |-> a],
         resources |-> [q \in QuantityNames |-> a]]

Numbers == -1 .. MaxPort + 1
Replicas == -1 .. 2 * HalfRange + 1

\* Two ports with any texts.
PortLists ==
  {<<At(n1, 1, p1), At(n2, 1, p2)>> :
     n1, n2 \in {empty, a, b, open, close}, p1, p2 \in {empty, a, open, close}}
  \cup {<<>>, <<At(a, 1, a)>>}
  \cup {<<At(a, n, a), At(b, 1, a), At(t, 1, a)>> : n \in Numbers, t \in {a, b, open}}

SomeSpecs ==
  {[Good EXCEPT !.ports = ports, !.collectorHost = host] :
     ports \in PortLists, host \in {a, empty, open, close}}
  \cup {[Good EXCEPT !.replicaCount = n, !.resources["limits.cpu"] = t] :
          n \in Replicas, t \in {a, empty, badQ}}
  \cup {[Good EXCEPT !.containerPort = n] : n \in Numbers}
  \cup {[Good EXCEPT !.image[part] = empty] : part \in ImageParts}
  \cup {[Good EXCEPT !.resources[q] = t] : q \in QuantityNames, t \in {empty, badQ}}
=============================================================================
