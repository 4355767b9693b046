------------------------ MODULE MCDeploymentInformer ------------------------
(***************************************************************************)
(* A small instance of DeploymentInformer: three Deployments in three      *)
(* namespaces, two requests, and each way to choose the namespaces.        *)
(***************************************************************************)
EXTENDS DeploymentInformer, TLC

CONSTANTS d1, d2, d3, n1, n2, n3, h1, h2

ThreeNamespaces == d1 :> n1 @@ d2 :> n2 @@ d3 :> n3

ThreeSettings ==
  {[kind |-> "all", namespaces |-> {n1, n2, n3}],
   [kind |-> "one", namespaces |-> {n1}],
   [kind |-> "list", namespaces |-> {n1, n2}]}

Symmetry == Permutations({h1, h2})
=============================================================================
