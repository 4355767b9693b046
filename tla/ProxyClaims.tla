---------------------------- MODULE ProxyClaims ----------------------------
(***************************************************************************)
(* What the README and the comments say of the JaegerNginxProxy controller *)
(* and the code does not do.  Each claim is refuted by a run of its own.   *)
(***************************************************************************)
EXTENDS ProxyReconciler

(***************************************************************************)
(* "Cleans up both the Deployment and ConfigMap when the JaegerNginxProxy  *)
(* is deleted" (README line 238), here without the cluster's garbage       *)
(* collector: the two Deletes of lines 280 and 284 throw every error away, *)
(* not only NotFound as the comment says.                                  *)
(***************************************************************************)
DeletedIsCleanedUp ==
  \A n \in Names :
    ~Pending(n) /\ store["proxy"][n] = None
      => store["cm"][n] = None /\ store["dep"][n] = None

(***************************************************************************)
(* "Updates the CR status to reflect readiness and error messages" (README *)
(* line 270): a spec that cannot be built makes every pass return before   *)
(* line 411, so that a proxy that was ready with its earlier spec stays    *)
(* ready for ever.                                                         *)
(***************************************************************************)
ErrorsReachStatus ==
  \A n \in Names :
    []<>(\/ store["proxy"][n] = None
         \/ Buildable(store["proxy"][n].spec)
         \/ ~store["proxy"][n].status.ready)

(***************************************************************************)
(* "Handles status updates reflecting the health of the managed resources" *)
(* (README line 255): a Deployment that already existed under the proxy's  *)
(* name is updated but never owned, so its events wake nobody up.          *)
(***************************************************************************)
StatusReflectsHealth ==
  \A n \in Names :
    ~Pending(n) /\ store["proxy"][n] # None
      => store["proxy"][n].status = StatusOf(store["dep"][n])
=============================================================================
