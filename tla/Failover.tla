------------------------------ MODULE Failover ------------------------------
(***************************************************************************)
(* Two processes of the server and the lease they compete for              *)
(* (cmd/server.go, lines 120-152).  The one with the lease runs the        *)
(* controller.  A lease is lost by time: a deposed process goes on writing *)
(* what it read before, until its manager notices and the process exits,   *)
(* in the middle of a pass or not.                                         *)
(*                                                                         *)
(* The leader, whichever process it is, is a ProxyReconciler under the     *)
(* names of the extended module.  The process deposed last is the instance *)
(* Deposed: a ProxyReconciler with a queue and a worker of its own on the  *)
(* same server, whose caches stay what they were when it lost the lease.   *)
(* The events its writes make are the leader's to see: watch is not        *)
(* replaced.                                                               *)
(***************************************************************************)
EXTENDS ProxyReconciler

CONSTANTS
  Handovers, \* how often the lease passes to the other process
  LatePasses \* passes a process may begin after it has lost the lease

ASSUME FailoverAssumption == Handovers \in Nat /\ LatePasses \in Nat

VARIABLES
  oldCache, oldQueue, oldBackoff, oldWorker, \* the deposed process
  late,     \* the passes it has begun without the lease
  handovers \* how often the lease has passed

old == <<oldCache, oldQueue, oldBackoff, oldWorker>>
failoverVars == <<vars, old, late, handovers>>

Deposed == INSTANCE ProxyReconciler WITH
  cache <- oldCache, queue <- oldQueue, backoff <- oldBackoff, worker <- oldWorker

NoObjects == [k \in Kinds |-> [n \in Names |-> None]]

\* Nobody has been deposed, or the process that was has nothing left to do.
Exited == oldQueue = {} /\ oldBackoff = {} /\ oldWorker = Idle

FailoverInit ==
  /\ Init
  /\ Exited /\ oldCache = NoObjects
  /\ late = 0 /\ handovers = 0

\* The leader, its informers, and everybody else who writes to the server.
LeaderStep == Next /\ UNCHANGED <<old, late, handovers>>

\* Nothing in a pass asks for the lease again.
DeposedStep ==
  /\ \/ Deposed!Continue /\ UNCHANGED late
     \/ /\ late < LatePasses
        /\ \E n \in Names :
             \/ Deposed!BeginReconcile(n) /\ late' = late + 1
             \/ Deposed!BackoffExpires(n) /\ UNCHANGED late
  /\ UNCHANGED <<cache, queue, backoff, worker, handovers>>

(***************************************************************************)
(* The lease runs out and the other process gets it: its controller starts *)
(* with a List, every object of which is an event.  The one that was       *)
(* deposed before has exited by then.                                      *)
(***************************************************************************)
TakeOver ==
  /\ handovers < Handovers
  /\ handovers' = handovers + 1
  /\ Exited
  /\ oldCache' = cache /\ oldQueue' = queue
  /\ oldBackoff' = backoff /\ oldWorker' = worker
  /\ late' = 0
  /\ StartController
  /\ UNCHANGED spent

\* mgr.Start returns, or the process dies: what it was doing stays undone.
Exit ==
  /\ ~Exited
  /\ oldQueue' = {} /\ oldBackoff' = {} /\ oldWorker' = Idle
  /\ oldCache' = NoObjects
  /\ late' = 0
  /\ UNCHANGED <<vars, handovers>>

FailoverNext == LeaderStep \/ DeposedStep \/ TakeOver \/ Exit

FailoverSpec == FailoverInit /\ [][FailoverNext]_failoverVars

\* The leader runs, or is deposed.  A deposed process may hang or exit.
FairFailoverSpec == FailoverSpec /\ Fairness

(***************************************************************************)
(* When the leader has nothing left to do, every proxy is as its spec asks *)
(* and a deleted one has left nothing (lines 270-421), although a deposed  *)
(* process may still be writing what it read before the handover.          *)
(***************************************************************************)
LeaderHasConverged ==
  spent["relist"] = 0 =>
    \A n \in Names :
      ~Pending(n) =>
        /\ Converged(n)
        /\ store["proxy"][n] = None /\ spent["fault"] = 0
             => store["cm"][n] = None /\ store["dep"][n] = None

(***************************************************************************)
(* A process without the lease overwrites only what its caches still show: *)
(* nothing the new leader or anybody else has written since it lost the    *)
(* lease (lines 320-330, 353-374 and 411 send the resourceVersion of a     *)
(* cached copy).                                                           *)
(***************************************************************************)
DeposedOverwritesWhatItSaw ==
  [][Deposed!Continue =>
       \A k \in Kinds, n \in Names :
         store[k][n] # None /\ store'[k][n] \notin {None, store[k][n]}
           => store[k][n] = oldCache[k][n]]_failoverVars

(***************************************************************************)
(* The two processes do not undo each other's work for ever: wherever the  *)
(* deposed one is stopped, what it left half done is finished, and once    *)
(* users stop every proxy is ready, or cleaned up, for good.               *)
(***************************************************************************)
HandoverSettles ==
  <>[](\A n \in Names :
         /\ store["proxy"][n] # None =>
              Converged(n) /\ store["proxy"][n].status.ready
         /\ store["proxy"][n] = None
              => store["cm"][n] = None /\ store["dep"][n] = None)
=============================================================================
