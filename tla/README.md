# Verification of k8s-controller-tutorial

TLA+ models of the controller, the handover between two processes, the REST API,
the Deployment informer and the validating webhook of this repository, the TLC runs
that check them on small instances, and TLAPS proofs for instances of any size.
Line numbers refer to `src/pkg/ctrl/jaeger_nginx_proxy.go` unless another file is
named.

## 1. The system

One process (`src/cmd/server.go`, command `server`) hosts everything:

| Component | State it keeps | Operations | Talks to |
|---|---|---|---|
| JaegerNginxProxy controller (`pkg/ctrl/jaeger_nginx_proxy.go`) | none of its own between passes; the manager's caches, work queue and rate limiter | `Reconcile`: read the proxy, validate, create or update ConfigMap and Deployment, write the status; clean up when the proxy is gone | API server (writes), informer caches (reads), events of the three kinds of objects |
| REST API (`pkg/api/jaegernginxproxy_api.go`) | none; one goroutine per request | List, Get, Create, Update (PUT), Patch, Delete | the same caching client as the controller |
| MCP tools (`cmd/mcp.go`) | the API instance set when the MCP server starts | `create_jaegernginxproxy`, `list_jaegernginxproxies` | the same client |
| Deployment informer (`pkg/informer/informer.go`) | package variables `deploymentInformer`, `allowedNamespaces`; the informer's store | start, the two listings behind `/deployments` | API server (watch), the HTTP handlers of `/deployments` (unlocked package variables) |
| Deployment controller (`pkg/ctrl/deployment_controller.go`) | `previousStates` under a mutex | `Reconcile`: log what changed | started by no command |
| Validating webhook (`pkg/webhook/validator.go`) | none | `ValidateCreate/Update/Delete` | registered nowhere (`cmd/server.go:144`) |
| nginx configuration (lines 33-140) | none | `GenerateNginxConfig`, `ValidateNginxConfig` | the controller and the webhook |
| Leader election (`cmd/server.go:120`) | a Lease in the cluster | acquire, renew, lose | a second process of the same program |
| Command line (`cmd/create.go`, `delete.go`, `list.go`) | none | create, delete, list Deployments | API server |

The hard behaviour is all about *time*. A `Get` is answered by a cache that
lags behind the server, so that a pass decides on what was, not on what is. A
`Reconcile` makes up to three writes, and any of them may be refused, fail, fail
after taking effect, or be the last thing the process does. The same names are
used again for new objects. Deployments change under the controller (pods,
`kubectl`, the garbage collector, this program's own `create` and `delete`).
Nothing calls the controller back except events, and an event is lost when a
watch expires. What must hold in spite of it:

* *Controller*: level-triggered convergence. Whatever the interleaving, when
  nothing is left to do, every proxy has what its spec asks for and a status that
  says so, and a deleted one has left nothing; once users and faults stop, that
  point is reached; a pass over a settled proxy is silent; what others write to
  fields the controller does not manage survives its updates.
* *REST API*: each write acts at most once, at one instant, on the proxy as the
  server holds it then; a success means that it acted.
* *Deployment informer*: a listing holds Deployments of allowed namespaces only,
  from the first request on, although the handlers share unlocked variables with
  the start-up.
* *nginx configuration and webhook*: what the webhook admits, the controller can
  build; a generated configuration of an admitted spec validates.
* *Leader election*: a deposed leader that is still writing and the new one do not
  undo each other for ever, and what the old one left half done is finished.

## 2. Modules

| Module | What it models |
|---|---|
| `ProxyObjects` | the three kinds of objects and the pure functions between them: what is built from a proxy, `int32` wrap-around, when a Deployment is up to date, the status computed from it |
| `ApiServer` | the API server as the client uses it: resourceVersions, optimistic concurrency, no-op writes, an ordered watch per object, the caches (external) |
| `ProxyReconciler` | the controller with its queue, retries, informers, process restarts, users, pods, garbage collector; the properties |
| `ProxyClaims` | three statements of the repository's README the code does not keep |
| `ProxyInvariant` | the two inductive invariants of the proofs, `IInv` and `HInv` |
| `MCProxyReconciler` | small instances of the three above |
| `Failover` | the leader and the process deposed last, each a `ProxyReconciler` with caches, queue and worker of its own, and the lease that passes between them |
| `MCFailover` | a small instance of it |
| `NginxConfig` | what `GenerateNginxConfig` writes for a spec, line by line |
| `Admission` | one spec in the webhook (the loops over fields, ports and lines) and in the pass of the controller that builds it |
| `MCAdmission` | a small instance of it, with every boundary of the numbers |
| `ProxyRequests` | REST and MCP requests, their answers, partial updates |
| `ProxyTable` | the abstract specification of the REST API: a table on which each request acts atomically |
| `RestApi` | the handlers, cut at their client calls; the refinement of `ProxyTable` |
| `MCRestApi` | small instances of `RestApi` |
| `DeploymentInformer` | the start-up of the Deployment informer and the handlers of `/deployments`, with the variables they share |
| `MCDeploymentInformer` | a small instance of it |
| `ApiServerProofs`, `ProxyTypeProofs`, `ProxyConvergenceProofs`, `ProxyCopiesProofs`, `FailoverProofs`, `RestApiProofs`, `DeploymentInformerProofs`, `AdmissionProofs` | the proofs |

`ProxyReconciler` and `RestApi` both extend `ApiServer`; in each of them the other
one appears as an environment that writes to the same server (`WriteStatus` in
`RestApi`, `CreateProxy`, `UpdateProxy` and `DeleteProxy` in `ProxyReconciler`).
`Failover` extends `ProxyReconciler` (the leader) and instantiates it a second time over
the same `store` (the deposed process); `Admission` extends `NginxConfig` and stands on its own, on specs with all
their ports and fields where `ProxyObjects` has groups of them.

### Correspondence: the controller

`store`, `rev`, `watch` and `cache` are the server, its version counters, the
events under way and the informer caches. `rev` counts the writes of one slot and
is never reset, which is what makes a uid (`rev` at creation) unique. `queue` and
`backoff` are the work queue and the rate limiter's delayed names. `worker` is the
one pass under way: `pc` names the next call on the client, `page` is the local
variable of that name, `obj` the ConfigMap or Deployment about to be sent.

| Action | Lines |
|---|---|
| `BeginReconcile` | the first Get, cleanup branch, validation, 270-298 |
| `DeleteConfigMap`, `DeleteDeployment` | the two Deletes with dropped errors, 277-285 |
| `GetConfigMap`, `CreateConfigMap`, `UpdateConfigMap` | 300-334 |
| `GetDeployment`, `CreateDeployment`, `UpdateDeployment` | 336-375, with the panic of `MustParse` in `buildDeployment` |
| `CheckDeployment`, `SetStatus` | the second Get of the Deployment and the status update, 377-421 |
| `Retry`, `BackoffExpires` | a returned error and `Requeue: true` both go to the rate limiter |
| `Deliver`, `Relist`, `Resync`, `Restart` | informer events; an expired watch; the ten-hourly resync; the process dying at any step |

Decisions that are not visible in the code itself:

* A cached Get fails only with NotFound: the client of `mgr.GetClient()` reads an
  informer that is synchronised before the worker starts.
* controller-runtime v0.21 recovers a panic of `Reconcile` by default and treats
  it as an error, so `BuildPanics` leads to `Retry`.
* No `MaxConcurrentReconciles` is set: one worker. The queue holds a name once; a
  name queued during its own pass starts another.
* A refused write (exists, conflict, gone, negative replicas) is told apart from a
  fault (any other error, before or after taking effect); only faults are budgeted.
* A write that changes nothing keeps its resourceVersion and makes no event.
* Events of a child go to its owner (`Owns`, matched by kind and name); a
  Deployment without an owner wakes nobody.
* A restart is atomic with the filling of the new caches: the worker starts after
  they are synchronised, and what happens in between is also what a late watch
  event shows.

### Correspondence: leader election

`cmd/server.go:120-126` asks for a lease; controller-runtime runs the controller of the
process that has it, and `mgr.Start` returns (146-152, the process exits) when the
lease is lost. The names of `ProxyReconciler` are those of the leader, whichever process
that is; `Deposed!...` are those of the process that led before, with variables of its
own (`oldCache`, `oldQueue`, `oldBackoff`, `oldWorker`).

| Action | What it is |
|---|---|
| `LeaderStep` | the leader, its informers, and everybody else who writes to the server: `Next` of `ProxyReconciler` |
| `TakeOver` | the lease runs out and the waiting process gets it: the leader's caches, queue and pass become those of the deposed process, and the new leader begins with a List, every object of which makes requests (`StartController`, the same as after a restart) |
| `DeposedStep` | a pass of the deposed process goes on, a delayed name comes back to its queue, or another pass begins: no line of `Reconcile` asks for the lease |
| `Exit` | it ends, in the middle of a pass or not |

The simplifications, each named in the module. The caches of the deposed process
stay as they were at the handover: a watch that is late until the process exits.
`LatePasses` bounds the passes it may still *begin*; one in progress goes on. Without
the bound a process with a frozen cache may delete what the leader creates for ever,
which the deadline of the lease rules out. A lease passes on only when the process
deposed before has exited, so that there are two processes at a time. The new leader's
caches are filled by a List at the handover; had they been started earlier (by its REST
API), they would be what a List and late events make of them.

### Correspondence: nginx configuration and webhook

`pc` says which loop `by`, the webhook or the controller, is in: `fields` and `ports`
are `pkg/webhook/validator.go:57-167`, `lines` is `ValidateNginxConfig` (81-140), called
from `validator.go:193` and from line 203, `build` is `buildDeployment` and the Create
that follows. `valid` is `len(allErrs) == 0`, and `refused` (webhook), `retried`
(returned error), `panicked` (`MustParse`), `rejected` (by the server, negative
replicas) and `built` are the ways it ends.

A text is what the validator sees of it: how many braces of each kind it has
(`Opens`, `Closes`). Texts have no line break. Lines with no brace and no text of the
user are left out, and so are the checks that cannot fail on a generated
configuration: each line that may say "server", "location" or "upstream" has a brace
or a semicolon (105-115), "server {" and "listen" are always there (124-130), and the
verdict of `nginx -t` is only logged (133-137). The `//+kubebuilder:webhook` marker
(`validator.go:24`) makes no server: no command registers the validator, whatever
`cmd/server.go:144` says, so `Admission` is about a cluster where somebody does.

### Correspondence: the REST API

`request[c]` is the handler goroutine of a client: `begin` before its first client
call, `update` between the Get of a PUT or PATCH and its Update, `done` when
answered. `started` is false until the manager has started its caches; the HTTP
server is already listening (`cmd/server.go:146-262`) and a Get fails, which the
handlers report as 404 (`pkg/api/jaegernginxproxy_api.go:134-138`). A write has
three outcomes (`HandlerWrite`): accepted, refused or failed, and accepted with a
failed answer. `ApplyPartialSpecUpdate` is lines 216-303 of that file on groups of
fields, including the array of ports that is ignored when it is empty. The answer
of the MCP tool is a text, modelled by the codes of POST.
A GET is a read of a cache that may lag: `ProxyTable` promises only that it is
answered, not with what.

### Correspondence: the Deployment informer

`boot` is where the goroutine of `StartDeploymentInformer` (`informer.go:30-176`)
stands, `handler[h]` a request in `GetDeploymentNames` or
`GetDeploymentNamesWithNamespace` (179-194, 213-231), which differ in the wording of
the answer only. The goroutine assigns `allowedNamespaces` (197-202) and
`deploymentInformer` (77) and then starts the reflector (167); the handlers read
both without a lock, which is a data race, so that each read may yield any value
the variable has had, as long as nothing orders it after a later assignment:

* `deploymentInformer` may be seen as nil at any time (`SeeNoInformer`, an empty
  answer), as assigned (`ListStore`), or with one of its two words only, where
  calling `GetStore` panics and ends the process (`SeeTornInformer`).
* `allowedNamespaces` is read once per object of the store. The objects were put
  there under the store's lock by the reflector, which line 167 starts after the
  assignments: a handler with an object in hand sees them. `published` counts the
  values that are ordered that way, and `Filter` reads any value from there on.

The event handlers (79-164) only log. The wait for the cache (168) holds up
nobody but its own goroutine: a handler that runs before it is over lists what the
store holds by then. The 30 s resync puts nothing new in the store.

## 3. What TLC checks

| Run | Question | Instance |
|---|---|---|
| `ProxyLife` | Does one proxy, created, changed and deleted, converge while watches lag, somebody edits its objects and the collector works? Is a settled pass silent? Do updates from cached copies keep what the editor wrote? | two specs that differ in everything, one scaled to zero; 2 user actions, 1 edit, 1 premature collection |
| `ProxyFailures` | ... with one fault, one restart, one foreign deletion, one lost pod and one expired watch, without a garbage collector? | two specs, 2 user actions |
| `ProxyForeign` | Is a Deployment that was there first taken over without undoing what its creator wrote? Is what was deleted behind an expired watch repaired, if the informers are resynchronised? | one spec, 1 user action, 1 edit, 1 foreign deletion, 1 expired watch |
| `ProxyPair` | Under fairness, does every buildable proxy become ready for good, beside one that can never be built? Does a proxy that is deleted and created again converge among the leftovers of the first one? | two proxies, one of them running at the start; a good spec and one for each way to fail; 2 user actions, no fault |
| `Failover` | Does the new leader finish what the old one left, while the old one is still writing (`LeaderHasConverged`), do the two come to rest (`HandoverSettles`), and can the old one overwrite what was written since (`DeposedOverwritesWhatItSaw`)? | two specs without pods, 2 user actions, 1 late pass, a handover and an exit at any step, the resync |
| `Admission` | Is what the webhook admits built as asked, except for exactly the two things it does not look at? Is no upstream declared twice? Does every balanced configuration pass? | up to three ports; five names, four paths, four hosts; every boundary of the numbers |
| `RestRequests` | Do the handlers implement `ProxyTable`? Are copies with the current version current (`RestInv`)? | two clients, 3 requests of nine kinds, 1 status update, 1 foreign write, any restarts and relists |
| `Listings` | Does every answer of `/deployments` hold exactly the Deployments of the namespaces asked for, without a lock on the filter? Is the filter never read while it is filled? | two requests, three Deployments in three namespaces, all, one or two of them asked for |

Why the bounds are enough: a pass has at most seven client calls and its only
memory is one copy of each object, so one overtaking write of each kind puts every
call in front of a stale copy; a second makes the retry stale too. Creation,
deletion and creation again, the longest sequence in which a name changes its meaning,
takes three user actions. `ProxyPair` has two and the first one behind it: it begins with
one proxy running (`RunningInit`, a state `Spec` reaches with one user action). What this
leaves out, a creation again among edits, faults and collections ahead of the watch, and
the cleanup of the second proxy, the theorems `Convergence` and `CleanUp` cover, which hold
for every budget. `ProxyPair` has no fault; that a pass ended by one is taken up again is
`QuiescentConverged` of `ProxyFailures`, for a name in backoff is work left to do, and
`BackoffExpires` is fair. `HalfRange = 4` stands for 2^31, so that wrap-around is part of the
instance. Every bound is a budget in a guard (`Spend`, `Use`); pods, deliveries,
retries, resyncs and, with an up to date watch, the collector are not bounded. One
collection ahead of the watch is budgeted ("collect") because the controller may
create the object again each time, which is a loop of writes.
`Listings` has no budget at all: its state space is finite, and two entries in the
filter are what it takes for it to be half filled. `Admission` has none either: two
ports are what it takes to repeat a name, three to repeat one that is not the
neighbour's, and one text of each kind of brace unbalances every line in turn.
`MaxPort` stands for 65535.
In `Failover` one late pass is what it takes to create, after the handover, what the
cleanup of the new leader has already deleted; one handover is what it takes to have two
processes, and any number of them is left to the theorem `LeaderConverges`.
The bounds are absent from the theorems of section 4.

`QuiescentConverged` and `EventuallyConverges` exclude behaviours with both an
expired watch and a foreign deletion (`Watched`): an object created by a pass and
deleted before the List that follows makes no event, the pass returned an empty
Result (line 421), and nothing looks again before the ten-hourly resync.
`EventuallyRepaired` is about those behaviours: with the resync they converge too.
`QuiescentCleanedUp` excludes faults because lines 280 and 284 ignore them.

*Fairness.* The worker goroutine runs (weak fairness of `Continue`); the queue is
FIFO, so a name in it is eventually taken although the worker is free only now
and then (strong fairness of `BeginReconcile`); the rate limiter's delay is finite
(`BackoffExpires`); watches, pods and collector make progress. Nothing is assumed
of users, faults, restarts and relists. The resync is fair in one place, the premise
of `EventuallyRepaired`: controller-runtime's default is ten hours, and the program
sets no other. In `Failover` the leader, whichever process it is, is as fair as in
`ProxyReconciler`; of a deposed one nothing is assumed, it may hang in the middle of a
pass for ever, and of the lease neither, it may never pass.

Every run checks deadlocks but these: `Admission` ends
with a decision, and the requests of `RestRequests` (and of
`ClaimPutReplacesWhatWasSeen`) are answered one day.

### Statements of the repository the code does not keep

| Run | Statement | What the code does |
|---|---|---|
| `ClaimDeletedIsCleanedUp` | comment of line 280, README 238 | every error of a cleanup Delete is ignored, and nothing retries: without a garbage collector an object stays |
| `ClaimErrorsReachStatus` | README 270 | a spec that cannot be built leaves the pass before the status is written; the status stays ready |
| `ClaimStatusReflectsHealth` | README 255 | a Deployment that existed before the proxy is updated but not owned; its events wake nobody |
| `ClaimPutReplacesWhatWasSeen` | `jaegernginxproxy_api_test.go:188-202`, implied rather than asserted | PUT ignores the resourceVersion its client sends and takes the one of its own cached Get |

Seen while modelling and not given a run, because they follow from a line or two:
`spec.resources` is never applied to an existing Deployment (356-364, README 263);
a replica count beyond 32 bits wraps (219); a pass that has just updated the
Deployment computes the status from a cached copy of before (379), corrected by a
later pass; the cleanup deletes by name, owned or not (281-284, README 264); an
empty array of ports in a PATCH changes nothing (`jaegernginxproxy_api.go:296`
against the comment of 278); a failed Get of any kind is answered 404 and a failed
Delete too; the webhook (README 256, 384) and the Deployment controller (README 192) are
registered by no command, and `cmd/server.go:144` trusts a comment to register it; the
webhook compares the names of the ports only, where README 379 says "Port uniqueness":
two ports with one path, or the path `/healthz`, make a configuration nginx refuses; it
refuses the count 0, which the controller reports as scaled to 0 (389); it admits
quantities that `MustParse` panics on (239) and counts beyond 32 bits, the two
exceptions in `AdmittedIsBuilt`; `charts/app/templates/deployment.yaml:31` passes
`--leader-elect`, a flag the program does not have.

## 4. What is proved

All theorems hold for any number of names, clients, specs and any budgets.

| Theorem | Statement |
|---|---|
| `ProxyTypeProofs!TypeCorrect` | `Spec => []TypeOK`: each step of a pass holds the objects the next one needs |
| `ProxyConvergenceProofs!Invariance` | `Spec => []IInv` if nobody creates a Deployment under a proxy's name (`~Foreign`) |
| `HoldInvariance` | `Spec => [](IInv /\ HInv)`, under the same assumption: what an expired watch cannot hide |
| `Convergence` | `QuiescentConverged` if `~Foreign`, with expired watches, restarts and faults |
| `CleanUp` | `QuiescentCleanedUp` if `~Foreign`, with expired watches, restarts and other people's deletions |
| `Quiet` | `QuietWhenSettled` if `~Foreign` |
| `ProxyCopiesProofs!UnmanagedKept` | `UnmanagedFieldsKept`, also with foreign Deployments (`Foreign`) |
| `FailoverProofs!FailoverInvariance` | `FailoverSpec => []FInv`: `TypeOK` and, if `~Foreign`, `IInv` of the leader, and what a deposed process may still write |
| `LeaderConverges` | `LeaderHasConverged` if `~Foreign`, for any number of handovers and of late passes |
| `LeaderIsQuiet` | `FailoverSpec => QuietWhenSettled` if `~Foreign` |
| `DeposedIsHarmless` | `FailoverSpec => DeposedOverwritesWhatItSaw`, also with foreign Deployments |
| `RestApiProofs!CopiesAreFaithful` | `RestSpec => []RestInv` |
| `RestApiProofs!Atomicity` | `RestSpec => AtomicRequests`: `RestApi` implements `ProxyTable` |
| `DeploymentInformerProofs!InformerCorrect` | `Spec => []InformerInv` |
| `Exact`, `Raceless` | `ListingIsExact`, `NoMapRace` |
| `AdmissionProofs!TypeCorrect` | `Spec => []AdmissionTypeOK`: no accepted line leaves a negative number of open blocks |
| `Admitted` | `AdmittedIsBuilt` |
| `Distinct` | `UpstreamsDistinct` |
| `Passes` | `BalancedPasses` |

*The controller.* `QuiescentConverged` speaks of the moment when nothing is left to
do; it is not inductive, because it says nothing of the passes that lead there.
`IInv` adds what a pass knows at each step. `Echo`: the last event under way is the
server's state, so an empty watch means that the cache is right. `PassApplies`: a
pass *that no event has put back in the queue* works from the proxy that is in the
cache, and behind it are a matching ConfigMap and Deployment, or an event that
will bring it back. That disjunction is the argument of the controller: a write
based on a stale copy is either refused (and retried) or makes an event. The
subtle part is a write that makes none: before each write stands the difference
that made it necessary (`~HasConfig`, `~HasDeployment`), so that a write the server
finds to change nothing means that the cache was behind, and the event it was
behind is still under way. `ApiOwned` and `WorkerOwned` say that every child has an
owner, so that its events reach the queue; this is where `~Foreign` is used.
`PassCleans` and `IdleClean` do the same for the cleanup. `DeletesSomething`
rules out a deletion event that the informer would not hand on.

*After an expired watch.* A List replaces the events that were under way: an object that
was created and deleted in between is an event to nobody, and the disjunct "or an event
that will bring it back" of `PassApplies` goes with it. `HInv` says why that is harmless as long as nobody but
the controller and the collector deletes. Each object a pass relies on is `Held`: it is in
the cache, or it is on the server under the uid of the proxy the cache shows. When it
is in the cache, a List that no longer has it is a deletion, and an event. When it is
not, it cannot have gone: the collector spares an object whose owner is the present
proxy, and the controller deletes only for a proxy it believes gone. What a List can
still hide is therefore the work for a proxy that has changed since, and that proxy's
own event is then still under way (`watch["proxy"][n] # <<>>`) or in the List. The proof has
one lemma per action again (the `...Hold` lemmas); `StaysConverged` and `HeldKept` are what
they share.

`UnmanagedKept` needs another invariant, `CInv`, and no assumption on `Foreign`: the
version of a slot only grows and is never given to a second object (`VersionsKept`),
so a copy with the server's resourceVersion is the server's object (`Copies`), and what
a pass is about to send differs from such a copy in managed fields only (`DepCopy`,
`PageCopy`). An accepted update therefore finds what it read.
Each action has a lemma; `Next` is assembled in `ContinueInv`, `EnvironmentInv` and
`StepInv`, and for `HInv` in `StepHold`. TLC checked `IInv`, `HInv` and `FInv` on
instances before they were proved.

*Leader election.* To the leader a deposed process is one more writer to the server, and
`ExternalInv`, which the proof of `Invariance` needs for users and pods, holds of any
writer that leaves no child without an owner. So `FInv` has to say of the deposed
process only that it does that (`DeposedOK`): its caches and its pass are of the right
types, and what it read, or is about to send, has an owner. It needs nothing of *how*
old its copies are. `TakeOver` is `StartInv`, the same lemma as for a restart. What this does
not give is `HInv`: the cleanup of a deposed process may delete, between two Lists of the
leader, what the leader has just created, which is why `LeaderHasConverged` speaks of
leaders none of whose watches has expired.

`DeposedIsHarmless` is about the other direction, and follows a copy through the
handover. `LatestInv` (in `ProxyCopiesProofs`) says of the leader that if the server still
has the object a pass has copied, then the cache still shows it: a cache that
shows the server's object has no event left to wait for (`SeenOnce`), so it cannot move
on. At the handover `cache` becomes `oldCache`, the pass becomes `oldWorker`, and the
same statement (`DeposedLatest`) holds of the deposed process from then on, because its
caches do not move and each write by anybody has a version no copy of it has. An
update it sends is accepted only with the current version; so what it overwrites is
what `oldCache` shows. Its Creates find nothing there, and its Deletes are the one
thing nobody checks (lines 280, 284): the new leader has to put those right, which is
what `LeaderConverges` and `HandoverSettles` are about.

*The REST API.* A PUT or PATCH writes an object computed from a copy. By `RestInv` a
copy that has the server's resourceVersion *is* the server's object, wherever it
comes from (cache, event under way, handler), because each commit has a version no
earlier copy has. So an accepted update acts on the current spec, and the
step maps to `Perform` of the table; everything else is a `Submit`, `Refuse`, `Read`,
`Break`, `Elsewhere` or a stutter.

*The Deployment informer.* `InformerInv` relates three places: the reflector runs only
when `boot` is past the assignments, so that the store, and with it every handler,
is empty until the filter is complete (`FilterReady`); and the part of an answer
that is already filtered is exact. With the order of lines 63 and 167 swapped
(`AfterEager`) the first conjunct fails.

*Admission.* That the controller never refuses what the webhook let pass is a
statement about two runs of the same loop. `WalkInv` ties them together by a witness:
a function `d` with the count after each line, never negative and zero at the end. The
webhook extends it line by line (`LineStep`), the controller walks along it, and its
count is always `d[i - 1]`. That a balanced configuration passes needs the count in
closed form: `Depth(k)` is the number of blocks open after line `k`, by the place of
the line among blocks of three (`DepthAround`), and each line changes the count as it
changes the depth (`BalancedChanges`). `NamesInv` is the loop invariant of the map of
names; `UpstreamLine` leads from a line of the configuration back to its port.
`Conversion` is the arithmetic of `int32`, for any positive `HalfRange`.

The assumptions are those on the constants: the values are of the types of
`ProxyObjects`, the empty text has no brace and is no quantity, the absent object is no object and the nil map no set of namespaces,
budgets are numbers.

Only model-checked: `EventuallyConverges`, `EventuallyRepaired` and `HandoverSettles`,
because liveness under fairness is out of the prover's reach. With a foreign Deployment
`TypeOK`, `UnmanagedFieldsKept` and `DeposedOverwritesWhatItSaw` are proved; convergence
is not, and the run `ClaimStatusReflectsHealth` shows that there it is false of the
status.

## 5. Not modelled, and the plan

Not modelled for good: rendering of Swagger pages, logs and metrics; flags and
kubeconfig (read once); generated deep copies; charts and manifests; the `list`
command. The Service of a proxy is a field of the spec that no code reads.

Not modelled either: `pkg/ctrl/deployment_controller.go`, which no command calls and
which logs only, and `nginx -t`, whose verdict is only logged.

What a next step could take, in this order:

1. `RestApi` over `ProxyReconciler`: clients and controller on one server. Today each
   is an environment of the other with the same writes.
2. `Failover` with live watches of the deposed process.
3. `BadRoutes` of `ProxyObjects`, a fixed set, replaced by what `NginxConfig`
   computes for whole specs.

Every safety property a run checks is stated by a theorem; what is left to prove comes
with the first item: that controller and handlers together still implement `ProxyTable`.
