# Verification of the nghttpx Ingress controller

TLA+ models of the reconciliation loop in `src/pkg/controller/controller.go`
and of the process lifecycle in `src/unnamed/part_000` (`main`). TLC checks them
on small clusters, and TLAPS proves their main safety properties for every
cluster.

## 1. Inventory

### The parts of the system and how they interact

| Part | Code | State | Operations |
|---|---|---|---|
| Observed-state mirror | informers created in `NewLoadBalancerController` (130-287) | one store per kind: Ingress, Service, Endpoints, Secret, ConfigMap, Pod, Node | add / update / delete delivered by the informer; periodic resync (`config.ResyncPeriod` for Ingresses) |
| Reference Index | handlers 289-540, filters `endpointsReferenced` (374), `secretReferenced` (939), `podReferenced` (543), `validateIngressClass` (1126) | none: each filter reads the Ingress and Service stores | decide whether a change can affect the configuration, then `enqueue(syncKey)` |
| Coalescing work queue | `syncQueue` (client-go workqueue), `enqueue` (586), `worker` (590), `retryOrForget` (1118) | the single key's queued / dirty / processing flags; shutting down | Add, Get, Done, ShutDown |
| Reload rate limiter | `flowcontrol.NewTokenBucketRateLimiter(1.0, 1)` (148), `Accept` (633) | tokens | take a token (blocking), refill over time |
| Config resolver | `sync` (632), `getUpstreamServers` (699), `getDefaultUpstream` (664), `getEndpoints` (966), `getNamedPortFromPod` (1037) | none: reads the stores | compute the nghttpx configuration; fail when the default TLS Secret is missing |
| TLS credentials | `getTLSCredFromSecret` (872), `getTLSCredFromIngress` (888), `createTLSCredFromSecret` (913) | none | read Secrets; a bad Ingress TLS Secret disables that Ingress only |
| Sink | `nghttpx.CheckAndReload` (external package) | running configuration | reload, may fail |
| Lifecycle | `Stop` (1056), `Run` (1074), `waitForControllerToSync` (1101); `main` ends with `lbc.Run()` (part_000:271); SIGTERM and `/stop` call `Stop` | stopCh / `shutdown` | close stopCh once; shut the queue down; return from `main` |
| Status reconciler | `syncIngress` (1136), `getNodeIPAndUpdateIngress` (1154), `updateIngressStatus` (1181), `removeAddressFromLoadBalancerIngress` (1282) | the Ingresses' `status.loadBalancer` (shared by all replicas) | publish this replica's addresses every 30-60 s; remove its address on stop |

The parts interact as follows:
- The informers write the stores.
- The handlers read the stores, filter, and add the one key to the queue.
- The single worker goroutine takes the key, waits for a token, and reads the Ingress list (line 639).
- The worker then reads the other stores inside `getUpstreamServers` and hands the result to nghttpx.
- The status loop runs beside the worker and shares only the stores with it.
- `Stop` closes stopCh, and every loop watches it.
- `Run` then shuts the queue down and returns.
- `main` returns with it, and the process exits.

### Hard behaviours

- **Dropped events**: a handler may drop an event its filter deems irrelevant. The Service informer has no handler at all.
- **Adds during a sync**: a key added while the worker is inside `sync` is only dirty. Done must requeue it.
- **Non-atomic read**: `sync` reads the Ingress list and the other stores at different times.
- **Errors are not retried**: `retry` is never set, so a failing sync stays failed.
- **The default TLS Secret**: a missing one fails the whole pass.
- **Shutdown**: it races the worker and the status loop, and the process may exit before the status loop de-registers.
- **The status list**: several replicas write the same status list.

The hazards are listed with their source lines in `PROJECT.json`.

## 2. Plan

1. **LoadBalancerController** (done): the mirror, handlers, filters, queue, worker, rate limiter and lifecycle, with the configuration abstracted to what a pass reads.
2. **StatusLoop** (done): one replica's status loop against the process exit.
   **StatusReplicas** (done): several replicas sharing one status list per Ingress. It covers the stale lister check, removal by address, re-adding by other replicas, the bounded poll, and write conflicts.
3. **ConfigResolver**: the pure parts of `getUpstreamServers` as operators, checked against reference definitions over bounded inputs:
   - path normalisation;
   - port matching;
   - the default-upstream override;
   - sorting and de-duplication of backends and of pems;
   - removal of the default pem.
4. **Refinement** (done): the queue and worker implement the abstract `CoalescingRecompute`. This is shown with `INSTANCE ... WITH`. TLC checks it with fairness, and TLAPS proves the step simulation.
5. **Liveness of Service changes** (done, as a finding): `ServiceChangeApplied` says every Service change that alters the configuration eventually reaches nghttpx. It is violated. The cfg turns off sync failures and the default TLS Secret, so the only cause left is the one at line 202: with no Ingress in class, nothing enqueues the key.
6. **Proofs** (done for safety): every safety invariant and action property of the passing runs is a theorem. Liveness stays with TLC.

## 3. Modules

### `LoadBalancerController.tla`

State:

| Variables | What they hold | In the code |
|---|---|---|
| `ing`, `svc`, `ep`, `pod`, `sec`, `cm` | the stores | the informer stores |
| `changes` | the number of changes so far | bounded by `MaxChanges` |
| `queue`, `dirty`, `processing`, `shuttingDown` | the syncKey's flags | client-go workqueue |
| `wpc` | where the worker is | `Get`, after `Accept`, or inside the pass |
| `tokens` | tokens left | the token bucket |
| `snapIng` | the Ingress list this sync read | `sync` line 639 |
| `applied` | what nghttpx runs | |
| `result` | the outcome of the last sync | |
| `failures` | failed reloads | bounded by `MaxFailures` |
| `stopped`, `mpc` | Stop, Run and main | |

How the data is abstracted:
- An object is a content stamp: 0 means absent, and 1 or 2 is one of two contents. An update switches between them, so a change can also revert.
- An Ingress is a record with five fields:
  - `present`;
  - `valid`, the result of `validateIngressClass`;
  - its backend Service;
  - its TLS Secret;
  - a stamp for the rest of its content.
- `ConfigOf` is the tuple of everything `getUpstreamServers` and `getConfigMap` read. It holds:
  - each routed Ingress;
  - the TLS Secrets (`SecretsRead`);
  - the backend Services;
  - their Endpoints (`EndpointsRead`);
  - the Pods behind them (`PodsRead`);
  - the ConfigMap.

  Two mirrors with the same `ConfigOf` give nghttpx the same configuration. The default backend is always counted as read. The code skips it when an Ingress overrides the default path, so this over-approximates what is read. That makes `ChangeNoticed` stronger, not weaker.
- `svcDrift` records that a Service change altered `Desired`. No handler sees such a change. `QuiescentConfigCurrent` exempts it, and `ServiceChangeApplied` is about it.

Actions:

| Action | Code |
|---|---|
| `IngressNotification` | add, update (enqueues if the old *or* the new object is in class), delete |
| `EndpointsNotification`, `SecretNotification`, `PodNotification`, `ConfigMapNotification` | their three handlers and filter |
| `ServiceChange` | an informer with no handler |
| `IngressResync` | enqueues iff an in-class Ingress exists |
| `WorkerGet` | `Get` |
| `SyncAccept` | `Accept` and the Ingress list read |
| `SyncFinish` | the rest of `sync` with its three outcomes, then `retryOrForget(false)` and Done |
| `Refill` | the token bucket refilling |
| `Stop` | `Stop` |
| `RunShutDown` | `Run` shutting the queue down |
| `ProcessExit` | `main` returning |
| `Terminated` | the process has exited |

The three outcomes of `SyncFinish`:
- the default TLS Secret is missing;
- `CheckAndReload` fails;
- success.

### `StatusLoop.tla`

This module covers `Stop`, `Run`'s return, `main`'s return and `syncIngress`. The status is reduced to whether this replica's address is in it (`registered`). `DeregisterBeforeExit` says that a process whose address is registered does not exit before its de-registration pass has run. TLC's trace publishes the address, then runs `Stop`, `Run`'s return and `main`'s return while `syncIngress` waits on its timer. The process exits with the address still in the status.

### `StatusReplicas.tla` (instantiated by `MCStatusReplicas.tla`)

This module covers several controller replicas, given by `Replicas`, each running `syncIngress` against the same Ingress status lists.

| Variables | What they hold | In the code |
|---|---|---|
| `status[i]` | the addresses in Ingress `i`'s status on the API server | `Status.LoadBalancer.Ingress` |
| `current[i]` | which copies of `i` still carry its current resourceVersion | optimistic concurrency of `UpdateStatus` |
| `cache[r]`, `podView[r]` | replica `r`'s Ingress and Pod listers | lagging informer caches |
| `pods` | the controller Pods that exist | deleted by the kubelet after the process exits |
| `stopped`, `mpc` | stopCh, and main's progress | `Stop`, `Run`, `main` |
| `spc` | where `syncIngress` is | list, write, wait, and the removal steps rnext, rget, rupdate, done |
| `want`, `snap`, `todo` | one `updateIngressStatus` pass | lines 1154-1213 |
| `remTodo`, `remCur`, `got`, `attempts` | one `removeAddressFromLoadBalancerIngress` | lines 1282-1335 |
| `faults` | API errors so far | bounded by `MaxFaults` |

How the data is abstracted:
- A Node is a sequence of typed addresses.
- `getPodAddress` takes the first non-empty ExternalIP. Failing that, it takes the first InternalIP (when `AllowInternalIP` is set) or LegacyHostIP. Otherwise there is no address.
- A status is the set of addresses. The code sorts and compares the list, which comes to the same thing here.

Actions:
- `UpdateIngressStatus` has four outcomes: stopped, already equal, written, and a conflict or fault.
- The removal loop has two actions per poll: `RemovePollGet` and `RemovePollUpdate`.
- `RemovePollTimeout` models `wait.Poll` giving up after `PollBudget` polls.

### `CoalescingRecompute.tla`

This is what the queue and worker promise, with the cluster reduced to the configuration it calls for (`target`):
- A notified change that alters the target leaves a request `pending`.
- Requests coalesce into one, and one recompute runs at a time (`busy`).
- A recompute that ends with no request pending applies the target.
- A change with no handler is remembered as `drift`.
- Once `closed`, the queue drains until the process exits.

`LoadBalancerController!Recompute` maps the controller onto it:

| Abstract | Controller |
|---|---|
| `target` | `Desired` |
| `pending` | `dirty` |
| `busy` | `processing` |
| `closed` | `shuttingDown` |
| `live` | `mpc # "exited"` |
| `applied`, `result` | the same |
| `drift` | `svcDrift` |

Under this mapping:
- each handler is a `Notify`;
- a Service change is a `Drift`;
- `WorkerGet` is `Start`;
- `SyncFinish` is `Finish`;
- `RunShutDown` is `Close`;
- `ProcessExit` is `Exit`;
- every other step leaves the mapped state alone.

## 4. Runs

| Run | Config | Expect | What it shows |
|---|---|---|---|
| `core_pass` | `MCLoadBalancerController.cfg` | pass | `TypeOK`, `QuiescentConfigCurrent`, `SnapshotCurrentUnlessDirty`, `QueueConsistent`, `ChangeNoticed`, `EnqueueServed` on a full cluster with up to 2 changes |
| `failed_sync_retried` | `MCFailedSyncRetried.cfg` | violation | a failed sync is never retried (finding) |
| `resolution_never_aborts` | `MCResolutionNeverAborts.cfg` | violation | a missing default TLS Secret aborts every pass (finding) |
| `service_change_applied` | `MCServiceChangeApplied.cfg` | violation | a change of the default backend Service with no Ingress in class never reaches nghttpx (finding) |
| `deregister_before_exit` | `StatusLoop.cfg` | violation | the process may exit with its address still in the status, before the de-registration pass (finding) |
| `implements_recompute` | `MCImplementsRecompute.cfg` | pass | `ImplementsCoalescingRecompute`: the controller implements `CoalescingRecompute`, fairness included, with 1 change (80k states) |
| `status_converges_apart` | `MCStatusReplicas.cfg` | pass | `TypeOK`, `StatusConverges`: 2 replicas on different Nodes, with conflicts, faults, stops and timeouts |
| `status_copies_current` | `MCStatusCopies.cfg` | pass | `CopiesCurrent`, `StatusWritesOnCurrent`: every copy a replica holds with the current resourceVersion equals the status, and every status write is an Update on such a copy (2 replicas, 1 Ingress, 828k states) |
| `status_converges_shared` | `MCStatusShared.cfg` | pass | `StatusConverges` with both replicas on one Node, so they share an address |
| `deregistration_sticks` | `MCDeregistrationSticks.cfg` | violation | a peer re-adds an address after it has been removed, because the lister still holds the terminating Pod (finding) |
| `peer_addresses_kept` | `MCPeerAddressesKept.cfg` | violation | removal by address value takes out the address of a co-located replica that keeps running (finding) |

### The properties of the status runs

- **`StatusConverges`** (liveness). If some replica is never stopped, every status eventually settles on the addresses of the controller Pods that exist. A removal poll that never gives up breaks it.
- **`TypeOK`** bounds every status, cached list, wanted list and copy to `PodAddrs`, the addresses `getLoadBalancerIngress` gives for the controller Pods.
- **`CopiesCurrent`**. The model tracks optimistic concurrency with `current[i]`: the holders (a replica's informer cache, its snapshot of the Ingress list, or the Ingress it fetched with Get) whose copy carries the resourceVersion the API server holds now. Every such copy equals the status. A replica that forgets that a peer's write changed the version breaks it.
- **`StatusWritesOnCurrent`** (action property). A status changes only by an `UpdateStatus` (lines 1210 and 1327) of a replica whose copy was current: either the wanted list after `updateIngressStatus` compared against a current snapshot, or the fetched list with the replica's own address removed. An Update that skips the version check breaks it.
- **`DeregistrationSticks`** (action property, expected violated). After a replica has removed its address, no peer puts it back while no other existing Pod shares it.
- **`PeerAddressesKept`** (action property, expected violated). The address of a running replica that every lister shows is never removed.

### The properties of `core_pass`

- **`ChangeNoticed`** (action property). Every handled change that alters `ConfigOf` leaves the key dirty. A filter that looks only at the new Ingress breaks it.
- **`QuiescentConfigCurrent`**. The worker may be idle with nothing queued after a successful sync, with no Service change since and no shutdown. Then nghttpx runs exactly what the current mirror calls for. A Done that drops the dirty mark breaks it.
- **`SnapshotCurrentUnlessDirty`**. Between the two reads of `sync`, if the key was not added again, no in-class Ingress has changed.
- **`QueueConsistent`**. The queue's flags agree with each other and with the worker.
- **`EnqueueServed`** (liveness). A dirty key is eventually picked up by a sync that starts after the add, unless the controller is stopped.

### Bounds

The cluster has:
- 1 Ingress, in any of its forms: in or out of class, either Service, no TLS or TLS Secret `t2`;
- 2 Services, one of them the default backend;
- 1 Pod, behind the non-default Service;
- 2 Secrets, one of them the default TLS Secret;
- the ConfigMap.

The other bounds:
- **`MaxChanges = 2`**. Two changes are enough for every interaction the properties are about:
  - a change during a sync, followed by another;
  - a class flip in either direction;
  - a delete and a re-create;
  - a Pod event before and after its Service.
- **`ReloadBurst = 1`**, as in the code.
- **`MaxFailures = 1`**.

Each property has a mutant: a plausible bug in a mapped definition that TLC finds.

The run takes about 2 minutes on about 1.46M states. Symmetry is not used, because the names play different roles and liveness is checked.

The status runs use 2 replicas, 2 Nodes, 1 Ingress, `PollBudget = 2` and `MaxFaults = 2`. With 2 polls, a timeout happens after a conflict and also without one. Three replicas, or two Ingresses, take the run past 5 minutes (`status_copies_current` with 2 Ingresses ran for more than 15). One Ingress is enough for the copy properties, because they relate copies of one Ingress to its own status and no step reads two Ingresses at once; the proofs below cover any number. Each replica pair already shows the interactions that matter: one replica stops while the other writes, and both write to the same list. `CHECK_DEADLOCK` is off in these runs because every replica may stop and the system then really halts. The refinement run uses `MaxChanges = 1`. The state graph for 2 changes takes 6 minutes with the liveness part.

### Fairness

Weak fairness covers the Go runtime's scheduling of goroutines that keep running while they can:
- the worker: `WorkerGet`, `SyncAccept`, `SyncFinish`;
- the token bucket's clock: `Refill`;
- the Ingress informer's resync timer: `IngressResync`;
- `Run` after stopCh closes: `RunShutDown`;
- `main`'s return: `ProcessExit`.

Cluster changes and `Stop` are not forced.

In `StatusReplicas`, weak fairness covers:
- every replica's goroutines and timers;
- the informers catching up;
- the kubelet deleting a Pod whose process has exited.

`RemoveStart` gets strong fairness. Its `select` between stopCh and the timer is uniformly random in Go, so a ready case that stays ready is not chosen away for ever.

`CoalescingRecompute` assumes weak fairness of `Start`, `Finish` and `Exit`. These correspond to the worker and to main's return.

## 5. Proofs (`LoadBalancerControllerProofs.tla`, `CoalescingRecompute.tla`, `RecomputeRefinementProofs.tla`, `StatusReplicasProofs.tla`)

The proofs hold for every value of the constants, under `ConstantsAssumption`:
- the default backend is a Service;
- `NoSecret` is not a Secret;
- `PodService` maps Pods to Services;
- the bounds are naturals, with the burst positive.

| Theorem | What it states |
|---|---|
| `TypeCorrect` | `Spec => []TypeOK` |
| `QuiescentConfigCorrect` | `Spec => []QuiescentConfigCurrent` |
| `QueueConsistentHolds` | `Spec => []QueueConsistent` |
| `SnapshotCurrentHolds` | `Spec => []SnapshotCurrentUnlessDirty` |
| `ChangeNoticedCorrect` | `Spec => ChangeNoticed` |
| `RecomputeRefined` | `Spec => Recompute!Init /\ [][Recompute!Next]_Recompute!avars` |
| `RecomputeIdleCurrent` | `Spec => []Recompute!IdleCurrent` |
| `StatusTypeCorrect` | `StatusReplicas`: `Spec => []TypeOK` |
| `CopiesCurrentHolds` | `StatusReplicas`: `Spec => []CopiesCurrent` |
| `StatusWritesOnCurrentHolds` | `StatusReplicas`: `Spec => StatusWritesOnCurrent` |

Every invariant and action property that a passing run checks on the controller and on the status loop is now a theorem, except the liveness ones.

### The refinement proof

`RecomputeRefined` rests on three facts:
- `RInv == IInv /\ (mpc # "run" <=> shuttingDown)`. The extra conjunct makes `Close` and `Exit` fire only when enabled in the abstract spec.
- `NoticedStep`, proved for every step by `ChangeNoticedCorrect`'s lemmas. It gives a `Notify` its obligation: a change of the target leaves a request.
- `SnapshotCurrentUnlessDirty` with `ConfigOfLive`. Together they give `Finish` its obligation: with no request pending, the pass applies `Desired`.

There is one lemma per kind of step (`NotifyStep`, `DriftStep`, `ResyncStep`, `GetStep`, `FinishStep`, `StutterSteps`), and `RefineStep` combines them.

`RecomputeIdleCurrent` then follows through the instance from the lemma `IdleCurrentHolds` of `CoalescingRecompute`. That lemma is about the abstract specification alone and says nothing of the code by itself. Only the refinement connects it to the controller.

### The inductive invariant

`QuiescentConfigCurrent` alone is not inductive. The inductive invariant is
`IInv == TypeOK /\ QueueConsistent /\ SnapshotCurrentUnlessDirty /\ QuiescentConfigCurrent`.
TLC checks each conjunct in `core_pass`.

Each conjunct is needed for these reasons:
- **`QueueConsistent`**: when the worker is idle, an unqueued key is not dirty, so an enqueue queues it.
- **`SnapshotCurrentUnlessDirty`**: a sync that ends with the key clean read an Ingress list equivalent to the current one.
- **The lemma `ConfigOfLive`**: `ConfigOf` depends only on in-class Ingresses.

`QueueConsistentHolds` and `SnapshotCurrentHolds` are conjuncts of `IInv`, so they follow from `IInvInit` and `IInvStep`.

### The status proofs

The status proofs rest on `Bounds`, the part of `StatusConstants` they use: `PollBudget` is a positive natural, `MaxFaults` a natural, and there is an Ingress. The rest of `StatusConstants` is not cited, because its record sequences break the SMT encoding and no step needs them.

`TypeOK` is inductive. Each action has a step of its own, and the actions that pick a replica, an Ingress or an outcome are split by PICK and CASE. Two small lemmas carry the address reasoning:
- `ViewAddrs`: a view's addresses are in `PodAddrs`;
- `MinusAddrs`: removing one address keeps them there.
`TypeOK` bounds addresses by `PodAddrs` rather than by what `getPodAddress` computes. That computation goes through `SelectSeq` and `SmallestNatural`, and the provers know nothing of them.

`CopiesCurrent` is not inductive alone. The steps that take a copy (an informer sync, the list in `GetNodeIPAndUpdateIngress`, the Get of a removal poll) must be known to store a function of the right domain, whose entry is the status. That needs the types of `status` and of the copies. The inductive invariant is `SInv == TypeOK /\ CopiesCurrent`, and `SInvStep` has one step per action. Two lemmas cover the common cases:
- `WriteKeepsCopies`: a successful `UpdateStatus` of Ingress `i` (`Write`) empties `current[i]`, so every copy of `i` becomes stale, and it leaves the other Ingresses alone;
- `QuietKeepsCopies`: a step that touches neither the status, the copies nor `current`.

`StatusWritesOnCurrentHolds` uses two more lemmas:
- `StatusQuiet` shows that the other actions leave `status` unchanged;
- `WriteStepHolds` shows that a write's copy was current, by `CopiesCurrent`. So the old status equals the snapshot, or the fetched list is the status.

### The lemmas behind the filters

Four lemmas, `EndpointsIrrelevant`, `SecretIrrelevant`, `PodIrrelevant` and `IngressIrrelevant`, prove the filters sound. A change a handler filters out leaves `ConfigOf` unchanged.

`MirrorPreserves` shows that any handler with a sound filter keeps the invariant.

### What stays with TLC

- The liveness properties are only model-checked, as is anything involving `ENABLED`. These are `EnqueueServed`, `StatusConverges` and the fairness part of `ImplementsCoalescingRecompute`.
- The status module's liveness (`StatusConverges`) and its expected violations are only model-checked.
- What `getPodAddress` computes for a Pod goes through `SelectSeq` and `SmallestNatural`, so it stays with TLC. The proofs only use the fact that the result is in `PodAddrs`.
- Induction over data cannot be proved with this prover setup. No recursive operator is used in the proved modules.

## 6. Not modelled

- **The nghttpx configuration template and `CheckAndReload`**: the template is formatting, and `CheckAndReload` is an external package. The reload is reduced to succeeding or failing.
- **Bootstrap**: flags, clients, healthz and `/build`.
- **`src/unnamed/part_001`**: annotation unit tests and a template fragment.
- **`src/Makefile`**: build rules, followed by an older version of the controller (`loadBalancerController`, with the older client API and a status update inside `sync`). `controller.go` supersedes it, so only `controller.go` is modelled.
- **Versions**: `src/unnamed/part_000` (`main`) is newer than `controller.go` and sets Config fields that `controller.go` lacks. The model uses only `main`'s control flow: it returns right after `lbc.Run()` (line 271).
- **The Node informer**: it has no handlers, and only the status loop reads it.
- **Port numbers, paths and backend lists**: these are data, planned for the ConfigResolver module.
