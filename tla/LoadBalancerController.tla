----------------------- MODULE LoadBalancerController -----------------------
(***************************************************************************)
(* The reconciliation loop of the nghttpx Ingress controller               *)
(* (src/pkg/controller/controller.go): the informer stores (the observed- *)
(* state mirror), the notification handlers with their relevance filters   *)
(* (the Reference Index), the single-key work queue and its one worker,    *)
(* the reload token bucket, the sync pass that reads the stores and hands  *)
(* the result to nghttpx, and Stop/Run/main.  The status loop is in        *)
(* StatusLoop.                                                             *)
(*                                                                         *)
(* Objects are abstracted to content stamps: 0 means absent, 1 and 2 are   *)
(* two contents; an update switches between them, so content may also     *)
(* revert.  An Ingress is a record naming the one backend                  *)
(* Service and the one TLS Secret it refers to.  The configuration a sync  *)
(* computes is abstracted to the inputs getUpstreamServers really reads:   *)
(* two mirrors with the same Config produce the same nghttpx configuration.*)
(***************************************************************************)
EXTENDS Naturals, FiniteSets

CONSTANTS
    Ingresses,         \* names of Ingress resources
    Services,          \* names of Services; each has an Endpoints of that name
    Pods,              \* names of backend Pods
    Secrets,           \* names of TLS Secrets
    NoSecret,          \* no TLS section / no --default-tls-secret
    NoConfig,          \* nghttpx has not been given a configuration yet
    DefaultSvc,        \* --default-backend-service
    DefaultTLSSecret,  \* --default-tls-secret, or NoSecret
    HasConfigMap,      \* --nghttpx-configmap is set
    PodService,        \* the Service whose selector matches a Pod's labels
    ReloadBurst,       \* burst of reloadRateLimiter
    MaxChanges,        \* bound on changes to the mirror
    MaxFailures        \* bound on failed CheckAndReload calls

ASSUME ConstantsAssumption ==
    /\ DefaultSvc \in Services
    /\ NoSecret \notin Secrets
    /\ DefaultTLSSecret \in Secrets \cup {NoSecret}
    /\ HasConfigMap \in BOOLEAN
    /\ PodService \in [Pods -> Services]
    /\ ReloadBurst \in Nat \ {0}
    /\ MaxChanges \in Nat
    /\ MaxFailures \in Nat

Version == 0 .. 2

IngressRec == [present : BOOLEAN, valid : BOOLEAN, svc : Services,
               tls : Secrets \cup {NoSecret}, rev : Version]

\* An Ingress that is not in the store.
Absent == [present |-> FALSE, valid |-> FALSE, svc |-> DefaultSvc,
           tls |-> NoSecret, rev |-> 0]

\* The Ingress list held outside a sync (the local of sync is gone).
NoIngresses == [i \in Ingresses |-> Absent]

\* The Ingresses an add or update can store; valid is the outcome of
\* validateIngressClass on its class annotation, rev the rest of its content.
IngressSpecs == [present : {TRUE}, valid : BOOLEAN, svc : Services,
                 tls : Secrets \cup {NoSecret}, rev : {1, 2}]

ConfigType == [ings : [Ingresses -> IngressRec], secs : [Secrets -> Version],
               svcs : [Services -> Version], eps : [Services -> Version],
               pods : [Pods -> Version], cm : Version]

VARIABLES
    ing, svc, ep, pod, sec, cm,   \* the informer stores
    changes,                      \* number of changes made to the stores
    queue, dirty, processing,     \* syncQueue holding the single syncKey
    shuttingDown,                 \* syncQueue.ShutDown() was called
    wpc,                          \* where the worker is: get, accept, resolve
    tokens,                       \* tokens in reloadRateLimiter
    snapIng,                      \* the Ingress list this sync read
    applied,                      \* configuration nghttpx runs
    result,                       \* outcome of the last sync: none, ok, failed
    failures,                     \* failed CheckAndReload calls so far
    svcDrift,                     \* a Service changed Desired since the last good sync
    stopped,                      \* lbc.shutdown / stopCh closed
    mpc                           \* Run/main: run, return, exited

store == <<ing, svc, ep, pod, sec, cm, changes>>
worker == <<queue, dirty, processing, shuttingDown, wpc, tokens, snapIng,
            applied, result, failures, svcDrift>>
vars == <<store, worker, stopped, mpc>>

-----------------------------------------------------------------------------
(* What a sync reads: getUpstreamServers over the Ingress list iv and the  *)
(* Service, Endpoints, Pod, Secret and ConfigMap stores sv, e, pd, sc, c.  *)

\* Ingress i of the list iv passes validateIngressClass (lines 717-720).
LiveIng(iv, i) == iv[i].present /\ iv[i].valid

LiveIngs(iv) == {i \in Ingresses : LiveIng(iv, i)}

\* getTLSCredFromIngress succeeds: a missing Secret disables the Ingress.
Routed(iv, sc) == {i \in LiveIngs(iv) : iv[i].tls = NoSecret \/ sc[iv[i].tls] # 0}

\* Services whose port and endpoints the pass looks up: every routed
\* path's Service, and the default backend.
BackendSvcs(iv, sc) == {DefaultSvc} \cup {iv[i].svc : i \in Routed(iv, sc)}

\* Of those, the ones in the Service store; only for them are Endpoints
\* and, for a named target port, Pods read.
Resolvable(iv, sv, sc) == {s \in BackendSvcs(iv, sc) : sv[s] # 0}

\* The TLS Secrets the pass turns into key pairs: the default one and
\* those of in-class Ingresses.
TLSSecrets(iv) ==
    ({DefaultTLSSecret} \cup {iv[i].tls : i \in LiveIngs(iv)}) \ {NoSecret}

\* getTLSCredFromSecret / createTLSCredFromSecret: the content of each
\* Secret read.
SecretsRead(iv, sc) == [t \in Secrets |-> IF t \in TLSSecrets(iv) THEN sc[t] ELSE 0]

\* getEndpoints: the Endpoints of every Service found in the store.
EndpointsRead(iv, sv, e, sc) ==
    [s \in Services |-> IF s \in Resolvable(iv, sv, sc) THEN e[s] ELSE 0]

\* getNamedPortFromPod: the Pods behind those Services.
PodsRead(iv, sv, pd, sc) ==
    [p \in Pods |-> IF PodService[p] \in Resolvable(iv, sv, sc) THEN pd[p] ELSE 0]

\* getUpstreamServers and getConfigMap: everything the nghttpx
\* configuration is computed from.
ConfigOf(iv, sv, e, pd, sc, c) ==
    [ings |-> [i \in Ingresses |-> IF i \in Routed(iv, sc) THEN iv[i] ELSE Absent],
     secs |-> SecretsRead(iv, sc),
     svcs |-> [s \in Services |-> IF s \in BackendSvcs(iv, sc) THEN sv[s] ELSE 0],
     eps  |-> EndpointsRead(iv, sv, e, sc),
     pods |-> PodsRead(iv, sv, pd, sc),
     cm   |-> IF HasConfigMap THEN c ELSE 0]

\* The configuration the current mirror calls for.
Desired == ConfigOf(ing, svc, ep, pod, sec, cm)

\* getUpstreamServers returns an error: the default TLS Secret is missing.
DefaultTLSMissing == DefaultTLSSecret # NoSecret /\ sec[DefaultTLSSecret] = 0

-----------------------------------------------------------------------------
(* The relevance filters, evaluated against the Ingress and Service stores *)
(* as they are when the handler runs.                                      *)

\* endpointsReferenced
EndpointsReferenced(s) ==
    \/ s = DefaultSvc
    \/ \E i \in LiveIngs(ing) : ing[i].svc = s

\* secretReferenced
SecretReferenced(t) ==
    \/ t = DefaultTLSSecret
    \/ \E i \in LiveIngs(ing) : ing[i].tls = t

\* podReferenced: the Service must be in the Service store.
PodReferenced(p) ==
    \/ svc[DefaultSvc] # 0 /\ PodService[p] = DefaultSvc
    \/ \E i \in LiveIngs(ing) : svc[ing[i].svc] # 0 /\ PodService[p] = ing[i].svc

\* syncQueue.Add(syncKey): ignored after ShutDown or while already dirty;
\* queued unless the worker is processing it, in which case Done requeues.
Add ==
    IF shuttingDown \/ dirty
    THEN UNCHANGED <<queue, dirty>>
    ELSE /\ dirty' = TRUE
         /\ queue' = (queue \/ ~processing)

\* lbc.enqueue(syncKey) when the filter holds.
EnqueueIf(relevant) == IF relevant THEN Add ELSE UNCHANGED <<queue, dirty>>

-----------------------------------------------------------------------------
(* The observed-state mirror: one informer per kind updates its store and  *)
(* runs the handler.  Informers stop when stopCh is closed.                *)

\* An add (from absent), an update (the other content) or a delete.
NewStamps(old) == IF old = 0 THEN {1} ELSE {3 - old, 0}

MirrorStep ==
    /\ mpc = "run"
    /\ ~stopped
    /\ changes < MaxChanges
    /\ changes' = changes + 1

OtherWorker == <<processing, shuttingDown, wpc, tokens, snapIng, applied,
                 result, failures>>

\* Mutant: the update handler looks only at the new object's class.
IngressNotificationCurOnly(i) ==
    /\ MirrorStep
    /\ \/ /\ ~ing[i].present
          /\ \E r \in IngressSpecs :
                /\ ing' = [ing EXCEPT ![i] = r]
                /\ EnqueueIf(r.valid)
       \/ /\ ing[i].present
          /\ \E r \in IngressSpecs \ {ing[i]} :
                /\ ing' = [ing EXCEPT ![i] = r]
                /\ EnqueueIf(r.valid)
       \/ /\ ing[i].present
          /\ ing' = [ing EXCEPT ![i] = Absent]
          /\ EnqueueIf(ing[i].valid)
    /\ UNCHANGED <<svc, ep, pod, sec, cm, OtherWorker, svcDrift>>
    /\ UNCHANGED <<stopped, mpc>>

\* addIngressNotification, updateIngressNotification (old or new class
\* valid), deleteIngressNotification.
IngressNotification(i) ==
    /\ MirrorStep
    /\ \/ /\ ~ing[i].present
          /\ \E r \in IngressSpecs :
                /\ ing' = [ing EXCEPT ![i] = r]
                /\ EnqueueIf(r.valid)
       \/ /\ ing[i].present
          /\ \E r \in IngressSpecs \ {ing[i]} :
                /\ ing' = [ing EXCEPT ![i] = r]
                /\ EnqueueIf(ing[i].valid \/ r.valid)
       \/ /\ ing[i].present
          /\ ing' = [ing EXCEPT ![i] = Absent]
          /\ EnqueueIf(ing[i].valid)
    /\ UNCHANGED <<svc, ep, pod, sec, cm, OtherWorker, svcDrift>>
    /\ UNCHANGED <<stopped, mpc>>

\* add/update/deleteEndpointsNotification
EndpointsNotification(s) ==
    /\ MirrorStep
    /\ \E v \in NewStamps(ep[s]) : ep' = [ep EXCEPT ![s] = v]
    /\ EnqueueIf(EndpointsReferenced(s))
    /\ UNCHANGED <<ing, svc, pod, sec, cm, OtherWorker, svcDrift>>
    /\ UNCHANGED <<stopped, mpc>>

\* add/update/deleteSecretNotification
SecretNotification(t) ==
    /\ MirrorStep
    /\ \E v \in NewStamps(sec[t]) : sec' = [sec EXCEPT ![t] = v]
    /\ EnqueueIf(SecretReferenced(t))
    /\ UNCHANGED <<ing, svc, ep, pod, cm, OtherWorker, svcDrift>>
    /\ UNCHANGED <<stopped, mpc>>

\* add/update/deletePodNotification
PodNotification(p) ==
    /\ MirrorStep
    /\ \E v \in NewStamps(pod[p]) : pod' = [pod EXCEPT ![p] = v]
    /\ EnqueueIf(PodReferenced(p))
    /\ UNCHANGED <<ing, svc, ep, sec, cm, OtherWorker, svcDrift>>
    /\ UNCHANGED <<stopped, mpc>>

\* add/update/deleteConfigMapNotification for the watched ConfigMap.
ConfigMapNotification ==
    /\ MirrorStep
    /\ \E v \in NewStamps(cm) : cm' = v
    /\ EnqueueIf(HasConfigMap)
    /\ UNCHANGED <<ing, svc, ep, pod, sec, OtherWorker, svcDrift>>
    /\ UNCHANGED <<stopped, mpc>>

\* The Service informer is created with no handlers: nothing is enqueued.
ServiceChange(s) ==
    /\ MirrorStep
    /\ \E v \in NewStamps(svc[s]) : svc' = [svc EXCEPT ![s] = v]
    /\ svcDrift' = (svcDrift \/ ConfigOf(ing, svc', ep, pod, sec, cm) # Desired)
    /\ UNCHANGED <<ing, ep, pod, sec, cm, queue, dirty, OtherWorker>>
    /\ UNCHANGED <<stopped, mpc>>

\* The Ingress informer's periodic resync calls updateIngressNotification
\* with old = cur for every stored Ingress: it enqueues iff one is valid.
IngressResync ==
    /\ mpc = "run"
    /\ ~stopped
    /\ LiveIngs(ing) # {}
    /\ Add
    /\ UNCHANGED <<store, OtherWorker, svcDrift, stopped, mpc>>

-----------------------------------------------------------------------------
(* The worker: wait.Until(lbc.worker) with one goroutine.                   *)

\* Mutant: Get leaves the key marked dirty.
WorkerGetKeepsDirty ==
    /\ mpc # "exited"
    /\ wpc = "get"
    /\ queue
    /\ queue' = FALSE
    /\ processing' = TRUE
    /\ wpc' = "accept"
    /\ UNCHANGED <<store, dirty, shuttingDown, tokens, snapIng, applied, result,
                   failures, svcDrift, stopped, mpc>>

\* syncQueue.Get() hands out the key and marks it processing.
WorkerGet ==
    /\ mpc # "exited"
    /\ wpc = "get"
    /\ queue
    /\ queue' = FALSE
    /\ dirty' = FALSE
    /\ processing' = TRUE
    /\ wpc' = "accept"
    /\ UNCHANGED <<store, shuttingDown, tokens, snapIng, applied, result,
                   failures, svcDrift, stopped, mpc>>

\* sync: reloadRateLimiter.Accept() blocks for a token, then
\* ingLister.List reads the Ingress store.
SyncAccept ==
    /\ mpc # "exited"
    /\ wpc = "accept"
    /\ tokens > 0
    /\ tokens' = tokens - 1
    /\ snapIng' = ing
    /\ wpc' = "resolve"
    /\ UNCHANGED <<store, queue, dirty, processing, shuttingDown, applied,
                   result, failures, svcDrift, stopped, mpc>>

\* Mutant: the bucket refills past its burst.
RefillUnbounded ==
    /\ mpc # "exited"
    /\ tokens' = tokens + 1
    /\ UNCHANGED <<store, queue, dirty, processing, shuttingDown, wpc, snapIng,
                   applied, result, failures, svcDrift, stopped, mpc>>

\* The token bucket refills as time passes.
Refill ==
    /\ mpc # "exited"
    /\ tokens < ReloadBurst
    /\ tokens' = tokens + 1
    /\ UNCHANGED <<store, queue, dirty, processing, shuttingDown, wpc, snapIng,
                   applied, result, failures, svcDrift, stopped, mpc>>

\* Mutant: Done drops a key that was added while it was processing.
SyncFinishForgetsDirty ==
    /\ mpc # "exited"
    /\ wpc = "resolve"
    /\ \/ /\ DefaultTLSMissing
          /\ result' = "failed"
          /\ UNCHANGED <<applied, failures, svcDrift>>
       \/ /\ ~DefaultTLSMissing
          /\ failures < MaxFailures
          /\ failures' = failures + 1
          /\ result' = "failed"
          /\ UNCHANGED <<applied, svcDrift>>
       \/ /\ ~DefaultTLSMissing
          /\ applied' = ConfigOf(snapIng, svc, ep, pod, sec, cm)
          /\ result' = "ok"
          /\ svcDrift' = FALSE
          /\ UNCHANGED failures
    /\ processing' = FALSE
    /\ queue' = queue
    /\ wpc' = "get"
    /\ snapIng' = NoIngresses
    /\ UNCHANGED <<store, dirty, shuttingDown, tokens, stopped, mpc>>

\* The rest of sync: getUpstreamServers, getConfigMap, ReadConfig,
\* CheckAndReload; retryOrForget(key, retry) with retry never set; then
\* syncQueue.Done requeues the key if it was added while processing.
SyncFinish ==
    /\ mpc # "exited"
    /\ wpc = "resolve"
    /\ \/ /\ DefaultTLSMissing
          /\ result' = "failed"
          /\ UNCHANGED <<applied, failures, svcDrift>>
       \/ /\ ~DefaultTLSMissing
          /\ failures < MaxFailures
          /\ failures' = failures + 1
          /\ result' = "failed"
          /\ UNCHANGED <<applied, svcDrift>>
       \/ /\ ~DefaultTLSMissing
          /\ applied' = ConfigOf(snapIng, svc, ep, pod, sec, cm)
          /\ result' = "ok"
          /\ svcDrift' = FALSE
          /\ UNCHANGED failures
    /\ processing' = FALSE
    /\ queue' = (queue \/ dirty)
    /\ wpc' = "get"
    /\ snapIng' = NoIngresses
    /\ UNCHANGED <<store, dirty, shuttingDown, tokens, stopped, mpc>>

-----------------------------------------------------------------------------
(* Stop, Run and main.                                                     *)

\* Stop from the /stop endpoint or SIGTERM; a second call returns at once.
Stop ==
    /\ mpc = "run"
    /\ ~stopped
    /\ stopped' = TRUE
    /\ UNCHANGED <<store, worker, mpc>>

\* Run wakes on stopCh and calls syncQueue.ShutDown(), then returns.
RunShutDown ==
    /\ mpc = "run"
    /\ stopped
    /\ shuttingDown' = TRUE
    /\ mpc' = "return"
    /\ UNCHANGED <<store, queue, dirty, processing, wpc, tokens, snapIng,
                   applied, result, failures, svcDrift, stopped>>

\* lbc.Run() is the last statement of main: the process exits.
ProcessExit ==
    /\ mpc = "return"
    /\ mpc' = "exited"
    /\ UNCHANGED <<store, worker, stopped>>

\* The process has exited: nothing happens any more.
Terminated ==
    /\ mpc = "exited"
    /\ UNCHANGED vars

-----------------------------------------------------------------------------

\* Objects in the stores when the caches have synced.  Their add
\* notifications ran while the Ingress store was filling, so a filtered
\* one may or may not have enqueued; a valid Ingress always does.
Init ==
    /\ ing \in [Ingresses -> {Absent} \cup IngressSpecs]
    /\ svc \in [Services -> {0, 1}]
    /\ ep \in [Services -> {0, 1}]
    /\ pod \in [Pods -> {0, 1}]
    /\ sec \in [Secrets -> {0, 1}]
    /\ cm \in IF HasConfigMap THEN {0, 1} ELSE {0}
    /\ changes = 0
    /\ queue \in IF LiveIngs(ing) # {} THEN {TRUE} ELSE BOOLEAN
    /\ dirty = queue
    /\ processing = FALSE
    /\ shuttingDown = FALSE
    /\ wpc = "get"
    /\ tokens = ReloadBurst
    /\ snapIng = NoIngresses
    /\ applied = NoConfig
    /\ result = "none"
    /\ failures = 0
    /\ svcDrift = FALSE
    /\ stopped = FALSE
    /\ mpc = "run"

Mirror ==
    \/ \E i \in Ingresses : IngressNotification(i)
    \/ \E s \in Services : EndpointsNotification(s)
    \/ \E t \in Secrets : SecretNotification(t)
    \/ \E p \in Pods : PodNotification(p)
    \/ ConfigMapNotification
    \/ \E s \in Services : ServiceChange(s)
    \/ IngressResync

Worker == WorkerGet \/ SyncAccept \/ Refill \/ SyncFinish

Lifecycle == Stop \/ RunShutDown \/ ProcessExit \/ Terminated

Next == Mirror \/ Worker \/ Lifecycle

\* The worker, the token bucket's clock, the resync timer and Run's
\* goroutine are scheduled by the Go runtime: each keeps
\* running while it can.  Changes to the cluster and Stop are not forced.
Fairness ==
    /\ WF_vars(WorkerGet) /\ WF_vars(SyncAccept) /\ WF_vars(SyncFinish)
    /\ WF_vars(Refill) /\ WF_vars(IngressResync)
    /\ WF_vars(RunShutDown) /\ WF_vars(ProcessExit)

Spec == Init /\ [][Next]_vars /\ Fairness

-----------------------------------------------------------------------------

TypeOK ==
    /\ ing \in [Ingresses -> IngressRec]
    /\ svc \in [Services -> Version]
    /\ ep \in [Services -> Version]
    /\ pod \in [Pods -> Version]
    /\ sec \in [Secrets -> Version]
    /\ cm \in Version
    /\ changes \in 0 .. MaxChanges
    /\ queue \in BOOLEAN
    /\ dirty \in BOOLEAN
    /\ processing \in BOOLEAN
    /\ shuttingDown \in BOOLEAN
    /\ wpc \in {"get", "accept", "resolve"}
    /\ tokens \in 0 .. ReloadBurst
    /\ snapIng \in [Ingresses -> IngressRec]
    /\ applied \in ConfigType \cup {NoConfig}
    /\ result \in {"none", "ok", "failed"}
    /\ failures \in 0 .. MaxFailures
    /\ svcDrift \in BOOLEAN
    /\ stopped \in BOOLEAN
    /\ mpc \in {"run", "return", "exited"}

\* Reference Index soundness (the handlers of lines 289-584 against what
\* getUpstreamServers reads): every change an informer delivers that alters
\* the configuration the mirror calls for leaves the sync key dirty, so a
\* sync is scheduled.  Service changes are exempt: that informer has no
\* handlers (ServiceChange).
ChangeNoticed ==
    [][ (/\ changes' # changes /\ UNCHANGED svc
         /\ ConfigOf(ing', svc', ep', pod', sec', cm') # Desired)
          => dirty' ]_vars

\* End to end (handlers, syncQueue Add/Get/Done, the two-phase read of
\* sync): when the worker is idle with nothing queued and the last sync
\* succeeded, nghttpx runs the configuration the current mirror calls for,
\* unless a Service changed since (no handler) or the queue was shut down.
QuiescentConfigCurrent ==
    (/\ wpc = "get" /\ ~queue /\ result = "ok"
     /\ ~svcDrift /\ ~shuttingDown)
        => applied = Desired

\* The non-atomic read of sync (Ingress list at line 639, the other stores
\* inside getUpstreamServers): while a sync is between the two reads and
\* the key has not been added again, no in-class Ingress has changed since
\* the list was read, so the pass computes what the current mirror calls
\* for.  A change a handler ignores must not be one the pass would see.
SnapshotCurrentUnlessDirty ==
    (wpc = "resolve" /\ ~dirty) =>
        \A i \in Ingresses :
            (LiveIng(snapIng, i) \/ LiveIng(ing, i)) => snapIng[i] = ing[i]

\* The syncQueue flags agree with the worker (client-go workqueue Add, Get,
\* Done): a queued key is dirty, a dirty key that is not being processed
\* is queued, the key is processing exactly while sync runs, and the queue
\* is shut down only after stopCh closed.
QueueConsistent ==
    /\ queue => dirty
    /\ (dirty /\ ~processing) => queue
    /\ processing <=> wpc \in {"accept", "resolve"}
    /\ shuttingDown => stopped

\* syncQueue never loses a wakeup: once the key is added, a sync that
\* started after the add (Get clears dirty) eventually reads the mirror,
\* unless the controller is stopped first.
EnqueueServed ==
    dirty ~> ((wpc = "accept" /\ ~dirty) \/ stopped)

-----------------------------------------------------------------------------
(* The queue and worker implement the abstract coalescing recompute: the  *)
(* target is the configuration the mirror calls for, a request is the     *)
(* dirty mark, a running recompute is the processing mark.                *)

Recompute == INSTANCE CoalescingRecompute WITH
    Configs <- ConfigType, NoCfg <- NoConfig,
    target <- Desired, pending <- dirty, busy <- processing,
    closed <- shuttingDown, live <- (mpc # "exited"),
    applied <- applied, result <- result, drift <- svcDrift

\* The queue (Add, Get, Done of client-go's workqueue), the worker and
\* sync's two reads behave as the coalescing recompute: every change that
\* alters the configuration leaves a request, requests coalesce, one sync
\* runs at a time, a sync that ends with no request pending applies the
\* current configuration, and a pending request is taken and finished
\* while the process lives.
ImplementsCoalescingRecompute == Recompute!Spec

\* The spec (7): a per-object resolution error such as a missing Secret is
\* isolated to what depends on it and never aborts the pass, so a sync
\* whose sink did not fail applies a configuration.  getUpstreamServers
\* returns an error when the --default-tls-secret Secret is missing.
ResolutionNeverAborts ==
    [][ (wpc = "resolve" /\ wpc' = "get" /\ failures' = failures)
          => result' = "ok" ]_vars

\* The spec (4.2, 7d): a failed sync re-enqueues the key, so another sync
\* runs.  retryOrForget is called with retry = FALSE on every path.
FailedSyncRetried ==
    (result = "failed") ~> (wpc = "accept" \/ stopped)

\* The spec (section 2, and the filter rule of section 4: "periodic full
\* resync corrects any miss"): a Service change that alters the
\* configuration eventually reaches nghttpx.  The Service informer has no
\* handlers (line 202), and the resync only enqueues through an in-class
\* Ingress (lines 151-168), so a change of the default backend Service with
\* no Ingress in class is never applied.
ServiceChangeApplied ==
    svcDrift ~> (~svcDrift \/ stopped)

=============================================================================
