--------------------- MODULE RecomputeRefinementProofs ---------------------
(***************************************************************************)
(* The queue, worker and handlers of LoadBalancerController implement the *)
(* safety part of the abstract coalescing recompute (CoalescingRecompute) *)
(* under the mapping Recompute, for every value of the constants.  The     *)
(* fairness part is checked by TLC (run implements_coalescing_recompute). *)
(***************************************************************************)
EXTENDS LoadBalancerControllerProofs

USE ConstantsAssumption

\* Run has returned exactly when the queue has been shut down.
RInv == IInv /\ (mpc # "run" <=> shuttingDown)

LEMMA RInvInit == Init => RInv
BY IInvInit DEF Init, RInv

LEMMA RInvStep == RInv /\ [Next]_vars => RInv'
<1> SUFFICES ASSUME RInv, [Next]_vars PROVE RInv'
  OBVIOUS
<1>1. IInv'
  BY IInvStep DEF RInv
<1>2. CASE Mirror
  <2>1. UNCHANGED <<mpc, shuttingDown>>
    BY <1>2 DEF Mirror, IngressNotification, EndpointsNotification,
                SecretNotification, PodNotification, ConfigMapNotification,
                ServiceChange, IngressResync, OtherWorker
  <2> QED
    BY <1>1, <2>1 DEF RInv
<1>3. CASE Worker
  <2>1. UNCHANGED <<mpc, shuttingDown>>
    BY <1>3 DEF Worker, WorkerGet, SyncAccept, Refill, SyncFinish
  <2> QED
    BY <1>1, <2>1 DEF RInv
<1>4. CASE Lifecycle
  BY <1>1, <1>4 DEF Lifecycle, Stop, RunShutDown, ProcessExit, Terminated,
                    RInv, vars, worker
<1>5. CASE UNCHANGED vars
  BY <1>1, <1>5 DEF vars, worker, RInv
<1> QED
  BY <1>2, <1>3, <1>4, <1>5 DEF Next

-----------------------------------------------------------------------------
(* One step of the controller is one step of the abstract recompute.       *)

\* A handled notification is a Notify: it may leave a request, and must
\* when it changes the configuration (NoticedStep).
LEMMA NotifyStep ==
    ASSUME RInv, TypeOK', [NoticedStep]_vars, MirrorStep,
           Add \/ UNCHANGED <<queue, dirty>>,
           UNCHANGED <<svc, processing, shuttingDown, applied, result,
                       svcDrift, mpc>>
    PROVE  Recompute!Notify
<1> USE DEF RInv, IInv
<1>1. mpc = "run" /\ ~shuttingDown /\ changes' # changes
  BY DEF MirrorStep, QueueConsistent
<1>2. NoticedStep
  BY <1>1 DEF vars, store
<1>3. Desired' \in ConfigType
  BY ConfigOfType DEF Desired, TypeOK
<1>4. dirty' \in {dirty, TRUE}
  BY DEF Add
<1>5. Desired' # Desired => dirty'
  BY <1>1, <1>2 DEF NoticedStep, Desired
<1> QED
  BY <1>1, <1>3, <1>4, <1>5 DEF Recompute!Notify

\* A Service change is a Drift: no request, the change remembered.
LEMMA DriftStep ==
    ASSUME RInv, TypeOK', NEW s \in Services, ServiceChange(s)
    PROVE  Recompute!Drift
<1> USE DEF RInv, IInv
<1>1. mpc = "run" /\ ~shuttingDown
  BY DEF ServiceChange, MirrorStep, QueueConsistent
<1>2. Desired' \in ConfigType
  BY ConfigOfType DEF Desired, TypeOK
<1>3. Desired' = ConfigOf(ing, svc', ep, pod, sec, cm)
  BY DEF ServiceChange, Desired
<1>4. svcDrift' = (svcDrift \/ Desired' # Desired)
  BY <1>3 DEF ServiceChange
<1> QED
  BY <1>1, <1>2, <1>4 DEF ServiceChange, OtherWorker, Recompute!Drift

\* The Ingress resync is a Notify that changes nothing but the request.
LEMMA ResyncStep ==
    ASSUME RInv, IngressResync
    PROVE  Recompute!Notify
<1> USE DEF RInv, IInv
<1>1. ~shuttingDown /\ mpc = "run"
  BY DEF IngressResync, QueueConsistent
<1>2. Desired' = Desired /\ Desired \in ConfigType
  BY ConfigOfType DEF IngressResync, store, Desired, TypeOK
<1>3. dirty' \in {dirty, TRUE}
  BY DEF IngressResync, Add
<1> QED
  BY <1>1, <1>2, <1>3 DEF IngressResync, OtherWorker, Recompute!Notify

\* Get is Start: a queued key is dirty and not processing.
LEMMA GetStep ==
    ASSUME RInv, WorkerGet
    PROVE  Recompute!Start
BY DEF RInv, IInv, QueueConsistent, WorkerGet, store, Desired, Recompute!Start

\* The rest of sync and Done is Finish: a failed pass applies nothing, a
\* successful one whose key was not added again applies the current
\* configuration.
LEMMA FinishStep ==
    ASSUME RInv, SyncFinish
    PROVE  Recompute!Finish
<1> USE DEF RInv, IInv
<1>1. processing /\ mpc # "exited" /\ ~processing' /\ wpc = "resolve"
  BY DEF SyncFinish, QueueConsistent
<1>2. Desired' = Desired /\ UNCHANGED <<dirty, shuttingDown, mpc>>
  BY DEF SyncFinish, store, Desired
<1>3. ConfigOf(snapIng, svc, ep, pod, sec, cm) \in ConfigType
  BY ConfigOfType DEF TypeOK
<1>4. ~dirty => ConfigOf(snapIng, svc, ep, pod, sec, cm) = Desired
  <2> SUFFICES ASSUME ~dirty
               PROVE  ConfigOf(snapIng, svc, ep, pod, sec, cm) = Desired
    OBVIOUS
  <2>1. \A i \in Ingresses : (LiveIng(snapIng, i) \/ LiveIng(ing, i))
                               => snapIng[i] = ing[i]
    BY <1>1 DEF SnapshotCurrentUnlessDirty
  <2> QED
    BY <2>1, ConfigOfLive DEF Desired, TypeOK
<1>5. CASE result' = "failed" /\ UNCHANGED <<applied, svcDrift>>
  BY <1>1, <1>2, <1>5 DEF SyncFinish, Recompute!Finish
<1>6. CASE /\ applied' = ConfigOf(snapIng, svc, ep, pod, sec, cm)
           /\ result' = "ok" /\ svcDrift' = FALSE
  BY <1>1, <1>2, <1>3, <1>4, <1>6 DEF Recompute!Finish
<1> QED
  BY <1>5, <1>6 DEF SyncFinish

\* Steps that change none of the mapped state.
LEMMA StutterSteps ==
    ASSUME SyncAccept \/ Refill \/ Stop \/ Terminated
    PROVE  UNCHANGED Recompute!avars
BY DEF SyncAccept, Refill, Stop, Terminated, vars, store, worker, Desired,
       Recompute!avars

\* Every step of the controller is a step of the abstract recompute or
\* leaves the mapped state alone.
LEMMA RefineStep ==
    ASSUME RInv, RInv', [Next]_vars, [NoticedStep]_vars
    PROVE  [Recompute!Next]_Recompute!avars
<1>0. TypeOK'
  BY DEF RInv, IInv
<1>1. ASSUME NEW i \in Ingresses, IngressNotification(i)
      PROVE  Recompute!Notify
  <2>1. Add \/ UNCHANGED <<queue, dirty>>
    BY <1>1 DEF IngressNotification, EnqueueIf
  <2> QED
    BY <1>0, <1>1, <2>1, NotifyStep DEF IngressNotification, OtherWorker
<1>2. ASSUME NEW s \in Services, EndpointsNotification(s)
      PROVE  Recompute!Notify
  BY <1>0, <1>2, NotifyStep DEF EndpointsNotification, OtherWorker, EnqueueIf
<1>3. ASSUME NEW t \in Secrets, SecretNotification(t)
      PROVE  Recompute!Notify
  BY <1>0, <1>3, NotifyStep DEF SecretNotification, OtherWorker, EnqueueIf
<1>4. ASSUME NEW p \in Pods, PodNotification(p)
      PROVE  Recompute!Notify
  BY <1>0, <1>4, NotifyStep DEF PodNotification, OtherWorker, EnqueueIf
<1>5. CASE ConfigMapNotification
  BY <1>0, <1>5, NotifyStep DEF ConfigMapNotification, OtherWorker, EnqueueIf,
                                Recompute!Next
<1>6. CASE \E s \in Services : ServiceChange(s)
  BY <1>0, <1>6, DriftStep DEF Recompute!Next
<1>7. CASE IngressResync
  BY <1>7, ResyncStep DEF Recompute!Next
<1>8. CASE WorkerGet
  BY <1>8, GetStep DEF Recompute!Next
<1>9. CASE SyncFinish
  BY <1>9, FinishStep DEF Recompute!Next
<1>10. CASE RunShutDown
  BY <1>10 DEF RunShutDown, store, Desired, Recompute!Close, RInv,
              Recompute!Next
<1>11. CASE ProcessExit
  BY <1>11 DEF ProcessExit, store, worker, Desired, Recompute!Exit, RInv,
              Recompute!Next
<1>12. CASE SyncAccept \/ Refill \/ Stop \/ Terminated
  BY <1>12, StutterSteps
<1>13. CASE UNCHANGED vars
  BY <1>13 DEF vars, store, worker, Desired, Recompute!avars
<1> QED
  BY <1>1, <1>2, <1>3, <1>4, <1>5, <1>6, <1>7, <1>8, <1>9, <1>10, <1>11,
     <1>12, <1>13 DEF Next, Mirror, Worker, Lifecycle, Recompute!Next

\* The queue and worker of lines 624-700 (syncQueue Add, Get, Done, sync's
\* two reads, Run's ShutDown) implement the safety part of the coalescing
\* recompute: from the synced caches on, every step of the controller is
\* a Notify, Drift, Start, Finish, Close or Exit of it, or leaves the
\* configuration, the queue flags and the result alone.
THEOREM RecomputeRefined ==
    Spec => Recompute!Init /\ [][Recompute!Next]_Recompute!avars
<1>1. Init => Recompute!Init
  <2> SUFFICES ASSUME Init PROVE Recompute!Init
    OBVIOUS
  <2>1. TypeOK
    BY TypeInit
  <2>2. Desired \in ConfigType
    BY <2>1, ConfigOfType DEF TypeOK, Desired
  <2> QED
    BY <2>2 DEF Init, Recompute!Init
<1>2. Spec => []RInv
  BY RInvInit, RInvStep, PTL DEF Spec
<1>3. Spec => [][NoticedStep]_vars
  BY <1>2, NoticedStepHolds, PTL DEF Spec, RInv
<1>4. RInv /\ RInv' /\ [Next]_vars /\ [NoticedStep]_vars
        => [Recompute!Next]_Recompute!avars
  BY RefineStep
<1> QED
  BY <1>1, <1>2, <1>3, <1>4, PTL DEF Spec

\* The abstract promise carried to the controller: when no sync runs or is
\* pending after a success, no Service changed unnoticed and the queue is
\* up, nghttpx runs the configuration the mirror calls for.
THEOREM RecomputeIdleCurrent == Spec => []Recompute!IdleCurrent
BY RecomputeRefined, Recompute!IdleCurrentHolds, PTL DEF Recompute!SafetySpec

=============================================================================
