-------------------- MODULE LoadBalancerControllerProofs --------------------
(***************************************************************************)
(* Proofs about LoadBalancerController for every value of the constants.   *)
(***************************************************************************)
EXTENDS LoadBalancerController, TLAPS

USE ConstantsAssumption

\* A store update picks a well-typed stamp.
LEMMA NewStampsType ==
    ASSUME NEW old \in Version
    PROVE  NewStamps(old) \subseteq Version
BY DEF NewStamps, Version

\* Every Ingress an add or update can store is well typed.
LEMMA IngressSpecsType ==
    ASSUME NEW r \in IngressSpecs
    PROVE  r \in IngressRec
<1>1. r.rev \in Version
  BY DEF IngressSpecs, Version
<1> QED
  BY <1>1 DEF IngressSpecs, IngressRec

\* The record of an Ingress missing from the store is well typed.
LEMMA AbsentType == Absent \in IngressRec
BY DEF Absent, IngressRec, Version

\* An Ingress list of stored or absent Ingresses is well typed.
LEMMA IngressListType ==
    ASSUME NEW f \in [Ingresses -> {Absent} \cup IngressSpecs]
    PROVE  f \in [Ingresses -> IngressRec]
BY IngressSpecsType, AbsentType

\* The Ingress list outside a sync is well typed.
LEMMA NoIngressesType == NoIngresses \in [Ingresses -> IngressRec]
BY AbsentType DEF NoIngresses

\* The configuration a sync computes from well-typed stores is well typed.
LEMMA ConfigOfType ==
    ASSUME NEW iv \in [Ingresses -> IngressRec],
           NEW sv \in [Services -> Version], NEW e \in [Services -> Version],
           NEW pd \in [Pods -> Version], NEW sc \in [Secrets -> Version],
           NEW c \in Version
    PROVE  ConfigOf(iv, sv, e, pd, sc, c) \in ConfigType
<1>1. 0 \in Version
  BY DEF Version
<1> QED
  BY AbsentType, <1>1 DEF ConfigOf, ConfigType, SecretsRead, EndpointsRead, PodsRead

\* Add and EnqueueIf keep the queue flags Boolean.
LEMMA AddType ==
    ASSUME queue \in BOOLEAN, dirty \in BOOLEAN, processing \in BOOLEAN,
           shuttingDown \in BOOLEAN,
           NEW relevant, EnqueueIf(relevant)
    PROVE  queue' \in BOOLEAN /\ dirty' \in BOOLEAN
BY DEF EnqueueIf, Add

-----------------------------------------------------------------------------

\* The initial states of the controller are well typed.
LEMMA TypeInit == Init => TypeOK
<1>1. Init => TypeOK
  <2> SUFFICES ASSUME Init PROVE TypeOK
    OBVIOUS
  <2>1. ing \in [Ingresses -> IngressRec]
    BY IngressListType DEF Init
  <2>2. applied \in ConfigType \cup {NoConfig}
    BY DEF Init
  <2>3. snapIng \in [Ingresses -> IngressRec]
    BY NoIngressesType DEF Init
  <2>4. /\ svc \in [Services -> Version] /\ ep \in [Services -> Version]
        /\ pod \in [Pods -> Version] /\ sec \in [Secrets -> Version]
        /\ cm \in Version
    BY DEF Init, Version
  <2>5. queue \in BOOLEAN /\ dirty \in BOOLEAN
    BY DEF Init
  <2>6. tokens \in 0 .. ReloadBurst /\ failures \in 0 .. MaxFailures
        /\ changes \in 0 .. MaxChanges
    BY DEF Init
  <2> QED
    BY <2>1, <2>2, <2>3, <2>4, <2>5, <2>6 DEF Init, TypeOK
<1> QED
  BY <1>1

\* Every step of the controller keeps it well typed.
LEMMA TypeStep == TypeOK /\ [Next]_vars => TypeOK'
<1>2. TypeOK /\ [Next]_vars => TypeOK'
  <2> SUFFICES ASSUME TypeOK, [Next]_vars PROVE TypeOK'
    OBVIOUS
  <2> USE DEF TypeOK
  <2>1. ASSUME NEW i \in Ingresses, IngressNotification(i) PROVE TypeOK'
    <3>1. ing' \in [Ingresses -> IngressRec]
      BY <2>1, IngressSpecsType, AbsentType DEF IngressNotification
    <3>2. queue' \in BOOLEAN /\ dirty' \in BOOLEAN
      BY <2>1, AddType DEF IngressNotification
    <3>3. changes' \in 0 .. MaxChanges
      BY <2>1 DEF IngressNotification, MirrorStep
    <3> QED
      BY <2>1, <3>1, <3>2, <3>3 DEF IngressNotification, OtherWorker
  <2>2. ASSUME NEW s \in Services, EndpointsNotification(s) PROVE TypeOK'
    BY <2>2, AddType, NewStampsType DEF EndpointsNotification, MirrorStep, OtherWorker
  <2>3. ASSUME NEW t \in Secrets, SecretNotification(t) PROVE TypeOK'
    BY <2>3, AddType, NewStampsType DEF SecretNotification, MirrorStep, OtherWorker
  <2>4. ASSUME NEW p \in Pods, PodNotification(p) PROVE TypeOK'
    BY <2>4, AddType, NewStampsType DEF PodNotification, MirrorStep, OtherWorker
  <2>5. CASE ConfigMapNotification
    BY <2>5, AddType, NewStampsType DEF ConfigMapNotification, MirrorStep, OtherWorker
  <2>6. ASSUME NEW s \in Services, ServiceChange(s) PROVE TypeOK'
    BY <2>6, NewStampsType DEF ServiceChange, MirrorStep, OtherWorker
  <2>7. CASE IngressResync
    BY <2>7 DEF IngressResync, Add, store, OtherWorker
  <2>8. CASE WorkerGet
    BY <2>8 DEF WorkerGet, store
  <2>9. CASE SyncAccept
    BY <2>9 DEF SyncAccept, store
  <2>10. CASE Refill
    BY <2>10 DEF Refill, store
  <2>11. CASE SyncFinish
    <3>1. /\ applied' \in ConfigType \cup {NoConfig}
          /\ result' \in {"none", "ok", "failed"}
          /\ failures' \in 0 .. MaxFailures
          /\ svcDrift' \in BOOLEAN
      <4>1. CASE DefaultTLSMissing /\ result' = "failed"
                 /\ UNCHANGED <<applied, failures, svcDrift>>
        BY <4>1
      <4>2. CASE /\ failures < MaxFailures /\ failures' = failures + 1
                 /\ result' = "failed" /\ UNCHANGED <<applied, svcDrift>>
        BY <4>2
      <4>3. CASE /\ applied' = ConfigOf(snapIng, svc, ep, pod, sec, cm)
                 /\ result' = "ok" /\ svcDrift' = FALSE /\ UNCHANGED failures
        BY <4>3, ConfigOfType
      <4> QED
        BY <2>11, <4>1, <4>2, <4>3 DEF SyncFinish
    <3>2. snapIng' \in [Ingresses -> IngressRec]
      BY <2>11, NoIngressesType DEF SyncFinish
    <3>3. /\ processing' \in BOOLEAN /\ queue' \in BOOLEAN
          /\ wpc' \in {"get", "accept", "resolve"}
      BY <2>11 DEF SyncFinish
    <3>4. /\ ing' = ing /\ svc' = svc /\ ep' = ep /\ pod' = pod
          /\ sec' = sec /\ cm' = cm /\ changes' = changes
          /\ UNCHANGED <<dirty, shuttingDown, tokens, stopped, mpc>>
      BY <2>11 DEF SyncFinish, store
    <3> QED
      BY <3>1, <3>2, <3>3, <3>4
  <2>12. CASE Stop
    BY <2>12 DEF Stop, store, worker
  <2>14. CASE RunShutDown
    BY <2>14 DEF RunShutDown, store
  <2>15. CASE ProcessExit
    BY <2>15 DEF ProcessExit, store, worker
  <2>16. CASE Terminated
    BY <2>16 DEF Terminated, vars, store, worker
  <2>13. CASE UNCHANGED vars
    BY <2>13 DEF vars, store, worker
  <2> QED
    BY <2>1, <2>2, <2>3, <2>4, <2>5, <2>6, <2>7, <2>8, <2>9, <2>10, <2>11,
       <2>12, <2>13, <2>14, <2>15, <2>16 DEF Next, Mirror, Worker, Lifecycle
<1> QED
  BY <1>2

\* TypeOK holds in every reachable state: every store, queue flag, counter
\* and the configuration handed to nghttpx keep their types.
THEOREM TypeCorrect == Spec => []TypeOK
BY TypeInit, TypeStep, PTL DEF Spec

-----------------------------------------------------------------------------
(* What a sync computes depends only on the in-class Ingresses.            *)

\* Two Ingress lists that agree on every Ingress in class in either of
\* them yield the same configuration from the same other stores.
LEMMA ConfigOfLive ==
    ASSUME NEW iv \in [Ingresses -> IngressRec],
           NEW iv2 \in [Ingresses -> IngressRec],
           NEW sv, NEW e, NEW pd, NEW sc, NEW c,
           \A i \in Ingresses : (LiveIng(iv, i) \/ LiveIng(iv2, i)) => iv[i] = iv2[i]
    PROVE  ConfigOf(iv, sv, e, pd, sc, c) = ConfigOf(iv2, sv, e, pd, sc, c)
<1>1. LiveIngs(iv) = LiveIngs(iv2)
  BY DEF LiveIngs, LiveIng
<1>2. \A i \in LiveIngs(iv) : iv[i] = iv2[i]
  BY DEF LiveIngs
<1>3. Routed(iv, sc) = Routed(iv2, sc)
  BY <1>1, <1>2 DEF Routed
<1>4. BackendSvcs(iv, sc) = BackendSvcs(iv2, sc)
  <2>1. \A i \in Routed(iv, sc) : iv[i].svc = iv2[i].svc
    BY <1>2 DEF Routed
  <2> QED
    BY <1>3, <2>1 DEF BackendSvcs
<1>5. Resolvable(iv, sv, sc) = Resolvable(iv2, sv, sc)
  BY <1>4 DEF Resolvable
<1>6. TLSSecrets(iv) = TLSSecrets(iv2)
  BY <1>1, <1>2 DEF TLSSecrets
<1>7. [i \in Ingresses |-> IF i \in Routed(iv, sc) THEN iv[i] ELSE Absent]
      = [i \in Ingresses |-> IF i \in Routed(iv2, sc) THEN iv2[i] ELSE Absent]
  <2>1. Routed(iv, sc) \subseteq LiveIngs(iv)
    BY DEF Routed
  <2> QED
    BY <1>2, <1>3, <2>1
<1> QED
  BY <1>4, <1>5, <1>6, <1>7 DEF ConfigOf, SecretsRead, EndpointsRead, PodsRead

\* endpointsReferenced is sound: Endpoints it filters out are not read.
LEMMA EndpointsIrrelevant ==
    ASSUME TypeOK, NEW s \in Services, ~EndpointsReferenced(s), NEW v
    PROVE  ConfigOf(ing, svc, [ep EXCEPT ![s] = v], pod, sec, cm) = Desired
<1>1. s \notin BackendSvcs(ing, sec)
  BY DEF EndpointsReferenced, BackendSvcs, Routed, LiveIngs
<1>2. s \notin Resolvable(ing, svc, sec)
  BY <1>1 DEF Resolvable
<1>3. [x \in Services |-> IF x \in Resolvable(ing, svc, sec)
                         THEN [ep EXCEPT ![s] = v][x] ELSE 0]
      = [x \in Services |-> IF x \in Resolvable(ing, svc, sec) THEN ep[x] ELSE 0]
  BY <1>2
<1> QED
  BY <1>3 DEF ConfigOf, Desired, EndpointsRead

\* secretReferenced is sound: Secrets it filters out are not read.
LEMMA SecretIrrelevant ==
    ASSUME TypeOK, NEW t \in Secrets, ~SecretReferenced(t), NEW v
    PROVE  ConfigOf(ing, svc, ep, pod, [sec EXCEPT ![t] = v], cm) = Desired
<1> DEFINE sc2 == [sec EXCEPT ![t] = v]
<1>1. \A i \in LiveIngs(ing) : ing[i].tls # t
  BY DEF SecretReferenced
<1>2. \A i \in LiveIngs(ing) : ing[i].tls # NoSecret => sc2[ing[i].tls] = sec[ing[i].tls]
  BY <1>1 DEF LiveIngs, IngressRec
<1>3. Routed(ing, sc2) = Routed(ing, sec)
  BY <1>2 DEF Routed
<1>4. BackendSvcs(ing, sc2) = BackendSvcs(ing, sec)
  BY <1>3 DEF BackendSvcs
<1>5. Resolvable(ing, svc, sc2) = Resolvable(ing, svc, sec)
  BY <1>4 DEF Resolvable
<1>6. t \notin TLSSecrets(ing)
  BY <1>1 DEF SecretReferenced, TLSSecrets
<1>7. [x \in Secrets |-> IF x \in TLSSecrets(ing) THEN sc2[x] ELSE 0]
      = [x \in Secrets |-> IF x \in TLSSecrets(ing) THEN sec[x] ELSE 0]
  BY <1>6
<1> QED
  BY <1>3, <1>4, <1>5, <1>7 DEF ConfigOf, Desired, SecretsRead, EndpointsRead, PodsRead

\* podReferenced is sound: Pods it filters out are not read, given the
\* Service store as it is when the handler runs.
LEMMA PodIrrelevant ==
    ASSUME TypeOK, NEW p \in Pods, ~PodReferenced(p), NEW v
    PROVE  ConfigOf(ing, svc, ep, [pod EXCEPT ![p] = v], sec, cm) = Desired
<1>1. PodService[p] \notin Resolvable(ing, svc, sec)
  BY DEF PodReferenced, Resolvable, BackendSvcs, Routed, LiveIngs
<1>2. [x \in Pods |-> IF PodService[x] \in Resolvable(ing, svc, sec)
                     THEN [pod EXCEPT ![p] = v][x] ELSE 0]
      = [x \in Pods |-> IF PodService[x] \in Resolvable(ing, svc, sec)
                        THEN pod[x] ELSE 0]
  BY <1>1
<1> QED
  BY <1>2 DEF ConfigOf, Desired, PodsRead

\* Without --nghttpx-configmap no ConfigMap is read.
LEMMA ConfigMapIrrelevant ==
    ASSUME ~HasConfigMap, NEW v
    PROVE  ConfigOf(ing, svc, ep, pod, sec, v) = Desired
BY DEF ConfigOf, Desired

\* An Ingress change updateIngressNotification ignores (neither the old
\* nor the new object is in class) leaves every in-class Ingress as it was.
LEMMA IngressInvisible ==
    ASSUME TypeOK, NEW i \in Ingresses, NEW r, ~LiveIng(ing, i),
           ~(r.present /\ r.valid)
    PROVE  \A j \in Ingresses :
              (LiveIng(ing, j) \/ LiveIng([ing EXCEPT ![i] = r], j))
                 => [ing EXCEPT ![i] = r][j] = ing[j]
BY DEF LiveIng

-----------------------------------------------------------------------------
(* The inductive invariant behind QuiescentConfigCurrent.                 *)

IInv ==
    /\ TypeOK
    /\ QueueConsistent
    /\ SnapshotCurrentUnlessDirty
    /\ QuiescentConfigCurrent

\* One informer notification: the handler enqueues when its filter holds,
\* and a change it filters out alters neither the configuration nor any
\* in-class Ingress.  Such a step keeps the invariant.
LEMMA MirrorPreserves ==
    ASSUME IInv, NEW rel \in BOOLEAN, EnqueueIf(rel), ~stopped,
           ~rel => ConfigOf(ing', svc', ep', pod', sec', cm') = Desired,
           ~rel => \A i \in Ingresses :
                      (LiveIng(ing, i) \/ LiveIng(ing', i)) => ing'[i] = ing[i],
           UNCHANGED <<processing, shuttingDown, wpc, snapIng, applied, result,
                       svcDrift, stopped>>
    PROVE  QueueConsistent' /\ SnapshotCurrentUnlessDirty' /\ QuiescentConfigCurrent'
<1> USE DEF IInv, TypeOK
<1>1. ~shuttingDown
  BY DEF QueueConsistent
<1>2. wpc = "get" => ~processing
  BY DEF QueueConsistent
<1>3. CASE rel /\ ~dirty
  <2>1. dirty' /\ queue' = (queue \/ ~processing)
    BY <1>1, <1>3 DEF EnqueueIf, Add
  <2> QED
    BY <1>2, <2>1
       DEF QueueConsistent, SnapshotCurrentUnlessDirty, QuiescentConfigCurrent
<1>4. CASE rel /\ dirty
  <2>1. UNCHANGED <<queue, dirty>>
    BY <1>4 DEF EnqueueIf, Add
  <2> QED
    BY <1>2, <1>4, <2>1
       DEF QueueConsistent, SnapshotCurrentUnlessDirty, QuiescentConfigCurrent
<1>5. CASE ~rel
  <2>1. UNCHANGED <<queue, dirty>>
    BY <1>5 DEF EnqueueIf
  <2>2. QueueConsistent'
    BY <2>1 DEF QueueConsistent
  <2>3. SnapshotCurrentUnlessDirty'
    BY <1>5, <2>1 DEF SnapshotCurrentUnlessDirty, LiveIng
  <2>4. QuiescentConfigCurrent'
    BY <1>5, <2>1 DEF QuiescentConfigCurrent, Desired
  <2> QED
    BY <2>2, <2>3, <2>4
<1> QED
  BY <1>3, <1>4, <1>5

\* An Ingress change that is out of class before and after does not alter
\* the configuration.
LEMMA IngressIrrelevant ==
    ASSUME TypeOK, NEW i \in Ingresses, NEW r \in IngressRec, ~LiveIng(ing, i),
           ~(r.present /\ r.valid)
    PROVE  ConfigOf([ing EXCEPT ![i] = r], svc, ep, pod, sec, cm) = Desired
<1> DEFINE ing2 == [ing EXCEPT ![i] = r]
<1>1. ing2 \in [Ingresses -> IngressRec]
  BY DEF TypeOK
<1>2. \A j \in Ingresses : (LiveIng(ing2, j) \/ LiveIng(ing, j)) => ing2[j] = ing[j]
  BY IngressInvisible
<1>3. ing \in [Ingresses -> IngressRec]
  BY DEF TypeOK
<1>4. ConfigOf(ing2, svc, ep, pod, sec, cm) = ConfigOf(ing, svc, ep, pod, sec, cm)
  <2>1. \A iv \in [Ingresses -> IngressRec], iv2 \in [Ingresses -> IngressRec] :
           (\A j \in Ingresses : (LiveIng(iv, j) \/ LiveIng(iv2, j)) => iv[j] = iv2[j])
           => ConfigOf(iv, svc, ep, pod, sec, cm) = ConfigOf(iv2, svc, ep, pod, sec, cm)
    BY ConfigOfLive
  <2> QED
    BY <1>1, <1>2, <1>3, <2>1
<1> QED
  BY <1>4 DEF Desired

\* The invariant holds initially.
LEMMA IInvInit == Init => IInv
<1> SUFFICES ASSUME Init PROVE IInv
  OBVIOUS
<1>1. TypeOK
  BY TypeInit
<1> QED
  BY <1>1 DEF Init, IInv, QueueConsistent, SnapshotCurrentUnlessDirty,
             QuiescentConfigCurrent

\* Every notification handler keeps the invariant.
LEMMA IInvIngress ==
    ASSUME IInv, TypeOK', NEW i \in Ingresses, IngressNotification(i)
    PROVE  IInv'
<1> USE DEF IInv, TypeOK
<1>1. ~stopped /\ UNCHANGED <<svc, ep, pod, sec, cm, processing, shuttingDown,
                              wpc, snapIng, applied, result, svcDrift, stopped>>
  BY DEF IngressNotification, MirrorStep, OtherWorker
<1>2. ASSUME NEW r \in IngressRec, ing' = [ing EXCEPT ![i] = r],
             NEW rel \in BOOLEAN, EnqueueIf(rel),
             ~rel => (~LiveIng(ing, i) /\ ~(r.present /\ r.valid))
      PROVE  IInv'
  <2>1. ~rel => ConfigOf(ing', svc', ep', pod', sec', cm') = Desired
    BY <1>1, <1>2, IngressIrrelevant
  <2>2. ~rel => \A j \in Ingresses :
                  (LiveIng(ing, j) \/ LiveIng(ing', j)) => ing'[j] = ing[j]
    BY <1>2, IngressInvisible
  <2> QED
    BY <1>1, <1>2, <2>1, <2>2, MirrorPreserves
<1>3. CASE ~ing[i].present
  <2>1. PICK r \in IngressSpecs : ing' = [ing EXCEPT ![i] = r] /\ EnqueueIf(r.valid)
    BY <1>3 DEF IngressNotification
  <2> QED
    BY <1>3, <2>1, <1>2, IngressSpecsType DEF IngressSpecs, LiveIng
<1>4. CASE ing[i].present
  <2>1. CASE \E r \in IngressSpecs \ {ing[i]} :
               ing' = [ing EXCEPT ![i] = r] /\ EnqueueIf(ing[i].valid \/ r.valid)
    <3>1. PICK r \in IngressSpecs : ing' = [ing EXCEPT ![i] = r]
                                    /\ EnqueueIf(ing[i].valid \/ r.valid)
      BY <2>1
    <3> QED
      BY <3>1, <1>2, IngressSpecsType DEF IngressSpecs, LiveIng
  <2>2. CASE ing' = [ing EXCEPT ![i] = Absent] /\ EnqueueIf(ing[i].valid)
    <3>1. ing[i].valid \in BOOLEAN
      BY DEF IngressRec
    <3>2. ~ing[i].valid => (~LiveIng(ing, i) /\ ~(Absent.present /\ Absent.valid))
      BY DEF Absent, LiveIng
    <3> QED
      BY <2>2, <3>1, <3>2, <1>2, AbsentType
  <2> QED
    BY <1>4, <2>1, <2>2 DEF IngressNotification
<1> QED
  BY <1>3, <1>4

LEMMA IInvEndpoints ==
    ASSUME IInv, TypeOK', NEW s \in Services, EndpointsNotification(s)
    PROVE  IInv'
<1>1. PICK v \in NewStamps(ep[s]) : ep' = [ep EXCEPT ![s] = v]
  BY DEF EndpointsNotification
<1>2. ~EndpointsReferenced(s)
        => ConfigOf(ing', svc', ep', pod', sec', cm') = Desired
  BY <1>1, EndpointsIrrelevant DEF EndpointsNotification, IInv
<1>3. EndpointsReferenced(s) \in BOOLEAN
  BY DEF EndpointsReferenced
<1>4. ing' = ing
  BY DEF EndpointsNotification
<1>5. QueueConsistent' /\ SnapshotCurrentUnlessDirty' /\ QuiescentConfigCurrent'
  BY <1>2, <1>3, <1>4, MirrorPreserves DEF EndpointsNotification, MirrorStep, OtherWorker
<1> QED
  BY <1>5 DEF IInv

LEMMA IInvSecret ==
    ASSUME IInv, TypeOK', NEW t \in Secrets, SecretNotification(t)
    PROVE  IInv'
<1>1. PICK v \in NewStamps(sec[t]) : sec' = [sec EXCEPT ![t] = v]
  BY DEF SecretNotification
<1>2. ~SecretReferenced(t)
        => ConfigOf(ing', svc', ep', pod', sec', cm') = Desired
  BY <1>1, SecretIrrelevant DEF SecretNotification, IInv
<1>3. SecretReferenced(t) \in BOOLEAN
  BY DEF SecretReferenced
<1>4. ing' = ing
  BY DEF SecretNotification
<1>5. QueueConsistent' /\ SnapshotCurrentUnlessDirty' /\ QuiescentConfigCurrent'
  BY <1>2, <1>3, <1>4, MirrorPreserves DEF SecretNotification, MirrorStep, OtherWorker
<1> QED
  BY <1>5 DEF IInv

LEMMA IInvPod ==
    ASSUME IInv, TypeOK', NEW p \in Pods, PodNotification(p)
    PROVE  IInv'
<1>1. PICK v \in NewStamps(pod[p]) : pod' = [pod EXCEPT ![p] = v]
  BY DEF PodNotification
<1>2. ~PodReferenced(p)
        => ConfigOf(ing', svc', ep', pod', sec', cm') = Desired
  BY <1>1, PodIrrelevant DEF PodNotification, IInv
<1>3. PodReferenced(p) \in BOOLEAN
  BY DEF PodReferenced
<1>4. ing' = ing
  BY DEF PodNotification
<1>5. QueueConsistent' /\ SnapshotCurrentUnlessDirty' /\ QuiescentConfigCurrent'
  BY <1>2, <1>3, <1>4, MirrorPreserves DEF PodNotification, MirrorStep, OtherWorker
<1> QED
  BY <1>5 DEF IInv

LEMMA IInvConfigMap ==
    ASSUME IInv, TypeOK', ConfigMapNotification
    PROVE  IInv'
<1>1. ~HasConfigMap
        => ConfigOf(ing', svc', ep', pod', sec', cm') = Desired
  BY ConfigMapIrrelevant DEF ConfigMapNotification
<1>2. QueueConsistent' /\ SnapshotCurrentUnlessDirty' /\ QuiescentConfigCurrent'
  BY <1>1, MirrorPreserves DEF ConfigMapNotification, MirrorStep, OtherWorker
<1> QED
  BY <1>2 DEF IInv

\* A Service change enqueues nothing; it is recorded in svcDrift.
LEMMA IInvService ==
    ASSUME IInv, TypeOK', NEW s \in Services, ServiceChange(s)
    PROVE  IInv'
<1>1. UNCHANGED <<ing, ep, pod, sec, cm, queue, dirty, processing, shuttingDown,
                  wpc, snapIng, applied, result, stopped>>
  BY DEF ServiceChange, OtherWorker
<1>2. QueueConsistent' /\ SnapshotCurrentUnlessDirty'
  BY <1>1 DEF IInv, QueueConsistent, SnapshotCurrentUnlessDirty, LiveIng
<1>3. QuiescentConfigCurrent'
  <2>1. Desired' = ConfigOf(ing, svc', ep, pod, sec, cm)
    BY <1>1 DEF Desired
  <2>2. svcDrift' = (svcDrift \/ ConfigOf(ing, svc', ep, pod, sec, cm) # Desired)
    BY DEF ServiceChange
  <2>3. ~svcDrift' => (~svcDrift /\ Desired' = Desired)
    BY <2>1, <2>2
  <2> QED
    BY <1>1, <2>3 DEF IInv, QuiescentConfigCurrent
<1> QED
  BY <1>2, <1>3 DEF IInv

\* The Ingress resync adds the key unconditionally.
LEMMA IInvResync ==
    ASSUME IInv, TypeOK', IngressResync
    PROVE  IInv'
<1>1. EnqueueIf(TRUE)
  BY DEF IngressResync, EnqueueIf
<1>2. QueueConsistent' /\ SnapshotCurrentUnlessDirty' /\ QuiescentConfigCurrent'
  BY <1>1, MirrorPreserves DEF IngressResync, OtherWorker, store
<1> QED
  BY <1>2 DEF IInv

\* Get hands the key to the worker.
LEMMA IInvGet ==
    ASSUME IInv, TypeOK', WorkerGet
    PROVE  IInv'
BY DEF WorkerGet, IInv, QueueConsistent, SnapshotCurrentUnlessDirty,
       QuiescentConfigCurrent

\* Accept and the Ingress list read: the snapshot equals the store.
LEMMA IInvAccept ==
    ASSUME IInv, TypeOK', SyncAccept
    PROVE  IInv'
BY DEF SyncAccept, store, IInv, QueueConsistent, SnapshotCurrentUnlessDirty,
       QuiescentConfigCurrent

LEMMA IInvRefill ==
    ASSUME IInv, TypeOK', Refill
    PROVE  IInv'
BY DEF Refill, store, IInv, QueueConsistent, SnapshotCurrentUnlessDirty,
       QuiescentConfigCurrent, Desired

\* The rest of sync and Done: a successful pass whose key was not added
\* again applies what the current mirror calls for.
LEMMA IInvFinish ==
    ASSUME IInv, TypeOK', SyncFinish
    PROVE  IInv'
<1> USE DEF IInv, TypeOK
<1>1. /\ processing' = FALSE /\ queue' = (queue \/ dirty) /\ wpc' = "get"
      /\ UNCHANGED <<ing, svc, ep, pod, sec, cm, dirty, shuttingDown, stopped>>
  BY DEF SyncFinish, store
<1>2. QueueConsistent'
  BY <1>1 DEF QueueConsistent
<1>3. SnapshotCurrentUnlessDirty'
  BY <1>1 DEF SnapshotCurrentUnlessDirty
<1>4. QuiescentConfigCurrent'
  <2> SUFFICES ASSUME ~queue', result' = "ok", ~svcDrift', ~shuttingDown'
               PROVE  applied' = Desired'
    BY <1>1 DEF QuiescentConfigCurrent
  <2>1. applied' = ConfigOf(snapIng, svc, ep, pod, sec, cm)
    BY DEF SyncFinish
  <2>2. \A i \in Ingresses : (LiveIng(snapIng, i) \/ LiveIng(ing, i))
                               => snapIng[i] = ing[i]
    BY <1>1 DEF SyncFinish, SnapshotCurrentUnlessDirty
  <2>3. \A iv \in [Ingresses -> IngressRec], iv2 \in [Ingresses -> IngressRec] :
           (\A j \in Ingresses : (LiveIng(iv, j) \/ LiveIng(iv2, j)) => iv[j] = iv2[j])
           => ConfigOf(iv, svc, ep, pod, sec, cm) = ConfigOf(iv2, svc, ep, pod, sec, cm)
    BY ConfigOfLive
  <2>4. ConfigOf(snapIng, svc, ep, pod, sec, cm) = Desired
    BY <2>2, <2>3 DEF Desired
  <2> QED
    BY <1>1, <2>1, <2>4 DEF Desired
<1> QED
  BY <1>2, <1>3, <1>4

\* Stop, Run's ShutDown and the exit of the process.
LEMMA IInvLifecycle ==
    ASSUME IInv, TypeOK', Stop \/ RunShutDown \/ ProcessExit \/ Terminated
    PROVE  IInv'
<1>1. CASE Stop
  BY <1>1 DEF Stop, store, worker, IInv, QueueConsistent,
              SnapshotCurrentUnlessDirty, QuiescentConfigCurrent, Desired
<1>2. CASE RunShutDown
  BY <1>2 DEF RunShutDown, store, IInv, QueueConsistent,
              SnapshotCurrentUnlessDirty, QuiescentConfigCurrent
<1>3. CASE ProcessExit
  BY <1>3 DEF ProcessExit, store, worker, IInv, QueueConsistent,
              SnapshotCurrentUnlessDirty, QuiescentConfigCurrent, Desired
<1>4. CASE Terminated
  BY <1>4 DEF Terminated, vars, store, worker, IInv, QueueConsistent,
              SnapshotCurrentUnlessDirty, QuiescentConfigCurrent, Desired
<1> QED
  BY <1>1, <1>2, <1>3, <1>4

\* Every step of the controller keeps the invariant.
LEMMA IInvStep == IInv /\ [Next]_vars => IInv'
<1> SUFFICES ASSUME IInv, [Next]_vars PROVE IInv'
  OBVIOUS
<1>1. TypeOK'
  BY TypeStep DEF IInv
<1>2. CASE UNCHANGED vars
  BY <1>2 DEF vars, store, worker, IInv, TypeOK, QueueConsistent,
              SnapshotCurrentUnlessDirty, QuiescentConfigCurrent, Desired, LiveIng
<1> QED
  BY <1>1, <1>2, IInvIngress, IInvEndpoints, IInvSecret, IInvPod,
     IInvConfigMap, IInvService, IInvResync, IInvGet, IInvAccept, IInvRefill,
     IInvFinish, IInvLifecycle DEF Next, Mirror, Worker, Lifecycle

\* Main safety theorem (handlers, filters, syncQueue and the two-phase
\* read of sync together): whenever the worker is idle with nothing queued
\* after a successful sync, no Service changed since and the queue is not
\* shut down, nghttpx runs the configuration the current mirror calls for.
THEOREM QuiescentConfigCorrect == Spec => []QuiescentConfigCurrent
<1>1. IInv => QuiescentConfigCurrent
  BY DEF IInv
<1> QED
  BY IInvInit, IInvStep, <1>1, PTL DEF Spec

\* client-go's workqueue flags for the sync key (Add, Get, Done) agree
\* with the worker in every reachable state, for every bound: a queued key
\* is dirty, a dirty idle key is queued, the key is processing exactly
\* while sync runs, and ShutDown comes only after stopCh closed.
THEOREM QueueConsistentHolds == Spec => []QueueConsistent
<1>1. IInv => QueueConsistent
  BY DEF IInv
<1> QED
  BY IInvInit, IInvStep, <1>1, PTL DEF Spec

\* sync's two reads (the Ingress list at line 639, the other stores inside
\* getUpstreamServers): while the key has not been added again, no
\* in-class Ingress has changed since the list was read, in every
\* reachable state and for every number of Ingresses.
THEOREM SnapshotCurrentHolds == Spec => []SnapshotCurrentUnlessDirty
<1>1. IInv => SnapshotCurrentUnlessDirty
  BY DEF IInv
<1> QED
  BY IInvInit, IInvStep, <1>1, PTL DEF Spec

-----------------------------------------------------------------------------
(* ChangeNoticed: every handled change that alters Desired marks the key. *)

NoticedStep ==
    (/\ changes' # changes /\ UNCHANGED svc
     /\ ConfigOf(ing', svc', ep', pod', sec', cm') # Desired)
       => dirty'

\* An update or delete always changes the stamp.
LEMMA NewStampsChange ==
    ASSUME NEW old \in Version
    PROVE  old \notin NewStamps(old)
BY DEF NewStamps, Version

\* A handler that enqueues when its filter holds, while the queue is up.
LEMMA NoticedByEnqueue ==
    ASSUME IInv, NEW rel \in BOOLEAN, EnqueueIf(rel), ~stopped,
           ~rel => ConfigOf(ing', svc', ep', pod', sec', cm') = Desired
    PROVE  NoticedStep
BY DEF NoticedStep, EnqueueIf, Add, IInv, QueueConsistent

\* Every step of the controller satisfies NoticedStep.
LEMMA NoticedStepHolds == IInv /\ [Next]_vars => [NoticedStep]_vars
<1> SUFFICES ASSUME IInv, [Next]_vars PROVE NoticedStep
  OBVIOUS
<1>1. ASSUME NEW i \in Ingresses, IngressNotification(i) PROVE NoticedStep
  <2>1. ~stopped /\ UNCHANGED <<svc, ep, pod, sec, cm>>
    BY <1>1 DEF IngressNotification, MirrorStep
  <2>2. ASSUME NEW r \in IngressRec, ing' = [ing EXCEPT ![i] = r],
               NEW rel \in BOOLEAN, EnqueueIf(rel),
               ~rel => (~LiveIng(ing, i) /\ ~(r.present /\ r.valid))
        PROVE  NoticedStep
    BY <2>1, <2>2, IngressIrrelevant, NoticedByEnqueue DEF IInv
  <2>3. ing[i].valid \in BOOLEAN
    BY DEF IInv, TypeOK, IngressRec
  <2>4. CASE ~ing[i].present
    <3>1. PICK r \in IngressSpecs : ing' = [ing EXCEPT ![i] = r] /\ EnqueueIf(r.valid)
      BY <1>1, <2>4 DEF IngressNotification
    <3> QED
      BY <2>4, <3>1, <2>2, IngressSpecsType DEF IngressSpecs, LiveIng
  <2>5. CASE ing[i].present /\ \E r \in IngressSpecs \ {ing[i]} :
               ing' = [ing EXCEPT ![i] = r] /\ EnqueueIf(ing[i].valid \/ r.valid)
    <3>1. PICK r \in IngressSpecs : ing' = [ing EXCEPT ![i] = r]
                                    /\ EnqueueIf(ing[i].valid \/ r.valid)
      BY <2>5
    <3> QED
      BY <2>3, <3>1, <2>2, IngressSpecsType DEF IngressSpecs, LiveIng
  <2>6. CASE ing[i].present /\ ing' = [ing EXCEPT ![i] = Absent]
             /\ EnqueueIf(ing[i].valid)
    <3>1. ~ing[i].valid => (~LiveIng(ing, i) /\ ~(Absent.present /\ Absent.valid))
      BY DEF Absent, LiveIng
    <3> QED
      BY <2>6, <2>3, <3>1, <2>2, AbsentType
  <2> QED
    BY <1>1, <2>4, <2>5, <2>6 DEF IngressNotification
<1>2. ASSUME NEW s \in Services, EndpointsNotification(s) PROVE NoticedStep
  <2>1. PICK v \in NewStamps(ep[s]) : ep' = [ep EXCEPT ![s] = v]
    BY <1>2 DEF EndpointsNotification
  <2>2. EndpointsReferenced(s) \in BOOLEAN
    BY DEF EndpointsReferenced
  <2> QED
    BY <1>2, <2>1, <2>2, EndpointsIrrelevant, NoticedByEnqueue
       DEF EndpointsNotification, MirrorStep, IInv
<1>3. ASSUME NEW t \in Secrets, SecretNotification(t) PROVE NoticedStep
  <2>1. PICK v \in NewStamps(sec[t]) : sec' = [sec EXCEPT ![t] = v]
    BY <1>3 DEF SecretNotification
  <2>2. SecretReferenced(t) \in BOOLEAN
    BY DEF SecretReferenced
  <2> QED
    BY <1>3, <2>1, <2>2, SecretIrrelevant, NoticedByEnqueue
       DEF SecretNotification, MirrorStep, IInv
<1>4. ASSUME NEW p \in Pods, PodNotification(p) PROVE NoticedStep
  <2>1. PICK v \in NewStamps(pod[p]) : pod' = [pod EXCEPT ![p] = v]
    BY <1>4 DEF PodNotification
  <2>2. PodReferenced(p) \in BOOLEAN
    BY DEF PodReferenced
  <2> QED
    BY <1>4, <2>1, <2>2, PodIrrelevant, NoticedByEnqueue
       DEF PodNotification, MirrorStep, IInv
<1>5. CASE ConfigMapNotification
  BY <1>5, ConfigMapIrrelevant, NoticedByEnqueue
     DEF ConfigMapNotification, MirrorStep
<1>6. ASSUME NEW s \in Services, ServiceChange(s) PROVE NoticedStep
  <2>1. PICK v \in NewStamps(svc[s]) : svc' = [svc EXCEPT ![s] = v]
    BY <1>6 DEF ServiceChange
  <2>2. svc \in [Services -> Version]
    BY DEF IInv, TypeOK
  <2>3. v # svc[s]
    BY <2>1, <2>2, NewStampsChange
  <2>4. svc'[s] = v
    BY <2>1, <2>2
  <2>5. svc' # svc
    BY <2>3, <2>4
  <2> QED
    BY <2>5 DEF NoticedStep
<1>7. CASE ~(\/ \E i \in Ingresses : IngressNotification(i)
             \/ \E s \in Services : EndpointsNotification(s)
             \/ \E t \in Secrets : SecretNotification(t)
             \/ \E p \in Pods : PodNotification(p)
             \/ ConfigMapNotification
             \/ \E s \in Services : ServiceChange(s))
  <2>1. changes' = changes
    BY <1>7 DEF Next, Mirror, Worker, Lifecycle, IngressResync, WorkerGet,
                SyncAccept, Refill, SyncFinish, Stop, RunShutDown, ProcessExit,
                Terminated, vars, store, worker
  <2> QED
    BY <2>1 DEF NoticedStep
<1> QED
  BY <1>1, <1>2, <1>3, <1>4, <1>5, <1>6, <1>7

\* Reference Index soundness: every notification the handlers of lines
\* 289-584 receive that changes what getUpstreamServers would compute
\* marks the sync key dirty (Service changes excepted: no handler).
THEOREM ChangeNoticedCorrect == Spec => ChangeNoticed
<1>1. Spec => []IInv
  BY IInvInit, IInvStep, PTL DEF Spec
<1> QED
  BY <1>1, NoticedStepHolds, PTL DEF Spec, ChangeNoticed, NoticedStep

=============================================================================
