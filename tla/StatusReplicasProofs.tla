------------------------- MODULE StatusReplicasProofs -------------------------
(***************************************************************************)
(* Proofs about the status reconciler of several replicas (StatusReplicas) *)
(* for every set of replicas, Nodes, addresses and Ingresses and every     *)
(* poll budget and fault bound.                                            *)
(***************************************************************************)
EXTENDS StatusReplicas, TLAPS

\* What the proofs use of the constants.
LEMMA Bounds ==
    /\ PollBudget \in Nat \ {0}
    /\ MaxFaults \in Nat
    /\ Ingresses # {}
BY StatusConstants

USE Bounds

\* The address set of any part of the Pod list is one a status may hold.
LEMMA ViewAddrs ==
    ASSUME NEW V \in SUBSET Replicas
    PROVE  getLoadBalancerIngress(V) \subseteq PodAddrs
BY DEF getLoadBalancerIngress, PodAddrs

\* Removing this Pod's address from an advertised set leaves one.
LEMMA MinusAddrs ==
    ASSUME NEW S \in SUBSET PodAddrs, NEW a
    PROVE  S \ {a} \in SUBSET PodAddrs
OBVIOUS

-----------------------------------------------------------------------------
(* Type correctness.                                                       *)

LEMMA StatusTypeInit == Init => TypeOK
<1> SUFFICES ASSUME Init PROVE TypeOK
  OBVIOUS
<1>1. (CHOOSE i \in Ingresses : TRUE) \in Ingresses
  OBVIOUS
<1>2. {"cache"} \X Replicas \subseteq Holders
  BY DEF Holders
<1> QED
  BY <1>1, <1>2 DEF Init, TypeOK

LEMMA StatusTypeStep == TypeOK /\ [Next]_vars => TypeOK'
<1> SUFFICES ASSUME TypeOK, [Next]_vars PROVE TypeOK'
  OBVIOUS
<1> USE DEF TypeOK
<1>1. ASSUME NEW r \in Replicas, NEW i \in Ingresses, IngressInformerSync(r, i)
      PROVE  TypeOK'
  BY <1>1 DEF IngressInformerSync, Holders
<1>2. ASSUME NEW r \in Replicas, PodInformerSync(r) PROVE TypeOK'
  BY <1>2 DEF PodInformerSync
<1>3. ASSUME NEW r \in Replicas, PodDeleted(r) PROVE TypeOK'
  BY <1>3 DEF PodDeleted
<1>4. ASSUME NEW r \in Replicas, Stop(r) \/ RunReturn(r) \/ ProcessExit(r)
      PROVE  TypeOK'
  BY <1>4 DEF Stop, RunReturn, ProcessExit
<1>5. ASSUME NEW r \in Replicas, GetNodeIPAndUpdateIngress(r) PROVE TypeOK'
  <2>1. getLoadBalancerIngress(podView[r]) \subseteq PodAddrs
    BY ViewAddrs
  <2> QED
    BY <1>5, <2>1 DEF GetNodeIPAndUpdateIngress, Holders
<1>6. ASSUME NEW r \in Replicas, UpdateIngressStatus(r) PROVE TypeOK'
  <2>1. PICK i \in todo[r] :
          \/ /\ stopped[r]
             /\ todo' = [todo EXCEPT ![r] = {}]
             /\ UNCHANGED <<status, current, faults>>
          \/ /\ ~stopped[r]
             /\ todo' = [todo EXCEPT ![r] = @ \ {i}]
             /\ \/ UNCHANGED <<status, current, faults>>
                \/ Write(i, want[r]) /\ UNCHANGED faults
                \/ Fault /\ UNCHANGED <<status, current>>
    BY <1>6 DEF UpdateIngressStatus
  <2>2. i \in Ingresses
    OBVIOUS
  <2>3. todo' \in [Replicas -> SUBSET Ingresses]
    <3>1. CASE stopped[r]
      BY <2>1, <3>1
    <3>2. CASE ~stopped[r]
      <4>1. todo' = [todo EXCEPT ![r] = todo[r] \ {i}]
        BY <2>1, <3>2, Zenon
      <4> QED
        BY <4>1
    <3> QED
      BY <3>1, <3>2
  <2>4. /\ status' \in [Ingresses -> SUBSET PodAddrs]
        /\ current' \in [Ingresses -> SUBSET Holders]
        /\ faults' \in 0..MaxFaults
    <3>1. CASE UNCHANGED <<status, current, faults>>
      BY <3>1
    <3>2. CASE Write(i, want[r]) /\ UNCHANGED faults
      BY <2>2, <3>2 DEF Write
    <3>3. CASE Fault /\ UNCHANGED <<status, current>>
      BY <3>3 DEF Fault
    <3> QED
      BY <2>1, <3>1, <3>2, <3>3
  <2> QED
    BY <1>6, <2>3, <2>4 DEF UpdateIngressStatus
<1>7. ASSUME NEW r \in Replicas,
             UpdateIngressStatusDone(r) \/ SyncIngressTimer(r)
               \/ RemoveStart(r) \/ RemovePollTimeout(r)
      PROVE  TypeOK'
  BY <1>7 DEF UpdateIngressStatusDone, SyncIngressTimer, RemoveStart,
              RemovePollTimeout
<1>8. ASSUME NEW r \in Replicas, RemoveNext(r) PROVE TypeOK'
  <2>1. CASE remTodo[r] = {} /\ spc' = [spc EXCEPT ![r] = "done"]
             /\ UNCHANGED <<remTodo, remCur, attempts>>
    BY <1>8, <2>1 DEF RemoveNext
  <2>2. ASSUME NEW i \in remTodo[r],
               remTodo' = [remTodo EXCEPT ![r] = @ \ {i}],
               remCur' = [remCur EXCEPT ![r] = i],
               attempts' = [attempts EXCEPT ![r] = 0],
               spc' = [spc EXCEPT ![r] = "rget"]
        PROVE  TypeOK'
    BY <1>8, <2>2 DEF RemoveNext
  <2> QED
    BY <1>8, <2>1, <2>2 DEF RemoveNext
<1>9. ASSUME NEW r \in Replicas, RemovePollGet(r) PROVE TypeOK'
  <2> DEFINE i == remCur[r]
             g == <<"got", r>>
  <2>1. i \in Ingresses /\ g \in Holders
    BY DEF Holders
  <2>2. attempts' \in [Replicas -> 0..PollBudget]
    BY <1>9 DEF RemovePollGet
  <2>3. CASE Fault /\ UNCHANGED <<current, spc, got>>
    BY <1>9, <2>2, <2>3 DEF RemovePollGet, Fault
  <2>4. CASE /\ got' = [got EXCEPT ![r] = status[i]]
             /\ current' = [j \in Ingresses |->
                              IF j = i THEN current[j] \cup {g} ELSE current[j] \ {g}]
             /\ spc' = [spc EXCEPT ![r] =
                          IF getPodAddress(r) \in status[i] THEN "rupdate" ELSE "rnext"]
             /\ UNCHANGED faults
    BY <1>9, <2>1, <2>2, <2>4 DEF RemovePollGet
  <2> QED
    BY <1>9, <2>3, <2>4 DEF RemovePollGet
<1>10. ASSUME NEW r \in Replicas, RemovePollUpdate(r) PROVE TypeOK'
  <2> DEFINE i == remCur[r]
  <2>1. got[r] \ {getPodAddress(r)} \in SUBSET PodAddrs
    BY MinusAddrs
  <2>2. CASE Write(i, got[r] \ {getPodAddress(r)})
             /\ spc' = [spc EXCEPT ![r] = "rnext"] /\ UNCHANGED faults
    BY <1>10, <2>1, <2>2 DEF RemovePollUpdate, Write
  <2>3. CASE faults' \in 0..MaxFaults /\ spc' = [spc EXCEPT ![r] = "rget"]
             /\ UNCHANGED <<status, current>>
    BY <1>10, <2>3 DEF RemovePollUpdate
  <2> QED
    BY <1>10, <2>2, <2>3 DEF RemovePollUpdate, Fault
<1>11. CASE UNCHANGED vars
  BY <1>11 DEF vars
<1> QED
  BY <1>1, <1>2, <1>3, <1>4, <1>5, <1>6, <1>7, <1>8, <1>9, <1>10, <1>11
     DEF Next, Replica, Environment

\* Every reachable state is well typed; in particular a status, a lister
\* copy, a pass's address set and a poll's copy only ever hold addresses
\* that controller Pods resolve to (getLoadBalancerIngress, 1219-1245).
THEOREM StatusTypeCorrect == Spec => []TypeOK
BY StatusTypeInit, StatusTypeStep, PTL DEF Spec


-----------------------------------------------------------------------------
(* Optimistic concurrency: the copies the API server accepts are current. *)

\* The inductive invariant behind CopiesCurrent: the copies need their
\* types (which holders exist, that copies are functions of the right
\* domains).
SInv == TypeOK /\ CopiesCurrent

LEMMA SInvInit == Init => SInv
<1> SUFFICES ASSUME Init PROVE SInv
  OBVIOUS
<1>1. TypeOK
  BY StatusTypeInit
<1>2. CopiesCurrent
  BY DEF Init, CopiesCurrent
<1> QED
  BY <1>1, <1>2 DEF SInv

\* A successful UpdateStatus of Ingress i makes every copy of i stale and
\* leaves the copies of the other Ingresses as current as they were.
LEMMA WriteKeepsCopies ==
    ASSUME TypeOK, CopiesCurrent, NEW i \in Ingresses, NEW a,
           Write(i, a), UNCHANGED <<cache, snap, got>>
    PROVE  CopiesCurrent'
BY DEF Write, CopiesCurrent, TypeOK

\* A step that touches neither the status, the copies nor which of them
\* are current.
LEMMA QuietKeepsCopies ==
    ASSUME CopiesCurrent, UNCHANGED <<status, current, cache, snap, got>>
    PROVE  CopiesCurrent'
BY DEF CopiesCurrent

LEMMA SInvStep == SInv /\ [Next]_vars => SInv'
<1> SUFFICES ASSUME TypeOK, CopiesCurrent, [Next]_vars PROVE CopiesCurrent'
  BY StatusTypeStep DEF SInv
<1>1. ASSUME NEW r \in Replicas, NEW i \in Ingresses, IngressInformerSync(r, i)
      PROVE  CopiesCurrent'
  BY <1>1 DEF IngressInformerSync, CopiesCurrent, TypeOK
<1>2. ASSUME NEW r \in Replicas, GetNodeIPAndUpdateIngress(r)
      PROVE  CopiesCurrent'
  BY <1>2 DEF GetNodeIPAndUpdateIngress, CopiesCurrent, TypeOK
<1>3. ASSUME NEW r \in Replicas, UpdateIngressStatus(r) PROVE CopiesCurrent'
  <2>1. PICK i \in todo[r] :
          \/ UNCHANGED <<status, current>>
          \/ Write(i, want[r])
    BY <1>3 DEF UpdateIngressStatus
  <2>2. i \in Ingresses
    BY DEF TypeOK
  <2>3. UNCHANGED <<cache, snap, got>>
    BY <1>3 DEF UpdateIngressStatus
  <2> QED
    BY <2>1, <2>2, <2>3, WriteKeepsCopies, QuietKeepsCopies
<1>4. ASSUME NEW r \in Replicas, RemovePollGet(r) PROVE CopiesCurrent'
  <2> DEFINE i == remCur[r]
             g == <<"got", r>>
  <2>1. CASE UNCHANGED <<current, got>>
    BY <1>4, <2>1, QuietKeepsCopies DEF RemovePollGet
  <2>2. CASE /\ got' = [got EXCEPT ![r] = status[i]]
             /\ current' = [j \in Ingresses |->
                              IF j = i THEN current[j] \cup {g} ELSE current[j] \ {g}]
    BY <1>4, <2>2 DEF RemovePollGet, CopiesCurrent, TypeOK
  <2> QED
    BY <1>4, <2>1, <2>2 DEF RemovePollGet
<1>5. ASSUME NEW r \in Replicas, RemovePollUpdate(r) PROVE CopiesCurrent'
  <2>1. remCur[r] \in Ingresses
    BY DEF TypeOK
  <2>2. UNCHANGED <<cache, snap, got>>
    BY <1>5 DEF RemovePollUpdate
  <2>3. CASE Write(remCur[r], got[r] \ {getPodAddress(r)})
    BY <2>1, <2>2, <2>3, WriteKeepsCopies
  <2>4. CASE UNCHANGED <<status, current>>
    BY <2>2, <2>4, QuietKeepsCopies
  <2> QED
    BY <1>5, <2>3, <2>4 DEF RemovePollUpdate
<1>6. ASSUME NEW r \in Replicas,
             \/ PodInformerSync(r) \/ PodDeleted(r)
             \/ Stop(r) \/ RunReturn(r) \/ ProcessExit(r)
             \/ UpdateIngressStatusDone(r) \/ SyncIngressTimer(r)
             \/ RemoveStart(r) \/ RemoveNext(r) \/ RemovePollTimeout(r)
      PROVE  CopiesCurrent'
  <2>1. UNCHANGED <<status, current, cache, snap, got>>
    BY <1>6 DEF PodInformerSync, PodDeleted, Stop, RunReturn, ProcessExit,
                UpdateIngressStatusDone, SyncIngressTimer, RemoveStart,
                RemoveNext, RemovePollTimeout
  <2> QED
    BY <2>1, QuietKeepsCopies
<1>7. CASE UNCHANGED vars
  BY <1>7, QuietKeepsCopies DEF vars
<1> QED
  BY <1>1, <1>2, <1>3, <1>4, <1>5, <1>6, <1>7 DEF Next, Replica, Environment

\* Optimistic concurrency of the status writes (lines 1210 and 1327): in
\* every reachable state, every copy of an Ingress whose resourceVersion
\* the API server would still accept holds the status the server has.
THEOREM CopiesCurrentHolds == Spec => []CopiesCurrent
<1>1. SInv => CopiesCurrent
  BY DEF SInv
<1> QED
  BY SInvInit, SInvStep, <1>1, PTL DEF Spec


-----------------------------------------------------------------------------
(* Every status change is a read-modify-write of the current status.      *)

\* The step form of StatusWritesOnCurrent.
WriteStep ==
    \A i \in Ingresses :
        status'[i] # status[i] =>
           \E r \in Replicas :
              \/ /\ spc[r] = "write" /\ snap[r][i] = status[i]
                 /\ status'[i] = want[r]
              \/ /\ spc[r] = "rupdate" /\ remCur[r] = i
                 /\ status'[i] = status[i] \ {getPodAddress(r)}

\* Only the two UpdateStatus calls change a status.
LEMMA StatusQuiet ==
    ASSUME NEW r \in Replicas,
           \/ \E i \in Ingresses : IngressInformerSync(r, i)
           \/ PodInformerSync(r) \/ PodDeleted(r)
           \/ Stop(r) \/ RunReturn(r) \/ ProcessExit(r)
           \/ GetNodeIPAndUpdateIngress(r) \/ UpdateIngressStatusDone(r)
           \/ SyncIngressTimer(r) \/ RemoveStart(r) \/ RemoveNext(r)
           \/ RemovePollGet(r) \/ RemovePollTimeout(r)
    PROVE  UNCHANGED status
BY DEF IngressInformerSync, PodInformerSync, PodDeleted, Stop, RunReturn,
       ProcessExit, GetNodeIPAndUpdateIngress, UpdateIngressStatusDone,
       SyncIngressTimer, RemoveStart, RemoveNext, RemovePollGet,
       RemovePollTimeout

LEMMA WriteStepHolds == SInv /\ [Next]_vars => WriteStep
<1> SUFFICES ASSUME SInv, [Next]_vars, NEW i \in Ingresses,
                    status'[i] # status[i]
             PROVE  \E r \in Replicas :
                       \/ /\ spc[r] = "write" /\ snap[r][i] = status[i]
                          /\ status'[i] = want[r]
                       \/ /\ spc[r] = "rupdate" /\ remCur[r] = i
                          /\ status'[i] = status[i] \ {getPodAddress(r)}
  BY DEF WriteStep
<1> USE DEF SInv
<1>1. ASSUME NEW r \in Replicas, UpdateIngressStatus(r)
      PROVE  /\ spc[r] = "write" /\ snap[r][i] = status[i]
             /\ status'[i] = want[r]
  <2>1. PICK j \in todo[r] : <<"snap", r>> \in current[j] /\ Write(j, want[r])
    BY <1>1 DEF UpdateIngressStatus
  <2>2. j = i
    BY <2>1 DEF Write, TypeOK
  <2> QED
    BY <1>1, <2>1, <2>2 DEF UpdateIngressStatus, Write, CopiesCurrent, TypeOK
<1>2. ASSUME NEW r \in Replicas, RemovePollUpdate(r)
      PROVE  /\ spc[r] = "rupdate" /\ remCur[r] = i
             /\ status'[i] = status[i] \ {getPodAddress(r)}
  <2>1. <<"got", r>> \in current[remCur[r]]
        /\ Write(remCur[r], got[r] \ {getPodAddress(r)})
    BY <1>2 DEF RemovePollUpdate
  <2>2. remCur[r] = i
    BY <2>1 DEF Write, TypeOK
  <2> QED
    BY <1>2, <2>1, <2>2 DEF RemovePollUpdate, Write, CopiesCurrent, TypeOK
<1>3. CASE UNCHANGED vars
  BY <1>3 DEF vars
<1> QED
  BY <1>1, <1>2, <1>3, StatusQuiet DEF Next, Replica, Environment

\* The status writes of lines 1210 and 1327, for every number of replicas
\* and Ingresses: every change of a status is either a pass writing its
\* address set over the very status it compared it with, or a removal
\* taking its own address out of the current status, so no write is
\* built on a copy a peer has overwritten since it was read.
THEOREM StatusWritesOnCurrentHolds == Spec => StatusWritesOnCurrent
<1>1. Spec => []SInv
  BY SInvInit, SInvStep, PTL DEF Spec
<1>2. SInv /\ [Next]_vars => [WriteStep]_vars
  BY WriteStepHolds
<1> QED
  BY <1>1, <1>2, PTL DEF Spec, StatusWritesOnCurrent, WriteStep

=============================================================================
