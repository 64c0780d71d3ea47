--------------------------- MODULE StatusReplicas ---------------------------
(***************************************************************************)
(* The status reconciler of several controller replicas writing the same  *)
(* Ingress status (controller.go, syncIngress and the functions it calls). *)
(*                                                                         *)
(* Each replica runs syncIngress: on every tick it lists the controller    *)
(* Pods its Pod lister holds, resolves the address of each Pod's Node,     *)
(* and writes that address set into every Ingress whose status, as its     *)
(* Ingress lister holds it, differs.  On shutdown it removes its own       *)
(* address from every Ingress with a bounded poll of Get and UpdateStatus. *)
(*                                                                         *)
(* The API server's optimistic concurrency is part of the model: an        *)
(* UpdateStatus carries the resourceVersion of the copy it was built from  *)
(* and fails with a conflict when the Ingress was written since.  Which    *)
(* copies still hold the current resourceVersion of Ingress i is the set   *)
(* current[i] of holders: a replica's informer cache, the snapshot its     *)
(* pass listed, and the copy its removal poll got.  A write empties it.    *)
(*                                                                         *)
(* Status lists are sorted and deduplicated by the writer (1166-1168) and  *)
(* the removal keeps that order, so a status is modelled as a set.         *)
(***************************************************************************)
EXTENDS Naturals, Sequences, FiniteSets

CONSTANTS
    Replicas,        \* the controller Pods (one process each)
    Stoppable,       \* the replicas that may receive SIGTERM or /stop
    Nodes,
    NodeOf,          \* pod.Spec.NodeName
    NodeAddresses,   \* node.Status.Addresses: a sequence of [type, address]
    Addrs,           \* the addresses a Node may carry
    NoAddr,          \* getPodAddress returned an error
    AllowInternalIP, \* --allow-internal-ip
    Ingresses,       \* the in-class Ingresses
    PollBudget,      \* wait.Poll(250ms, 2s): the polls one Ingress gets
    MaxFaults        \* bound on transient API failures in a behaviour

AddrTypes == {"ExternalIP", "InternalIP", "LegacyHostIP"}

ASSUME StatusConstants ==
    /\ Stoppable \subseteq Replicas
    /\ NodeOf \in [Replicas -> Nodes]
    /\ NodeAddresses \in [Nodes -> Seq([type : AddrTypes, address : Addrs \cup {""}])]
    /\ NoAddr \notin Addrs /\ "" \notin Addrs
    /\ AllowInternalIP \in BOOLEAN
    /\ PollBudget \in Nat \ {0}
    /\ MaxFaults \in Nat
    /\ Ingresses # {}

(***************************************************************************)
(* getPodAddress: the first non-empty ExternalIP of the Pod's Node; else   *)
(* the first non-empty InternalIP (when allowed) or LegacyHostIP; else an  *)
(* error.  An ExternalIP met after a fallback still wins.                  *)
(***************************************************************************)
Fallback(t) == (AllowInternalIP /\ t = "InternalIP") \/ t = "LegacyHostIP"

getPodAddress(r) ==
    LET as  == NodeAddresses[NodeOf[r]]
        ext == SelectSeq(as, LAMBDA a : a.type = "ExternalIP" /\ a.address # "")
        fb  == SelectSeq(as, LAMBDA a : Fallback(a.type) /\ a.address # "")
    IN  IF ext # <<>> THEN Head(ext).address
        ELSE IF fb # <<>> THEN Head(fb).address
        ELSE NoAddr

\* getLoadBalancerIngress, sorted and deduplicated: the addresses of the
\* Pods in a lister view, the unresolvable ones skipped.
getLoadBalancerIngress(view) == {getPodAddress(p) : p \in view} \ {NoAddr}

\* The addresses controller Pods resolve to: all a status can advertise.
PodAddrs == getLoadBalancerIngress(Replicas)

Holders == {"cache", "snap", "got"} \X Replicas

VARIABLES
    status,     \* Ingress -> the address set the API server holds
    current,    \* Ingress -> the holders whose copy has its resourceVersion
    cache,      \* replica -> Ingress -> status in its Ingress lister
    podView,    \* replica -> the controller Pods in its Pod lister
    pods,       \* the controller Pods that exist in the API server
    stopped,    \* replica -> its stopCh is closed
    mpc,        \* replica -> Run/main: run, return, exited
    spc,        \* replica -> syncIngress: list, write, wait, rnext, rget,
                \*            rupdate, done
    want,       \* replica -> the address set of its current pass
    snap,       \* replica -> Ingress -> the status its pass listed
    todo,       \* replica -> Ingresses its pass has still to visit
    remTodo,    \* replica -> Ingresses its removal has still to visit
    remCur,     \* replica -> the Ingress its removal polls
    got,        \* replica -> the status its last poll Get returned
    attempts,   \* replica -> polls spent on remCur
    faults      \* transient API failures so far

vars == <<status, current, cache, podView, pods, stopped, mpc, spc, want,
          snap, todo, remTodo, remCur, got, attempts, faults>>

TypeOK ==
    /\ status \in [Ingresses -> SUBSET PodAddrs]
    /\ current \in [Ingresses -> SUBSET Holders]
    /\ cache \in [Replicas -> [Ingresses -> SUBSET PodAddrs]]
    /\ podView \in [Replicas -> SUBSET Replicas]
    /\ pods \subseteq Replicas
    /\ stopped \in [Replicas -> BOOLEAN]
    /\ mpc \in [Replicas -> {"run", "return", "exited"}]
    /\ spc \in [Replicas -> {"list", "write", "wait", "rnext", "rget", "rupdate", "done"}]
    /\ want \in [Replicas -> SUBSET PodAddrs]
    /\ snap \in [Replicas -> [Ingresses -> SUBSET PodAddrs]]
    /\ todo \in [Replicas -> SUBSET Ingresses]
    /\ remTodo \in [Replicas -> SUBSET Ingresses]
    /\ remCur \in [Replicas -> Ingresses]
    /\ got \in [Replicas -> SUBSET PodAddrs]
    /\ attempts \in [Replicas -> 0..PollBudget]
    /\ faults \in 0..MaxFaults

Alive(r) == mpc[r] # "exited"

\* An UpdateStatus of Ingress i succeeds: the new resourceVersion makes
\* every other copy stale.
Write(i, addrs) ==
    /\ status' = [status EXCEPT ![i] = addrs]
    /\ current' = [current EXCEPT ![i] = {}]

\* A transient API error, within the bound on faults.
Fault == faults < MaxFaults /\ faults' = faults + 1

-----------------------------------------------------------------------------
(* Environment: the API server and the informers.                          *)

\* The Ingress informer of replica r delivers the latest status of i.
IngressInformerSync(r, i) ==
    /\ Alive(r)
    /\ <<"cache", r>> \notin current[i]
    /\ cache' = [cache EXCEPT ![r][i] = status[i]]
    /\ current' = [current EXCEPT ![i] = @ \cup {<<"cache", r>>}]
    /\ UNCHANGED <<status, podView, pods, stopped, mpc, spc, want, snap, todo,
                   remTodo, remCur, got, attempts, faults>>

\* The Pod informer of replica r catches up with the API server.
PodInformerSync(r) ==
    /\ Alive(r)
    /\ podView[r] # pods
    /\ podView' = [podView EXCEPT ![r] = pods]
    /\ UNCHANGED <<status, current, cache, pods, stopped, mpc, spc, want, snap,
                   todo, remTodo, remCur, got, attempts, faults>>

\* The kubelet reports the container gone: the terminating Pod is deleted.
\* Until then it stays in every Pod list, DeletionTimestamp or not.
PodDeleted(r) ==
    /\ mpc[r] = "exited"
    /\ r \in pods
    /\ pods' = pods \ {r}
    /\ UNCHANGED <<status, current, cache, podView, stopped, mpc, spc, want,
                   snap, todo, remTodo, remCur, got, attempts, faults>>

-----------------------------------------------------------------------------
(* The process of replica r: Stop, Run returning, main exiting.            *)

\* Stop (SIGTERM or /stop) closes stopCh once.
Stop(r) ==
    /\ r \in Stoppable
    /\ mpc[r] = "run"
    /\ ~stopped[r]
    /\ stopped' = [stopped EXCEPT ![r] = TRUE]
    /\ UNCHANGED <<status, current, cache, podView, pods, mpc, spc, want, snap,
                   todo, remTodo, remCur, got, attempts, faults>>

\* Run wakes on stopCh, shuts the queue down and returns.
RunReturn(r) ==
    /\ mpc[r] = "run"
    /\ stopped[r]
    /\ mpc' = [mpc EXCEPT ![r] = "return"]
    /\ UNCHANGED <<status, current, cache, podView, pods, stopped, spc, want,
                   snap, todo, remTodo, remCur, got, attempts, faults>>

\* main returns after lbc.Run(): the process and syncIngress with it end,
\* wherever syncIngress is.
ProcessExit(r) ==
    /\ mpc[r] = "return"
    /\ mpc' = [mpc EXCEPT ![r] = "exited"]
    /\ UNCHANGED <<status, current, cache, podView, pods, stopped, spc, want,
                   snap, todo, remTodo, remCur, got, attempts, faults>>

-----------------------------------------------------------------------------
(* syncIngress of replica r.                                               *)

\* Mutant: the pass compares against the status listed on an earlier tick.
GetNodeIPAndUpdateIngressStaleSnap(r) ==
    /\ Alive(r)
    /\ spc[r] = "list"
    /\ want' = [want EXCEPT ![r] = getLoadBalancerIngress(podView[r])]
    /\ todo' = [todo EXCEPT ![r] = Ingresses]
    /\ spc' = [spc EXCEPT ![r] = "write"]
    /\ UNCHANGED <<status, current, snap, cache, podView, pods, stopped, mpc,
                   remTodo, remCur, got, attempts, faults>>

\* Mutant: the pass sends the resourceVersion of a fresh Get with the
\* status of the lister's copy.
GetNodeIPAndUpdateIngressFreshVersion(r) ==
    /\ Alive(r)
    /\ spc[r] = "list"
    /\ want' = [want EXCEPT ![r] = getLoadBalancerIngress(podView[r])]
    /\ snap' = [snap EXCEPT ![r] = cache[r]]
    /\ current' = [i \in Ingresses |-> current[i] \cup {<<"snap", r>>}]
    /\ todo' = [todo EXCEPT ![r] = Ingresses]
    /\ spc' = [spc EXCEPT ![r] = "write"]
    /\ UNCHANGED <<status, cache, podView, pods, stopped, mpc, remTodo, remCur,
                   got, attempts, faults>>

\* getNodeIPAndUpdateIngress: list the Pods sharing this Pod's labels,
\* resolve their addresses, then list the Ingresses (updateIngressStatus).
\* This Pod is in its own lister as long as the process lives.
GetNodeIPAndUpdateIngress(r) ==
    /\ Alive(r)
    /\ spc[r] = "list"
    /\ want' = [want EXCEPT ![r] = getLoadBalancerIngress(podView[r])]
    /\ snap' = [snap EXCEPT ![r] = cache[r]]
    /\ current' = [i \in Ingresses |->
                     IF <<"cache", r>> \in current[i]
                     THEN current[i] \cup {<<"snap", r>>}
                     ELSE current[i] \ {<<"snap", r>>}]
    /\ todo' = [todo EXCEPT ![r] = Ingresses]
    /\ spc' = [spc EXCEPT ![r] = "write"]
    /\ UNCHANGED <<status, cache, podView, pods, stopped, mpc, remTodo, remCur,
                   got, attempts, faults>>

\* One Ingress of updateIngressStatus: return once stopCh is closed; skip
\* it when the listed status equals the address set; else UpdateStatus
\* with the listed copy, which fails on a conflict or a transient error
\* and is only logged.
UpdateIngressStatus(r) ==
    /\ Alive(r)
    /\ spc[r] = "write"
    /\ \E i \in todo[r] :
          \/ /\ stopped[r]
             /\ todo' = [todo EXCEPT ![r] = {}]
             /\ UNCHANGED <<status, current, faults>>
          \/ /\ ~stopped[r]
             /\ todo' = [todo EXCEPT ![r] = @ \ {i}]
             /\ \/ /\ snap[r][i] = want[r]
                   /\ UNCHANGED <<status, current, faults>>
                \/ /\ snap[r][i] # want[r]
                   /\ <<"snap", r>> \in current[i]
                   /\ Write(i, want[r])
                   /\ UNCHANGED faults
                \/ /\ snap[r][i] # want[r]
                   /\ \/ <<"snap", r>> \notin current[i] /\ UNCHANGED faults
                      \/ Fault
                   /\ UNCHANGED <<status, current>>
    /\ UNCHANGED <<cache, podView, pods, stopped, mpc, spc, want, snap,
                   remTodo, remCur, got, attempts>>

\* updateIngressStatus returns; syncIngress waits in its select.
UpdateIngressStatusDone(r) ==
    /\ Alive(r)
    /\ spc[r] = "write"
    /\ todo[r] = {}
    /\ spc' = [spc EXCEPT ![r] = "wait"]
    /\ UNCHANGED <<status, current, cache, podView, pods, stopped, mpc, want,
                   snap, todo, remTodo, remCur, got, attempts, faults>>

\* The jittered timer fires; select may take it even when stopCh is closed.
SyncIngressTimer(r) ==
    /\ Alive(r)
    /\ spc[r] = "wait"
    /\ spc' = [spc EXCEPT ![r] = "list"]
    /\ UNCHANGED <<status, current, cache, podView, pods, stopped, mpc, want,
                   snap, todo, remTodo, remCur, got, attempts, faults>>

\* select takes stopCh: removeAddressFromLoadBalancerIngress resolves this
\* Pod's address (an error ends it) and lists the Ingresses.
RemoveStart(r) ==
    /\ Alive(r)
    /\ spc[r] = "wait"
    /\ stopped[r]
    /\ \/ /\ getPodAddress(r) = NoAddr
          /\ spc' = [spc EXCEPT ![r] = "done"]
          /\ UNCHANGED remTodo
       \/ /\ getPodAddress(r) # NoAddr
          /\ remTodo' = [remTodo EXCEPT ![r] = Ingresses]
          /\ spc' = [spc EXCEPT ![r] = "rnext"]
    /\ UNCHANGED <<status, current, cache, podView, pods, stopped, mpc, want,
                   snap, todo, remCur, got, attempts, faults>>

\* The loop over the listed Ingresses: poll the next one, or return (and
\* syncIngress returns with it).
RemoveNext(r) ==
    /\ Alive(r)
    /\ spc[r] = "rnext"
    /\ \/ /\ remTodo[r] = {}
          /\ spc' = [spc EXCEPT ![r] = "done"]
          /\ UNCHANGED <<remTodo, remCur, attempts>>
       \/ \E i \in remTodo[r] :
             /\ remTodo' = [remTodo EXCEPT ![r] = @ \ {i}]
             /\ remCur' = [remCur EXCEPT ![r] = i]
             /\ attempts' = [attempts EXCEPT ![r] = 0]
             /\ spc' = [spc EXCEPT ![r] = "rget"]
    /\ UNCHANGED <<status, current, cache, podView, pods, stopped, mpc, want,
                   snap, todo, got, faults>>

\* Mutant: the poll has no time budget.
RemovePollGetUnbounded(r) ==
    LET i == remCur[r]
        g == <<"got", r>>
    IN
    /\ Alive(r)
    /\ spc[r] = "rget"
    /\ attempts' = [attempts EXCEPT ![r] = @ + 1]
    /\ \/ /\ Fault
          /\ UNCHANGED <<current, spc, got>>
       \/ /\ got' = [got EXCEPT ![r] = status[i]]
          /\ current' = [j \in Ingresses |->
                           IF j = i THEN current[j] \cup {g} ELSE current[j] \ {g}]
          /\ spc' = [spc EXCEPT ![r] =
                       IF getPodAddress(r) \in status[i] THEN "rupdate" ELSE "rnext"]
          /\ UNCHANGED faults
    /\ UNCHANGED <<status, cache, podView, pods, stopped, mpc, want, snap, todo,
                   remTodo, remCur>>

\* One poll of wait.Poll: Get the Ingress.  A transient error polls again.
\* The poll is done when the status is empty or holds no copy of this
\* Pod's address; otherwise the address is removed and written back.
RemovePollGet(r) ==
    LET i == remCur[r]
        g == <<"got", r>>
    IN
    /\ Alive(r)
    /\ spc[r] = "rget"
    /\ attempts[r] < PollBudget
    /\ attempts' = [attempts EXCEPT ![r] = @ + 1]
    /\ \/ /\ Fault
          /\ UNCHANGED <<current, spc, got>>
       \/ /\ got' = [got EXCEPT ![r] = status[i]]
          /\ current' = [j \in Ingresses |->
                           IF j = i THEN current[j] \cup {g} ELSE current[j] \ {g}]
          /\ spc' = [spc EXCEPT ![r] =
                       IF getPodAddress(r) \in status[i] THEN "rupdate" ELSE "rnext"]
          /\ UNCHANGED faults
    /\ UNCHANGED <<status, cache, podView, pods, stopped, mpc, want, snap, todo,
                   remTodo, remCur>>

\* Mutant: the removal writes its copy whatever the resourceVersion.
RemovePollUpdateBlind(r) ==
    LET i == remCur[r]
    IN
    /\ Alive(r)
    /\ spc[r] = "rupdate"
    /\ \/ /\ Write(i, got[r] \ {getPodAddress(r)})
          /\ spc' = [spc EXCEPT ![r] = "rnext"]
          /\ UNCHANGED faults
       \/ /\ Fault
          /\ spc' = [spc EXCEPT ![r] = "rget"]
          /\ UNCHANGED <<status, current>>
    /\ UNCHANGED <<cache, podView, pods, stopped, mpc, want, snap, todo,
                   remTodo, remCur, got, attempts>>

\* UpdateStatus of the copy Get returned, without this Pod's address.  A
\* conflict or a transient error polls again.
RemovePollUpdate(r) ==
    LET i == remCur[r]
    IN
    /\ Alive(r)
    /\ spc[r] = "rupdate"
    /\ \/ /\ <<"got", r>> \in current[i]
          /\ Write(i, got[r] \ {getPodAddress(r)})
          /\ spc' = [spc EXCEPT ![r] = "rnext"]
          /\ UNCHANGED faults
       \/ /\ \/ <<"got", r>> \notin current[i] /\ UNCHANGED faults
             \/ Fault
          /\ spc' = [spc EXCEPT ![r] = "rget"]
          /\ UNCHANGED <<status, current>>
    /\ UNCHANGED <<cache, podView, pods, stopped, mpc, want, snap, todo,
                   remTodo, remCur, got, attempts>>

\* wait.Poll times out after 2s: the error is logged and the address stays
\* in this Ingress.
RemovePollTimeout(r) ==
    /\ Alive(r)
    /\ spc[r] = "rget"
    /\ attempts[r] = PollBudget
    /\ spc' = [spc EXCEPT ![r] = "rnext"]
    /\ UNCHANGED <<status, current, cache, podView, pods, stopped, mpc, want,
                   snap, todo, remTodo, remCur, got, attempts, faults>>

-----------------------------------------------------------------------------

\* Every replica runs, its listers in sync with a cluster whose Ingresses
\* carry no status yet; its first tick is due.
Init ==
    /\ status = [i \in Ingresses |-> {}]
    /\ current = [i \in Ingresses |-> {"cache"} \X Replicas]
    /\ cache = [r \in Replicas |-> status]
    /\ podView = [r \in Replicas |-> Replicas]
    /\ pods = Replicas
    /\ stopped = [r \in Replicas |-> FALSE]
    /\ mpc = [r \in Replicas |-> "run"]
    /\ spc = [r \in Replicas |-> "list"]
    /\ want = [r \in Replicas |-> {}]
    /\ snap = cache
    /\ todo = [r \in Replicas |-> {}]
    /\ remTodo = [r \in Replicas |-> {}]
    /\ remCur = [r \in Replicas |-> CHOOSE i \in Ingresses : TRUE]
    /\ got = [r \in Replicas |-> {}]
    /\ attempts = [r \in Replicas |-> 0]
    /\ faults = 0

Replica(r) ==
    \/ Stop(r) \/ RunReturn(r) \/ ProcessExit(r)
    \/ GetNodeIPAndUpdateIngress(r) \/ UpdateIngressStatus(r)
    \/ UpdateIngressStatusDone(r) \/ SyncIngressTimer(r)
    \/ RemoveStart(r) \/ RemoveNext(r) \/ RemovePollGet(r)
    \/ RemovePollUpdate(r) \/ RemovePollTimeout(r)

Environment(r) ==
    \/ \E i \in Ingresses : IngressInformerSync(r, i)
    \/ PodInformerSync(r) \/ PodDeleted(r)

Next == \E r \in Replicas : Replica(r) \/ Environment(r)

(***************************************************************************)
(* Fairness.  The goroutines of a live process are scheduled, timers fire, *)
(* watches deliver, and the kubelet deletes an exited Pod: weak fairness.  *)
(* select picks uniformly among ready cases, so stopCh is taken with       *)
(* probability one once closed: strong fairness for RemoveStart, which the *)
(* timer case disables on every tick.  Stop itself is not fair.           *)
(***************************************************************************)
Fairness ==
    \A r \in Replicas :
        /\ WF_vars(RunReturn(r)) /\ WF_vars(ProcessExit(r))
        /\ WF_vars(GetNodeIPAndUpdateIngress(r)) /\ WF_vars(UpdateIngressStatus(r))
        /\ WF_vars(UpdateIngressStatusDone(r)) /\ WF_vars(SyncIngressTimer(r))
        /\ SF_vars(RemoveStart(r)) /\ WF_vars(RemoveNext(r))
        /\ WF_vars(RemovePollGet(r)) /\ WF_vars(RemovePollUpdate(r))
        /\ WF_vars(RemovePollTimeout(r))
        /\ WF_vars(PodInformerSync(r)) /\ WF_vars(PodDeleted(r))
        /\ \A i \in Ingresses : WF_vars(IngressInformerSync(r, i))

Spec == Init /\ [][Next]_vars /\ Fairness

-----------------------------------------------------------------------------
(* Properties.                                                             *)

\* The addresses the status should advertise: those of the controller Pods
\* that exist.
Advertised == getLoadBalancerIngress(pods)

\* Spec 4.5: replicas converge on the status.  If some replica never stops,
\* every Ingress status eventually holds exactly the addresses of the
\* existing controller Pods, and keeps them: an address a stopped replica
\* failed to remove (its process exited first, its poll timed out) is
\* cleaned up by the survivors' ticks once its Pod is deleted, and an
\* address removed by a co-located replica is re-added.
StatusConverges ==
    (\E r \in Replicas : []~stopped[r])
        => <>[](\A i \in Ingresses : status[i] = Advertised)

\* Spec 4.5 and the shutdown scenario of section 7: after a replica's final
\* pass removed its address from an Ingress, the address stays out of it,
\* unless another existing controller Pod shares that address.
\* removeAddressFromLoadBalancerIngress against the peers' ticks.
DeregistrationSticks ==
    [][\A r \in Replicas, i \in Ingresses :
         (/\ spc[r] = "done"
          /\ getPodAddress(r) \notin status[i]
          /\ \A q \in pods \ {r} : getPodAddress(q) # getPodAddress(r))
         => getPodAddress(r) \notin status'[i]]_vars

\* Spec 4.5: the final pass of a stopping replica leaves the other
\* replicas' addresses untouched: the address of a running replica that
\* every Pod lister lists never leaves an Ingress status.
\* removeAddressFromLoadBalancerIngress removes by address value.
PeerAddressesKept ==
    [][\A q \in pods, i \in Ingresses :
         (/\ ~stopped[q]
          /\ getPodAddress(q) \in status[i]
          /\ \A p \in Replicas : q \in podView[p])
         => getPodAddress(q) \in status'[i]]_vars


\* Optimistic concurrency of the status writes (UpdateStatus at lines
\* 1210 and 1327 carries the resourceVersion of the copy it was built
\* from): every copy the API server would still accept holds the status
\* the server has.  The Ingress lister's copy, the snapshot the pass
\* listed, and the copy the removal poll got may lag, but then a write
\* from them is refused.
CopiesCurrent ==
    \A i \in Ingresses, r \in Replicas :
        /\ <<"cache", r>> \in current[i] => cache[r][i] = status[i]
        /\ <<"snap", r>> \in current[i] => snap[r][i] = status[i]
        /\ <<"got", r>> \in current[i] => got[r] = status[i]

\* Every change of an Ingress status is a read-modify-write of the status
\* the server holds, although each replica reads it long before it writes
\* (the Ingress list of updateIngressStatus at 1183, the Get of the
\* removal poll at 1307): either a pass writes its address set over
\* exactly the status it compared it with (1201-1210), or a removal takes
\* its own address out of the current status and keeps every address a
\* peer wrote since its Get (1321-1327).
StatusWritesOnCurrent ==
    [][\A i \in Ingresses :
         status'[i] # status[i] =>
            \E r \in Replicas :
               \/ /\ spc[r] = "write" /\ snap[r][i] = status[i]
                  /\ status'[i] = want[r]
               \/ /\ spc[r] = "rupdate" /\ remCur[r] = i
                  /\ status'[i] = status[i] \ {getPodAddress(r)}]_vars

=============================================================================
