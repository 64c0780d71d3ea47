----------------------------- MODULE StatusLoop -----------------------------
(***************************************************************************)
(* The status goroutine syncIngress of one controller, with the shutdown  *)
(* path that ends it: Stop closes stopCh, Run shuts the queue down and     *)
(* returns, and main (src/unnamed/part_000, lbc.Run() is its last          *)
(* statement) returns, which ends the process and every goroutine in it.   *)
(* The Ingress status is abstracted to whether this controller's address   *)
(* is in it.                                                               *)
(***************************************************************************)

VARIABLES
    stopped,     \* lbc.shutdown / stopCh closed
    mpc,         \* Run/main: run, return, exited
    spc,         \* syncIngress: update, wait, done
    registered   \* this controller's address is in the Ingress status

vars == <<stopped, mpc, spc, registered>>

TypeOK ==
    /\ stopped \in BOOLEAN
    /\ mpc \in {"run", "return", "exited"}
    /\ spc \in {"update", "wait", "done"}
    /\ registered \in BOOLEAN

Init ==
    /\ stopped = FALSE
    /\ mpc = "run"
    /\ spc = "update"
    /\ registered = FALSE

\* Stop from the /stop endpoint or SIGTERM; a second call returns at once.
Stop ==
    /\ mpc = "run"
    /\ ~stopped
    /\ stopped' = TRUE
    /\ UNCHANGED <<mpc, spc, registered>>

\* Run wakes on stopCh, calls syncQueue.ShutDown() and returns.
RunReturn ==
    /\ mpc = "run"
    /\ stopped
    /\ mpc' = "return"
    /\ UNCHANGED <<stopped, spc, registered>>

\* main returns after lbc.Run(): the process exits.
ProcessExit ==
    /\ mpc = "return"
    /\ mpc' = "exited"
    /\ UNCHANGED <<stopped, spc, registered>>

\* getNodeIPAndUpdateIngress: publish the addresses; updateIngressStatus
\* returns before writing once stopCh is closed.
StatusUpdate ==
    /\ mpc # "exited"
    /\ spc = "update"
    /\ registered' = (registered \/ ~stopped)
    /\ spc' = "wait"
    /\ UNCHANGED <<stopped, mpc>>

\* The jittered timer fires; select may pick it even after stopCh closed.
StatusTimer ==
    /\ mpc # "exited"
    /\ spc = "wait"
    /\ spc' = "update"
    /\ UNCHANGED <<stopped, mpc, registered>>

\* stopCh: removeAddressFromLoadBalancerIngress, then syncIngress returns.
\* Looking up this Pod or its Node, or every UpdateStatus within the 2s
\* poll, may fail, and the address stays.
StatusDeregister ==
    /\ mpc # "exited"
    /\ spc = "wait"
    /\ stopped
    /\ registered' \in {FALSE, registered}
    /\ spc' = "done"
    /\ UNCHANGED <<stopped, mpc>>

\* The process has exited: nothing happens any more.
Terminated ==
    /\ mpc = "exited"
    /\ UNCHANGED vars

Next ==
    \/ Stop \/ RunReturn \/ ProcessExit \/ Terminated
    \/ StatusUpdate \/ StatusTimer \/ StatusDeregister

Spec == Init /\ [][Next]_vars

\* The spec (4.5 and 5): the final de-registration pass is attempted before
\* the process exits, so a controller whose address is in the status does
\* not leave it there without trying to remove it.  main returns as soon as
\* Run returns, without waiting for syncIngress.
DeregisterBeforeExit ==
    (mpc = "exited" /\ registered) => spc = "done"

=============================================================================
