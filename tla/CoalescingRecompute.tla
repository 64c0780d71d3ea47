------------------------- MODULE CoalescingRecompute -------------------------
(***************************************************************************)
(* What the coalescing work queue and its worker promise (spec 4.1 and 5), *)
(* with the cluster reduced to the configuration it calls for.            *)
(*                                                                         *)
(* A notification that changes the target leaves a recompute pending;     *)
(* pending requests coalesce into one; one recompute runs at a time; a    *)
(* recompute that ends with no request pending applies the current        *)
(* target, one that ends with a request pending may apply anything, since *)
(* another recompute follows.  A change nobody is notified of (drift)     *)
(* is remembered until the next successful recompute.  Once closed, the   *)
(* queue takes no requests but drains the pending one until the process  *)
(* exits.                                                                 *)
(***************************************************************************)
EXTENDS TLAPS

CONSTANTS
    Configs,   \* the configurations a cluster can call for
    NoCfg      \* nothing applied yet

VARIABLES
    target,    \* the configuration the cluster calls for
    pending,   \* a recompute has been requested and not started
    busy,      \* a recompute runs
    closed,    \* the queue has been shut down
    live,      \* the process runs
    applied,   \* the configuration the proxy runs
    result,    \* how the last recompute ended
    drift      \* the target changed without a request since the last success

avars == <<target, pending, busy, closed, live, applied, result, drift>>

Init ==
    /\ target \in Configs
    /\ pending \in BOOLEAN
    /\ busy = FALSE
    /\ closed = FALSE
    /\ live = TRUE
    /\ applied = NoCfg
    /\ result = "none"
    /\ drift = FALSE

\* A notified change: a request may be made for any change, and must be
\* for one that alters the target.
Notify ==
    /\ live /\ ~closed
    /\ target' \in Configs
    /\ pending' \in {pending, TRUE}
    /\ target' # target => pending'
    /\ UNCHANGED <<busy, closed, live, applied, result, drift>>

\* A change no handler is told of.
Drift ==
    /\ live /\ ~closed
    /\ target' \in Configs
    /\ drift' = (drift \/ target' # target)
    /\ UNCHANGED <<pending, busy, closed, live, applied, result>>

\* The worker takes the pending request.
Start ==
    /\ live /\ pending /\ ~busy
    /\ busy' = TRUE
    /\ pending' = FALSE
    /\ UNCHANGED <<target, closed, live, applied, result, drift>>

\* The recompute ends: it fails and applies nothing, or it applies the
\* current target, or anything if a request came in meanwhile.
Finish ==
    /\ live /\ busy
    /\ busy' = FALSE
    /\ \/ /\ result' = "failed"
          /\ UNCHANGED <<applied, drift>>
       \/ /\ result' = "ok"
          /\ drift' = FALSE
          /\ IF pending THEN applied' \in Configs ELSE applied' = target
    /\ UNCHANGED <<target, pending, closed, live>>

Close ==
    /\ live /\ ~closed
    /\ closed' = TRUE
    /\ UNCHANGED <<target, pending, busy, live, applied, result, drift>>

Exit ==
    /\ live /\ closed
    /\ live' = FALSE
    /\ UNCHANGED <<target, pending, busy, closed, applied, result, drift>>

Next == Notify \/ Drift \/ Start \/ Finish \/ Close \/ Exit

Spec == Init /\ [][Next]_avars
          /\ WF_avars(Start) /\ WF_avars(Finish) /\ WF_avars(Exit)

\* The promise: when no recompute runs or is pending after a success, and
\* no change went unnotified, the proxy runs the target.
IdleCurrent ==
    (~busy /\ ~pending /\ result = "ok" /\ ~drift /\ ~closed)
        => applied = target

\* The safety part of Spec.
SafetySpec == Init /\ [][Next]_avars

\* The flags are Boolean.
FlagsOK == {pending, busy, closed, live, drift} \subseteq BOOLEAN

LEMMA FlagsHold == SafetySpec => []FlagsOK
<1>1. Init => FlagsOK
  BY DEF Init, FlagsOK
<1>2. FlagsOK /\ [Next]_avars => FlagsOK'
  BY DEF FlagsOK, Next, Notify, Drift, Start, Finish, Close, Exit, avars
<1> QED
  BY <1>1, <1>2, PTL DEF SafetySpec

\* The promise holds in every state of the abstract recompute: a change that
\* alters the target leaves a request pending or is remembered as drift, and
\* only a recompute with no request pending applies the target.  It says
\* nothing of the controller by itself; RecomputeIdleCurrent carries it to
\* the queue and worker through the refinement.
LEMMA IdleCurrentHolds == SafetySpec => []IdleCurrent
<1>1. Init => IdleCurrent
  BY DEF Init, IdleCurrent
<1>2. FlagsOK /\ IdleCurrent /\ [Next]_avars => IdleCurrent'
  <2> SUFFICES ASSUME FlagsOK, IdleCurrent, [Next]_avars PROVE IdleCurrent'
    OBVIOUS
  <2> USE DEF FlagsOK, IdleCurrent
  <2>1. CASE Notify
    <3>1. CASE pending' = TRUE
      BY <2>1, <3>1 DEF Notify
    <3>2. CASE pending' = pending
      BY <2>1, <3>2 DEF Notify
    <3> QED
      BY <2>1, <3>1, <3>2 DEF Notify
  <2>2. CASE Drift
    BY <2>2 DEF Drift
  <2>3. CASE Start
    BY <2>3 DEF Start
  <2>4. CASE Finish
    BY <2>4 DEF Finish
  <2>5. CASE Close
    BY <2>5 DEF Close
  <2>6. CASE Exit
    BY <2>6 DEF Exit
  <2>7. CASE UNCHANGED avars
    BY <2>7 DEF avars
  <2> QED
    BY <2>1, <2>2, <2>3, <2>4, <2>5, <2>6, <2>7 DEF Next
<1> QED
  BY <1>1, <1>2, FlagsHold, PTL DEF SafetySpec

=============================================================================
