-------------------------- MODULE MCStatusReplicas --------------------------
(* Replicas and one Ingress.       n1 lists an InternalIP, an empty        *)
(* ExternalIP and then its ExternalIP a1; n2 only an InternalIP, used      *)
(* because --allow-internal-ip is set.                                     *)
EXTENDS StatusReplicas, TLC

CONSTANTS r1, r2, r3, n1, n2, a1, a2, i1, i2

MCReplicas == {r1, r2}

\* Three replicas, r1 and r2 on n1 and r3 on n2.
MCReplicas3 == {r1, r2, r3}
MCNodeOf3 == (r1 :> n1) @@ (r2 :> n1) @@ (r3 :> n2)
MCNodes == {n1, n2}
MCAddrs == {a1, a2}
MCIngresses == {i1}
MCIngresses2 == {i1, i2}

MCNodeAddresses ==
    (n1 :> << [type |-> "InternalIP", address |-> a2],
              [type |-> "ExternalIP", address |-> ""],
              [type |-> "ExternalIP", address |-> a1] >>)
 @@ (n2 :> << [type |-> "InternalIP", address |-> a2] >>)

\* Each replica on a Node of its own.
MCNodeOfApart == (r1 :> n1) @@ (r2 :> n2)

\* Both replicas on n1.
MCNodeOfShared == (r1 :> n1) @@ (r2 :> n1)
=============================================================================
