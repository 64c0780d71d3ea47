---------------------- MODULE MCLoadBalancerController ----------------------
(* A small cluster for TLC: one Ingress, two Services (s1 is the default   *)
(* backend), one Pod behind each, two Secrets (t1 is the default TLS one). *)
EXTENDS LoadBalancerController, TLC

CONSTANTS i1, s1, s2, p2, t1, t2

MCIngresses == {i1}
MCServices == {s1, s2}
MCPods == {p2}
MCSecrets == {t1, t2}
MCPodService == (p2 :> s2)

\* Ingress forms: a TLS section names t2, never the default TLS Secret.
MCIngressSpecs == [present : {TRUE}, valid : BOOLEAN, svc : Services,
                   tls : {NoSecret, t2}, rev : {1, 2}]

\* The controller starts on a cluster where every Service, Endpoints, Pod,
\* Secret and the ConfigMap exist; the Ingress is any of its forms.  The
\* mirror changes explore deletions and re-creations from there.
MCInit ==
    /\ Init
    /\ \A i \in Ingresses : ing[i].rev \in {0, 1}
    /\ svc = [s \in Services |-> 1]
    /\ ep = [s \in Services |-> 1]
    /\ pod = [p \in Pods |-> 1]
    /\ sec = [t \in Secrets |-> 1]

MCSpec == MCInit /\ [][Next]_vars /\ Fairness
=============================================================================
