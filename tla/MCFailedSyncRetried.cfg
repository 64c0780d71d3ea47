CONSTANTS
    i1 = i1
    s1 = s1
    s2 = s2
    p2 = p2
    t1 = t1
    t2 = t2
    NoSecret = NoSecret
    NoConfig = NoConfig
    Ingresses <- MCIngresses
    Services <- MCServices
    Pods <- MCPods
    Secrets <- MCSecrets
    PodService <- MCPodService
    IngressSpecs <- MCIngressSpecs
    DefaultSvc = s1
    DefaultTLSSecret = t1
    HasConfigMap = TRUE
    ReloadBurst = 1
    MaxChanges = 1
    MaxFailures = 1

SPECIFICATION MCSpec
PROPERTY FailedSyncRetried
