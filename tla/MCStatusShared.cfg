SPECIFICATION Spec
CONSTANTS
    r1 = r1
    r2 = r2
    r3 = r3
    i2 = i2
    n1 = n1
    n2 = n2
    a1 = a1
    a2 = a2
    i1 = i1
    NoAddr = NoAddr
    Replicas <- MCReplicas
    Stoppable <- MCReplicas
    Nodes <- MCNodes
    NodeOf <- MCNodeOfShared
    NodeAddresses <- MCNodeAddresses
    Addrs <- MCAddrs
    AllowInternalIP = TRUE
    Ingresses <- MCIngresses
    PollBudget = 2
    MaxFaults = 2
PROPERTY StatusConverges
CHECK_DEADLOCK FALSE
