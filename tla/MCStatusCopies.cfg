CONSTANTS
    r1 = r1
    r2 = r2
    r3 = r3
    n1 = n1
    n2 = n2
    a1 = a1
    a2 = a2
    i1 = i1
    i2 = i2
    NoAddr = NoAddr
    Replicas <- MCReplicas
    Stoppable <- MCReplicas
    Nodes <- MCNodes
    NodeOf <- MCNodeOfApart
    NodeAddresses <- MCNodeAddresses
    Addrs <- MCAddrs
    Ingresses <- MCIngresses
    AllowInternalIP = TRUE
    PollBudget = 2
    MaxFaults = 2
SPECIFICATION Spec
INVARIANT CopiesCurrent
PROPERTY StatusWritesOnCurrent
CHECK_DEADLOCK FALSE
