SPECIFICATION Spec
INVARIANT DeregisterBeforeExit
