SPECIFICATION Spec
CONSTANT SocketAtStart = {"absent"}
INVARIANT SocketOnlyWhileRunning
CHECK_DEADLOCK FALSE
