SPECIFICATION Spec
CONSTANT SocketAtStart = {"absent"}
INVARIANT NotifySocketEphemeral
CHECK_DEADLOCK FALSE
