SPECIFICATION Spec
CONSTANT SocketAtStart = {"absent", "foreign"}
INVARIANTS TypeOK ReadyMeansReachable NoRunnerLeftBehind NotifySocketCleaned
PROPERTIES ForeignSocketUntouched CreateReturns WaiterTerminates ImplementsContract ImplementsLifecycle
CHECK_DEADLOCK FALSE
