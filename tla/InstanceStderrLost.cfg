SPECIFICATION Spec
CONSTANT MaxLines = 3
INVARIANT StderrAlwaysCaptured
CHECK_DEADLOCK FALSE
