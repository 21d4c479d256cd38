SPECIFICATION Spec
CONSTANT MaxPieces = 2
INVARIANT BrokenBodyIsReported
CHECK_DEADLOCK FALSE
