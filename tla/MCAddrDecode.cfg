SPECIFICATION Spec
CONSTANT LastAddress = 1100
INVARIANT TagIdentifiesLine
CHECK_DEADLOCK FALSE
