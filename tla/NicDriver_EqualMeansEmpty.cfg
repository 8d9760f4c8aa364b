CONSTANT
    N = 8
SPECIFICATION Spec
CHECK_DEADLOCK FALSE
INVARIANT
    EqualMeansEmpty
