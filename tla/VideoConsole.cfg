CONSTANTS
    Row = 10
    Rows = 3
    HalfWindow = 68
    Digits = 2
    Lengths = {0, 1, 4, 5}
SPECIFICATION Spec
INVARIANTS
    TypeOK
    
PROPERTY
    OutputComesBack
