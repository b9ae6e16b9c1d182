\* ezcrypt: two commands, two steps of other programs or failing storage, a power failure.
SPECIFICATION Spec
CONSTANTS
    Proc = {p1, p2}
    Text = {t1, t2}
    Orig = Orig
    Other = Other
    Empty = Empty
    Bad = Bad
    Mixed = Mixed
    None = None
    MaxMeddling = 2
    MaxLoss = 1
SYMMETRY MCSymmetry
INVARIANTS Inv
PROPERTIES NeverNeither AnswersHold KeepsThePromise
CHECK_DEADLOCK FALSE
