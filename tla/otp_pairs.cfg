\* Two commands with any choice of names, an intruder, one power failure.
SPECIFICATION Spec
CONSTANTS
    Proc = {p1, p2}
    a = a  b = b  c = c  d1 = d1  d2 = d2
    Path = {a, b, c}
    Dir = {d1, d2}
    DirOf <- MCDirOf
    MaxLoss = 1
SYMMETRY MCSymmetry
INVARIANTS SenderHasReceiver ErrorNamesOrphans SuccessIsAPair
CHECK_DEADLOCK FALSE
