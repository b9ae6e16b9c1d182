\* Two calls of one tool, each generating a set of two keys or reading one,
\* another program that puts two files there, and a power failure.
SPECIFICATION Spec
CONSTANTS
    Proc = {p1, p2}
    Tools = {"cascade", "multicrypt", "otp1-auth", "tf1024", "be"}
    NKeys = 2
    MaxForeign = 2
    MaxLoss = 1
    Good = Good
    Junk = Junk
    None = None
SYMMETRY MCSymmetry
INVARIANTS Inv KeyInUseStays
PROPERTIES KeepsThePromise ReaderGetsWholeKey
CHECK_DEADLOCK FALSE
