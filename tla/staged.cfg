\* Each tool on each kind of file system: two calls and one event, or one call
\* and two events.  An event is an edit of the input, a change at the
\* destination or of a temporary name, a signal or a power failure.
SPECIFICATION Spec
CONSTANTS
    Proc = {p1, p2}
    Tools = {"secure", "best", "filecrypt", "cascade", "multicrypt", "x2", "x3x", "algos", "be", "tf1024"}
    Late = {"filecrypt"}
    Exchanged = {"filecrypt"}
    MaxLoad = 3
    None = None
SYMMETRY MCSymmetry
INVARIANTS Inv SignalStops OneStateOfTheInput NamesAreWhole
PROPERTIES KeepsThePromise
CHECK_DEADLOCK FALSE
