\* Two calls of one tool, each asked for anything it can do, and two events
\* around them: changes of the file, its names or the key, a damaged staged
\* output, a power failure.  otp2's renames may report an error late.
SPECIFICATION Spec
CONSTANTS
    Proc = {p1, p2}
    Tools = {"otp1", "otp2"}
    Late = {"otp2"}
    MaxEvents = 2
    None = None
SYMMETRY MCSymmetry
INVARIANTS NeverTorn AnswersHold VerifiedUnderThisKey
PROPERTIES LandsTheImage OnlyLateChangesAreLost KeepsThePromise
CHECK_DEADLOCK FALSE
