\* Both ways of reading ahead: two encryptions, whose containers damage can
\* mix, and a decryption; one event: the input changes its length, a container
\* is damaged, or somebody takes a name.
SPECIFICATION Spec
CONSTANTS
    e1 = e1  e2 = e2  d1 = d1
    Proc = {e1, e2, d1}
    OpOf <- MCOpOf
    Path = {a, b, c}
    Chunk = 2
    Tools = {"x4x", "e-tool"}
    MaxLen = 3
    MaxFrames = 3
    MaxEvents = 1
    None = None
SYMMETRY MCSymmetry
INVARIANTS OnlyWholePlaintext IntactOpens
CHECK_DEADLOCK FALSE
