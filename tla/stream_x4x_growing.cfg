\* The x4x rule when the input grows while it is encrypted.
SPECIFICATION Spec
CONSTANTS
    e1 = e1  e2 = e2  d1 = d1
    Proc = {e1, d1}
    OpOf <- MCOpOf
    Path = {a, b, c}
    Chunk = 2
    Tools = {"x4x"}
    MaxLen = 4
    MaxFrames = 3
    MaxEvents = 2
    None = None
INVARIANTS NonFinalFramesAreFull
CHECK_DEADLOCK FALSE
