\* Two calls and one event, or one call and two events, around one payload, one
\* key and one sidecar.
SPECIFICATION Spec
CONSTANTS
    File = File
    Key = Key
    Tag = Tag
    Proc = {p1, p2}
    MaxLoad = 3
    None = None
SYMMETRY MCSymmetry
INVARIANTS Inv VerdictIsTrue TagIsOfOneMoment
PROPERTIES ReplacesOnlyTheInspected GivenFilesStay
CHECK_DEADLOCK FALSE
