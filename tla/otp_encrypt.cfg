\* Two commands over a pad and its copy, with one power
\* failure.
SPECIFICATION Spec
CONSTANTS
    Proc = {p1, p2}
    s1 = s1  s2 = s2  r1 = r1  r2 = r2  x1 = x1  id1 = id1  id2 = id2
    PadId = {id1}
    PadFile = {s1, s2}
    IdOf <- MCIdOf
    RoleOf <- MCRoleOf
    Restorable = {s2}
    StateDir = {d1}
    FreshDir = {}
    Path = {o1, o2}
    Message = {m1, m2}
    Ops = {"encrypt", "destroy", "info"}
    MaxLoss = 1
    None = None
SYMMETRY MCSymmetry
INVARIANTS SingleUse ReservedBeforeReleased ErrorMeansUnpublished
PROPERTIES NeverOverwrites ReservationIsForever FreshIsHonest KeepsPromise
CHECK_DEADLOCK FALSE
