\* One encryption and two commands over a receiver pad and its copy and the
\* receiver pad of another pair, with an envelope that may be damaged at any
\* moment.
SPECIFICATION Spec
CONSTANTS
    Proc = {p1, p2, p3}
    s1 = s1  s2 = s2  r1 = r1  r2 = r2  x1 = x1  id1 = id1  id2 = id2
    PadId = {id1, id2}
    PadFile = {s1, r1, r2, x1}
    IdOf <- MCIdOf
    RoleOf <- MCRoleOf
    Restorable = {r2}
    StateDir = {d1}
    FreshDir = {}
    Path = {o1, o2}
    Message = {m1}
    Ops = {"encrypt", "decrypt"}
    MaxLoss = 0
    None = None
SYMMETRY MCSymmetry
INVARIANTS PlaintextIsAuthentic NoBurnWithoutEnvelope
CHECK_DEADLOCK FALSE
