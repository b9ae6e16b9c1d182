\* Every command under fair scheduling, with kills, failures and one power
\* failure.  The tool creates the state directory itself, so that after the
\* power failure only the marker may be left.  No symmetry: a liveness property
\* is checked.
SPECIFICATION FairSpec
CONSTANTS
    Proc = {p1, p2}
    s1 = s1  s2 = s2  r1 = r1  r2 = r2  x1 = x1  id1 = id1  id2 = id2
    PadId = {id1}
    PadFile = {s1, r1}
    IdOf <- MCIdOf
    RoleOf <- MCRoleOf
    Restorable = {}
    StateDir = {d1}
    FreshDir = {d1}
    Path = {o1, o2}
    Message = {m1}
    Ops = {"encrypt", "decrypt", "destroy", "info"}
    MaxLoss = 1
    None = None
INVARIANTS OneOutputPerPadFile
PROPERTIES EveryCommandEnds
CHECK_DEADLOCK FALSE
