SPECIFICATION Spec
CONSTANTS
    Fields = {f}
    Vals = {good, bad}
    None = None
    Triples = {t1, t2}
    MaxRels = 2
    Failed = Failed
    Dangling = {t1}
    BadVals = {bad}
    ModelOps <- SetOps
    Reqs = {r1}
    MaxPatches = 2
    MaxCrashes = 2
    f = f
    good = good
    bad = bad
    t1 = t1
    t2 = t2
    t3 = t3
INVARIANTS
    TypeOK
    UndoableSimple
    AppliedOnce
PROPERTIES
    ApplyIsClean
