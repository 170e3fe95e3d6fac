SPECIFICATION Spec
CONSTANTS
    Fields = {f}
    Vals = {good}
    None = None
    Triples = {t1, t2, t3}
    MaxRels = 3
    Failed = Failed
    Dangling = {t1, t2}
    BadVals = {}
    ModelOps <- NoOps
    Reqs = {r1}
    MaxPatches = 3
    MaxCrashes = 0
    f = f
    good = good
    bad = bad
    t1 = t1
    t2 = t2
    t3 = t3
PROPERTIES
    DropsOnlyDangling
