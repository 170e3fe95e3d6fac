SPECIFICATION Spec
CONSTANTS
    Objs = {giver, quest}
    Items = {w, l}
    Revs = {v1, v2}
    Needs <- MCNeeds
    RelEnds <- MCRelEnds
    FileOrder <- MCFileOrder
    MaxMerges = 1
    Human = Human
    Absent = Absent
    NoLogic = NoLogic
    ItemType <- MCItemType
    Targets <- MCTargets
    BadLogic = {}
    Reqs = {r1, r2}
    MaxActive = 2
    MaxCrashes = 1
    giver = giver
    quest = quest
    q = q
    w = w
    l = l
    b = b
    p = p
    v1 = v1
    v2 = v2
INVARIANTS
    EveryDraftHasAnAccept
PROPERTIES
    FinalOnceQuiet
    OnlyOvertakenIsLost
    
SYMMETRY MCSymmetry
