SPECIFICATION Spec
CONSTANTS
    Objs = {giver, quest}
    Items = {q, w, l, b, p}
    Revs = {1, 2}
    Needs <- MCNeeds
    RelEnds <- MCRelEnds
    FileOrder <- MCFileOrder
    MaxMerges = 2
    Human = Human
    Absent = Absent
    NoLogic = NoLogic
    ItemType <- MCItemType
    Targets <- MCTargets
    BadLogic = {}
    Reqs = {r1}
    MaxActive = 1
    MaxCrashes = 0
    giver = giver
    quest = quest
    q = q
    w = w
    l = l
    b = b
    p = p
    v1 = v1
    v2 = v2
INVARIANTS
    CanonShowsPayload
PROPERTIES
    LedgerSpec
