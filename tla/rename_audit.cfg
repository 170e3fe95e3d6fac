\* Every part stops at its bounds.
SPECIFICATION Spec
CONSTANTS
    Focuses = {"refactor"}
    o1 = o1
    o2 = o2
    r1 = r1
    r2 = r2
    other = other
    NoCase = NoCase
    Nobody = Nobody
    npc = npc
    place = place
    q1 = q1
    q2 = q2
    spare = spare
    Worlds <- PlainWorlds
INVARIANTS
    RenameStaysClean
CHECK_DEADLOCK FALSE
