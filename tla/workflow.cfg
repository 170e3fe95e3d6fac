\* Every part stops at its bounds.
SPECIFICATION Spec
CONSTANTS
    Focuses = {"cases", "overlapping cases", "collab", "refactor", "agent", "session", "drafts", "worldgen", "expressions", "quests", "release", "lore", "intake", "extraction", "edits", "repair"}
    o1 = o1
    o2 = o2
    r1 = r1
    r2 = r2
    other = other
    NoCase = NoCase
    Nobody = Nobody
    npc = npc
    place = place
    q1 = q1
    q2 = q2
    spare = spare
    Worlds <- AllWorlds
INVARIANTS
    TypeOK
    TrailExplainsStatus
    LedgerKeepsItsWord
    RenameIsSafe
    PromptTellsAll
    ReportAccounts
    PassIsEarned
    DraftCloses
    TextIsKept
    ReportsAreTrue
    ReleaseIsSound
    AnswersHold
    IntakeHolds
    DraftTellsAll
    PlanHolds
PROPERTIES
    CasesKeepTheirWord
    RestoreIsExact
    EditsAreSeen
SYMMETRY MCSymmetry
CHECK_DEADLOCK FALSE
