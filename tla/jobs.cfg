SPECIFICATION Spec
CONSTANTS
    Jobs = {j1, j2, j3}
    Readers = {r1}
    MaxJobs = 1
    MaxEmits = 1
INVARIANTS
    TypeOK
    StreamIsPrefix
    OutcomeBeforeEvent
    StreamComplete
    NoLostWakeup
PROPERTIES
    EveryJobEnds
    EveryStreamEnds
CHECK_DEADLOCK FALSE
