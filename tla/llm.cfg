SPECIFICATION Spec
CONSTANTS
    Gateways = {g1, g2}
    Namespaces = {n1, n2}
    Models = {m1, m2}
    Secondary = m2
    NoModel = NoModel
    Prompts = {p1, p2, p3}
    Near <- MCNear
    None = None
    Empty = Empty
    Error = Error
    Attempts = 2
    Threshold = 2
    MaxCalls = 2
    p1 = p1
    p2 = p2
    p3 = p3
INVARIANTS
    TypeOK
    AnswersTheRequest
    ProviderSpared
CHECK_DEADLOCK FALSE
