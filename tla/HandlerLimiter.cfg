SPECIFICATION Spec
CONSTANTS
    Handlers = {h1, h2, h3}
    Requests = {r1, r2, r3}
    Buffers = {b1}
    Payloads <- LimiterPayloads
    MaxBody = 2
    Limit = 1
    ScorerPanics = TRUE
    None = None
    Blank = Blank
    Partial = Partial
    NilLast = NilLast
    ZeroLast = ZeroLast
SYMMETRY Symmetric
INVARIANTS
    LimiterSound
    NoIdleSlot
PROPERTIES
    NoBarging
    ImplementsService
