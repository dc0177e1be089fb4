SPECIFICATION FairSpec
CONSTANTS
    Handlers = {h1, h2}
    Requests = {r1, r2}
    Buffers = {b1, b2}
    Payloads <- OnePayload
    MaxBody = 2
    Limit = 1
    ScorerPanics = TRUE
    None = None
    Blank = Blank
    Partial = Partial
    NilLast = NilLast
    ZeroLast = ZeroLast
PROPERTIES
    EveryRequestReturns
