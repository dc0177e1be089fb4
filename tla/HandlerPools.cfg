SPECIFICATION Spec
CONSTANTS
    Handlers = {h1, h2}
    Requests = {r1, r2}
    Buffers = {b1, b2}
    Payloads <- DecodedPayloads
    MaxBody = 2
    Limit = 0
    ScorerPanics = FALSE
    None = None
    Blank = Blank
    Partial = Partial
    NilLast = NilLast
    ZeroLast = ZeroLast
SYMMETRY Symmetric
INVARIANTS
    TypeOK
    PoolsExclusive
    OwnPayloadScored
    OnlyValidScored
