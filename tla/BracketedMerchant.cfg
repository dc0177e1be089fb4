SPECIFICATION Spec
CONSTANTS
    Word = 20000
    Clock = 400000000
    Instants <- SomeInstants
    Bodies <- Bracketed
    Threshold = 2
    Normalization <- Maxima
    MCCRisk <- Risks
    MCCSize = 100
    Documents <- NoDocuments
INVARIANTS
    ParserAdvances
