SPECIFICATION Spec
CONSTANTS
    Word = 20000
    Clock = 400000000
    Instants <- SomeInstants
    Bodies <- SomeBodies
    Threshold = 2
    Normalization <- Maxima
    MCCRisk <- Risks
    MCCSize = 100
    Documents <- SomeDocuments
INVARIANTS
    TypeOK
    ReadsAsWritten
    OnlyWholeAccepted
    VectorAsWritten
    VectorsInRange
    ParserAdvances
PROPERTIES
    StepsShorten
