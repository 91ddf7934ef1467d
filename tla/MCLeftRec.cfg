SPECIFICATION Spec
CONSTANTS
    Names <- MCNames
    Inputs <- MCInputs
    TokenClasses <- MCTokenClasses
    DebtBase <- MCDebtBase
    WordLength = 3
INVARIANTS
    LanguagePreserved PaullInvariant DirectRecursionRemoved LeadAcyclic
    SourcesMirror BlameIsAuthored LimitHolds
PROPERTY Progress
