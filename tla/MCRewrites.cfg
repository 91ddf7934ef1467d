SPECIFICATION RewritesSpec
CONSTANTS
    Inputs <- MCInputs
    CharsOf <- MCCharsOf
    Afters <- MCAfters
    LookaheadK = 2
    MaxUnits = 14
    WordLength = 4
INVARIANTS
    LanguagePreserved
    BranchFits
    NamesDistinct
    UnitsExact
    LoopsConsume
