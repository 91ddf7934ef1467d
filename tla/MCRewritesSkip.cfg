SPECIFICATION RewritesSpec
CONSTANTS
    Inputs <- Unordered
    CharsOf <- MCCharsOf
    Afters <- MCAfters
    LookaheadK = 2
    MaxUnits = 14
    WordLength = 3
INVARIANT SkipsApart
