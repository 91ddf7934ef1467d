SPECIFICATION Spec
CONSTANTS
    Names <- MCNames
    Inputs <- BehindGroup
    TokenClasses <- MCTokenClasses
    DebtBase <- MCDebtBase
    WordLength = 3
INVARIANT NoLeftRecursion
