SPECIFICATION ContestSpec
CONSTANTS
    Tokens <- MCTokens
    TokenOf <- MCTokenOf
    Letters = {1, 2, 3}
    Ascii = {1, 2, 3, 4}
    Lower <- MCLower
    Upper <- MCUpper
    Folded <- MCFolded
    WordKeywords = TRUE
    MemoLimit = 2
    Texts <- MCTexts
INVARIANT MemoIsTrue
