SPECIFICATION Spec
CONSTANTS
    Inputs <- MCInputs
    ClassSets <- MCClassSets
    Depth = 12
    Covers <- MCCovers
    ClassHeads = {"#W"}
    MaxK = 3
    Texts <- MCTexts
INVARIANTS
    FirstIsExact
    FollowIsExact
    PairsReallyFollow
    EveryWordChosen
    CutOnlyWhereApart
    AcceptsOnlyWords
    ReadsWhatIsTold
    EntersOnce
