SPECIFICATION Spec
CONSTANTS
    Asked <- MCAsked
    Given <- MCGiven
    Inputs <- MCInputs
    MaxCodePoint = 9
    LeadLo = 2
    LeadHi = 3
    TrailLo = 4
    MaxUnit = 5
    PerLead = 2
INVARIANTS
    AtomsApart
    AtomsExact
    ReadsAsWritten
    ReachIsWhatItTakes
PROPERTY Answers
