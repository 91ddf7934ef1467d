SPECIFICATION Spec
CONSTANTS
    Bodies <- SmallBodies
    StartBodies <- SmallStartBodies
    WordLength = 3
INVARIANTS
    LanguagePreserved
    LiftedNamesStand
