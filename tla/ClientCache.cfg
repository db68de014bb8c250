SPECIFICATION Spec
CONSTANTS
    Plans <- ClientPlans
    MaxVersion <- MCMaxVersion
INVARIANTS
    TypeOK
    OwnChangeShown
PROPERTIES
    ShownNeverGoesBack
    MissedOnlyUnseen
    ChangeResolves
    ScreenSettles
CHECK_DEADLOCK FALSE
