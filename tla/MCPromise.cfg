SPECIFICATION Spec
CONSTANTS
    cycle = cycle
    object = object
    Plain <- MCPlain
    Thenables <- MCThenables
    CycleError = cycle
    MaxPromises = 3
    MaxCells = 4
    MaxThens = 2
    MaxDepth = 2
INVARIANTS
    PromiseTypeOK
    OneCustodian
    ReactionInOnePlace
    DerivedFollows
    JobCarriesOutcome
    RegistrationOrder
PROPERTIES
    SettledForever
