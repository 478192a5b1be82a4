SPECIFICATION Spec
CONSTANTS
    Members <- MCMembers
    Budget = 5
    Invocations <- MCInvocations
    SpecFiles <- MCSpecFiles
    MaxOverhead = 1
    MaxAttempts = 2
INVARIANTS
    IndexIsEvidence
    ValidOnPinnedSources
    BudgetKept
