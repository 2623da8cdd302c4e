SPECIFICATION FairSpec
CONSTANTS
    RepairLimit = 2
    AssistLimit = 1
    ModelLimit = 2
INVARIANTS
    SuccessIsVerified
    BaselineNeverStandsIn
    BudgetsHold
    AdvanceAlwaysLegal
    VerdictHasReason
    CompletedIsDurable
    SealedUnlessWriteFailed
PROPERTIES
    VerdictFrozen
    RefinesOutcome
    Termination
