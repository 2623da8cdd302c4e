SPECIFICATION Spec
CONSTANTS
    a = a
    b = b
    c = c
    Heads <- MCHeads
    Answers <- MCAnswers
    NoProject = NoProject
INVARIANTS
    TestedIsProposed
    RecordedSandboxIsTested
PROPERTY
    DecisionIsFinal
