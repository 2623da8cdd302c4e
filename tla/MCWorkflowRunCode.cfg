SPECIFICATION Spec
CONSTANTS
    RepairLimit = 1
    AssistLimit = 1
    ModelLimit = 2
INVARIANT
    LastBuildFailurePreserved
