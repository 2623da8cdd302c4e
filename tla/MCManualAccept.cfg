SPECIFICATION Spec
CONSTANTS
    a = a
    b = b
    c = c
    Heads <- MCHeads
    Answers <- MCAnswers
    NoProject = NoProject
PROPERTY
    AcceptedIsReviewed
