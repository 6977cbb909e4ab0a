CONSTANTS
    Exit = Exit
    Torn = Torn
    Patience = 2
    MaxQuestions = 4
SPECIFICATION FairSpec
INVARIANTS
    InStep
    Lag
PROPERTIES
    QuestionReturns
    ExitCompletes
