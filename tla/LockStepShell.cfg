CONSTANTS
    Exit = Exit
    Torn = Torn
    MaxQuestions = 4
    MaxCrashes = 2
SPECIFICATION FairSpec
\* a shell whose helper is gone waits for ever
CHECK_DEADLOCK FALSE
INVARIANTS
    InStep
    OneTurn
PROPERTIES
    EveryQuestionAnswered
    ExitCompletes
