CONSTANTS
    Exit = Exit
    Torn = Torn
    Patience = 2
    MaxQuestions = 2
SPECIFICATION Spec
PROPERTY StopStops
