CONSTANTS
    Bytes <- MCBytes
    NL = "n"
    Marker <- MCMarker
    Slack = 1
    ReadSize = 2
    Capacity = 7
    Lines <- MCLines
    Answers <- MCAnswers
    ErrorText <- MCErrorText
    Cut = "cut"
    MaxQuestions = 2
SPECIFICATION FairSpec
INVARIANTS
    StreamHeld
    InStep
    StuckOnBlankLine
PROPERTY
    QuestionEnds
