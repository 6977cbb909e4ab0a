SPECIFICATION Spec
INVARIANT TerminalKept
INVARIANT InputAndAnswers
PROPERTY WaitsEnd
CONSTANTS
  MaxKeys = 3
  MaxCommands = 2
  Words = {"exit", "ls", ">", "<", "bad"}
  MaxWords = 3
  MaxStrays = 1
  People = {"p", "q"}
  Names = {"a", "b"}
  Passwords = {"x", "y"}
  Odd = "a:b"
  Before = "a"
  MaxTyped = 4
  MaxLines = 4
  MaxAnswer = 2
  UpRoom = 4
  DownRoom = 2
  ReadSize = 2
  FgetsSize = 3
  Exit = Exit
  TornText = TornText
  MaxRounds = 3
CHECK_DEADLOCK FALSE
