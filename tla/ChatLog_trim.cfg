CONSTANTS
    NL = NL
    User = User
    Assistant = Assistant
    Words <- MCWords
    Prompts <- MCPrompts
    Replies <- MCReplies
    Capacity = 16
    Reserve = 4
    OutSize = 6
    ContentSize = 3
    Tmp = 6
    Junk = "junk"
SPECIFICATION SocketSpec
INVARIANT
    RoomIsMade
