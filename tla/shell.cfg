SPECIFICATION ShellSpec
CONSTANTS
    VGA_WIDTH = 12
    VGA_HEIGHT = 2
    BUF_COUNT = 4
    BUF_SIZE = 8
    MAX_LINE_LENGTH = 4
    HISTORY_SIZE = 3
    MAX_ARGS = 3
    UserName <- User
    Paths <- Directories
    Letters = {"a", " "}
    Outputs <- Programs
    MaxKeys = 7
INVARIANTS LineIsShown HistoryRecalls EditsInBounds
