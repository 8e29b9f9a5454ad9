SPECIFICATION Spec
CONSTANTS
    Tab = "tab"
    Quote = "quote"
    Opening = "opening"
    Closing = "closing"
    Nul = "nul"
    Space = "space"
    TAB_SIZE = 2
    SCROLL_MARGIN_S = 1
    SCROLL_MARGIN_TB = 1
    SEARCH_MARGIN_S = 1
    SEARCH_MARGIN_TB = 1
    MAX_SEARCH_BUFFER = 2
    MaxRows = 4
    MaxCols = 5
    Character = {"x", "tab", "quote", "opening", "closing"}
    Content <- Texts
    Typed = {"x", "opening"}
    Searched = {"x", "opening"}
    MaxLines = 10
    MaxKeys = 7
INVARIANTS CursorInText CursorOnScreen CommentsFollow SavedMeansWritten
PROPERTY FindsWhatIsSought
