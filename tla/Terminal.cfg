SPECIFICATION FairSpec
CONSTANTS
    KEYBOARD_BUFFER_SIZE = 3
    Modifiers = {"lshift", "rshift"}
    CharKeys = {"a", "bs", "nl"}
    Ascii <- MCAscii
    Shifted <- MCShifted
    Capital <- MCShifted
    NoChar = NoChar
    MaxDown = 1
    VGA_COLS = 3
    VGA_ROWS = 2
    TabStop = 2
    Newline = "nl"
    Return = "cr"
    Tab = "tab"
    Backspace = "bs"
    Space = " "
    MAX_LEN = 3
    Printable = {"a", "A"}
    Output = {"a", "nl", "tab", "cr", "bs"}
    ClearKey = "A"
INVARIANTS
    TypeOK
    CursorOnScreen
    LineOnScreen
PROPERTIES
    ImplementsQueue
    TypedIsRead
CHECK_DEADLOCK TRUE
