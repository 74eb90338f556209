SPECIFICATION Spec
CONSTANTS
    MAX_CMD_LEN = 6
    MAX_ARGS = 3
    NUL = "NUL"
    Printable = {"c", "l", " "}
    Space = " "
    Tab = "tab"
    Enter = "enter"
    Backspace = "backspace"
    CtrlC = "ctrl-c"
    Control = {"tab"}
    Cat <- MCCat
    Ls <- MCLs
    Halting <- MCHalting
    Quiet <- MCQuiet
    PathOf <- MCPathOf
    Root <- MCRoot
    FileFds = {3, 4}
    EntryIds = {0, 1}
    Size <- MCSize
    MaxKeys = 6
INVARIANTS
    TypeOK
    ArgumentsAreTyped
    FilesGivenBack
CHECK_DEADLOCK FALSE
