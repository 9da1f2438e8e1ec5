SPECIFICATION Spec
CONSTANTS
    GB_DEFAULT_GAP_SIZE = 2
    Chars <- MCChars
    Blank = " "
    Comment = "#"
    Bang = "!"
    AliasWord = "s"
    AliasLine <- MCAliasLine
    NbHist = 2
    Bounds <- MCBounds
INVARIANTS BufferStaysInMemory ArrowsStartOnTheList HistoryIsSound
PROPERTIES KeysDoWhatTheySay
CHECK_DEADLOCK FALSE
