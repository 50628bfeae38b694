SPECIFICATION Spec
CONSTANTS
    VirtHeight = 5
    VgaHeight = 2
    Width = 2
    SizeT = 256
    Glyph = {"x", "y", "space"}
    Texts <- Strings
    Cleared <- ClearedLine
    MaxLines = 10
INVARIANTS TypeOK ShowsLog CursorBelowTop DisplayCurrent
CHECK_DEADLOCK FALSE
