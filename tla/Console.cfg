SPECIFICATION Spec
CONSTANTS
    Word = 1024
    Letters <- MCLetters
    MaxLen = 3
    Lines <- MCLines
    Size = 9
    Stack = 18
    Frame = 10
INVARIANTS WdirNamed HistorySound LsAgrees ArraysHold
INVARIANTS LibraryNumbers LibraryStrings LibraryPrints
PROPERTIES UpUndoesDown
CHECK_DEADLOCK FALSE
