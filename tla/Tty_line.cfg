SPECIFICATION Spec
CONSTANTS
    Char = {"a", "A"}
    Capital <- Table
    BuffLen = 6
    SizeT = 256
    Width = 6
    Prompt = 2
INVARIANTS TypeOK EchoShowsLine
PROPERTY ImplementsEntry
