SPECIFICATION Ps2Spec
CONSTANTS
    Key <- Shifts
    Fifo = 2
    MaxPresses = 3
INVARIANTS KeysFaithful Exact
PROPERTY Answered
