----------------------------- MODULE LineEntry ------------------------------
(***************************************************************************)
(* What a line editor promises: characters go to the end of the line and   *)
(* come off it, and the line is handed over when it is entered or full.    *)
(***************************************************************************)
EXTENDS Integers, Sequences

CONSTANTS Char, MaxLen

VARIABLES line, entered

vars == <<line, entered>>

Init == line = << >> /\ entered = FALSE

Type(c) ==
    /\ ~entered
    /\ line' = Append(line, c)
    /\ entered' = (Len(line') = MaxLen)

Erase ==
    /\ ~entered
    /\ line # << >>
    /\ line' = SubSeq(line, 1, Len(line) - 1)
    /\ UNCHANGED entered

Enter == ~entered /\ entered' = TRUE /\ UNCHANGED line

Again == entered /\ line' = << >> /\ entered' = FALSE

Next == (\E c \in Char : Type(c)) \/ Erase \/ Enter \/ Again

Spec == Init /\ [][Next]_vars
=============================================================================
