------------------------------ MODULE TtyLine -------------------------------
(***************************************************************************)
(* tty_get_user_input of kernel/arch/i386/tty.c: a line typed into a       *)
(* buffer and echoed behind the prompt.  An action is one turn of its loop,*)
(* with the i++ the loop ends in.                                          *)
(*                                                                         *)
(* The row of the screen is modelled from what vga_console.c does with the *)
(* characters the editor echoes.                                           *)
(***************************************************************************)
EXTENDS Integers, Sequences

CONSTANTS
    Char,       \* characters with a key of their own
    Capital,    \* what each is with shift, as in the editor's table
    BuffLen,    \* buff_len
    SizeT,      \* size_t arithmetic is modulo SizeT
    Width,      \* columns of a row
    Prompt      \* the column the prompt ends in

NUL    == "nul"
Blank  == "blank"

ASSUME TtyAssumption ==
    /\ NUL \notin Char
    /\ Capital \in [Char -> Char]
    /\ BuffLen \in Nat \ {0, 1} /\ SizeT \in Nat /\ BuffLen + 1 < SizeT
    /\ Width \in Nat /\ Prompt \in 0..(Width - 1)

Key    == Char \cup {"enter", "backspace", "F2", "F3", "other"}
Index  == 0..(BuffLen - 1)

VARIABLES
    buff,       \* the caller's buffer
    i,          \* where the next character goes
    reading,    \* the call is under way
    screen,     \* the characters on the screen, counted from column 0
    pos,        \* the cursor, counted the same way
    longest     \* history: the most characters the line has had

vars == <<buff, i, reading, screen, pos, longest>>

Cells == 0..(Width + BuffLen)

Init ==
    /\ buff = [n \in Index |-> NUL] /\ i = 0 /\ reading = TRUE
    /\ screen = [x \in Cells |-> Blank] /\ pos = Prompt /\ longest = 0

(* Variant: the loop goes on for the byte the NUL needs. *)
NextToEnd(n, b) ==
    /\ i' = (n + 1) % SizeT
    /\ reading' = (i' < BuffLen)
    /\ buff' = IF reading' THEN b ELSE [b EXCEPT ![BuffLen - 1] = NUL]
    /\ longest' = IF i' > longest THEN i' ELSE longest

(* "i++" and the loop's condition; a buffer that is full is ended.         *)
Next_i(n, b) ==
    /\ i' = (n + 1) % SizeT
    /\ reading' = (i' < BuffLen - 1)
    /\ buff' = IF reading' THEN b ELSE [b EXCEPT ![BuffLen - 1] = NUL]
    /\ longest' = IF i' > longest THEN i' ELSE longest

(* i -= 2, before the i++. *)
TakenBack == (i - 2) % SizeT

(* Variant: no i--. *)
KeptForgotten == i

(* i--, before the i++. *)
Kept == (i - 1) % SizeT

Shifted(c, shift) == IF shift THEN Capital[c] ELSE c

Character(c, shift) ==
    /\ reading
    /\ Next_i(i, [buff EXCEPT ![i] = Shifted(c, shift)])
    /\ screen' = [screen EXCEPT ![pos] = Shifted(c, shift)]
    /\ pos' = pos + 1

(* '\b' stops at the first column of the row. *)
LeftOf(x) == IF x % Width # 0 THEN x - 1 ELSE x

(* Variant: the echo is '\b' alone. *)
BackspaceUnwiped ==
    /\ reading /\ i > 0
    /\ Next_i(TakenBack, buff)
    /\ pos' = LeftOf(pos)
    /\ UNCHANGED screen

(* The echo is "\b \b". *)
Backspace ==
    /\ reading /\ i > 0
    /\ Next_i(TakenBack, buff)
    /\ screen' = [screen EXCEPT ![LeftOf(pos)] = Blank]
    /\ pos' = LeftOf(LeftOf(pos) + 1)

Enter ==
    /\ reading
    /\ buff' = [buff EXCEPT ![i] = NUL]
    /\ reading' = FALSE
    /\ UNCHANGED <<i, screen, pos, longest>>

(* Backspace at the beginning, paging with F2 and F3, any other key.       *)
Ignored(k) ==
    /\ reading
    /\ k \in {"F2", "F3", "other"} \/ (k = "backspace" /\ i = 0)
    /\ Next_i(Kept, buff)
    /\ UNCHANGED <<screen, pos>>

(* The console's next prompt, with the buffer cleared. *)
Again ==
    /\ ~reading
    /\ buff' = [n \in Index |-> NUL] /\ i' = 0 /\ reading' = TRUE
    /\ screen' = [x \in Cells |-> Blank] /\ pos' = Prompt /\ longest' = 0
-----------------------------------------------------------------------------
Next ==
    \/ \E c \in Char, shift \in BOOLEAN : Character(c, shift)
    \/ Backspace \/ Enter \/ Again
    \/ \E k \in Key : Ignored(k)

Spec == Init /\ [][Next]_vars
-----------------------------------------------------------------------------
(* Types; the index of the buffer stays in it however it was stepped.      *)
TypeOK ==
    /\ buff \in [Index -> Char \cup {NUL}]
    /\ i \in Index /\ reading \in BOOLEAN
    /\ screen \in [Cells -> Char \cup {Blank}] /\ pos \in Nat
    /\ longest \in Index

(* As long as the line has fitted its row, the screen shows behind the     *)
(* prompt what the buffer holds, and the cursor is behind it.              *)
EchoShowsLine ==
    Prompt + longest < Width =>
        /\ pos = Prompt + i
        /\ \A n \in Index : n < i => screen[Prompt + n] = buff[n]
        /\ \A x \in Cells : x >= pos => screen[x] = Blank

(* A reader of the string sees the characters before the first NUL.        *)
Text == LET n == IF reading THEN i
                 ELSE CHOOSE m \in Index :
                        buff[m] = NUL /\ \A l \in 0..(m - 1) : buff[l] # NUL
        IN  [m \in 1..n |-> buff[m - 1]]

(* The editor keeps its promise: the string a caller sees is the line as   *)
(* typed and taken back, whatever keys came between.                       *)
Entry == INSTANCE LineEntry WITH line <- Text, entered <- ~reading, MaxLen <- BuffLen - 1

ImplementsEntry == Entry!Spec
=============================================================================
