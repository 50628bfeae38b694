------------------------------ MODULE VgaTerm -------------------------------
(***************************************************************************)
(* The terminal of kernel/arch/i386/vga_console.c: a virtual screen of     *)
(* VirtHeight rows, of which the display shows VgaHeight from              *)
(* virt_term_start_line on.  Strings go to the virtual screen character by *)
(* character; the display and the hardware cursor follow at the end.       *)
(* Colours and the status bar over the display's top row are left out.     *)
(***************************************************************************)
EXTENDS Integers, Sequences

CONSTANTS
    VirtHeight,     \* VIRT_HEIGHT (100)
    VgaHeight,      \* VGA_HEIGHT (25)
    Width,          \* VGA_WIDTH = VIRT_WIDTH (80)
    SizeT,          \* size_t arithmetic is modulo SizeT
    Glyph,          \* printable characters
    Texts,          \* the strings the kernel prints
    Cleared,        \* what it prints after clearing ("Term cleared.\r\n")
    MaxLines        \* bound: lines printed between two clears

NL == "newline"
CR == "return"
BS == "back"
Space == "space"

ASSUME VgaAssumption ==
    /\ VgaHeight \in Nat \ {0} /\ VirtHeight \in Nat /\ VgaHeight < VirtHeight
    /\ Width \in Nat \ {0} /\ SizeT \in Nat /\ VirtHeight + 2 < SizeT
    /\ {NL, CR, BS, "refresh"} \cap Glyph = {} /\ Space \in Glyph
    /\ Texts \cup {Cleared} \subseteq Seq(Glyph \cup {NL, CR, BS})

VARIABLES
    virtual,    \* virtual_term_buff, row by row
    t_row,
    t_col,
    start,      \* virt_term_start_line
    display,    \* term_buff as vga_term_write_pysical last left it
    cursor,     \* the hardware cursor, as an offset into the display
    text,       \* what is left of the string being printed
    log         \* history: every line since the last clear, the current last

vars == <<virtual, t_row, t_col, start, display, cursor, text, log>>

Row     == 0..(VirtHeight - 1)
Column  == 0..(Width - 1)
Line    == [Column -> Glyph]
Blank   == [x \in Column |-> Space]
Bottom  == VirtHeight - VgaHeight

Window(from) == [y \in 0..(VgaHeight - 1) |-> virtual[from + y]]
-----------------------------------------------------------------------------
(* vga_term_init, before it prints. *)
Init ==
    /\ virtual = [r \in Row |-> Blank]
    /\ start = Bottom /\ t_row = Bottom /\ t_col = 0
    /\ display = [y \in 0..(VgaHeight - 1) |-> Blank]
    /\ cursor = 0
    /\ text = << >>
    /\ log = <<Blank>>

(* vga_term_write_str: the string, then the cursor and the display. *)
WriteStr(s) ==
    /\ text = << >>
    /\ Len(log) + Len(s) <= MaxLines
    /\ text' = Append(s, "refresh")
    /\ UNCHANGED <<virtual, t_row, t_col, start, display, cursor, log>>

Printing(c) == text # << >> /\ Head(text) = c /\ text' = Tail(text)

(* Variant: the screen scrolls, the row is not taken back up. *)
DownTwice(lines) ==
    /\ t_row' = (t_row + 1) % VirtHeight
    /\ virtual' = IF t_row + 1 = VirtHeight
                  THEN [r \in Row |-> IF r = VirtHeight - 1 THEN Blank ELSE lines[r + 1]]
                  ELSE lines

(* t_row++ and, past the last row, scroll_virtual_term. *)
Down(lines) ==
    IF t_row + 1 = VirtHeight
    THEN /\ virtual' = [r \in Row |-> IF r = VirtHeight - 1 THEN Blank ELSE lines[r + 1]]
         /\ UNCHANGED t_row
    ELSE /\ virtual' = lines
         /\ t_row' = t_row + 1

(* '\n' also brings a scrolled display back to the bottom. *)
NewLine ==
    /\ Printing(NL)
    /\ IF start # Bottom
       THEN start' = Bottom /\ display' = Window(Bottom)
       ELSE UNCHANGED <<start, display>>
    /\ Down(virtual)
    /\ t_col' = 0
    /\ log' = Append(log, Blank)
    /\ UNCHANGED cursor

Return ==
    /\ Printing(CR)
    /\ t_col' = 0
    /\ UNCHANGED <<virtual, t_row, start, display, cursor, log>>

(* Variant: the column is not compared with 0. *)
BackUnchecked ==
    /\ Printing(BS)
    /\ t_col' = t_col - 1
    /\ UNCHANGED <<virtual, t_row, start, display, cursor, log>>

Back ==
    /\ Printing(BS)
    /\ t_col' = IF t_col > 0 THEN t_col - 1 ELSE 0
    /\ UNCHANGED <<virtual, t_row, start, display, cursor, log>>

(* vga_term_putc_at, and the next row after the last column. *)
Put(c) ==
    /\ Printing(c)
    /\ LET written == [virtual EXCEPT ![t_row][t_col] = c]
           logged  == [log EXCEPT ![Len(log)][t_col] = c]
       IN  IF t_col + 1 = Width
           THEN /\ Down(written)
                /\ t_col' = 0
                /\ log' = Append(logged, Blank)
           ELSE /\ virtual' = written
                /\ t_col' = t_col + 1
                /\ log' = logged
                /\ UNCHANGED t_row
    /\ UNCHANGED <<start, display, cursor>>

(* vga_term_update_curse_pos, vga_term_write_pysical. *)
Refresh ==
    /\ Printing("refresh")
    /\ cursor' = (t_row - start) * Width + t_col
    /\ display' = Window(start)
    /\ UNCHANGED <<virtual, t_row, t_col, start, log>>

(* vga_term_pos(val), for the -2 and 2 of the F2 and F3 keys: where that   *)
(* is no line of the virtual screen it goes back to the bottom.            *)
NewStart(val) ==
    LET i == (start + val) % SizeT
    IN  IF i < Bottom + 1 /\ i > 0 THEN i ELSE Bottom

(* Variant: the display is left to the next string. *)
ScrollUndrawn(val) ==
    /\ text = << >>
    /\ start' = NewStart(val)
    /\ UNCHANGED <<virtual, t_row, t_col, display, cursor, text, log>>

Scroll(val) ==
    /\ text = << >>
    /\ start' = NewStart(val)
    /\ display' = [y \in 0..(VgaHeight - 1) |-> virtual[NewStart(val) + y]]
    /\ UNCHANGED <<virtual, t_row, t_col, cursor, text, log>>

(* Variant: printing goes on in the first row of the virtual screen. *)
ClearToTop ==
    /\ text = << >>
    /\ start = Bottom
    /\ virtual' = [r \in Row |-> Blank]
    /\ t_row' = 0 /\ t_col' = 0
    /\ cursor' = 0
    /\ text' = Append(Cleared, "refresh")
    /\ log' = <<Blank>>
    /\ UNCHANGED <<start, display>>

(* vga_term_clear and the line it prints, as the console calls it: after a *)
(* newline, so never on a scrolled display.                                *)
Clear ==
    /\ text = << >>
    /\ start = Bottom
    /\ virtual' = [r \in Row |-> Blank]
    /\ t_row' = start /\ t_col' = 0
    /\ cursor' = 0
    /\ text' = Append(Cleared, "refresh")
    /\ log' = <<Blank>>
    /\ UNCHANGED <<start, display>>
-----------------------------------------------------------------------------
Next ==
    \/ \E s \in Texts : WriteStr(s)
    \/ NewLine \/ Return \/ Back \/ Refresh
    \/ \E c \in Glyph : Put(c)
    \/ \E val \in {-2, 2} : Scroll(val)
    \/ Clear

Spec == Init /\ [][Next]_vars
-----------------------------------------------------------------------------
(* Types; every row and column the code indexes with is inside the array.  *)
TypeOK ==
    /\ virtual \in [Row -> Line]
    /\ t_row \in Row /\ t_col \in Column
    /\ start \in 1..Bottom
    /\ display \in [0..(VgaHeight - 1) -> Line]
    /\ cursor \in Int
    /\ text \in Seq(Glyph \cup {NL, CR, BS, "refresh"})
    /\ log \in Seq(Line) /\ log # << >>

(* The virtual screen is the end of everything printed since the last      *)
(* clear: no line is lost, doubled or out of order while it scrolls.       *)
ShowsLog ==
    \A r \in Row :
        LET n == Len(log) + r - t_row
        IN  virtual[r] = IF n \in 1..Len(log) THEN log[n] ELSE Blank

(* The row the cursor is in is never above the first row shown, so         *)
(* t_row - virt_term_start_line does not wrap around.                      *)
CursorBelowTop == start <= t_row

(* Between two strings the display shows the rows it is scrolled to, as    *)
(* they are now.                                                           *)
DisplayCurrent == text = << >> => display = Window(start)
=============================================================================
