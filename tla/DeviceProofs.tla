---------------------------- MODULE DeviceProofs ----------------------------
(***************************************************************************)
(* The console's two devices, screen and keyboard.                         *)
(*                                                                         *)
(* The terminal of module VgaTerm stays inside its arrays, keeps the end   *)
(* of what was printed and shows it, for screens of every size.            *)
(*                                                                         *)
(* The keyboard, module Ps2: whatever the codes of the keys, however few   *)
(* bytes it holds and however fast the typist is, the driver returns       *)
(* nothing that was not pressed, nothing twice and nothing out of turn;    *)
(* and at a slow typist's pace it returns everything.  For the first,      *)
(* every byte on its way is traced back to a press: that of its key, for a *)
(* make code, and the last one before the release for a break code.  The   *)
(* bytes are in the order of their presses, and those that could be        *)
(* mistaken for a press that was answered already are of keys that count   *)
(* as down.  For the second, at most one byte is on its way, and acting on *)
(* it makes the driver's state that of the keys.                           *)
(***************************************************************************)
EXTENDS VgaTerm, Ps2, SequenceTheorems, TLAPS

(* Printing starts at the bottom page and never leaves it.                 *)
RowAtBottom == Bottom <= t_row

(* A string under way always ends with the refresh of the display.         *)
EndsInRefresh == text # << >> => text[Len(text)] = "refresh"

(* The inductive invariant. *)
IInv == TypeOK /\ RowAtBottom /\ EndsInRefresh /\ ShowsLog /\ DisplayCurrent
-----------------------------------------------------------------------------
LEMMA Sizes ==
    /\ VirtHeight \in Nat /\ VgaHeight \in Nat \ {0} /\ VgaHeight < VirtHeight
    /\ Width \in Nat \ {0} /\ Bottom \in Nat /\ 1 <= Bottom /\ Bottom < VirtHeight
    /\ Blank \in Line
  BY VgaAssumption DEF Bottom, Blank, Line

(* The rows of a display page that starts at a line paging can reach are   *)
(* rows of the virtual screen.                                             *)
LEMMA WindowTyped ==
    ASSUME TypeOK, NEW from \in 1..Bottom
    PROVE  Window(from) \in [0..(VgaHeight - 1) -> Line]
<1>1. \A y \in 0..(VgaHeight - 1) : from + y \in Row
  BY Sizes DEF Bottom, Row
<1> QED
  BY <1>1 DEF TypeOK, Window

(* Whatever is added to it modulo size_t, the start stays a line paging    *)
(* can reach.                                                              *)
LEMMA NewStartTyped ==
    ASSUME TypeOK, NEW val \in Int
    PROVE  NewStart(val) \in 1..Bottom
<1> DEFINE i == (start + val) % SizeT
<1>1. i \in Nat
  BY VgaAssumption, Sizes DEF TypeOK
<1>2. NewStart(val) = IF i < Bottom + 1 /\ i > 0 THEN i ELSE Bottom
  BY DEF NewStart
<1> HIDE DEF i
<1> QED
  BY <1>1, <1>2, Sizes

(* Printing a character that is not the refresh leaves the refresh to come.*)
LEMMA PrintingText ==
    ASSUME TypeOK, EndsInRefresh, NEW c, Printing(c)
    PROVE  /\ text' \in Seq(Glyph \cup {NL, CR, BS, "refresh"})
           /\ EndsInRefresh'
           /\ c # "refresh" => text' # << >>
<1>1. /\ text \in Seq(Glyph \cup {NL, CR, BS, "refresh"}) /\ text # << >>
      /\ text[1] = c /\ text' = Tail(text)
  BY DEF TypeOK, Printing
<1>2. /\ Len(text) \in Nat /\ Len(text) >= 1 /\ Len(text') = Len(text) - 1
      /\ \A k \in 1..Len(text') : text'[k] = text[k + 1]
      /\ text' \in Seq(Glyph \cup {NL, CR, BS, "refresh"})
  BY <1>1
<1>3. text[Len(text)] = "refresh"
  BY <1>1 DEF EndsInRefresh
<1>4. EndsInRefresh'
  BY <1>2, <1>3 DEF EndsInRefresh
<1>5. ASSUME c # "refresh" PROVE text' # << >>
  <2>1. Len(text') # 0
    BY <1>1, <1>2, <1>3, <1>5
  <2> QED
    BY <2>1, <1>2
<1> QED
  BY <1>2, <1>4, <1>5

(* Moving down, at the last row or above it, keeps the virtual screen the  *)
(* end of the log with one more line.                                      *)
LEMMA DownKeeps ==
    ASSUME Bottom <= t_row, t_row \in Row,
           NEW lines \in [Row -> Line], Down(lines),
           NEW logged \in Seq(Line), logged # << >>,
           \A r \in Row : LET n == Len(logged) + r - t_row
                          IN  lines[r] = IF n \in 1..Len(logged) THEN logged[n] ELSE Blank,
           log' = Append(logged, Blank)
    PROVE  /\ virtual' \in [Row -> Line] /\ t_row' \in Row /\ Bottom <= t_row'
           /\ log' \in Seq(Line) /\ log' # << >>
           /\ ShowsLog'
<1>1. /\ Len(logged) \in Nat /\ Len(logged) >= 1 /\ Len(log') = Len(logged) + 1
      /\ \A n \in 1..Len(logged) : log'[n] = logged[n]
      /\ log'[Len(logged) + 1] = Blank
      /\ log' \in Seq(Line) /\ log' # << >>
  BY Sizes
<1>2. t_row \in Nat /\ t_row < VirtHeight
  BY Sizes DEF Row
<1>3. CASE t_row + 1 = VirtHeight
  <2>1. /\ virtual' = [r \in Row |-> IF r = VirtHeight - 1 THEN Blank ELSE lines[r + 1]]
        /\ t_row' = t_row
    BY <1>3 DEF Down
  <2>2. \A r \in Row : r # VirtHeight - 1 => r + 1 \in Row
    BY Sizes DEF Row
  <2>3. virtual' \in [Row -> Line]
    BY <2>1, <2>2, Sizes
  <2>4. ASSUME NEW r \in Row
        PROVE  virtual'[r] = IF Len(log') + r - t_row' \in 1..Len(log')
                             THEN log'[Len(log') + r - t_row'] ELSE Blank
    <3>1. CASE r = VirtHeight - 1
      BY <3>1, <2>1, <1>1, <1>3, <1>2
    <3>2. CASE r # VirtHeight - 1
      <4>0. /\ virtual'[r] = lines[r + 1] /\ r + 1 \in Row
        BY <3>2, <2>1, <2>2
      <4>1. /\ virtual'[r] = lines[r + 1] /\ r + 1 \in Row
            /\ Len(log') + r - t_row' = Len(logged) + (r + 1) - t_row
            /\ r \in Nat /\ r + 1 < VirtHeight
        BY <4>0, <2>1, <1>1, <1>2, Sizes DEF Row
      <4>2. lines[r + 1] = IF Len(logged) + (r + 1) - t_row \in 1..Len(logged)
                           THEN logged[Len(logged) + (r + 1) - t_row] ELSE Blank
        BY <4>1
      <4>3. Len(logged) + (r + 1) - t_row <= Len(logged)
        BY <4>1, <1>1, <1>2, <1>3
      <4> QED
        BY <4>1, <4>2, <4>3, <1>1, <1>2
    <3> QED
      BY <3>1, <3>2
  <2> QED
    BY <2>1, <2>3, <2>4, <1>1 DEF ShowsLog
<1>4. CASE t_row + 1 # VirtHeight
  <2>1. virtual' = lines /\ t_row' = t_row + 1
    BY <1>4 DEF Down
  <2>2. t_row' \in Row /\ Bottom <= t_row'
    BY <2>1, <1>2, <1>4, Sizes DEF Row
  <2>3. ASSUME NEW r \in Row
        PROVE  virtual'[r] = IF Len(log') + r - t_row' \in 1..Len(log')
                             THEN log'[Len(log') + r - t_row'] ELSE Blank
    <3>1. /\ r \in Int /\ Len(log') + r - t_row' = Len(logged) + r - t_row
          /\ Len(logged) + r - t_row \in Int
      BY <2>1, <1>1, <1>2 DEF Row
    <3>2. lines[r] = IF Len(logged) + r - t_row \in 1..Len(logged)
                     THEN logged[Len(logged) + r - t_row] ELSE Blank
      OBVIOUS
    <3> QED
      BY <2>1, <3>1, <3>2, <1>1
  <2> QED
    BY <2>1, <2>2, <2>3, <1>1 DEF ShowsLog
<1> QED
  BY <1>3, <1>4

-----------------------------------------------------------------------------
LEMMA InitIInv == Init => IInv
<1> SUFFICES ASSUME Init PROVE IInv
  OBVIOUS
<1>1. /\ virtual = [r \in Row |-> Blank] /\ start = Bottom /\ t_row = Bottom /\ t_col = 0
      /\ display = [y \in 0..(VgaHeight - 1) |-> Blank]
      /\ cursor = 0 /\ text = << >> /\ log = <<Blank>>
  BY DEF Init
<1>2. TypeOK
  BY <1>1, Sizes DEF TypeOK, Row, Column
<1>3. ShowsLog
  <2>1. Len(log) = 1 /\ log[1] = Blank
    BY <1>1
  <2>2. ASSUME NEW r \in Row
        PROVE  virtual[r] = IF Len(log) + r - t_row \in 1..Len(log)
                            THEN log[Len(log) + r - t_row] ELSE Blank
    <3>1. virtual[r] = Blank
      BY <1>1
    <3>2. 1 + r - t_row \in 1..1 => 1 + r - t_row = 1
      OBVIOUS
    <3> QED
      BY <2>1, <3>1, <3>2
  <2> QED
    BY <2>2 DEF ShowsLog
<1>4. DisplayCurrent
  <2>1. \A y \in 0..(VgaHeight - 1) : start + y \in Row
    BY <1>1, Sizes DEF Row, Bottom
  <2> QED
    BY <1>1, <2>1 DEF DisplayCurrent, Window
<1> QED
  BY <1>1, <1>2, <1>3, <1>4, Sizes DEF IInv, RowAtBottom, EndsInRefresh

(* '\n', wherever the display was. *)
LEMMA NewLineIInv == ASSUME IInv, NewLine PROVE IInv'
<1>1. /\ Printing(NL) /\ Down(virtual) /\ t_col' = 0 /\ log' = Append(log, Blank)
      /\ cursor' = cursor
      /\ start' = Bottom \/ start' = start
      /\ display' = Window(Bottom) \/ display' = display
  BY DEF NewLine
<1>2. /\ text' \in Seq(Glyph \cup {NL, CR, BS, "refresh"})
      /\ EndsInRefresh' /\ text' # << >>
  BY <1>1, PrintingText DEF IInv, NL
<1>3. /\ virtual' \in [Row -> Line] /\ t_row' \in Row /\ Bottom <= t_row'
      /\ log' \in Seq(Line) /\ log' # << >> /\ ShowsLog'
  BY <1>1, DownKeeps DEF IInv, TypeOK, RowAtBottom, ShowsLog
<1>4. Window(Bottom) \in [0..(VgaHeight - 1) -> Line] /\ 0 \in Column /\ Bottom \in 1..Bottom
  BY WindowTyped, Sizes DEF IInv, Column
<1> QED
  BY <1>1, <1>2, <1>3, <1>4 DEF IInv, TypeOK, RowAtBottom, DisplayCurrent

(* '\r' and '\b' move the column only. *)
LEMMA ColumnIInv ==
    ASSUME IInv, NEW c, c # "refresh", Printing(c), t_col' \in Column,
           UNCHANGED <<virtual, t_row, start, display, cursor, log>>
    PROVE  IInv'
<1>1. /\ text' \in Seq(Glyph \cup {NL, CR, BS, "refresh"})
      /\ EndsInRefresh' /\ text' # << >>
  BY PrintingText DEF IInv
<1> QED
  BY <1>1 DEF IInv, TypeOK, RowAtBottom, DisplayCurrent, ShowsLog

(* A character goes into the same place of the screen and of the log.      *)
LEMMA PutIInv ==
    ASSUME IInv, NEW c \in Glyph, Put(c)
    PROVE  IInv'
<1> DEFINE written == [virtual EXCEPT ![t_row][t_col] = c]
           logged  == [log EXCEPT ![Len(log)][t_col] = c]
<1>1. /\ virtual \in [Row -> Line] /\ t_row \in Row /\ t_col \in Column
      /\ log \in Seq(Line) /\ log # << >> /\ Bottom <= t_row
      /\ Len(log) \in Nat /\ Len(log) >= 1 /\ t_row \in Nat
  BY Sizes DEF IInv, TypeOK, RowAtBottom, Row
<1>2. /\ text' \in Seq(Glyph \cup {NL, CR, BS, "refresh"})
      /\ EndsInRefresh' /\ text' # << >>
  BY PrintingText, VgaAssumption DEF IInv, Put
<1>3. written \in [Row -> Line]
  BY <1>1 DEF Line
<1>4. /\ logged \in Seq(Line) /\ logged # << >> /\ Len(logged) = Len(log)
      /\ \A n \in 1..Len(log) : n # Len(log) => logged[n] = log[n]
      /\ logged[Len(log)] = [log[Len(log)] EXCEPT ![t_col] = c]
  <2> DEFINE line == [log[Len(log)] EXCEPT ![t_col] = c]
  <2>1. Len(log) \in 1..Len(log)
    BY <1>1
  <2>2. log[Len(log)] \in Line
    BY <2>1, <1>1, ElementOfSeq
  <2>3. line \in Line
    BY <2>2, <1>1 DEF Line
  <2>4. logged = [log EXCEPT ![Len(log)] = line]
    OBVIOUS
  <2> HIDE DEF line, logged
  <2>5. /\ logged \in Seq(Line) /\ Len(logged) = Len(log)
        /\ \A n \in 1..Len(log) : logged[n] = IF n = Len(log) THEN line ELSE log[n]
    BY <2>1, <2>3, <2>4, <1>1, ExceptSeq
  <2>6. logged # << >>
    BY <2>5, <1>1
  <2>7. logged[Len(log)] = line
    BY <2>5, <2>1
  <2> QED
    BY <2>5, <2>6, <2>7 DEF line
<1>5. \A r \in Row : LET n == Len(logged) + r - t_row
                     IN  written[r] = IF n \in 1..Len(logged) THEN logged[n] ELSE Blank
  <2>1. ASSUME NEW r \in Row
        PROVE  written[r] = IF Len(log) + r - t_row \in 1..Len(log)
                            THEN logged[Len(log) + r - t_row] ELSE Blank
    <3>1. virtual[r] = IF Len(log) + r - t_row \in 1..Len(log)
                       THEN log[Len(log) + r - t_row] ELSE Blank
      BY DEF IInv, ShowsLog
    <3>2. CASE r = t_row
      <4>1. Len(log) + r - t_row = Len(log) /\ Len(log) \in 1..Len(log)
        BY <3>2, <1>1
      <4>2. virtual[t_row] = log[Len(log)]
        BY <3>1, <3>2, <4>1
      <4>3. written[r] = [virtual[t_row] EXCEPT ![t_col] = c]
        BY <3>2, <1>1
      <4> QED
        BY <4>1, <4>2, <4>3, <1>4
    <3>3. CASE r # t_row
      <4>1. Len(log) + r - t_row # Len(log) /\ written[r] = virtual[r]
        BY <3>3, <1>1 DEF Row
      <4> QED
        BY <4>1, <3>1, <1>4
    <3> QED
      BY <3>2, <3>3
  <2> HIDE DEF written, logged
  <2> QED
    BY <2>1, <1>4
<1>6. start' = start /\ display' = display /\ cursor' = cursor
  BY DEF Put
<1>7. CASE t_col + 1 = Width
  <2>1. Down(written) /\ t_col' = 0 /\ log' = Append(logged, Blank)
    BY <1>7 DEF Put
  <2>2. /\ virtual' \in [Row -> Line] /\ t_row' \in Row /\ Bottom <= t_row'
        /\ log' \in Seq(Line) /\ log' # << >> /\ ShowsLog'
    <3> HIDE DEF written, logged
    <3> QED
      BY <2>1, <1>1, <1>3, <1>4, <1>5, DownKeeps
  <2>3. 0 \in Column
    BY Sizes DEF Column
  <2> QED
    BY <2>1, <2>2, <2>3, <1>2, <1>6 DEF IInv, TypeOK, RowAtBottom, DisplayCurrent
<1>8. CASE t_col + 1 # Width
  <2>1. virtual' = written /\ t_col' = t_col + 1 /\ log' = logged /\ t_row' = t_row
    BY <1>8 DEF Put
  <2>2. t_col' \in Column
    BY <2>1, <1>1, <1>8, Sizes DEF Column
  <2>3. ShowsLog'
    <3> HIDE DEF written, logged
    <3> QED
      BY <2>1, <1>5 DEF ShowsLog
  <2>4. TypeOK'
    <3> HIDE DEF written, logged
    <3> QED
      BY <2>1, <2>2, <1>1, <1>2, <1>3, <1>4, <1>6 DEF IInv, TypeOK
  <2> QED
    BY <2>1, <2>3, <2>4, <1>1, <1>2 DEF IInv, RowAtBottom, DisplayCurrent
<1> QED
  BY <1>7, <1>8

(* The display and the cursor follow. *)
LEMMA RefreshIInv == ASSUME IInv, Refresh PROVE IInv'
<1>1. /\ Printing("refresh") /\ display' = Window(start)
      /\ cursor' = (t_row - start) * Width + t_col
      /\ UNCHANGED <<virtual, t_row, t_col, start, log>>
  BY DEF Refresh
<1>2. text' \in Seq(Glyph \cup {NL, CR, BS, "refresh"}) /\ EndsInRefresh'
  BY <1>1, PrintingText DEF IInv
<1>3. cursor' \in Int
  BY <1>1, Sizes DEF IInv, TypeOK, Row, Column
<1>4. display' \in [0..(VgaHeight - 1) -> Line]
  BY <1>1, WindowTyped DEF IInv, TypeOK
<1>5. DisplayCurrent'
  BY <1>1 DEF DisplayCurrent, Window
<1> QED
  BY <1>1, <1>2, <1>3, <1>4, <1>5 DEF IInv, TypeOK, RowAtBottom, ShowsLog

(* F2 and F3 page through the virtual screen. *)
LEMMA ScrollIInv == ASSUME IInv, NEW val \in Int, Scroll(val) PROVE IInv'
<1>1. /\ start' = NewStart(val)
      /\ display' = Window(NewStart(val))
      /\ UNCHANGED <<virtual, t_row, t_col, cursor, text, log>>
  BY DEF Scroll, Window
<1>2. NewStart(val) \in 1..Bottom
  BY NewStartTyped DEF IInv
<1>3. display' \in [0..(VgaHeight - 1) -> Line]
  BY <1>1, <1>2, WindowTyped DEF IInv
<1>4. DisplayCurrent'
  BY <1>1 DEF DisplayCurrent, Window
<1> QED
  BY <1>1, <1>2, <1>3, <1>4 DEF IInv, TypeOK, RowAtBottom, EndsInRefresh, ShowsLog

(* The refresh is appended to whatever is printed. *)
LEMMA AppendRefresh ==
    ASSUME NEW s \in Seq(Glyph \cup {NL, CR, BS}), text' = Append(s, "refresh")
    PROVE  /\ text' \in Seq(Glyph \cup {NL, CR, BS, "refresh"})
           /\ text' # << >> /\ EndsInRefresh'
<1>1. s \in Seq(Glyph \cup {NL, CR, BS, "refresh"})
  BY SeqMonotonic
<1>2. /\ text' \in Seq(Glyph \cup {NL, CR, BS, "refresh"})
      /\ Len(text') = Len(s) + 1 /\ Len(s) \in Nat
      /\ text'[Len(s) + 1] = "refresh"
  BY <1>1
<1> QED
  BY <1>2 DEF EndsInRefresh

LEMMA ClearIInv == ASSUME IInv, Clear PROVE IInv'
<1>1. /\ start = Bottom /\ virtual' = [r \in Row |-> Blank]
      /\ t_row' = start /\ t_col' = 0 /\ cursor' = 0
      /\ text' = Append(Cleared, "refresh") /\ log' = <<Blank>>
      /\ start' = start /\ display' = display
  BY DEF Clear
<1>2. /\ text' \in Seq(Glyph \cup {NL, CR, BS, "refresh"})
      /\ text' # << >> /\ EndsInRefresh'
  BY <1>1, AppendRefresh, VgaAssumption
<1>3. TypeOK'
  BY <1>1, <1>2, Sizes DEF IInv, TypeOK, Row, Column
<1>4. ShowsLog'
  <2>1. Len(log') = 1 /\ log'[1] = Blank
    BY <1>1
  <2>2. ASSUME NEW r \in Row
        PROVE  virtual'[r] = IF Len(log') + r - t_row' \in 1..Len(log')
                             THEN log'[Len(log') + r - t_row'] ELSE Blank
    <3>1. virtual'[r] = Blank
      BY <1>1
    <3>2. 1 + r - t_row' \in 1..1 => 1 + r - t_row' = 1
      OBVIOUS
    <3> QED
      BY <2>1, <3>1, <3>2
  <2> QED
    BY <2>2 DEF ShowsLog
<1> QED
  BY <1>1, <1>2, <1>3, <1>4, Sizes DEF IInv, RowAtBottom, DisplayCurrent

LEMMA WriteStrIInv == ASSUME IInv, NEW s \in Texts, WriteStr(s) PROVE IInv'
<1>1. /\ text' = Append(s, "refresh")
      /\ UNCHANGED <<virtual, t_row, t_col, start, display, cursor, log>>
  BY DEF WriteStr
<1>2. /\ text' \in Seq(Glyph \cup {NL, CR, BS, "refresh"})
      /\ text' # << >> /\ EndsInRefresh'
  BY <1>1, AppendRefresh, VgaAssumption
<1> QED
  BY <1>1, <1>2 DEF IInv, TypeOK, RowAtBottom, ShowsLog, DisplayCurrent

LEMMA NextIInv == ASSUME IInv, [Next]_vars PROVE IInv'
<1>1. CASE \E s \in Texts : WriteStr(s)
  BY <1>1, WriteStrIInv
<1>2. CASE NewLine
  BY <1>2, NewLineIInv
<1>3. CASE Return
  <2>1. 0 \in Column /\ CR # "refresh"
    BY Sizes DEF Column, CR
  <2> QED
    BY <1>3, <2>1, ColumnIInv DEF Return
<1>4. CASE Back
  <2>1. t_col' \in Column /\ BS # "refresh"
    BY <1>4, Sizes DEF Back, IInv, TypeOK, Column, BS
  <2> QED
    BY <1>4, <2>1, ColumnIInv DEF Back
<1>5. CASE Refresh
  BY <1>5, RefreshIInv
<1>6. CASE \E c \in Glyph : Put(c)
  BY <1>6, PutIInv
<1>7. CASE \E val \in {-2, 2} : Scroll(val)
  BY <1>7, ScrollIInv
<1>8. CASE Clear
  BY <1>8, ClearIInv
<1>9. CASE UNCHANGED vars
  BY <1>9 DEF vars, IInv, TypeOK, RowAtBottom, EndsInRefresh, ShowsLog, DisplayCurrent, Window
<1> QED
  BY <1>1, <1>2, <1>3, <1>4, <1>5, <1>6, <1>7, <1>8, <1>9 DEF Next

LEMMA Inductive == Spec => []IInv
<1>1. IInv /\ [Next]_vars => IInv'
  BY NextIInv
<1> QED
  BY InitIInv, <1>1, PTL DEF Spec
-----------------------------------------------------------------------------
(* Every row and column the terminal indexes its arrays with is in range,  *)
(* for screens of every size, whatever is printed and however the display  *)
(* is paged.                                                               *)
THEOREM TypeCorrect == Spec => []TypeOK
<1>1. IInv => TypeOK
  BY DEF IInv
<1> QED
  BY Inductive, <1>1, PTL

(* The virtual screen always holds the end of what was printed since the   *)
(* last clear: scrolling and wrapping lose, double or swap no line.        *)
THEOREM LogShown == Spec => []ShowsLog
<1>1. IInv => ShowsLog
  BY DEF IInv
<1> QED
  BY Inductive, <1>1, PTL

(* The cursor is in or below the first row shown, so the subtraction in    *)
(* vga_term_update_curse_pos does not wrap around.                         *)
THEOREM CursorInOrBelow == Spec => []CursorBelowTop
<1>1. IInv => CursorBelowTop
  BY Sizes DEF IInv, TypeOK, RowAtBottom, CursorBelowTop, Row
<1> QED
  BY Inductive, <1>1, PTL

(* When a string has been printed or a page turned, the display shows the  *)
(* rows of the virtual screen as they are.                                 *)
THEOREM DisplayFollows == Spec => []DisplayCurrent
<1>1. IInv => DisplayCurrent
  BY DEF IInv
<1> QED
  BY Inductive, <1>1, PTL
-----------------------------------------------------------------------------
(* The keyboard. *)

Bytes == Key \cup { k + Break : k \in Key }
Strokes == [key : Key, shift : BOOLEAN]

Types ==
    /\ hasty \in BOOLEAN /\ fresh \in BOOLEAN /\ shift_down \in BOOLEAN
    /\ held \subseteq Key /\ keys_down \subseteq Key
    /\ port \in Bytes \cup {0}
    /\ fifo \in Seq(Bytes) /\ Len(fifo) <= Fifo
    /\ presses \in Seq(Strokes) /\ typed \in Seq(Strokes)
    /\ held # {} => presses # << >>
    /\ pc \in {"away", "first", "second"}

(* The bytes on their way: the one at the port, which can be read again,   *)
(* and those in the keyboard.                                              *)
Places == 0..Len(fifo)
Byte(i) == IF i = 0 THEN port ELSE fifo[i]

(* from[i] is the press the byte comes from, of[n] the one typed[n] is.    *)
Sources(from) ==
    /\ from \in [Places -> 0..Len(presses)]
    /\ \A i, j \in Places : i < j => from[i] <= from[j]
    /\ \A i \in Places : Byte(i) \in Key =>
          from[i] >= 1 /\ presses[from[i]].key = Byte(i)
    /\ \A i, j \in Places :
          i < j /\ Byte(j) \in Key /\ Byte(i) = Byte(j) + Break => from[i] < from[j]
    /\ \A i \in Places, k \in held : Byte(i) = k + Break => from[i] < Len(presses)

Answers(of) ==
    /\ of \in [1..Len(typed) -> 1..Len(presses)]
    /\ \A n \in 1..Len(typed) : typed[n].key = presses[of[n]].key
    /\ \A m, n \in 1..Len(typed) : m < n => of[m] < of[n]

(* The last press answered. *)
Latest(of) == IF Len(typed) = 0 THEN 0 ELSE of[Len(typed)]

(* No byte is of an earlier press, and the key of that one is down as long *)
(* as it may be sent again.                                                *)
Ahead(from, last) ==
    /\ \A i \in Places :
          /\ last <= from[i]
          /\ Byte(i) \in Key /\ from[i] = last => Byte(i) \in keys_down
    /\ last # 0 /\ last = Len(presses) /\ presses[last].key \in held =>
          presses[last].key \in keys_down

Traced ==
    \E from \in [Places -> 0..Len(presses)], of \in [1..Len(typed) -> 1..Len(presses)] :
        Sources(from) /\ Answers(of) /\ Ahead(from, Latest(of))

(* The driver's state agrees with the keys. *)
Agrees ==
    /\ typed = presses /\ keys_down = held
    /\ shift_down <=> held \cap Shift # {}

(* Reading the byte changes nothing. *)
Idle(byte) ==
    /\ byte \in Key => byte \in keys_down
    /\ byte - Break \notin keys_down
    /\ ShiftAfter(byte) <=> shift_down

(* Reading the byte makes the driver's state agree with the keys. *)
Brings(byte) ==
    /\ ShiftAfter(byte) <=> held \cap Shift # {}
    /\ IF byte \in Key \ keys_down
          THEN /\ presses = Append(typed, [key |-> byte, shift |-> ShiftAfter(byte)])
               /\ held = keys_down \cup {byte}
          ELSE /\ presses = typed
               /\ held = keys_down \ {byte - Break}

Paced ==
    ~hasty =>
        /\ ~(Shift \subseteq held)
        /\ \/ fifo = << >> /\ (fresh \/ pc = "second") /\ Brings(port)
           \/ fifo = << >> /\ ~fresh /\ pc # "second" /\ Agrees /\ Idle(port)
           \/ Len(fifo) = 1 /\ ~fresh /\ Brings(fifo[1]) /\ Idle(port)

KeysIInv == Types /\ Traced /\ Paced
-----------------------------------------------------------------------------
(* A make code is no break code, and both are bytes. *)
LEMMA Codes ==
    /\ \A k \in Key : k \in Int /\ 1 <= k /\ k < Break
    /\ \A b \in Bytes : /\ b \in 1..255 /\ b % Break \in Key
                        /\ b \in Key <=> b < Break
                        /\ b - Break \in Key <=> b >= Break
    /\ \A j, k \in Key : j # k + Break /\ j - Break \notin Key
  <1>1. \A k \in Key : k \in 1..127
    BY Ps2Assumption
  <1>2. ASSUME NEW b \in Bytes
        PROVE  /\ b \in 1..255 /\ b % Break \in Key
               /\ b \in Key <=> b < Break
               /\ b - Break \in Key <=> b >= Break
    <2>1. CASE b \in Key
      <3>1. b \in 1..127
        BY <2>1, <1>1
      <3>2. b % 128 = b
        BY <3>1
      <3>3. b - 128 \notin Key
        BY <1>1, <3>1
      <3> QED BY <2>1, <3>1, <3>2, <3>3 DEF Break
    <2>2. CASE b \notin Key
      <3>1. PICK k \in Key : b = k + Break
        BY <2>2 DEF Bytes
      <3>2. k \in 1..127 /\ b = k + 128
        BY <1>1, <3>1 DEF Break
      <3>3. b % 128 = k
        BY <3>2
      <3>4. b - 128 = k
        BY <3>2
      <3> QED BY <2>2, <3>1, <3>2, <3>3, <3>4 DEF Break
    <2> QED BY <2>1, <2>2
  <1> QED BY <1>1, <1>2 DEF Break

LEMMA Typed == Types => Ps2TypeOK
  <1> SUFFICES ASSUME Types PROVE Ps2TypeOK
    OBVIOUS
  <1>1. port \in 0..255
    BY Codes DEF Types
  <1>2. \A n \in DOMAIN fifo : fifo[n] % Break \in Key
    BY Codes DEF Types
  <1> QED BY <1>1, <1>2 DEF Types, Ps2TypeOK

(* A byte sent is the last in the keyboard, if it is there at all. *)
LEMMA Sent ==
    ASSUME Types, NEW b \in Bytes, Send(b)
    PROVE  /\ fifo' \in Seq(Bytes) /\ Len(fifo') <= Fifo
           /\ \/ fifo' = fifo
              \/ /\ Len(fifo') = Len(fifo) + 1 /\ fifo'[Len(fifo) + 1] = b
                 /\ \A i \in 1..Len(fifo) : fifo'[i] = fifo[i]
  BY Ps2Assumption DEF Types, Send

LEMMA InitTyped == Ps2Init => Types
  <1> SUFFICES ASSUME Ps2Init PROVE Types
    OBVIOUS
  <1>1. port \in Bytes \cup {0}
    BY DEF Ps2Init, Bytes
  <1>2. fifo \in Seq(Bytes) /\ presses \in Seq(Strokes) /\ typed \in Seq(Strokes)
    BY DEF Ps2Init
  <1>3. Len(fifo) <= Fifo
    BY Ps2Assumption DEF Ps2Init
  <1> QED BY <1>1, <1>2, <1>3 DEF Ps2Init, Types

LEMMA NextTyped == Types /\ [Ps2Next]_ps2Vars => Types'
  <1> SUFFICES ASSUME Types, [Ps2Next]_ps2Vars PROVE Types'
    OBVIOUS
  <1> USE DEF Types
  <1>1. ASSUME NEW k \in Key, Press(k) PROVE Types'
    <2>1. k \in Bytes
      BY DEF Bytes
    <2>2. fifo' \in Seq(Bytes) /\ Len(fifo') <= Fifo
      BY <1>1, <2>1, Sent DEF Press
    <2>3. [key |-> k, shift |-> held' \cap Shift # {}] \in Strokes
      BY DEF Strokes
    <2>4. presses' \in Seq(Strokes) /\ presses' # << >>
      BY <1>1, <2>3 DEF Press
    <2>5. hasty' \in BOOLEAN /\ held' \subseteq Key
      BY <1>1 DEF Press
    <2> QED BY <1>1, <2>2, <2>4, <2>5 DEF Press, driver
  <1>2. ASSUME NEW k \in Key, Repeat(k) PROVE Types'
    <2>1. k \in Bytes
      BY DEF Bytes
    <2>2. fifo' \in Seq(Bytes) /\ Len(fifo') <= Fifo
      BY <1>2, <2>1, Sent DEF Repeat
    <2>3. hasty' \in BOOLEAN
      BY <1>2 DEF Repeat
    <2> QED BY <1>2, <2>2, <2>3 DEF Repeat, driver
  <1>3. ASSUME NEW k \in Key, Release(k) PROVE Types'
    <2>1. k + Break \in Bytes
      BY DEF Bytes
    <2>2. fifo' \in Seq(Bytes) /\ Len(fifo') <= Fifo
      BY <1>3, <2>1, Sent DEF Release
    <2>3. hasty' \in BOOLEAN /\ held' \subseteq Key
      BY <1>3 DEF Release
    <2> QED BY <1>3, <2>2, <2>3 DEF Release, driver
  <1>4. CASE Show
    <2>1. fifo # << >> /\ port' = Head(fifo) /\ fifo' = Tail(fifo)
      BY <1>4 DEF Show
    <2>2. port' \in Bytes /\ fifo' \in Seq(Bytes) /\ Len(fifo') <= Fifo
      BY <2>1, Ps2Assumption
    <2> QED BY <1>4, <2>2 DEF Show, typist, driver
  <1>5. CASE Call
    BY <1>5 DEF Call, typist
  <1>6. CASE FirstRead
    BY <1>6 DEF FirstRead, typist
  <1>7. shift_down \in BOOLEAN => ShiftAfter(port) \in BOOLEAN
    BY DEF ShiftAfter
  <1>8. CASE KeyIn
    <2>1. port \in Key
      BY <1>8, Codes DEF KeyIn, Break
    <2>2. shift_down' \in BOOLEAN /\ fresh' \in BOOLEAN
      BY <1>8, <1>7 DEF KeyIn, SecondRead
    <2>3. [key |-> port, shift |-> shift_down'] \in Strokes
      BY <2>1, <2>2 DEF Strokes
    <2>4. typed' \in Seq(Strokes)
      BY <1>8, <2>3 DEF KeyIn
    <2> QED BY <1>8, <2>1, <2>2, <2>4 DEF KeyIn, typist
  <1>9. CASE KeepReading
    <2>1. shift_down' \in BOOLEAN /\ fresh' \in BOOLEAN
      BY <1>9, <1>7 DEF KeepReading, SecondRead
    <2>2. keys_down' \subseteq Key
      BY <1>9 DEF KeepReading
    <2> QED BY <1>9, <2>1, <2>2 DEF KeepReading, typist
  <1>10. CASE UNCHANGED ps2Vars
    BY <1>10 DEF ps2Vars
  <1> QED BY <1>1, <1>2, <1>3, <1>4, <1>5, <1>6, <1>8, <1>9, <1>10
          DEF Ps2Next, Driver, Typist
-----------------------------------------------------------------------------
LEMMA ByteTyped ==
    ASSUME Types, NEW i \in Places
    PROVE  Byte(i) \in Bytes \cup {0} /\ i \in Int /\ 0 <= i /\ i <= Len(fifo)
  <1>1. Len(fifo) \in Nat
    BY DEF Types
  <1>2. CASE i = 0
    BY <1>1, <1>2 DEF Byte, Types, Places
  <1>3. CASE i # 0
    <2>1. i \in 1..Len(fifo)
      BY <1>1, <1>3 DEF Places
    <2> QED BY <1>1, <1>3, <2>1 DEF Byte, Types, Places
  <1> QED BY <1>2, <1>3

LEMMA InitTraced == Ps2Init => Traced
  <1> SUFFICES ASSUME Ps2Init PROVE Traced
    OBVIOUS
  <1> DEFINE from == [i \in Places |-> 0]
             of == [n \in 1..Len(typed) |-> 1]
  <1>1. Len(typed) = 0 /\ Len(presses) = 0 /\ Places = {0} /\ Byte(0) = port
    BY DEF Ps2Init, Places, Byte
  <1>2. from \in [Places -> 0..Len(presses)] /\ of \in [1..Len(typed) -> 1..Len(presses)]
    BY <1>1
  <1>3. port \notin Key
    <2>1. CASE port = 0
      BY <2>1, Codes
    <2>2. ASSUME NEW k \in Key, port = k + Break PROVE port \notin Key
      BY <2>2, Codes
    <2> QED BY <2>1, <2>2 DEF Ps2Init
  <1>4. Sources(from)
    BY <1>1, <1>2, <1>3 DEF Sources, Ps2Init
  <1>5. Answers(of)
    BY <1>1, <1>2 DEF Answers
  <1>6. Ahead(from, Latest(of))
    BY <1>1, <1>3 DEF Ahead, Latest
  <1> QED BY <1>2, <1>4, <1>5, <1>6 DEF Traced

(* What the typist sends comes from the last press.  A key sends its code  *)
(* when it is pressed or held, and the code's break when it is held no     *)
(* more.                                                                   *)
LEMMA SentTraced ==
    ASSUME Types, Traced, NEW b \in Bytes, Send(b),
           port' = port, typed' = typed, keys_down' = keys_down,
           presses' \in Seq(Strokes), Len(presses) <= Len(presses'),
           \A n \in 1..Len(presses) : presses'[n] = presses[n],
           b \in Key => /\ Len(presses') >= 1 /\ presses'[Len(presses')].key = b
                        /\ b \in held \/ Len(presses) < Len(presses'),
           \A k \in held' : /\ k \in held \/ Len(presses) < Len(presses')
                            /\ b # k + Break
    PROVE  Traced'
  <1>1. PICK from \in [Places -> 0..Len(presses)], of \in [1..Len(typed) -> 1..Len(presses)] :
            Sources(from) /\ Answers(of) /\ Ahead(from, Latest(of))
    BY DEF Traced
  <1> DEFINE L == Len(fifo)
             N == Len(presses)
             M == Len(presses')
             T == Len(typed)
  <1>2. L \in Nat /\ N \in Nat /\ M \in Nat /\ T \in Nat /\ N <= M
    BY DEF Types
  <1>3. PICK top : top = L + 1
    OBVIOUS
  <1>4. \/ Places' = Places
        \/ Places' = Places \cup {top} /\ fifo'[top] = b
    BY Sent, <1>2, <1>3 DEF Places
  <1>5. \A i \in Places : Byte(i)' = Byte(i) /\ i \in Int /\ i <= L /\ i >= 0
    <2> TAKE i \in Places
    <2>1. i \in Int /\ 0 <= i /\ i <= L
      BY <1>2 DEF Places
    <2>2. CASE i = 0
      BY <2>1, <2>2 DEF Byte
    <2>3. CASE i # 0
      <3>1. i \in 1..L
        BY <1>2, <2>1, <2>3
      <3>2. fifo'[i] = fifo[i]
        BY <3>1, Sent
      <3> QED BY <2>1, <2>3, <3>2 DEF Byte
    <2> QED BY <2>2, <2>3
  <1>6. Places' # Places => Places' = Places \cup {top} /\ Byte(top)' = b
    BY <1>2, <1>4, <1>3 DEF Byte
  <1>7. \A i \in Places' : i \in Places \/ (i = top /\ Byte(i)' = b)
    BY <1>6
  <1>8. PICK after : after = [i \in Places' |-> IF i \in Places THEN from[i] ELSE M]
    OBVIOUS
  <1>9. /\ \A i \in Places : from[i] \in 0..N /\ from[i] <= M
        /\ \A i \in Places : i \in Places' => after[i] = from[i]
        /\ \A i \in Places' : i \notin Places => after[i] = M
    BY <1>2, <1>8
  <1>10. after \in [Places' -> 0..M]
    BY <1>2, <1>9, <1>8
  <1> HIDE DEF L, N, M, T
  <1>11. Sources(after)'
    <2>1. ASSUME NEW i \in Places', NEW j \in Places', i < j
          PROVE  after[i] <= after[j]
      <3>1. CASE j \in Places
        <4>1. i \in Places
          BY <1>2, <1>5, <1>7, <1>3, <2>1, <3>1
        <4>2. from[i] <= from[j]
          BY <1>1, <2>1, <3>1, <4>1 DEF Sources
        <4> QED BY <1>9, <3>1, <4>1, <4>2
      <3>2. CASE j \notin Places
        BY <1>2, <1>9, <3>2
      <3> QED BY <3>1, <3>2
    <2>2. ASSUME NEW i \in Places', Byte(i)' \in Key
          PROVE  after[i] >= 1 /\ presses'[after[i]].key = Byte(i)'
      <3>1. CASE i \in Places
        <4>1. Byte(i) \in Key /\ Byte(i)' = Byte(i) /\ after[i] = from[i]
          BY <1>5, <1>9, <2>2, <3>1
        <4>2. from[i] >= 1 /\ presses[from[i]].key = Byte(i)
          BY <1>1, <3>1, <4>1 DEF Sources
        <4>3. from[i] \in 1..N
          BY <1>2, <1>9, <3>1, <4>2
        <4>4. presses'[from[i]] = presses[from[i]]
          BY <4>3 DEF N
        <4> QED BY <4>1, <4>2, <4>4
      <3>2. CASE i \notin Places
        <4>1. Byte(i)' = b /\ after[i] = M
          BY <1>7, <1>9, <3>2
        <4> QED BY <2>2, <4>1 DEF M
      <3> QED BY <3>1, <3>2
    <2>3. ASSUME NEW i \in Places', NEW j \in Places', i < j,
                 Byte(j)' \in Key, Byte(i)' = Byte(j)' + Break
          PROVE  after[i] < after[j]
      <3>1. CASE j \in Places
        <4>1. i \in Places
          BY <1>2, <1>5, <1>7, <1>3, <2>3, <3>1
        <4>2. Byte(i)' = Byte(i) /\ Byte(j)' = Byte(j)
          BY <1>5, <3>1, <4>1
        <4>3. from[i] < from[j]
          BY <1>1, <2>3, <3>1, <4>1, <4>2 DEF Sources
        <4> QED BY <1>9, <3>1, <4>1, <4>3
      <3>2. CASE j \notin Places
        <4>1. j = top /\ Byte(j)' = b /\ after[j] = M
          BY <1>7, <1>9, <3>2
        <4>2. i \in Places
          BY <1>2, <1>3, <1>7, <2>3, <4>1
        <4>3. Byte(i) = b + Break /\ b \in Key
          BY <1>5, <2>3, <4>1, <4>2
        <4>4. CASE b \in held
          <5>1. from[i] < N
            BY <1>1, <4>2, <4>3, <4>4 DEF Sources, N
          <5> QED BY <1>2, <1>9, <4>1, <4>2, <5>1
        <4>5. CASE N < M
          BY <1>2, <1>9, <4>1, <4>2, <4>5
        <4> QED BY <4>3, <4>4, <4>5 DEF N, M
      <3> QED BY <3>1, <3>2
    <2>4. ASSUME NEW i \in Places', NEW k \in held', Byte(i)' = k + Break
          PROVE  after[i] < M
      <3>1. i \in Places /\ Byte(i) = k + Break
        BY <1>5, <1>7, <2>4
      <3>2. CASE k \in held
        <4>1. from[i] < N
          BY <1>1, <3>1, <3>2 DEF Sources, N
        <4> QED BY <1>2, <1>9, <3>1, <4>1
      <3>3. CASE N < M
        BY <1>2, <1>9, <3>1, <3>3
      <3> QED BY <3>2, <3>3 DEF N, M
    <2> QED BY <1>10, <2>1, <2>2, <2>3, <2>4 DEF Sources, M
  <1>12. of \in [1..T -> 1..M]
    BY <1>2 DEF T, N, M
  <1>13. Answers(of)'
    <2>1. \A n \in 1..T : of[n] \in 1..N
      BY DEF T, N
    <2>2. \A n \in 1..T : presses'[of[n]] = presses[of[n]]
      BY <2>1 DEF N
    <2>3. \A n \in 1..T : typed[n].key = presses[of[n]].key
      BY <1>1 DEF Answers, T
    <2>4. \A m, n \in 1..T : m < n => of[m] < of[n]
      BY <1>1 DEF Answers, T
    <2> QED BY <1>12, <2>2, <2>3, <2>4 DEF Answers, T, M
  <1>14. Latest(of)' = Latest(of) /\ Latest(of) \in 0..N
    BY <1>2 DEF Latest, T, N
  <1>15. Ahead(after, Latest(of))'
    <2>1. ASSUME NEW i \in Places'
          PROVE  /\ Latest(of) <= after[i]
                 /\ Byte(i)' \in Key /\ after[i] = Latest(of) => Byte(i)' \in keys_down
      <3>1. CASE i \in Places
        <4>1. Byte(i)' = Byte(i) /\ after[i] = from[i]
          BY <1>5, <1>9, <3>1
        <4> QED BY <1>1, <3>1, <4>1 DEF Ahead
      <3>2. CASE i \notin Places
        <4>1. Byte(i)' = b /\ after[i] = M
          BY <1>7, <1>9, <3>2
        <4>2. CASE b \in Key /\ M = Latest(of)
          <5>1. M = N /\ b \in held
            BY <1>2, <1>14, <4>2 DEF N, M
          <5>2. N >= 1 /\ presses[N].key = b
            BY <4>2, <5>1, <1>2 DEF N, M
          <5>3. Latest(of) # 0 /\ Latest(of) = N /\ presses[Latest(of)].key = b
            BY <1>2, <4>2, <5>1, <5>2
          <5>4. b \in keys_down
            BY <1>1, <5>1, <5>3 DEF Ahead, N
          <5> QED BY <1>2, <4>1, <4>2, <5>4
        <4> QED BY <1>2, <1>14, <4>1, <4>2
      <3> QED BY <3>1, <3>2
    <2>2. ASSUME Latest(of) # 0, Latest(of) = M, presses'[Latest(of)].key \in held'
          PROVE  presses'[Latest(of)].key \in keys_down
      <3>1. M = N /\ Latest(of) \in 1..N
        BY <1>2, <1>14, <2>2
      <3>2. presses'[Latest(of)] = presses[Latest(of)]
        BY <3>1 DEF N
      <3>3. presses[Latest(of)].key \in held
        BY <2>2, <3>1, <3>2 DEF M, N
      <3> QED BY <1>1, <2>2, <3>1, <3>2, <3>3 DEF Ahead, N
    <2> QED BY <1>14, <2>1, <2>2 DEF Ahead, M
  <1> QED BY <1>10, <1>11, <1>12, <1>13, <1>14, <1>15 DEF Traced, T, M

LEMMA NextTraced == Types /\ Traced /\ [Ps2Next]_ps2Vars => Traced'
  <1> SUFFICES ASSUME Types, Traced, [Ps2Next]_ps2Vars PROVE Traced'
    OBVIOUS
  <1>0. Types'
    BY NextTyped
  <1>1. ASSUME NEW k \in Key, Press(k) PROVE Traced'
    <2> DEFINE stroke == [key |-> k, shift |-> held' \cap Shift # {}]
    <2>1. k \in Bytes
      BY DEF Bytes
    <2>2. presses' = Append(presses, stroke) /\ stroke \in Strokes /\ stroke.key = k
      BY <1>1 DEF Press, Strokes
    <2>3. /\ presses' \in Seq(Strokes) /\ Len(presses) < Len(presses')
          /\ Len(presses') >= 1 /\ presses'[Len(presses')].key = k
          /\ \A n \in 1..Len(presses) : presses'[n] = presses[n]
      <3> HIDE DEF stroke
      <3> QED BY <2>2 DEF Types
    <2>4. \A j \in held' : k # j + Break
      BY <1>1, Codes DEF Press, Types
    <2>5. Len(presses) <= Len(presses')
      BY <2>3 DEF Types
    <2> QED BY <1>1, <2>1, <2>3, <2>4, <2>5, SentTraced DEF Press, driver
  <1>2. ASSUME NEW k \in Key, Repeat(k) PROVE Traced'
    <2>1. k \in Bytes /\ presses' = presses /\ held' = held /\ k \in held
      BY <1>2 DEF Bytes, Repeat
    <2>2. \A j \in held' : j \in held /\ k # j + Break
      BY <2>1, Codes DEF Types
    <2>3. Len(presses) >= 1
      BY <2>1 DEF Types
    <2> QED BY <1>2, <2>1, <2>2, <2>3, SentTraced DEF Repeat, driver, Types
  <1>3. ASSUME NEW k \in Key, Release(k) PROVE Traced'
    <2>1. k + Break \in Bytes /\ presses' = presses /\ held' = held \ {k}
      BY <1>3 DEF Bytes, Release
    <2>2. \A j \in held' : j \in held /\ k + Break # j + Break
      BY <2>1, Codes DEF Types, Break
    <2>3. k + Break \notin Key
      BY Codes
    <2> QED BY <1>3, <2>1, <2>2, <2>3, SentTraced DEF Release, driver, Types
  <1>4. CASE Show
    <2>1. PICK from \in [Places -> 0..Len(presses)], of \in [1..Len(typed) -> 1..Len(presses)] :
              Sources(from) /\ Answers(of) /\ Ahead(from, Latest(of))
      BY DEF Traced
    <2>2. /\ Len(fifo) \in Nat /\ Len(fifo) >= 1 /\ Len(fifo') = Len(fifo) - 1
          /\ port' = fifo[1] /\ \A i \in 1..Len(fifo') : fifo'[i] = fifo[i + 1]
      BY <1>4 DEF Show, Types
    <2>3. /\ presses' = presses /\ typed' = typed /\ held' = held
          /\ keys_down' = keys_down
      BY <1>4 DEF Show, typist, driver
    <2>4. PICK after : after = [i \in Places' |-> from[i + 1]]
      OBVIOUS
    <2>5. \A i \in Places' : i \in Int /\ i + 1 \in Places /\ after[i] = from[i + 1]
      BY <2>2, <2>4 DEF Places
    <2>6. \A i \in Places' : Byte(i)' = Byte(i + 1)
      <3> TAKE i \in Places'
      <3>1. i \in Nat /\ i <= Len(fifo')
        BY <2>2 DEF Places
      <3>2. CASE i = 0
        BY <2>2, <3>2 DEF Byte
      <3>3. CASE i # 0
        <4>1. i \in 1..Len(fifo') /\ i + 1 # 0
          BY <2>2, <3>1, <3>3
        <4> QED BY <2>2, <3>3, <4>1 DEF Byte
      <3> QED BY <3>2, <3>3
    <2>7. after \in [Places' -> 0..Len(presses)]
      BY <2>4, <2>5
    <2>8. Sources(after)'
      <3>1. \A i, j \in Places' : i < j => after[i] <= after[j]
        BY <2>1, <2>5 DEF Sources
      <3>2. \A i \in Places' : Byte(i)' \in Key =>
                after[i] >= 1 /\ presses[after[i]].key = Byte(i)'
        BY <2>1, <2>5, <2>6 DEF Sources
      <3>3. \A i, j \in Places' :
                i < j /\ Byte(j)' \in Key /\ Byte(i)' = Byte(j)' + Break => after[i] < after[j]
        BY <2>1, <2>5, <2>6 DEF Sources
      <3>4. \A i \in Places', k \in held : Byte(i)' = k + Break => after[i] < Len(presses)
        BY <2>1, <2>5, <2>6 DEF Sources
      <3> QED BY <2>3, <2>7, <3>1, <3>2, <3>3, <3>4 DEF Sources
    <2>9. Answers(of)' /\ Latest(of)' = Latest(of)
      BY <2>1, <2>3 DEF Answers, Latest
    <2>10. Ahead(after, Latest(of))'
      BY <2>1, <2>3, <2>5, <2>6, <2>9 DEF Ahead
    <2> QED BY <2>3, <2>7, <2>8, <2>9, <2>10 DEF Traced
  <1>5. ASSUME UNCHANGED <<fifo, port, presses, held, keys_down, typed>>
        PROVE  Traced'
    <2>1. PICK from \in [Places -> 0..Len(presses)], of \in [1..Len(typed) -> 1..Len(presses)] :
              Sources(from) /\ Answers(of) /\ Ahead(from, Latest(of))
      BY DEF Traced
    <2>2. Places' = Places /\ \A i \in Places : Byte(i)' = Byte(i)
      BY <1>5 DEF Places, Byte
    <2>3. Sources(from)' /\ Answers(of)' /\ Latest(of)' = Latest(of)
      BY <1>5, <2>1, <2>2 DEF Sources, Answers, Latest
    <2>4. Ahead(from, Latest(of))'
      BY <1>5, <2>1, <2>2, <2>3 DEF Ahead
    <2> QED BY <1>5, <2>2, <2>3, <2>4 DEF Traced
  <1>6. CASE Call
    BY <1>5, <1>6 DEF Call, typist
  <1>7. CASE FirstRead
    BY <1>5, <1>7 DEF FirstRead, typist
  <1>8. CASE KeyIn
    <2>1. PICK from \in [Places -> 0..Len(presses)], of \in [1..Len(typed) -> 1..Len(presses)] :
              Sources(from) /\ Answers(of) /\ Ahead(from, Latest(of))
      BY DEF Traced
    <2> DEFINE T == Len(typed)
               N == Len(presses)
    <2>2. /\ presses' = presses /\ held' = held /\ fifo' = fifo /\ port' = port
          /\ port \in Key /\ port \notin keys_down /\ keys_down' = keys_down \cup {port}
      BY <1>8, Codes DEF KeyIn, typist, Types, Break
    <2>3. PICK stroke \in Strokes : typed' = Append(typed, stroke) /\ stroke.key = port
      <3>1. shift_down' \in BOOLEAN
        BY <1>0 DEF Types
      <3> QED BY <1>8, <2>2, <3>1 DEF KeyIn, Strokes
    <2>4. /\ T \in Nat /\ N \in Nat /\ Len(typed') = T + 1
          /\ typed'[T + 1].key = port /\ \A n \in 1..T : typed'[n] = typed[n]
      BY <2>3 DEF Types
    <2>5. Places' = Places /\ \A i \in Places : Byte(i)' = Byte(i)
      BY <2>2 DEF Places, Byte
    <2>6. 0 \in Places /\ Byte(0) = port
      BY DEF Places, Byte, Types
    <2>7. from[0] \in 1..N /\ presses[from[0]].key = port
      BY <2>1, <2>2, <2>4, <2>6 DEF Sources
    <2>8. Latest(of) \in 0..N /\ Latest(of) < from[0]
      <3>1. Latest(of) \in 0..N
        BY <2>4 DEF Latest
      <3>2. Latest(of) <= from[0] /\ Latest(of) # from[0]
        BY <2>1, <2>2, <2>6 DEF Ahead
      <3> QED BY <2>7, <3>1, <3>2
    <2>9. PICK after : after = [n \in 1..Len(typed') |-> IF n <= T THEN of[n] ELSE from[0]]
      OBVIOUS
    <2>10. /\ \A n \in 1..T : after[n] = of[n] /\ of[n] \in 1..N
           /\ after[T + 1] = from[0]
      BY <2>4, <2>9
    <2>11. after \in [1..Len(typed') -> 1..N]
      BY <2>4, <2>7, <2>9, <2>10
    <2> HIDE DEF T, N
    <2>12. Answers(after)'
      <3>1. ASSUME NEW n \in 1..Len(typed')
            PROVE  typed'[n].key = presses[after[n]].key
        <4>1. CASE n \in 1..T
          BY <2>1, <2>4, <2>10, <4>1 DEF Answers, T
        <4>2. CASE n = T + 1
          BY <2>4, <2>7, <2>10, <4>2
        <4> QED BY <2>4, <4>1, <4>2
      <3>2. ASSUME NEW m \in 1..Len(typed'), NEW n \in 1..Len(typed'), m < n
            PROVE  after[m] < after[n]
        <4>1. CASE n \in 1..T
          <5>1. m \in 1..T
            BY <2>4, <3>2, <4>1
          <5> QED BY <2>1, <2>10, <3>2, <4>1, <5>1 DEF Answers, T
        <4>2. CASE n = T + 1
          <5>1. m \in 1..T /\ T >= 1
            BY <2>4, <3>2, <4>2
          <5>2. Latest(of) = of[T]
            BY <5>1 DEF Latest, T
          <5>3. m # T => of[m] < of[T]
            BY <2>1, <2>4, <5>1 DEF Answers, T
          <5>4. of[m] \in Int /\ of[T] \in Int /\ from[0] \in Int
            BY <2>4, <2>7, <2>10, <5>1
          <5>5. of[m] < from[0]
            BY <2>8, <5>2, <5>3, <5>4
          <5> QED BY <2>10, <4>2, <5>1, <5>5
        <4> QED BY <2>4, <4>1, <4>2
      <3> QED BY <2>2, <2>11, <3>1, <3>2 DEF Answers, N
    <2>13. Latest(after)' = from[0]
      BY <2>4, <2>10 DEF Latest
    <2>14. Sources(from)'
      BY <2>1, <2>2, <2>5 DEF Sources
    <2>15. Ahead(from, Latest(after))'
      <3>1. ASSUME NEW i \in Places PROVE from[0] <= from[i]
        <4>1. i = 0 \/ 0 < i
          BY DEF Places
        <4>2. from[0] \in Int
          BY <2>4, <2>7
        <4> QED BY <2>1, <2>6, <4>1, <4>2 DEF Sources
      <3>2. ASSUME NEW i \in Places, Byte(i) \in Key, from[i] = from[0]
            PROVE  Byte(i) = port
        BY <2>1, <2>7, <3>2 DEF Sources
      <3> QED BY <2>2, <2>5, <2>7, <2>13, <3>1, <3>2 DEF Ahead
    <2> QED BY <2>2, <2>5, <2>11, <2>12, <2>14, <2>15 DEF Traced, N
  <1>9. CASE KeepReading
    <2>1. PICK from \in [Places -> 0..Len(presses)], of \in [1..Len(typed) -> 1..Len(presses)] :
              Sources(from) /\ Answers(of) /\ Ahead(from, Latest(of))
      BY DEF Traced
    <2>2. /\ presses' = presses /\ held' = held /\ fifo' = fifo /\ port' = port
          /\ typed' = typed
          /\ keys_down' = IF port >= Break THEN keys_down \ {port - Break} ELSE keys_down
      BY <1>9 DEF KeepReading, typist
    <2>3. CASE keys_down' = keys_down
      BY <1>5, <2>2, <2>3
    <2>4. CASE keys_down' # keys_down
      <3> DEFINE key == port - Break
      <3>1. port >= Break /\ keys_down' = keys_down \ {key}
        BY <2>2, <2>4
      <3>2. port = key + Break
        <4>1. port \in 0..255
          BY Codes DEF Types
        <4> QED BY <4>1 DEF Break
      <3>3. Places' = Places /\ \A i \in Places : Byte(i)' = Byte(i)
        BY <2>2 DEF Places, Byte
      <3>4. 0 \in Places /\ Byte(0) = port
        BY DEF Places, Byte, Types
      <3>5. Len(presses) \in Nat /\ from[0] \in 0..Len(presses)
        BY <3>4 DEF Types
      <3>6. Latest(of) <= from[0] /\ Latest(of) \in 0..Len(presses)
        <4>1. Len(typed) \in Nat /\ Len(presses) \in Nat
          BY DEF Types
        <4>2. Latest(of) \in 0..Len(presses)
          BY <4>1 DEF Latest
        <4> QED BY <2>1, <3>4, <4>2 DEF Ahead
      <3> HIDE DEF key
      <3>7. ASSUME NEW i \in Places, Byte(i) \in Key, from[i] = Latest(of)
            PROVE  Byte(i) \in keys_down'
        <4>1. Byte(i) \in keys_down
          BY <2>1, <3>7 DEF Ahead
        <4>2. ASSUME Byte(i) = key PROVE FALSE
          <5>1. i # 0
            BY <3>2, <3>4, <3>7, <4>2, Codes
          <5>2. 0 < i
            BY <5>1 DEF Places
          <5>3. from[0] < from[i]
            BY <2>1, <3>2, <3>4, <3>7, <4>2, <5>2 DEF Sources
          <5> QED BY <3>5, <3>6, <3>7, <5>3
        <4> QED BY <3>1, <4>1, <4>2
      <3>8. ASSUME Latest(of) # 0, Latest(of) = Len(presses), presses[Latest(of)].key \in held
            PROVE  presses[Latest(of)].key \in keys_down'
        <4>1. presses[Latest(of)].key \in keys_down
          BY <2>1, <3>8 DEF Ahead
        <4>2. ASSUME presses[Latest(of)].key = key PROVE FALSE
          <5>1. from[0] < Len(presses)
            BY <2>1, <3>2, <3>4, <3>8, <4>2 DEF Sources
          <5> QED BY <3>5, <3>6, <3>8, <5>1
        <4> QED BY <3>1, <4>1, <4>2
      <3>9. Sources(from)' /\ Answers(of)' /\ Latest(of)' = Latest(of)
        BY <2>1, <2>2, <3>3 DEF Sources, Answers, Latest
      <3>10. Ahead(from, Latest(of))'
        BY <2>1, <2>2, <3>3, <3>7, <3>8, <3>9 DEF Ahead
      <3> QED BY <2>2, <3>3, <3>9, <3>10 DEF Traced
    <2> QED BY <2>3, <2>4
  <1>10. CASE UNCHANGED ps2Vars
    BY <1>5, <1>10 DEF ps2Vars
  <1> QED BY <1>1, <1>2, <1>3, <1>4, <1>6, <1>7, <1>8, <1>9, <1>10
          DEF Ps2Next, Driver, Typist

(* What was typed is presses of the same keys, one each and in order. *)
LEMMA Faithful == Types /\ Traced => NoPhantom
  <1> SUFFICES ASSUME Types, Traced PROVE NoPhantom
    OBVIOUS
  <1>1. PICK of \in [1..Len(typed) -> 1..Len(presses)] : Answers(of)
    BY DEF Traced
  <1>2. DOMAIN typed = 1..Len(typed) /\ DOMAIN presses = 1..Len(presses)
    BY DEF Types
  <1> QED BY <1>1, <1>2 DEF Answers, NoPhantom
-----------------------------------------------------------------------------
-----------------------------------------------------------------------------
LEMMA SameTruth ==
    ASSUME NEW a \in BOOLEAN, NEW b \in BOOLEAN, a <=> b
    PROVE  a = b
  OBVIOUS

(* The shift keys' codes set the driver's mark, their releases clear it. *)
LEMMA ShiftCodes ==
    ASSUME NEW k \in Key
    PROVE  /\ k \in Shift => ShiftAfter(k) = TRUE /\ ShiftAfter(k + Break) = FALSE
           /\ k \notin Shift => /\ ShiftAfter(k) = shift_down
                                /\ ShiftAfter(k + Break) = shift_down
           /\ ShiftAfter(0) = shift_down
  <1>1. k \in 1..127
    BY Ps2Assumption
  <1>2. k - Break \notin Shift /\ k + Break \notin Shift /\ (k + Break) - Break = k
    BY <1>1 DEF Shift, Break
  <1>3. 0 \notin Shift /\ 0 - Break \notin Shift
    BY DEF Shift, Break
  <1> QED BY <1>2, <1>3 DEF ShiftAfter

(* Codes in terms of the driver's tests. *)
LEMMA Kinds ==
    ASSUME Types
    PROVE  /\ \/ port = 0 \/ port \in Key
              \/ \E k \in Key : port = k + Break
           /\ port \in 1..(Break - 1) <=> port \in Key
           /\ port < Break => port - Break \notin keys_down
           /\ 0 \notin Key
           /\ 0 - Break \notin keys_down
  <1>1. port = 0 \/ port \in Bytes
    BY DEF Types
  <1>2. \/ port = 0 \/ port \in Key
        \/ \E k \in Key : port = k + Break
    BY <1>1 DEF Bytes
  <1>3. 0 \notin Key /\ port \in 0..255
    BY <1>1, Codes
  <1>4. port \in 1..(Break - 1) <=> port \in Key
    BY <1>1, <1>3, Codes DEF Break
  <1>5. \A n \in Int : n < Break => n - Break \notin Key
    BY Codes DEF Break
  <1>6. 0 < Break /\ 0 \in Int /\ port \in Int
    BY <1>3 DEF Break
  <1> QED BY <1>2, <1>3, <1>4, <1>5, <1>6 DEF Types

(* The driver's mark is the same after a second reading. *)
LEMMA ShiftOnce ==
    ASSUME Types, port' = port, shift_down' = ShiftAfter(port)
    PROVE  ShiftAfter(port)' = shift_down'
  <1>1. CASE port \in Shift
    BY <1>1 DEF ShiftAfter
  <1>2. CASE port \notin Shift /\ port - Break \in Shift
    BY <1>2 DEF ShiftAfter
  <1>3. CASE port \notin Shift /\ port - Break \notin Shift
    BY <1>3 DEF ShiftAfter
  <1> QED BY <1>1, <1>2, <1>3

LEMMA IdleBrings == Types /\ Agrees /\ Idle(port) => Brings(port)
  <1> SUFFICES ASSUME Types, Agrees, Idle(port) PROVE Brings(port)
    OBVIOUS
  <1>1. port \notin Key \ keys_down /\ keys_down \ {port - Break} = keys_down
    BY DEF Idle
  <1> QED BY <1>1 DEF Agrees, Idle, Brings

(* A slow typist acts when the driver has nothing left to do. *)
LEMMA Waited ==
    ASSUME Paced, ~hasty, Caught
    PROVE  /\ fifo = << >> /\ ~fresh /\ pc # "second" /\ Agrees /\ Idle(port)
           /\ ~(Shift \subseteq held)
  BY DEF Paced, Caught

LEMMA InitPaced == Ps2Init => Paced
  <1> SUFFICES ASSUME Ps2Init PROVE Paced
    OBVIOUS
  <1>1. Agrees
    BY DEF Ps2Init, Agrees
  <1>2. ShiftAfter(port) <=> shift_down
    <2>1. CASE port = 0
      <3>1. 0 \notin Shift /\ 0 - Break \notin Shift
        BY DEF Shift, Break
      <3> QED BY <2>1, <3>1 DEF ShiftAfter
    <2>2. ASSUME NEW k \in Key, port = k + Break
          PROVE  ShiftAfter(port) <=> shift_down
      <3>1. shift_down = FALSE
        BY DEF Ps2Init
      <3> QED BY <2>2, <3>1, ShiftCodes
    <2> QED BY <2>1, <2>2 DEF Ps2Init
  <1>3. port \notin Key
    <2>1. CASE port = 0
      BY <2>1, Codes
    <2>2. ASSUME NEW k \in Key, port = k + Break PROVE port \notin Key
      BY <2>2, Codes
    <2> QED BY <2>1, <2>2 DEF Ps2Init
  <1>4. Idle(port)
    BY <1>2, <1>3 DEF Ps2Init, Idle
  <1>5. ~(Shift \subseteq held)
    BY DEF Ps2Init, Shift
  <1> QED BY <1>1, <1>4, <1>5 DEF Ps2Init, Paced

(* One byte sent to a driver that has nothing left to do. *)
LEMMA OneSent ==
    ASSUME Types, fifo = << >>, NEW b \in Bytes, Send(b)
    PROVE  Len(fifo') = 1 /\ fifo'[1] = b
  BY Ps2Assumption DEF Types, Send

LEMMA SentPaced ==
    ASSUME Types, fifo = << >>, ~fresh, Idle(port), NEW b \in Bytes, Send(b), Brings(b)',
           ~(Shift \subseteq held'), UNCHANGED <<port, fresh, driver>>
    PROVE  Paced'
  <1>1. Len(fifo') = 1 /\ fifo'[1] = b
    BY OneSent
  <1>2. Idle(port)'
    BY DEF Idle, ShiftAfter, driver
  <1>3. ~fresh'
    OBVIOUS
  <1> QED BY <1>1, <1>2, <1>3 DEF Paced

LEMMA NextPaced == Types /\ Paced /\ [Ps2Next]_ps2Vars => Paced'
  <1> SUFFICES ASSUME Types, Paced, [Ps2Next]_ps2Vars PROVE Paced'
    OBVIOUS
  <1>0. shift_down \in BOOLEAN /\ shift_down' \in BOOLEAN
    BY NextTyped DEF Types
  <1>1. ASSUME NEW k \in Key, Press(k) PROVE Paced'
    <2>1. CASE hasty'
      BY <2>1 DEF Paced
    <2>2. CASE ~hasty'
      <3>1. ~hasty /\ Caught /\ ~(Shift \subseteq held')
        BY <1>1, <2>2 DEF Press
      <3>2. fifo = << >> /\ ~fresh /\ Agrees /\ Idle(port)
        BY <3>1, Waited
      <3>3. k \in Bytes /\ k \notin keys_down /\ held' = keys_down \cup {k}
        BY <1>1, <3>2 DEF Press, Agrees, Bytes
      <3>4. UNCHANGED <<port, fresh, driver>> /\ Send(k)
        BY <1>1 DEF Press
      <3>5. ShiftAfter(k)' = ShiftAfter(k)
        BY <3>4 DEF ShiftAfter, driver
      <3>6. ShiftAfter(k) <=> held' \cap Shift # {}
        <4>1. CASE k \in Shift
          BY <3>3, <4>1, ShiftCodes
        <4>2. CASE k \notin Shift
          <5>1. ShiftAfter(k) = shift_down /\ held' \cap Shift = held \cap Shift
            BY <1>1, <4>2, ShiftCodes DEF Press
          <5> QED BY <3>2, <5>1 DEF Agrees
        <4> QED BY <4>1, <4>2
      <3>7. ShiftAfter(k) \in BOOLEAN
        BY <1>0 DEF ShiftAfter
      <3>8. (held' \cap Shift # {}) = ShiftAfter(k)
        BY <3>6, <3>7, SameTruth
      <3>9. presses' = Append(typed, [key |-> k, shift |-> ShiftAfter(k)])
        BY <1>1, <3>2, <3>8 DEF Press, Agrees
      <3>10. Brings(k)'
        BY <3>3, <3>4, <3>5, <3>6, <3>9 DEF Brings, driver
      <3> QED BY <3>1, <3>2, <3>3, <3>4, <3>10, SentPaced
    <2> QED BY <2>1, <2>2
  <1>2. ASSUME NEW k \in Key, Repeat(k) PROVE Paced'
    <2>1. CASE hasty'
      BY <2>1 DEF Paced
    <2>2. CASE ~hasty'
      <3>1. ~hasty /\ Caught
        BY <1>2, <2>2 DEF Repeat
      <3>2. fifo = << >> /\ ~fresh /\ Agrees /\ Idle(port) /\ ~(Shift \subseteq held)
        BY <3>1, Waited
      <3>3. k \in Bytes /\ k \in held /\ k \in keys_down /\ held' = held /\ presses' = presses
        BY <1>2, <3>2 DEF Repeat, Agrees, Bytes
      <3>4. UNCHANGED <<port, fresh, driver>> /\ Send(k)
        BY <1>2 DEF Repeat
      <3>5. ShiftAfter(k)' = ShiftAfter(k)
        BY <3>4 DEF ShiftAfter, driver
      <3>6. ShiftAfter(k) <=> held \cap Shift # {}
        <4>1. CASE k \in Shift
          BY <3>3, <4>1, ShiftCodes
        <4>2. CASE k \notin Shift
          <5>1. ShiftAfter(k) = shift_down
            BY <4>2, ShiftCodes
          <5> QED BY <3>2, <5>1 DEF Agrees
        <4> QED BY <4>1, <4>2
      <3>7. keys_down \ {k - Break} = keys_down
        BY Codes DEF Types
      <3>8. Brings(k)'
        BY <3>2, <3>3, <3>4, <3>5, <3>6, <3>7 DEF Brings, Agrees, driver
      <3> QED BY <3>2, <3>3, <3>4, <3>8, SentPaced
    <2> QED BY <2>1, <2>2
  <1>3. ASSUME NEW k \in Key, Release(k) PROVE Paced'
    <2>1. CASE hasty'
      BY <2>1 DEF Paced
    <2>2. CASE ~hasty'
      <3> DEFINE b == k + Break
      <3>1. ~hasty /\ Caught
        BY <1>3, <2>2 DEF Release
      <3>2. fifo = << >> /\ ~fresh /\ Agrees /\ Idle(port) /\ ~(Shift \subseteq held)
        BY <3>1, Waited
      <3>3. k \in held /\ held' = held \ {k} /\ presses' = presses
        BY <1>3 DEF Release
      <3>4. UNCHANGED <<port, fresh, driver>> /\ Send(b)
        BY <1>3 DEF Release
      <3>5. b \in Bytes /\ b \notin Key /\ b - Break = k
        BY Codes DEF Bytes, Break
      <3>6. ShiftAfter(b)' = ShiftAfter(b)
        BY <3>4 DEF ShiftAfter, driver
      <3>7. ShiftAfter(b) <=> held' \cap Shift # {}
        <4>1. CASE k \in Shift
          <5>1. ShiftAfter(b) = FALSE
            BY <4>1, ShiftCodes
          <5>2. held' \cap Shift = {}
            BY <3>2, <3>3, <4>1 DEF Shift
          <5> QED BY <5>1, <5>2
        <4>2. CASE k \notin Shift
          <5>1. ShiftAfter(b) = shift_down /\ held' \cap Shift = held \cap Shift
            BY <3>3, <4>2, ShiftCodes
          <5> QED BY <3>2, <5>1 DEF Agrees
        <4> QED BY <4>1, <4>2
      <3> HIDE DEF b
      <3>8. Brings(b)'
        BY <3>2, <3>3, <3>4, <3>5, <3>6, <3>7 DEF Brings, Agrees, driver
      <3> QED BY <3>2, <3>3, <3>4, <3>5, <3>8, SentPaced
    <2> QED BY <2>1, <2>2
  <1>4. CASE Show
    <2>1. CASE hasty
      BY <1>4, <2>1 DEF Show, typist, Paced
    <2>2. CASE ~hasty
      <3>1. fifo # << >> /\ ~fresh /\ fresh'
        BY <1>4 DEF Show
      <3>2. Len(fifo) = 1 /\ Brings(fifo[1]) /\ ~(Shift \subseteq held)
        BY <2>2, <3>1 DEF Paced
      <3>3. port' = fifo[1] /\ fifo' = << >>
        BY <1>4, <3>2 DEF Show, Types
      <3>4. Brings(port)'
        BY <1>4, <3>2, <3>3 DEF Brings, ShiftAfter, Show, driver, typist
      <3>5. held' = held
        BY <1>4 DEF Show, typist
      <3> QED BY <3>1, <3>2, <3>3, <3>4, <3>5 DEF Paced
    <2> QED BY <2>1, <2>2
  <1>5. CASE Call
    <2>1. UNCHANGED <<held, presses, hasty, fifo, port, fresh, keys_down, shift_down, typed>>
      BY <1>5 DEF Call, typist
    <2>2. pc # "second" /\ pc' # "second"
      BY <1>5 DEF Call
    <2>3. Brings(port)' <=> Brings(port)
      BY <2>1 DEF Brings, ShiftAfter
    <2>4. Brings(fifo[1])' <=> Brings(fifo[1])
      BY <2>1 DEF Brings, ShiftAfter
    <2>5. Idle(port)' <=> Idle(port)
      BY <2>1 DEF Idle, ShiftAfter
    <2>6. Agrees' <=> Agrees
      BY <2>1 DEF Agrees
    <2> QED BY <2>1, <2>2, <2>3, <2>4, <2>5, <2>6 DEF Paced
  <1>6. CASE FirstRead
    <2>1. /\ UNCHANGED <<held, presses, hasty, fifo, port, keys_down, shift_down, typed>>
          /\ ~fresh' /\ pc = "first"
          /\ port # 0 => pc' = "second"
          /\ port = 0 => pc' = "first"
      BY <1>6 DEF FirstRead, typist
    <2>2. Brings(port)' <=> Brings(port)
      BY <2>1 DEF Brings, ShiftAfter
    <2>3. Brings(fifo[1])' <=> Brings(fifo[1])
      BY <2>1 DEF Brings, ShiftAfter
    <2>4. Idle(port)' <=> Idle(port)
      BY <2>1 DEF Idle, ShiftAfter
    <2>5. Agrees' <=> Agrees
      BY <2>1 DEF Agrees
    <2>6. ASSUME port = 0, Brings(port) PROVE Agrees /\ Idle(port)
      <3>1. ShiftAfter(port) = shift_down
        <4>1. 0 \notin Shift /\ 0 - Break \notin Shift
          BY DEF Shift, Break
        <4> QED BY <2>6, <4>1 DEF ShiftAfter
      <3>2. port \notin Key /\ port - Break \notin keys_down
        BY <2>6, Kinds
      <3>3. keys_down \ {port - Break} = keys_down
        BY <3>2
      <3> QED BY <2>6, <3>1, <3>2, <3>3 DEF Brings, Agrees, Idle
    <2>7. CASE hasty
      BY <2>1, <2>7 DEF Paced
    <2>8. CASE ~hasty /\ port = 0
      BY <2>1, <2>2, <2>3, <2>4, <2>5, <2>6, <2>8 DEF Paced
    <2>9. CASE ~hasty /\ port # 0
      BY <2>1, <2>2, <2>3, <2>4, <2>9, IdleBrings DEF Paced
    <2> QED BY <2>7, <2>8, <2>9
  <1>7. CASE KeyIn
    <2>1. /\ UNCHANGED <<held, presses, hasty, fifo, port>> /\ ~fresh' /\ pc' = "away"
          /\ pc = "second" /\ port \in Key /\ port \notin keys_down
          /\ shift_down' = ShiftAfter(port) /\ keys_down' = keys_down \cup {port}
          /\ typed' = Append(typed, [key |-> port, shift |-> shift_down'])
      BY <1>7, Kinds DEF KeyIn, SecondRead, typist
    <2>2. CASE hasty
      BY <2>1, <2>2 DEF Paced
    <2>3. CASE ~hasty
      <3>1. fifo = << >> /\ Brings(port) /\ ~(Shift \subseteq held)
        BY <2>1, <2>3 DEF Paced, Idle
      <3>2. Agrees'
        BY <2>1, <3>1 DEF Agrees, Brings
      <3>3. port \in keys_down' /\ port - Break \notin keys_down'
        BY <2>1, Codes DEF Types
      <3>4. Idle(port)'
        BY <2>1, <3>3, ShiftOnce DEF Idle
      <3>5. pc' # "second"
        BY <2>1
      <3> QED BY <2>1, <3>1, <3>2, <3>4, <3>5 DEF Paced
    <2> QED BY <2>2, <2>3
  <1>8. CASE KeepReading
    <2>1. /\ UNCHANGED <<held, presses, hasty, fifo, port, typed>> /\ ~fresh' /\ pc' # "second"
          /\ pc = "second" /\ shift_down' = ShiftAfter(port)
          /\ port \in keys_down \cup {0} \/ port >= Break
      BY <1>8 DEF KeepReading, SecondRead, typist
    <2>2. keys_down' = keys_down \ {port - Break}
      <3>1. port \in 0..255
        BY Codes DEF Types
      <3>2. port < Break => port - Break \notin keys_down
        BY Kinds
      <3>3. port >= Break \/ port < Break
        BY <3>1 DEF Break
      <3> QED BY <1>8, <3>2, <3>3 DEF KeepReading
    <2>3. port \in Key => port \in keys_down
      <3>1. port \in Key => port # 0 /\ ~(port >= Break)
        BY Codes DEF Break
      <3> QED BY <2>1, <3>1
    <2>4. CASE hasty
      BY <2>1, <2>4 DEF Paced
    <2>5. CASE ~hasty /\ Len(fifo) # 1
      <3>1. fifo = << >> /\ Brings(port) /\ ~(Shift \subseteq held)
        BY <2>1, <2>5 DEF Paced
      <3>2. Agrees'
        BY <2>1, <2>2, <2>3, <3>1 DEF Agrees, Brings
      <3>3. port \in Key => port \in keys_down'
        <4>1. port \in Key => port - Break \notin keys_down
          BY Codes DEF Types
        <4> QED BY <2>2, <2>3, <4>1
      <3>4. Idle(port)'
        BY <2>1, <2>2, <3>3, ShiftOnce DEF Idle
      <3> QED BY <2>1, <3>1, <3>2, <3>4 DEF Paced
    <2>6. CASE ~hasty /\ Len(fifo) = 1
      <3>1. Brings(fifo[1]) /\ Idle(port) /\ ~(Shift \subseteq held)
        BY <2>6 DEF Paced
      <3>2. keys_down' = keys_down
        BY <2>2, <3>1 DEF Idle
      <3>3. shift_down' = shift_down
        <4>1. shift_down' <=> shift_down
          BY <2>1, <3>1 DEF Idle
        <4> QED BY <1>0, <4>1, SameTruth
      <3>4. Idle(port)' /\ Brings(fifo[1])'
        BY <2>1, <3>1, <3>2, <3>3 DEF Idle, Brings, ShiftAfter
      <3> QED BY <2>1, <2>6, <3>1, <3>4 DEF Paced
    <2> QED BY <2>4, <2>5, <2>6
  <1>9. CASE UNCHANGED ps2Vars
    BY <1>9 DEF ps2Vars, Paced, Agrees, Idle, Brings, ShiftAfter
  <1> QED BY <1>1, <1>2, <1>3, <1>4, <1>5, <1>6, <1>7, <1>8, <1>9
          DEF Ps2Next, Driver, Typist
-----------------------------------------------------------------------------
(* The state is well-formed, every byte on its way comes from a press, and *)
(* at a slow typist's pace the driver is at most one byte behind.          *)
THEOREM KeysInductive == Ps2Spec => []KeysIInv
  <1>1. Ps2Init => KeysIInv
    BY InitTyped, InitTraced, InitPaced DEF KeysIInv
  <1>2. KeysIInv /\ [Ps2Next]_ps2Vars => KeysIInv'
    BY NextTyped, NextTraced, NextPaced DEF KeysIInv
  <1> QED BY <1>1, <1>2, PTL DEF Ps2Spec

(* ps2_key_in never returns a key that was not pressed, none twice for one *)
(* press and none out of turn, however often it reads the port again, the  *)
(* keys repeat and bytes are lost.                                         *)
THEOREM OnlyWhatWasPressed == Ps2Spec => []KeysFaithful
  <1>1. KeysIInv => KeysFaithful
    BY Typed, Faithful DEF KeysIInv, KeysFaithful
  <1> QED BY <1>1, KeysInductive, PTL

(* At a slow typist's pace ps2_key_in returns every key pressed, with the  *)
(* shift it was meant with, and keys_down and shift_down end up right.     *)
THEOREM NothingMissed == Ps2Spec => []Exact
  <1>1. KeysIInv => Exact
    <2> SUFFICES ASSUME KeysIInv, ~hasty, Caught PROVE Agrees /\ shift_down \in BOOLEAN
      BY SameTruth DEF Exact, Agrees
    <2> QED BY Waited DEF KeysIInv, Types
  <1> QED BY <1>1, KeysInductive, PTL
=============================================================================
