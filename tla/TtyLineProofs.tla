---------------------------- MODULE TtyLineProofs ---------------------------
(***************************************************************************)
(* The line editor of module TtyLine stays in its buffer, shows what it    *)
(* holds and implements an ideal line editor, for buffers, rows and        *)
(* keyboards of every size.                                                *)
(***************************************************************************)
EXTENDS TtyLine, SequenceTheorems, TLAPS

(* While keys are read there is room for one more character and the end;   *)
(* what was typed is characters, and a line that was handed over ends      *)
(* where its last character was put.                                       *)
LineInBuffer ==
    /\ reading => i < BuffLen - 1
    /\ i <= longest
    /\ \A n \in Index : n < i => buff[n] # NUL
    /\ ~reading => buff[i] = NUL

(* EchoShowsLine of any screen, cursor, buffer, index and longest line.    *)
Echo(scr, p, b, n, most) ==
    Prompt + most < Width =>
        /\ p = Prompt + n
        /\ \A k \in Index : k < n => scr[Prompt + k] = b[k]
        /\ \A x \in Cells : x >= p => scr[x] = Blank

(* The inductive invariant. *)
IInv == TypeOK /\ LineInBuffer /\ EchoShowsLine
-----------------------------------------------------------------------------
LEMMA Sizes ==
    /\ BuffLen \in Nat \ {0, 1} /\ SizeT \in Nat \ {0, 1} /\ BuffLen + 1 < SizeT
    /\ Width \in Nat \ {0} /\ Prompt \in Nat /\ Prompt < Width
    /\ Capital \in [Char -> Char] /\ NUL \notin Char
  BY TtyAssumption

(* An index stepped back and forth modulo size_t, through 0 - 1 too, comes *)
(* out where it would without the modulus.                                 *)
LEMMA SmallModulo == ASSUME NEW a \in 0..(SizeT - 1) PROVE a % SizeT = a
  BY Sizes

LEMMA MinusOne == (-1) % SizeT = SizeT - 1
  BY Sizes

LEMMA WholeModulo == SizeT % SizeT = 0
  BY Sizes

LEMMA SteppedOn == ASSUME NEW n \in Index PROVE (n + 1) % SizeT = n + 1
<1>1. n + 1 \in 0..(SizeT - 1)
  BY Sizes DEF Index
<1> QED
  BY <1>1, SmallModulo

LEMMA SteppedBack ==
    ASSUME NEW n \in -1..(BuffLen - 1) PROVE ((n % SizeT) + 1) % SizeT = n + 1
<1>1. CASE n = -1
  <2>1. (n % SizeT) + 1 = SizeT
    BY <1>1, MinusOne, Sizes
  <2> QED
    BY <2>1, <1>1, WholeModulo
<1>2. CASE n # -1
  <2>1. n \in 0..(SizeT - 1) /\ n \in Index
    BY <1>2, Sizes DEF Index
  <2> QED
    BY <2>1, SmallModulo, SteppedOn
<1> QED
  BY <1>1, <1>2

(* The cursor's column decides whether '\b' moves it. *)
LEMMA LeftOfTyped == ASSUME NEW x \in Nat PROVE LeftOf(x) \in Nat
<1>1. 0 % Width = 0
  BY Sizes
<1> QED
  BY <1>1 DEF LeftOf

LEMMA LeftOfInRow ==
    ASSUME NEW x \in 1..(Width - 1) PROVE LeftOf(x) = x - 1
<1>1. x % Width = x
  BY Sizes
<1> QED
  BY <1>1 DEF LeftOf
-----------------------------------------------------------------------------
(* A turn of the loop that ends with the index at m and the buffer b.      *)
LEMMA TurnKeeps ==
    ASSUME IInv, reading,
           NEW n, NEW m \in Index, (n + 1) % SizeT = m,
           NEW b \in [Index -> Char \cup {NUL}], Next_i(n, b),
           \A k \in Index : k < m => b[k] # NUL
    PROVE  /\ buff' \in [Index -> Char \cup {NUL}] /\ i' = m
           /\ reading' = (m < BuffLen - 1)
           /\ longest' \in Index /\ longest <= longest'
           /\ LineInBuffer'
           /\ \A k \in Index : k < m => buff'[k] = b[k]
<1>1. i' = m /\ reading' = (m < BuffLen - 1)
  BY DEF Next_i
<1>2. longest \in Index /\ longest' = IF m > longest THEN m ELSE longest
  BY <1>1 DEF Next_i, IInv, TypeOK
<1>3. longest' \in Index /\ longest <= longest' /\ m <= longest'
  BY <1>2, Sizes DEF Index
<1>4. CASE reading'
  <2>1. buff' = b
    BY <1>4 DEF Next_i
  <2> QED
    BY <2>1, <1>1, <1>3, <1>4 DEF LineInBuffer
<1>5. CASE ~reading'
  <2>0. ~(m < BuffLen - 1)
    BY <1>1, <1>5
  <2>1. m = BuffLen - 1
    BY <2>0, Sizes DEF Index
  <2>2. buff' = [b EXCEPT ![BuffLen - 1] = NUL]
    BY <1>5 DEF Next_i
  <2>3. /\ buff' \in [Index -> Char \cup {NUL}] /\ buff'[m] = NUL
        /\ \A k \in Index : k < m => buff'[k] = b[k]
    BY <2>1, <2>2, Sizes DEF Index
  <2> QED
    BY <2>3, <1>1, <1>3, <1>5 DEF LineInBuffer
<1> QED
  BY <1>4, <1>5, <1>1, <1>3
-----------------------------------------------------------------------------
LEMMA InitIInv == Init => IInv
  BY Sizes DEF Init, IInv, TypeOK, LineInBuffer, EchoShowsLine, Index, Cells

(* The new character is the only one that is different. *)
LEMMA CharacterIs ==
    ASSUME IInv, NEW c \in Char, NEW shift \in BOOLEAN, Character(c, shift)
    PROVE  /\ i + 1 \in Index /\ i' = i + 1 /\ reading' = (i + 1 < BuffLen - 1)
           /\ Shifted(c, shift) \in Char
           /\ buff' \in [Index -> Char \cup {NUL}]
           /\ longest' \in Index /\ longest <= longest'
           /\ LineInBuffer'
           /\ \A k \in Index : k < i + 1 =>
                  buff'[k] = IF k = i THEN Shifted(c, shift) ELSE buff[k]
<1> DEFINE d == Shifted(c, shift)
           b == [buff EXCEPT ![i] = d]
<1>1. d \in Char /\ d # NUL
  BY Sizes DEF Shifted
<1>2. reading /\ i \in Index /\ i < BuffLen - 1 /\ Next_i(i, b)
  BY DEF Character, IInv, TypeOK, LineInBuffer
<1>3. i + 1 \in Index
  BY <1>2, Sizes DEF Index
<1>4. b \in [Index -> Char \cup {NUL}] /\ \A k \in Index : b[k] = IF k = i THEN d ELSE buff[k]
  BY <1>1, <1>2 DEF IInv, TypeOK
<1>5. \A k \in Index : k < i + 1 => b[k] # NUL
  <2>1. \A k \in Index : k < i + 1 => k = i \/ k < i
    BY <1>2 DEF Index
  <2> QED
    BY <2>1, <1>1, <1>4 DEF IInv, LineInBuffer
<1>6. (i + 1) % SizeT = i + 1
  BY <1>2, SteppedOn
<1> HIDE DEF d, b
<1>7. /\ buff' \in [Index -> Char \cup {NUL}] /\ i' = i + 1
      /\ reading' = (i + 1 < BuffLen - 1)
      /\ longest' \in Index /\ longest <= longest' /\ LineInBuffer'
      /\ \A k \in Index : k < i + 1 => buff'[k] = b[k]
  BY <1>2, <1>3, <1>4, <1>5, <1>6, TurnKeeps
<1> QED
  BY <1>1, <1>3, <1>4, <1>7 DEF d

(* The screen after a character that goes into the buffer, too.            *)
LEMMA EchoGrows ==
    ASSUME NEW scr \in [Cells -> Char \cup {Blank}], NEW p \in Nat,
           NEW b, NEW n \in Index, NEW most \in Index, Echo(scr, p, b, n, most),
           NEW d \in Char, NEW b2, NEW most2 \in Index, most <= most2,
           \A k \in Index : k < n + 1 => b2[k] = IF k = n THEN d ELSE b[k]
    PROVE  Echo([scr EXCEPT ![p] = d], p + 1, b2, n + 1, most2)
<1> DEFINE scr2 == [scr EXCEPT ![p] = d]
<1>1. \A x \in Cells : scr2[x] = IF x = p THEN d ELSE scr[x]
  OBVIOUS
<1> HIDE DEF scr2
<1>2. ASSUME Prompt + most2 < Width
      PROVE  /\ p + 1 = Prompt + (n + 1)
             /\ \A k \in Index : k < n + 1 => scr2[Prompt + k] = b2[k]
             /\ \A x \in Cells : x >= p + 1 => scr2[x] = Blank
  <2>1. Prompt + most < Width
    BY <1>2, Sizes DEF Index
  <2>2. /\ p = Prompt + n
        /\ \A k \in Index : k < n => scr[Prompt + k] = b[k]
        /\ \A x \in Cells : x >= p => scr[x] = Blank
    BY <2>1 DEF Echo
  <2>3. ASSUME NEW k \in Index, k < n + 1 PROVE scr2[Prompt + k] = b2[k]
    <3>1. Prompt + k \in Cells /\ (k # n => k < n /\ Prompt + k # p)
      BY <2>2, <2>3, Sizes DEF Index, Cells
    <3> QED
      BY <3>1, <2>2, <2>3, <1>1
  <2>4. ASSUME NEW x \in Cells, x >= p + 1 PROVE scr2[x] = Blank
    <3>1. x # p /\ x >= p
      BY <2>4 DEF Cells
    <3> QED
      BY <3>1, <2>2, <1>1
  <2>5. p + 1 = Prompt + (n + 1)
    BY <2>2, Sizes DEF Index
  <2> QED
    BY <2>3, <2>4, <2>5
<1>3. Echo(scr2, p + 1, b2, n + 1, most2)
  BY <1>2 DEF Echo
<1> QED
  BY <1>3 DEF scr2

LEMMA CharacterIInv ==
    ASSUME IInv, NEW c \in Char, NEW shift \in BOOLEAN, Character(c, shift)
    PROVE  IInv'
<1>1. /\ i + 1 \in Index /\ i' = i + 1 /\ reading' = (i + 1 < BuffLen - 1)
      /\ Shifted(c, shift) \in Char
      /\ buff' \in [Index -> Char \cup {NUL}]
      /\ longest' \in Index /\ longest <= longest'
      /\ LineInBuffer'
      /\ \A k \in Index : k < i + 1 =>
             buff'[k] = IF k = i THEN Shifted(c, shift) ELSE buff[k]
  BY CharacterIs
<1>2. PICK d \in Char : d = Shifted(c, shift)
  BY <1>1
<1>3. \A k \in Index : k < i + 1 => buff'[k] = IF k = i THEN d ELSE buff[k]
  BY <1>1, <1>2
<1>4. screen' = [screen EXCEPT ![pos] = d] /\ pos' = pos + 1
  BY <1>2 DEF Character
<1>5. /\ pos \in Nat /\ screen \in [Cells -> Char \cup {Blank}] /\ i \in Index
      /\ longest \in Index /\ Echo(screen, pos, buff, i, longest)
  BY DEF IInv, TypeOK, EchoShowsLine, Echo
<1>6. Echo(screen', pos', buff', i', longest')
  BY <1>1, <1>3, <1>4, <1>5, EchoGrows
<1>7. screen' \in [Cells -> Char \cup {Blank}]
  BY <1>4, <1>5
<1>8. pos' \in Nat
  BY <1>4, <1>5
<1> QED
  BY <1>1, <1>6, <1>7, <1>8 DEF IInv, TypeOK, EchoShowsLine, Echo

(* The screen after the last character has been taken back.                *)
LEMMA EchoShrinks ==
    ASSUME NEW scr \in [Cells -> Char \cup {Blank}], NEW p \in Nat,
           NEW b, NEW n \in Index, n > 0, NEW most \in Index, n <= most,
           Echo(scr, p, b, n, most),
           NEW b2, NEW most2 \in Index, most <= most2,
           \A k \in Index : k < n - 1 => b2[k] = b[k]
    PROVE  Echo([scr EXCEPT ![LeftOf(p)] = Blank], LeftOf(LeftOf(p) + 1), b2, n - 1, most2)
<1> DEFINE scr2 == [scr EXCEPT ![LeftOf(p)] = Blank]
<1>1. \A x \in Cells : scr2[x] = IF x = LeftOf(p) THEN Blank ELSE scr[x]
  OBVIOUS
<1> HIDE DEF scr2
<1>2. ASSUME Prompt + most2 < Width
      PROVE  /\ LeftOf(LeftOf(p) + 1) = Prompt + (n - 1)
             /\ \A k \in Index : k < n - 1 => scr2[Prompt + k] = b2[k]
             /\ \A x \in Cells : x >= LeftOf(LeftOf(p) + 1) => scr2[x] = Blank
  <2>1. Prompt + most < Width
    BY <1>2, Sizes DEF Index
  <2>2. /\ p = Prompt + n
        /\ \A k \in Index : k < n => scr[Prompt + k] = b[k]
        /\ \A x \in Cells : x >= p => scr[x] = Blank
    BY <2>1 DEF Echo
  <2>3. p \in 1..(Width - 1)
    BY <2>1, <2>2, Sizes DEF Index
  <2>4. LeftOf(p) = p - 1
    BY <2>3, LeftOfInRow
  <2>5. LeftOf(LeftOf(p) + 1) = p - 1
    <3>1. LeftOf(p) + 1 = p
      BY <2>3, <2>4
    <3> QED
      BY <3>1, <2>4
  <2>6. ASSUME NEW k \in Index, k < n - 1 PROVE scr2[Prompt + k] = b2[k]
    <3>1. Prompt + k \in Cells /\ k < n /\ Prompt + k # p - 1
      BY <2>2, <2>6, Sizes DEF Index, Cells
    <3> QED
      BY <3>1, <2>2, <2>4, <2>6, <1>1
  <2>7. ASSUME NEW x \in Cells, x >= p - 1 PROVE scr2[x] = Blank
    <3>1. x = p - 1 \/ x >= p
      BY <2>7 DEF Cells
    <3> QED
      BY <3>1, <2>2, <2>4, <1>1
  <2>8. p - 1 = Prompt + (n - 1)
    BY <2>2, Sizes DEF Index
  <2> QED
    BY <2>5, <2>6, <2>7, <2>8
<1>3. Echo(scr2, LeftOf(LeftOf(p) + 1), b2, n - 1, most2)
  BY <1>2 DEF Echo
<1> QED
  BY <1>3 DEF scr2

(* A screen stays right while neither line nor cursor moves.               *)
LEMMA EchoStays ==
    ASSUME NEW scr, NEW p, NEW b, NEW n \in Index, NEW most \in Index,
           Echo(scr, p, b, n, most),
           NEW b2, NEW most2 \in Index, most <= most2,
           \A k \in Index : k < n => b2[k] = b[k]
    PROVE  Echo(scr, p, b2, n, most2)
<1>1. Prompt + most2 < Width => Prompt + most < Width
  BY Sizes DEF Index
<1> QED
  BY <1>1 DEF Echo

(* The turns of the loop that put nothing into the buffer end with the     *)
(* index one lower or where it was.                                        *)
LEMMA SteppingBackKeeps ==
    ASSUME IInv, reading, NEW n \in -1..(BuffLen - 1), n + 1 \in Index, n + 1 <= i,
           Next_i(n % SizeT, buff)
    PROVE  /\ buff' \in [Index -> Char \cup {NUL}] /\ i' = n + 1
           /\ reading' = (n + 1 < BuffLen - 1)
           /\ longest' \in Index /\ longest <= longest'
           /\ LineInBuffer'
           /\ \A k \in Index : k < n + 1 => buff'[k] = buff[k]
<1> DEFINE m == n + 1
           s == n % SizeT
<1>1. (s + 1) % SizeT = m
  BY SteppedBack
<1>2. i \in Index /\ m \in Index /\ m <= i /\ buff \in [Index -> Char \cup {NUL}]
  BY DEF IInv, TypeOK
<1> HIDE DEF m
<1>3. \A k \in Index : k < m => k < i
  BY <1>2 DEF Index
<1>4. \A k \in Index : k < m => buff[k] # NUL
  BY <1>3 DEF IInv, LineInBuffer
<1> HIDE DEF s
<1>5. Next_i(s, buff)
  BY DEF s
<1>6. /\ buff' \in [Index -> Char \cup {NUL}] /\ i' = m
      /\ reading' = (m < BuffLen - 1)
      /\ longest' \in Index /\ longest <= longest'
      /\ LineInBuffer'
      /\ \A k \in Index : k < m => buff'[k] = buff[k]
  BY <1>1, <1>2, <1>4, <1>5, TurnKeeps
<1> QED
  BY <1>6 DEF m

LEMMA BackspaceIs ==
    ASSUME IInv, Backspace
    PROVE  /\ reading /\ reading' /\ i > 0 /\ i' = i - 1 /\ i - 1 \in Index
           /\ buff' \in [Index -> Char \cup {NUL}]
           /\ longest' \in Index /\ longest <= longest'
           /\ LineInBuffer'
           /\ \A k \in Index : k < i - 1 => buff'[k] = buff[k]
<1> DEFINE n == i - 2
<1>1. reading /\ i \in Index /\ i > 0 /\ i < BuffLen - 1
  BY DEF Backspace, IInv, TypeOK, LineInBuffer
<1>2. /\ n \in -1..(BuffLen - 1) /\ n + 1 \in Index /\ n + 1 <= i /\ n + 1 = i - 1
      /\ n + 1 < BuffLen - 1
  BY <1>1, Sizes DEF Index
<1>3. Next_i(n % SizeT, buff)
  BY DEF Backspace, TakenBack
<1> HIDE DEF n
<1>4. /\ buff' \in [Index -> Char \cup {NUL}] /\ i' = n + 1
      /\ reading' = (n + 1 < BuffLen - 1)
      /\ longest' \in Index /\ longest <= longest'
      /\ LineInBuffer'
      /\ \A k \in Index : k < n + 1 => buff'[k] = buff[k]
  BY <1>1, <1>2, <1>3, SteppingBackKeeps
<1>5. i' = i - 1 /\ i - 1 \in Index
  BY <1>2, <1>4
<1>6. reading'
  BY <1>2, <1>4
<1>7. \A k \in Index : k < i - 1 => buff'[k] = buff[k]
  BY <1>2, <1>4
<1> QED
  BY <1>1, <1>4, <1>5, <1>6, <1>7

LEMMA BackspaceIInv == ASSUME IInv, Backspace PROVE IInv'
<1>1. /\ i \in Index /\ longest \in Index /\ i <= longest
      /\ pos \in Nat /\ screen \in [Cells -> Char \cup {Blank}]
      /\ Echo(screen, pos, buff, i, longest)
  BY DEF IInv, TypeOK, LineInBuffer, EchoShowsLine, Echo
<1>2. /\ screen' = [screen EXCEPT ![LeftOf(pos)] = Blank]
      /\ pos' = LeftOf(LeftOf(pos) + 1)
  BY DEF Backspace
<1>3. Echo(screen', pos', buff', i', longest')
  <2>1. /\ i > 0 /\ i' = i - 1 /\ longest' \in Index /\ longest <= longest'
        /\ \A k \in Index : k < i - 1 => buff'[k] = buff[k]
    BY BackspaceIs
  <2>2. Echo([screen EXCEPT ![LeftOf(pos)] = Blank], LeftOf(LeftOf(pos) + 1),
             buff', i - 1, longest')
    BY <1>1, <2>1, EchoShrinks
  <2> QED
    BY <1>2, <2>1, <2>2
<1>4. screen' \in [Cells -> Char \cup {Blank}]
  BY <1>1, <1>2
<1>5. pos' \in Nat
  BY <1>1, <1>2, LeftOfTyped
<1>6. reading' \in BOOLEAN
  BY DEF Backspace, Next_i
<1> QED
  BY <1>3, <1>4, <1>5, <1>6, BackspaceIs DEF IInv, TypeOK, EchoShowsLine, Echo

LEMMA IgnoredIs ==
    ASSUME IInv, NEW k \in Key, Ignored(k)
    PROVE  /\ buff' \in [Index -> Char \cup {NUL}] /\ i' = i /\ reading /\ reading'
           /\ longest' \in Index /\ longest <= longest'
           /\ LineInBuffer'
           /\ \A n \in Index : n < i => buff'[n] = buff[n]
<1> DEFINE n == i - 1
<1>1. reading /\ i \in Index /\ i < BuffLen - 1
  BY DEF Ignored, IInv, TypeOK, LineInBuffer
<1>2. n \in -1..(BuffLen - 1) /\ n + 1 \in Index /\ n + 1 <= i /\ n + 1 = i
  BY <1>1, Sizes DEF Index
<1>3. Next_i(n % SizeT, buff)
  BY DEF Ignored, Kept
<1> HIDE DEF n
<1>4. /\ buff' \in [Index -> Char \cup {NUL}] /\ i' = n + 1
      /\ reading' = (n + 1 < BuffLen - 1)
      /\ longest' \in Index /\ longest <= longest'
      /\ LineInBuffer'
      /\ \A m \in Index : m < n + 1 => buff'[m] = buff[m]
  BY <1>1, <1>2, <1>3, SteppingBackKeeps
<1> QED
  BY <1>1, <1>2, <1>4

LEMMA IgnoredIInv == ASSUME IInv, NEW k \in Key, Ignored(k) PROVE IInv'
<1>1. /\ i \in Index /\ longest \in Index
      /\ pos \in Nat /\ screen \in [Cells -> Char \cup {Blank}]
      /\ Echo(screen, pos, buff, i, longest)
  BY DEF IInv, TypeOK, EchoShowsLine, Echo
<1>2. screen' = screen /\ pos' = pos
  BY DEF Ignored
<1>3. Echo(screen', pos', buff', i', longest')
  BY <1>1, <1>2, IgnoredIs, EchoStays
<1>4. reading' \in BOOLEAN
  BY IgnoredIs DEF Ignored, Next_i
<1> QED
  BY <1>1, <1>2, <1>3, <1>4, IgnoredIs DEF IInv, TypeOK, EchoShowsLine, Echo

LEMMA EnterIs ==
    ASSUME IInv, Enter
    PROVE  /\ i \in Index /\ i' = i /\ reading /\ ~reading' /\ longest' = longest
           /\ screen' = screen /\ pos' = pos
           /\ buff' \in [Index -> Char \cup {NUL}] /\ buff'[i] = NUL
           /\ \A n \in Index : n < i => buff'[n] = buff[n]
<1>1. i \in Index /\ buff \in [Index -> Char \cup {NUL}]
  BY DEF IInv, TypeOK
<1>2. \A n \in Index : n < i => n # i
  BY <1>1 DEF Index
<1> QED
  BY <1>1, <1>2 DEF Enter

LEMMA EnterIInv == ASSUME IInv, Enter PROVE IInv'
<1>1. /\ longest \in Index /\ i <= longest
      /\ pos \in Nat /\ screen \in [Cells -> Char \cup {Blank}]
      /\ Echo(screen, pos, buff, i, longest)
  BY DEF IInv, TypeOK, LineInBuffer, EchoShowsLine, Echo
<1>2. Echo(screen', pos', buff', i', longest')
  <2>1. longest <= longest
    BY <1>1 DEF Index
  <2> QED
    BY <1>1, <2>1, EnterIs, EchoStays
<1>3. \A n \in Index : n < i => buff'[n] # NUL
  BY EnterIs DEF IInv, LineInBuffer
<1>4. TypeOK'
  <2>1. reading' \in BOOLEAN
    BY DEF Enter
  <2> QED
    BY <1>1, <2>1, EnterIs DEF TypeOK
<1>5. LineInBuffer'
  BY <1>1, <1>3, EnterIs DEF LineInBuffer
<1>6. EchoShowsLine'
  BY <1>2 DEF EchoShowsLine, Echo
<1> QED
  BY <1>4, <1>5, <1>6 DEF IInv

LEMMA AgainIInv == ASSUME Again PROVE IInv'
<1>1. /\ buff' = [n \in Index |-> NUL] /\ i' = 0 /\ reading'
      /\ screen' = [x \in Cells |-> Blank] /\ pos' = Prompt /\ longest' = 0
  BY DEF Again
<1>2. 0 \in Index /\ 0 < BuffLen - 1 /\ 0 <= 0 /\ Prompt \in Nat /\ Prompt = Prompt + 0
      /\ \A n \in Index : ~(n < 0)
  BY Sizes DEF Index
<1>3. reading' \in BOOLEAN
  BY DEF Again
<1>4. TypeOK'
  <2>1. buff' \in [Index -> Char \cup {NUL}]
    BY <1>1
  <2>2. screen' \in [Cells -> Char \cup {Blank}]
    BY <1>1
  <2> QED
    BY <1>1, <1>2, <1>3, <2>1, <2>2 DEF TypeOK
<1>5. LineInBuffer'
  BY <1>1, <1>2 DEF LineInBuffer
<1>6. EchoShowsLine'
  BY <1>1, <1>2 DEF EchoShowsLine
<1> QED
  BY <1>4, <1>5, <1>6 DEF IInv

LEMMA NextIInv == ASSUME IInv, [Next]_vars PROVE IInv'
<1>1. CASE \E c \in Char, shift \in BOOLEAN : Character(c, shift)
  BY <1>1, CharacterIInv
<1>2. CASE Backspace
  BY <1>2, BackspaceIInv
<1>3. CASE Enter
  BY <1>3, EnterIInv
<1>4. CASE Again
  BY <1>4, AgainIInv
<1>5. CASE \E k \in Key : Ignored(k)
  BY <1>5, IgnoredIInv
<1>6. CASE UNCHANGED vars
  BY <1>6 DEF IInv, TypeOK, LineInBuffer, EchoShowsLine, vars
<1> QED
  BY <1>1, <1>2, <1>3, <1>4, <1>5, <1>6 DEF Next
-----------------------------------------------------------------------------
LEMMA Inductive == Spec => []IInv
<1>1. IInv /\ [Next]_vars => IInv'
  BY NextIInv
<1> QED
  BY InitIInv, <1>1, PTL DEF Spec

(* The index never leaves the buffer, however it was stepped back and      *)
(* forth (tty.c:5, 88, 91).                                                *)
THEOREM TypeCorrect == Spec => []TypeOK
<1>1. IInv => TypeOK
  BY DEF IInv
<1> QED
  BY <1>1, Inductive, PTL

(* As long as the line has fitted its row, the row shows what the buffer   *)
(* holds (tty.c:81, 92).                                                   *)
THEOREM EchoRight == Spec => []EchoShowsLine
<1>1. IInv => EchoShowsLine
  BY DEF IInv
<1> QED
  BY <1>1, Inductive, PTL
-----------------------------------------------------------------------------
(* The first n characters of a buffer. *)
Line(b, n) == [m \in 1..n |-> b[m - 1]]

Byte == Char \cup {NUL}

(* Between turns of the loop the string in the buffer is what is in front  *)
(* of the index; so it is when it is handed over.                          *)
LEMMA TextIs == ASSUME IInv PROVE Text = Line(buff, i)
<1>1. i \in Index /\ \A n \in Index : n < i => buff[n] # NUL
  BY DEF IInv, TypeOK, LineInBuffer
<1>2. CASE reading
  BY <1>2 DEF Text, Line
<1>3. CASE ~reading
  <2> DEFINE Ends(m) == buff[m] = NUL /\ \A l \in 0..(m - 1) : buff[l] # NUL
  <2>1. Ends(i)
    <3>1. \A l \in 0..(i - 1) : l \in Index /\ l < i
      BY <1>1, Sizes DEF Index
    <3> QED
      BY <3>1, <1>1, <1>3 DEF IInv, LineInBuffer
  <2>2. ASSUME NEW m \in Index, Ends(m) PROVE m = i
    <3>1. ~(m < i)
      BY <1>1, <2>2
    <3>2. ~(i < m)
      <4>1. i < m => i \in 0..(m - 1)
        BY <1>1 DEF Index
      <4> QED
        BY <4>1, <2>1, <2>2
    <3> QED
      BY <3>1, <3>2, <1>1 DEF Index
  <2> HIDE DEF Ends
  <2>3. (CHOOSE m \in Index : Ends(m)) = i
    BY <2>1, <2>2, <1>1
  <2>4. (CHOOSE m \in Index : buff[m] = NUL /\ \A l \in 0..(m - 1) : buff[l] # NUL) = i
    BY <2>3 DEF Ends
  <2> QED
    BY <2>4, <1>3 DEF Text, Line
<1> QED
  BY <1>2, <1>3

(* The same of the state a turn leaves. *)
LEMMA NextTextIs == (IInv => Text = Line(buff, i))'
<1>1. IInv => Text = Line(buff, i)
  BY TextIs
<1> QED
  BY <1>1, PTL

LEMMA LineIs ==
    ASSUME NEW b \in [Index -> Byte], NEW n \in Index
    PROVE  /\ Line(b, n) \in Seq(Byte) /\ Len(Line(b, n)) = n
           /\ \A m \in 1..n : Line(b, n)[m] = b[m - 1]
<1>1. n \in Nat /\ \A m \in 1..n : m - 1 \in Index
  BY Sizes DEF Index
<1>2. \A m \in 1..n : b[m - 1] \in Byte
  BY <1>1
<1> QED
  BY <1>1, <1>2 DEF Line

LEMMA LineStays ==
    ASSUME NEW b \in [Index -> Byte], NEW b2 \in [Index -> Byte], NEW n \in Index,
           \A k \in Index : k < n => b2[k] = b[k]
    PROVE  Line(b2, n) = Line(b, n)
<1>1. \A m \in 1..n : m - 1 \in Index /\ m - 1 < n
  BY Sizes DEF Index
<1>2. \A m \in 1..n : b2[m - 1] = b[m - 1]
  BY <1>1
<1> QED
  BY <1>2 DEF Line

LEMMA LineGrows ==
    ASSUME NEW b \in [Index -> Byte], NEW b2 \in [Index -> Byte],
           NEW n \in Index, n + 1 \in Index, NEW d \in Byte,
           \A k \in Index : k < n + 1 => b2[k] = IF k = n THEN d ELSE b[k]
    PROVE  Line(b2, n + 1) = Append(Line(b, n), d)
<1> DEFINE s == Line(b, n)
           t == Line(b2, n + 1)
<1>1. s \in Seq(Byte) /\ Len(s) = n /\ \A m \in 1..n : s[m] = b[m - 1]
  BY LineIs
<1>2. t \in Seq(Byte) /\ Len(t) = n + 1 /\ \A m \in 1..(n + 1) : t[m] = b2[m - 1]
  BY LineIs
<1> HIDE DEF s, t
<1>3. /\ Append(s, d) \in Seq(Byte) /\ Len(Append(s, d)) = n + 1
      /\ \A m \in 1..n : Append(s, d)[m] = s[m]
      /\ Append(s, d)[n + 1] = d
  BY <1>1, AppendProperties
<1>4. ASSUME NEW m \in 1..(n + 1) PROVE t[m] = Append(s, d)[m]
  <2>1. m - 1 \in Index /\ m - 1 < n + 1 /\ (m = n + 1 \/ (m \in 1..n /\ m - 1 # n))
    BY Sizes DEF Index
  <2>2. b2[m - 1] = IF m - 1 = n THEN d ELSE b[m - 1]
    BY <2>1
  <2>3. CASE m = n + 1
    <3>1. m - 1 = n
      BY <2>3 DEF Index
    <3> QED
      BY <2>2, <2>3, <3>1, <1>2, <1>3
  <2>4. CASE m \in 1..n /\ m - 1 # n
    BY <2>2, <2>4, <1>1, <1>2, <1>3
  <2> QED
    BY <2>1, <2>3, <2>4
<1>5. t = Append(s, d)
  BY <1>2, <1>3, <1>4, SeqEqual
<1> QED
  BY <1>5 DEF s, t

LEMMA LineShrinks ==
    ASSUME NEW b \in [Index -> Byte], NEW b2 \in [Index -> Byte],
           NEW n \in Index, n > 0,
           \A k \in Index : k < n - 1 => b2[k] = b[k]
    PROVE  /\ Line(b, n) # << >>
           /\ Line(b2, n - 1) = SubSeq(Line(b, n), 1, Len(Line(b, n)) - 1)
<1> DEFINE s == Line(b, n)
           t == Line(b2, n - 1)
<1>1. s \in Seq(Byte) /\ Len(s) = n /\ \A m \in 1..n : s[m] = b[m - 1]
  BY LineIs
<1>2. t \in Seq(Byte) /\ Len(t) = n - 1 /\ \A m \in 1..(n - 1) : t[m] = b2[m - 1]
  <2>1. n - 1 \in Index
    BY Sizes DEF Index
  <2> QED
    BY <2>1, LineIs
<1> HIDE DEF s, t
<1>3. s # << >>
  BY <1>1, EmptySeq
<1>4. n \in Nat /\ \A m \in 1..(n - 1) :
        m \in 1..n /\ m - 1 \in Index /\ m - 1 < n - 1 /\ 1 + m - 1 = m
  BY Sizes DEF Index
<1>5. \A m \in 1..(n - 1) : s[m] \in Byte
  BY <1>1, <1>4, ElementOfSeq
<1> DEFINE u == SubSeq(s, 1, n - 1)
<1>6. u \in Seq(Byte) /\ Len(u) = n - 1 /\ \A m \in 1..(n - 1) : u[m] = s[m]
  <2>1. /\ u \in Seq(Byte) /\ Len(u) = IF 1 <= n - 1 THEN (n - 1) - 1 + 1 ELSE 0
        /\ \A m \in 1..((n - 1) - 1 + 1) : u[m] = s[1 + m - 1]
    BY <1>4, <1>5, SubSeqProperties
  <2>2. (n - 1) - 1 + 1 = n - 1 /\ (~(1 <= n - 1) => n - 1 = 0)
    BY <1>4
  <2> QED
    BY <2>1, <2>2, <1>4
<1> HIDE DEF u
<1>7. \A m \in 1..(n - 1) : t[m] = u[m]
  BY <1>1, <1>2, <1>4, <1>6
<1>8. t = u
  BY <1>2, <1>6, <1>7, SeqEqual
<1> QED
  BY <1>1, <1>3, <1>8 DEF s, t, u
-----------------------------------------------------------------------------
(* Every turn of the loop is a step of the ideal editor or none.           *)
LEMMA BufferIs ==
    ASSUME IInv
    PROVE  buff \in [Index -> Byte] /\ i \in Index /\ reading \in BOOLEAN
  BY DEF IInv, TypeOK, Byte

LEMMA InitEntry == Init => Entry!Init
<1> SUFFICES ASSUME Init PROVE Text = << >> /\ (~reading) = FALSE
  BY DEF Entry!Init
<1>1. IInv
  BY InitIInv
<1>2. Text = Line(buff, i) /\ i = 0 /\ reading
  BY <1>1, TextIs DEF Init
<1>3. Line(buff, i) \in Seq(Byte) /\ Len(Line(buff, i)) = 0
  BY <1>1, <1>2, BufferIs, LineIs
<1> QED
  BY <1>2, <1>3, EmptySeq

LEMMA CharacterEntry ==
    ASSUME IInv, IInv', NEW c \in Char, NEW shift \in BOOLEAN, Character(c, shift)
    PROVE  \E d \in Char : Entry!Type(d)
<1>1. /\ i + 1 \in Index /\ i' = i + 1 /\ reading' = (i + 1 < BuffLen - 1)
      /\ Shifted(c, shift) \in Char
      /\ \A k \in Index : k < i + 1 =>
             buff'[k] = IF k = i THEN Shifted(c, shift) ELSE buff[k]
  BY CharacterIs
<1>2. PICK d \in Char : d = Shifted(c, shift)
  BY <1>1
<1>3. \A k \in Index : k < i + 1 => buff'[k] = IF k = i THEN d ELSE buff[k]
  BY <1>1, <1>2
<1>4. /\ buff \in [Index -> Byte] /\ i \in Index /\ buff' \in [Index -> Byte]
      /\ d \in Byte /\ reading
  BY BufferIs DEF IInv, TypeOK, Byte, Character
<1>5. Text = Line(buff, i) /\ Text' = Line(buff', i')
  BY TextIs, NextTextIs
<1>6. Line(buff', i + 1) = Append(Line(buff, i), d) /\ Len(Line(buff', i + 1)) = i + 1
  BY <1>1, <1>3, <1>4, LineGrows, LineIs
<1>7. Text' = Append(Text, d) /\ Len(Text') = i + 1
  BY <1>1, <1>5, <1>6
<1>8. (~reading') = (i + 1 = BuffLen - 1)
  <2>1. ~(i + 1 < BuffLen - 1) <=> i + 1 = BuffLen - 1
    BY <1>1, Sizes DEF Index
  <2> QED
    BY <2>1, <1>1
<1>9. Entry!Type(d)
  BY <1>4, <1>7, <1>8 DEF Entry!Type
<1> QED
  BY <1>9

LEMMA BackspaceEntry == ASSUME IInv, IInv', Backspace PROVE Entry!Erase
<1>1. /\ reading /\ reading' /\ i > 0 /\ i' = i - 1
      /\ \A k \in Index : k < i - 1 => buff'[k] = buff[k]
  BY BackspaceIs
<1>2. Text = Line(buff, i) /\ Text' = Line(buff', i')
  BY TextIs, NextTextIs
<1>3. /\ buff \in [Index -> Byte] /\ i \in Index /\ buff' \in [Index -> Byte]
  BY BufferIs DEF IInv, TypeOK, Byte
<1>4. /\ Line(buff, i) # << >>
      /\ Line(buff', i - 1) = SubSeq(Line(buff, i), 1, Len(Line(buff, i)) - 1)
  BY <1>1, <1>3, LineShrinks
<1> QED
  BY <1>1, <1>2, <1>4 DEF Entry!Erase

LEMMA IgnoredEntry ==
    ASSUME IInv, IInv', NEW k \in Key, Ignored(k) PROVE UNCHANGED <<Text, ~reading>>
<1>1. i' = i /\ reading /\ reading' /\ \A n \in Index : n < i => buff'[n] = buff[n]
  BY IgnoredIs
<1>2. Text = Line(buff, i) /\ Text' = Line(buff', i')
  BY TextIs, NextTextIs
<1>3. /\ buff \in [Index -> Byte] /\ i \in Index /\ buff' \in [Index -> Byte]
  BY BufferIs DEF IInv, TypeOK, Byte
<1>4. Text' = Text
  BY <1>1, <1>2, <1>3, LineStays
<1> QED
  BY <1>1, <1>4

LEMMA EnterEntry == ASSUME IInv, IInv', Enter PROVE Entry!Enter
<1>1. /\ i' = i /\ reading /\ ~reading'
      /\ \A n \in Index : n < i => buff'[n] = buff[n]
  BY EnterIs
<1>2. Text = Line(buff, i) /\ Text' = Line(buff', i')
  BY TextIs, NextTextIs
<1>3. /\ buff \in [Index -> Byte] /\ i \in Index /\ buff' \in [Index -> Byte]
  BY BufferIs DEF IInv, TypeOK, Byte
<1>4. Text' = Text
  BY <1>1, <1>2, <1>3, LineStays
<1> QED
  BY <1>1, <1>4 DEF Entry!Enter

LEMMA AgainEntry == ASSUME IInv, IInv', Again PROVE Entry!Again
<1>1. ~reading /\ reading' /\ i' = 0
  BY DEF Again
<1>2. Text' = Line(buff', i')
  BY TextIs, NextTextIs
<1>3. buff' \in [Index -> Byte] /\ i' \in Index
  BY DEF IInv, TypeOK, Byte
<1>4. Line(buff', i') \in Seq(Byte) /\ Len(Line(buff', i')) = 0
  BY <1>1, <1>3, LineIs
<1>5. Text' = << >>
  BY <1>2, <1>4, EmptySeq
<1> QED
  BY <1>1, <1>5 DEF Entry!Again

LEMMA NextEntry == ASSUME IInv, [Next]_vars PROVE [Entry!Next]_<<Text, ~reading>>
<1>0. IInv'
  BY NextIInv
<1>1. CASE \E c \in Char, shift \in BOOLEAN : Character(c, shift)
  BY <1>0, <1>1, CharacterEntry DEF Entry!Next
<1>2. CASE Backspace
  BY <1>0, <1>2, BackspaceEntry DEF Entry!Next
<1>3. CASE Enter
  BY <1>0, <1>3, EnterEntry DEF Entry!Next
<1>4. CASE Again
  BY <1>0, <1>4, AgainEntry DEF Entry!Next
<1>5. CASE \E k \in Key : Ignored(k)
  BY <1>0, <1>5, IgnoredEntry
<1>6. CASE UNCHANGED vars
  BY <1>6 DEF vars, Text
<1> QED
  BY <1>1, <1>2, <1>3, <1>4, <1>5, <1>6 DEF Next

(* The line editor keeps its promise: what a caller sees is the line as it *)
(* was typed and taken back, whatever keys came between (tty.c:3).         *)
THEOREM EditorImplementsEntry == Spec => ImplementsEntry
<1>1. Init => IInv /\ Entry!Init
  BY InitIInv, InitEntry
<1>2. IInv /\ [Next]_vars => IInv' /\ [Entry!Next]_<<Text, ~reading>>
  BY NextIInv, NextEntry
<1> QED
  BY <1>1, <1>2, PTL DEF Spec, ImplementsEntry, Entry!Spec, Entry!vars
=============================================================================
