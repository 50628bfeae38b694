-------------------------------- MODULE Libc --------------------------------
(***************************************************************************)
(* The functions of the kernel's C library (libc/string, libc/math,        *)
(* libc/stdio).  Characters are their codes.  A string is the sequence of  *)
(* its characters without the terminating 0; memory, where a function is   *)
(* about memory, is a function from addresses to characters.               *)
(***************************************************************************)
EXTENDS Integers, SequencesExt

CONSTANTS
    Word,       \* uint32_t and size_t count modulo Word
    Letters,    \* bounds: the characters and the length of the strings that
    MaxLen      \* the properties quantify over

(* A word has at most 32 bits. *)
ASSUME LibcAssumption ==
    /\ Word \in Nat \ {0} /\ Word \div 65536 <= 65536
    /\ Letters \subseteq 1..255 /\ MaxLen \in Nat

Slash   == 47       \* '/'
Dot     == 46       \* '.'
Percent == 37       \* '%'
-----------------------------------------------------------------------------
(* math/sqrt.c: the power, not the root. *)
sqrt(val, pow) ==
    LET v[i \in 0..(pow - 1)] == IF i = 0 THEN val ELSE (v[i - 1] * val) % Word
    IN  v[pow - 1]

Swapped(s, i, j) == [s EXCEPT ![i] = s[j], ![j] = s[i]]

str_reverse(s) ==
    LET t[pos \in 0..(Len(s) \div 2)] ==
            IF pos = 0 THEN s ELSE Swapped(t[pos - 1], pos, Len(s) + 1 - pos)
    IN  t[Len(s) \div 2]

Digit(r) == IF r < 10 THEN r + 48 ELSE (r - 10) + 65

(* The lowest len digits, turned round; '0' for zero. *)
Numeral(base, val, len) ==
    LET rest[i \in 0..len] == IF i = 0 THEN val ELSE rest[i - 1] \div base
        count == Min({ i \in 0..len : rest[i] = 0 \/ i = len })
    IN  str_reverse(IF count = 0 THEN << Digit(0) >>
                    ELSE [i \in 1..count |-> Digit(rest[i - 1] % base)])

u32_to_str(val, len) == Numeral(10, val, len)

(* The digit of weight 10^(pow - 1), and what it adds. *)
Low(str, pow) == str[Len(str) + 1 - pow] - 48

(* Variant: powers counted from 0. *)
atoi_late(str) ==
    LET rtn[pow \in 0..Len(str)] ==
            IF pow = 0 THEN 0
            ELSE (rtn[pow - 1] + Low(str, pow) * sqrt(10, pow)) % Word
    IN  rtn[Len(str)]

atoi(str) ==
    LET rtn[pow \in 0..Len(str)] ==
            IF pow = 0 THEN 0
            ELSE (rtn[pow - 1]
                    + Low(str, pow) * (IF pow = 1 THEN 1 ELSE sqrt(10, pow - 1))) % Word
    IN  rtn[Len(str)]
-----------------------------------------------------------------------------
(* Memory. *)
Moved(m, dest, src) == [m EXCEPT ![dest] = m[src]]

(* An odd character first, then in pairs. *)
memcpy(m, dest, src, count) ==
    LET odd == count % 2
        t[k \in 0..(count \div 2)] ==
            IF k = 0 THEN IF odd = 1 THEN Moved(m, dest, src) ELSE m
            ELSE LET i == odd + 2*k - 2
                 IN  Moved(Moved(t[k - 1], dest + i, src + i), dest + i + 1, src + i + 1)
    IN  t[count \div 2]

memcpy_uint16_t(m, dest, src, n) ==
    LET t[i \in 0..n] == IF i = 0 THEN m ELSE Moved(t[i - 1], dest + i - 1, src + i - 1)
    IN  t[n]

(* Character i of a string in memory, its end included. *)
At(s, i) == IF i <= Len(s) THEN s[i] ELSE 0

(* The difference at the first place where they differ. *)
strcmp(str1, str2) ==
    LET differ == { i \in 1..(Len(str2) + 1) : At(str1, i) # At(str2, i) }
    IN  IF differ = {} THEN 0 ELSE At(str1, Min(differ)) - At(str2, Min(differ))

(* The string in memory from place p of m on. *)
StringAt(m, p) ==
    LET end == Min({ i \in p..Len(m) : m[i] = 0 })
    IN  SubSeq(m, p, end - 1)

(* Variant: the parts are counted, not what separates them. *)
strsplit_counting(str, delim) ==
    [n |-> Cardinality({ i \in DOMAIN str : str[i] = delim }),
     m |-> [i \in 1..(Len(str) + 1) |-> IF At(str, i) = delim THEN 0 ELSE At(str, i)]]

(* How many parts there are, and the memory with a 0 behind each. *)
strsplit(str, delim) ==
    [n |-> Cardinality({ i \in DOMAIN str : str[i] = delim }) + 1,
     m |-> [i \in 1..(Len(str) + 1) |-> IF At(str, i) = delim THEN 0 ELSE At(str, i)]]

(* Stepping over the part at w.p and its 0. *)
Stepped(m, w) ==
    IF w.p > Len(m) THEN w
    ELSE [met |-> Append(w.met, StringAt(m, w.p)), p |-> w.p + Len(StringAt(m, w.p)) + 1]

(* What a caller meets that does so n times. *)
Parts(split) ==
    LET walk[k \in 0..split.n] ==
            IF k = 0 THEN [met |-> << >>, p |-> 1] ELSE Stepped(split.m, walk[k - 1])
    IN  walk[split.n].met
-----------------------------------------------------------------------------
(* printf: a parameter is shown as its directive says.  What a '%' that is *)
(* no directive stands before is printed as it is, to the end.  A number   *)
(* or a character is a parameter of one element.                           *)
Directives == {99, 115, 100, 120}               \* 'c', 's', 'd', 'x'

Shown(directive, param) ==
    IF directive = 100 THEN Numeral(10, param[1], 14)
    ELSE IF directive = 120 THEN Numeral(16, param[1], 20)
    ELSE IF directive = 99 THEN <<param[1] % 256>>
    ELSE param

(* The run of characters from p on up to the next '%'. *)
RunEnd(format, p) ==
    Min({ e \in (p + 1)..(Len(format) + 1) : At(format, e) \in {0, Percent} })

(* A '%' printed for two is a run's first character. *)
RunStart(format, p) == IF format[p] = Percent THEN p + 1 ELSE p

(* Variant: the first '%' of two is not skipped. *)
printf_unskipped(format, params) ==
    LET out[w \in [p : 1..(Len(format) + 1), a : Nat]] ==
            LET p == w.p
                end == RunEnd(format, p)
            IN  IF p > Len(format) THEN << >>
                ELSE IF format[p] # Percent \/ At(format, p + 1) = Percent
                THEN SubSeq(format, p, end - 1) \o out[[p |-> end, a |-> w.a]]
                ELSE IF At(format, p + 1) \in Directives
                THEN Shown(format[p + 1], params[w.a]) \o out[[p |-> p + 2, a |-> w.a + 1]]
                ELSE SubSeq(format, p, Len(format))
    IN  out[[p |-> 1, a |-> 1]]

printf(format, params) ==
    LET out[w \in [p : 1..(Len(format) + 1), a : Nat]] ==
            LET p == w.p
                end == RunEnd(format, RunStart(format, p))
            IN  IF p > Len(format) THEN << >>
                ELSE IF format[p] # Percent \/ At(format, p + 1) = Percent
                THEN SubSeq(format, RunStart(format, p), end - 1) \o out[[p |-> end, a |-> w.a]]
                ELSE IF At(format, p + 1) \in Directives
                THEN Shown(format[p + 1], params[w.a]) \o out[[p |-> p + 2, a |-> w.a + 1]]
                ELSE SubSeq(format, p, Len(format))
    IN  out[[p |-> 1, a |-> 1]]
-----------------------------------------------------------------------------
(* What the functions are for.  Strings are all of up to MaxLen Letters.   *)
Strings == UNION { [1..l -> Letters] : l \in 0..MaxLen }

(* The number a numeral stands for. *)
Value(base, s) ==
    LET sum[k \in 0..Len(s)] ==
            IF k = 0 THEN 0
            ELSE sum[k - 1] * base + (IF s[k] < 65 THEN s[k] - 48 ELSE s[k] - 55)
    IN  sum[Len(s)]

(* Numbers are printed whole and without leading zeros, in base ten and    *)
(* sixteen, up to the largest (u32_to_str.c:3, printf.c:49).               *)
NumbersPrinted ==
    \A v \in 0..(Word - 1) : \A base \in {10, 16} :
        LET s == Numeral(base, v, 14)
        IN  Value(base, s) = v /\ (Len(s) > 1 => s[1] # 48)

(* The console reads back every number that was printed, and a numeral     *)
(* with leading zeros or too large for a word modulo Word, whatever the    *)
(* powers of ten do on the way (atoi.c:3).                                 *)
NumbersReadBack ==
    /\ \A v \in 0..(Word - 1) : atoi(u32_to_str(v, 14)) = v
    /\ \A l \in 1..4 : \A s \in [1..l -> {48, 49, 57}] : atoi(s) = Value(10, s) % Word

(* Numbers survive being printed and read.                                 *)
NumbersExact == NumbersPrinted /\ NumbersReadBack

(* A copy puts the source at the destination and touches nothing else,     *)
(* for odd and even lengths, unless the destination begins inside of the   *)
(* source (memcpy.c:9).                                                    *)
CopiesExact ==
    LET Places == 1..(2 * MaxLen)
        m == [p \in Places |-> p]
    IN  \A d, s \in Places : \A n \in 0..MaxLen :
            d + n - 1 \in 0..(2 * MaxLen) /\ s + n - 1 \in 0..(2 * MaxLen) /\ d \notin (s + 1)..(s + n - 1) =>
                LET ideal == [p \in Places |-> IF p \in d..(d + n - 1) THEN m[s + p - d] ELSE m[p]]
                IN  memcpy(m, d, s, n) = ideal /\ memcpy_uint16_t(m, d, s, n) = ideal

(* Names compare equal only if they are: none is taken for its prefix      *)
(* (strcmp.c:3, ext2.c:152).                                               *)
NamesApart == \A s, t \in Strings : (strcmp(s, t) = 0) <=> (s = t)

(* Stepping over the parts strsplit leaves, as look-up and list do, meets  *)
(* what stands between the delimiters, empty parts included: joined by the *)
(* delimiter they are the string again (strsplit.c:3, ext2.c:271).         *)
PartsJoin ==
    \A s \in Strings : \A delim \in Letters :
        LET parts == Parts(strsplit(s, delim))
            joined[k \in DOMAIN parts] ==
                IF k = 1 THEN parts[1] ELSE joined[k - 1] \o << delim >> \o parts[k]
        IN  /\ parts # << >>
            /\ \A k \in DOMAIN parts : \A i \in DOMAIN parts[k] : parts[k][i] # delim
            /\ s = joined[Len(parts)]

(* Strings are copied, told apart and split exactly.                       *)
StringsExact == CopiesExact /\ NamesApart /\ PartsJoin

(* What a format is made of: how it is written and what it prints. *)
Pieces ==
    { [f |-> s, p |-> << >>, out |-> s] :
        s \in { t \in Strings : Len(t) \in 1..2 /\ Percent \notin Range(t) } }
    \cup { [f |-> <<Percent, Percent>>, p |-> << >>, out |-> <<Percent>>] }
    \cup { [f |-> <<Percent, d>>, p |-> << <<x>> >>, out |-> Shown(d, <<x>>)] :
             d \in {99, 100, 120}, x \in {0, Word - 1} }
    \cup { [f |-> <<Percent, 115>>, p |-> <<s>>, out |-> s] : s \in Strings }

(* A format prints what its pieces print, in their order, and a parameter  *)
(* is not itself taken for a format (printf.c:3).                          *)
PrintsPieces ==
    \A x, y, z \in Pieces :
        printf(x.f \o y.f \o z.f, x.p \o y.p \o z.p) = x.out \o y.out \o z.out
=============================================================================
