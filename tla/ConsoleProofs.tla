---------------------------- MODULE ConsoleProofs ---------------------------
(***************************************************************************)
(* The console's working directory, its history and its arrays, for lines  *)
(* of any words and arguments and arrays of every size.                    *)
(*                                                                         *)
(* How full wdir is follows from the cd's since it was set: after none it  *)
(* is "/", after one no longer than a line and a '/'.  What cd .. goes     *)
(* back to is what wdir was before the last name was put behind it.        *)
(***************************************************************************)
EXTENDS Console, FiniteSetTheorems, SequenceTheorems, WellFoundedInduction, TLAPS

Char == 1..255

(* TypeOK, the type of left, and that wdir is set while lines are read. *)
Types == TypeOK /\ left \in Int /\ (Alive => wdir # << >>)

(* The line that is carried out repeats nothing, and a write's data are    *)
(* for a write.                                                            *)
History ==
    /\ HistorySound
    /\ ~Begins(buff.word, "!!")
    /\ phase = "data" => Branch(buff.word) = "write"

Lengths ==
    /\ downs = 0 => Len(wdir) <= 1
    /\ downs = 1 => \E line \in Lines : Len(wdir) <= Len(line.arg) + 1
    /\ where # "nowhere" => phase = "wild"
    /\ ArraysHold

(* wdir is came and a name. *)
Joined ==
    came # << >> =>
        \E name \in Seq(Char) : wdir = came \o name /\ Slash \notin Range(name)

IInv == Types /\ History /\ Lengths /\ Joined
-----------------------------------------------------------------------------
(* Every set of numbers has a least one. *)
LEMMA LeastNat ==
    ASSUME NEW S \in SUBSET Nat, S # {}
    PROVE  \E l \in S : \A m \in S : l <= m
  <1> DEFINE less == OpToRel(<, Nat)
  <1>1. IsWellFoundedOn(less, Nat)
    BY NatLessThanWellFounded
  <1>2. \A m, k \in Nat : m < k => <<m, k>> \in less
    BY DEF OpToRel
  <1> HIDE DEF less
  <1>3. PICK l \in S : \A m \in S : ~(<<m, l>> \in less)
    BY <1>1, WFMin
  <1>4. \A m \in S : l <= m
    <2> TAKE m \in S
    <2>1. m \in Nat /\ l \in Nat /\ ~(m < l)
      BY <1>2, <1>3
    <2> QED BY <2>1
  <1> QED BY <1>4

LEMMA LargestIndex ==
    ASSUME NEW n \in Nat, NEW S \in SUBSET (1..n), S # {}
    PROVE  Max(S) \in S /\ \A i \in S : i <= Max(S)
  <1> DEFINE gaps == { n - i : i \in S }
  <1>1. \A i \in S : i \in Int /\ n - i \in Nat /\ n - i \in gaps
    OBVIOUS
  <1>2. gaps \in SUBSET Nat /\ gaps # {}
    BY <1>1
  <1>3. PICK g \in gaps : \A m \in gaps : g <= m
    BY <1>2, LeastNat
  <1>4. PICK top \in S : g = n - top
    BY <1>3
  <1>5. \A i \in S : top >= i
    <2> TAKE i \in S
    <2>1. n - top <= n - i /\ i \in Int /\ top \in Int
      BY <1>1, <1>3, <1>4
    <2> QED BY <2>1
  <1> QED BY <1>1, <1>5 DEF Max
-----------------------------------------------------------------------------
(* Strings put together. *)
LEMMA Joining ==
    ASSUME NEW d \in Seq(Char), NEW s \in Seq(Char)
    PROVE  /\ d \o s \in Seq(Char) /\ Len(d \o s) = Len(d) + Len(s)
           /\ \A i \in 1..Len(d) : (d \o s)[i] = d[i]
           /\ \A i \in 1..Len(s) : (d \o s)[Len(d) + i] = s[i]
  OBVIOUS

(* What is left of a directory, for a shorter string or none. *)
LEMMA Stripping ==
    ASSUME NEW d \in Seq(Char), d # << >>
    PROVE  \E n \in 1..Len(d) :
              /\ Stripped(d) = SubSeq(d, 1, n)
              /\ n > 1 => d[n] = Slash
              /\ \A i \in (n + 1)..Len(d) : d[i] # Slash
  <1> DEFINE ends == { i \in 2..Len(d) : d[i] = Slash } \cup {1}
             n == Max(ends)
  <1>1. Len(d) \in Nat /\ Len(d) >= 1
    OBVIOUS
  <1>2. ends \in SUBSET (1..Len(d)) /\ ends # {}
    BY <1>1
  <1>3. n \in ends /\ \A i \in ends : i <= n
    BY <1>1, <1>2, LargestIndex
  <1>4. Stripped(d) = SubSeq(d, 1, n)
    BY DEF Stripped
  <1> HIDE DEF n
  <1>5. n \in 1..Len(d) /\ (n > 1 => d[n] = Slash)
    BY <1>1, <1>3
  <1>6. \A i \in (n + 1)..Len(d) : d[i] # Slash
    <2> SUFFICES ASSUME NEW i \in (n + 1)..Len(d), d[i] = Slash PROVE FALSE
      OBVIOUS
    <2>1. i \in 2..Len(d)
      BY <1>5
    <2> QED BY <1>3, <1>5, <2>1
  <1> QED BY <1>4, <1>5, <1>6

LEMMA Beginning ==
    ASSUME NEW d \in Seq(Char), NEW n \in 1..Len(d)
    PROVE  /\ SubSeq(d, 1, n) \in Seq(Char) /\ Len(SubSeq(d, 1, n)) = n
           /\ \A i \in 1..n : SubSeq(d, 1, n)[i] = d[i]
  OBVIOUS

(* A name put behind a directory that ends in '/' is what is taken away.   *)
LEMMA StrippedJoined ==
    ASSUME NEW d \in Seq(Char), NEW s \in Seq(Char), d # << >>,
           d[Len(d)] = Slash, Slash \notin Range(s)
    PROVE  Stripped(d \o s) = d
  <1> DEFINE j == d \o s
  <1>1. /\ j \in Seq(Char) /\ Len(j) = Len(d) + Len(s) /\ Len(d) \in Nat \ {0}
        /\ Len(s) \in Nat
        /\ \A i \in 1..Len(d) : j[i] = d[i]
    BY Joining
  <1>2. \A i \in (Len(d) + 1)..Len(j) : j[i] # Slash
    <2> TAKE i \in (Len(d) + 1)..Len(j)
    <2>1. i - Len(d) \in 1..Len(s) /\ Len(d) + (i - Len(d)) = i
      BY <1>1
    <2>2. j[i] = s[i - Len(d)]
      BY <2>1, Joining
    <2>3. s[i - Len(d)] \in Range(s)
      BY <2>1 DEF Range
    <2> QED BY <2>2, <2>3
  <1> HIDE DEF j
  <1>3. PICK n \in 1..Len(j) :
            /\ Stripped(j) = SubSeq(j, 1, n)
            /\ n > 1 => j[n] = Slash
            /\ \A i \in (n + 1)..Len(j) : j[i] # Slash
    <2>1. j # << >>
      BY <1>1
    <2> QED BY <1>1, <2>1, Stripping
  <1>4. n <= Len(d)
    <2> SUFFICES ASSUME n > Len(d) PROVE FALSE
      BY <1>1
    <2>1. n > 1 /\ n \in (Len(d) + 1)..Len(j)
      BY <1>1
    <2> QED BY <1>2, <1>3, <2>1
  <1>5. ~(n < Len(d))
    <2> SUFFICES ASSUME n < Len(d) PROVE FALSE
      OBVIOUS
    <2>1. Len(d) \in (n + 1)..Len(j) /\ Len(d) \in 1..Len(d)
      BY <1>1
    <2> QED BY <1>1, <1>3, <2>1
  <1>6. n = Len(d)
    BY <1>1, <1>4, <1>5
  <1>7. Len(SubSeq(j, 1, n)) = Len(d) /\ SubSeq(j, 1, n) \in Seq(Char)
    BY <1>1, <1>6, Beginning
  <1>8. \A i \in 1..Len(d) : SubSeq(j, 1, n)[i] = d[i]
    BY <1>1, <1>6, Beginning
  <1>9. SubSeq(j, 1, n) = d
    BY <1>7, <1>8
  <1> QED BY <1>3, <1>9 DEF j
-----------------------------------------------------------------------------
LEMMA Arguments ==
    ASSUME NEW line \in Lines \cup {Nothing}
    PROVE  /\ line.arg \in Seq(Char) /\ Len(line.arg) \in Nat
           /\ line \in Lines \/ (line.word = "" /\ line.arg = << >>)
           /\ Branch(line.word) # "none" => line \in Lines
           /\ line \in Lines => 2 * Len(line.arg) + 2 < Size
  <1>1. CASE line \in Lines
    <2>1. line.arg \in Seq(Char) /\ 2 * Len(line.arg) + 2 < Size
      BY <1>1, ConsoleAssumption DEF Char
    <2>2. Len(line.arg) \in Nat
      BY <2>1
    <2> QED BY <1>1, <2>1, <2>2
  <1>2. CASE line = Nothing
    <2>1. line.word = "" /\ line.arg = << >>
      BY <1>2 DEF Nothing
    <2>2. line.arg \in Seq(Char) /\ Len(line.arg) \in Nat
      BY <2>1, EmptySeq
    <2> QED BY <2>1, <2>2, EmptyLine, ConsoleAssumption
  <1> QED BY <1>1, <1>2

LEMMA FirstChar ==
    ASSUME NEW s \in Seq(Char)
    PROVE  /\ At(s, 1) # 0 => s # << >> /\ Len(s) >= 1 /\ s[1] = At(s, 1)
           /\ Len(s) >= 1 => At(s, 1) = s[1]
  BY DEF At

LEMMA SlashFirst ==
    ASSUME NEW s \in Seq(Char), At(s, 1) = Slash
    PROVE  s # << >> /\ Len(s) >= 1 /\ s[1] = Slash
  <1>1. IF 1 <= Len(s) THEN s[1] = 47 ELSE 0 = 47
    BY DEF At, Slash
  <1> QED BY <1>1 DEF Slash

(* The arrays in a state that is typed. *)
LEMMA Arrays ==
    ASSUME Types
    PROVE  /\ wdir \in Seq(Char) /\ Len(wdir) \in Nat
           /\ came \in Seq(Char) /\ downs \in 0..3 /\ Size \in Nat
           /\ buff.arg \in Seq(Char) /\ Len(buff.arg) \in Nat
           /\ wdir # << >> => Len(wdir) >= 1
           /\ << >> \in Seq(Char)
  <1>1. wdir \in Seq(Char) /\ came \in Seq(Char) /\ downs \in 0..3
    BY DEF Types, TypeOK, Char
  <1>2. buff.arg \in Seq(Char) /\ Len(buff.arg) \in Nat
    BY Arguments DEF Types, TypeOK
  <1>3. Len(wdir) \in Nat /\ (wdir # << >> => Len(wdir) >= 1) /\ << >> \in Seq(Char)
    BY <1>1
  <1> QED BY <1>1, <1>2, <1>3, ConsoleAssumption

LEMMA InitTyped == Init => Types
  <1> SUFFICES ASSUME Init PROVE Types
    OBVIOUS
  <1>1. << >> \in Seq(Char)
    OBVIOUS
  <1> QED BY <1>1, ConsoleAssumption DEF Init, Types, TypeOK, Char, Phases, Alive

(* A line carried out leaves wdir as dir. *)
LEMMA FinishTyped ==
    ASSUME Types, NEW dir \in Seq(Char), dir # << >>, Finish(dir),
           came' \in Seq(Char), downs' \in 0..3
    PROVE  Types'
  <1>1. phase' \in Phases
    BY DEF Finish, Phases
  <1> QED BY <1>1 DEF Finish, Types, TypeOK, Char, Alive

LEMMA NextTyped == Types /\ [Next]_vars => Types'
  <1> SUFFICES ASSUME Types, [Next]_vars PROVE Types'
    OBVIOUS
  <1>0. phase \in {"run", "data"} => wdir # << >>
    BY DEF Types, Alive
  <1>1. CASE Start
    BY <1>1 DEF Start, Types, TypeOK, Phases, Alive
  <1>2. CASE KernelMain
    <2>1. <<Slash>> \in Seq(Char) /\ Len(<<Slash>>) = 1 /\ << >> \in Seq(Char)
      BY DEF Char, Slash
    <2>2. CASE left < Frame
      BY <1>2, <2>2 DEF KernelMain, Overrun, Types, TypeOK, Phases, Alive
    <2>3. CASE ~(left < Frame)
      <3>1. /\ wdir' = <<Slash>> /\ shown' = <<Slash>> /\ downs' = 0 /\ came' = << >>
            /\ UNCHANGED <<buff, l_cmd, left>> /\ phase' = "prompt"
        BY <1>2, <2>3 DEF KernelMain
      <3>2. <<Slash>> # << >>
        OBVIOUS
      <3> QED BY <2>1, <3>1, <3>2 DEF Types, TypeOK, Phases, Alive, Char
    <2> QED BY <2>2, <2>3
  <1>3. CASE Type
    BY <1>3 DEF Type, Types, TypeOK, Phases, Alive
  <1>4. CASE Say
    BY Arrays, <1>0, <1>4, FinishTyped DEF Say
  <1>5. CASE Reboot \/ Hang
    BY <1>5, ConsoleAssumption DEF Reboot, Hang, Return, Types, TypeOK, Phases, Alive
  <1>6. CASE Write
    BY <1>6 DEF Write, Running, Types, TypeOK, Phases, Alive
  <1>7. CASE Data
    BY Arrays, <1>0, <1>7, FinishTyped DEF Data
  <1>8. CASE Exit
    BY <1>8 DEF Exit, Types, TypeOK, Phases, Alive
  <1>9. CASE Read
    <2>1. CASE Finish(wdir)
      BY Arrays, <1>0, <1>9, <2>1, FinishTyped DEF Read, Running
    <2>2. CASE Overrun("path") /\ UNCHANGED <<buff, l_cmd, wdir, shown, left>>
      BY <1>9, <2>2 DEF Read, Overrun, Types, TypeOK, Phases, Alive
    <2> QED BY <1>9, <2>1, <2>2 DEF Read
  <1>10. CASE CdTo
    <2>1. Branch(buff.word) = "cd " /\ At(buff.arg, 1) = Slash
      BY <1>10 DEF CdTo, Running
    <2>2. buff.arg # << >>
      <3>1. buff.arg \in Seq(Char)
        BY Arrays
      <3> QED BY <2>1, <3>1, SlashFirst
    <2>4. downs' \in 0..3 /\ came' \in Seq(Char)
      <3>1. downs' \in {0, 1} /\ came' = << >>
        BY <1>10 DEF CdTo
      <3> QED BY <3>1, Arrays
    <2> QED BY Arrays, <1>10, <2>2, <2>4, FinishTyped DEF CdTo
  <1>11. CASE CdUp
    <2>1. wdir # << >>
      BY Arrays, <1>0, <1>11 DEF CdUp, Running
    <2>2. PICK n \in 1..Len(wdir) : Stripped(wdir) = SubSeq(wdir, 1, n)
      BY Arrays, <1>0, <2>1, Stripping
    <2>3. Stripped(wdir) \in Seq(Char) /\ Len(Stripped(wdir)) = n
      BY Arrays, <1>0, <2>2, Beginning
    <2>4. Stripped(wdir) # << >>
      <3>1. n >= 1
        BY Arrays, <2>2
      <3> QED BY <2>3, <3>1
    <2>5. downs' \in 0..3 /\ came' \in Seq(Char)
      BY Arrays, <1>11 DEF CdUp
    <2> QED BY <1>11, <2>3, <2>4, <2>5, FinishTyped DEF CdUp
  <1>12. CASE CdDown
    <2>1. downs' \in 0..3
      <3>1. downs \in 0..3 /\ downs' = IF downs = 3 THEN 3 ELSE downs + 1
        BY <1>12, Arrays DEF CdDown
      <3> QED BY <3>1
    <2> DEFINE dir == wdir \o buff.arg
    <2>2. Came /\ Stored(dir)
      BY <1>12 DEF CdDown
    <2>3. came' \in Seq(Char)
      BY Arrays, <2>2 DEF Came
    <2>4. wdir # << >>
      BY Arrays, <1>0, <1>12 DEF CdDown, Running
    <2>5. dir \in Seq(Char) /\ dir # << >>
      BY Arrays, <2>4, Joining
    <2> HIDE DEF dir
    <2>6. CASE Finish(dir)
      BY <2>1, <2>3, <2>5, <2>6, FinishTyped
    <2>7. CASE wdir' = dir /\ Overrun("wdir") /\ UNCHANGED <<buff, l_cmd, shown, left>>
      BY <2>1, <2>3, <2>5, <2>7 DEF Overrun, Types, TypeOK, Phases, Alive, Char
    <2> QED BY <2>2, <2>6, <2>7 DEF Stored
  <1>13. CASE UNCHANGED vars
    BY <1>13 DEF vars, Types, TypeOK, Alive
  <1> QED BY <1>1, <1>2, <1>3, <1>4, <1>5, <1>6, <1>7, <1>8, <1>9, <1>10, <1>11,
             <1>12, <1>13 DEF Next
-----------------------------------------------------------------------------
(* What is still to be shown of the directory after a line is carried out. *)
LEMMA FinishNamed ==
    ASSUME NEW dir, Finish(dir), Rooted(dir), NoEmptyName(dir)
    PROVE  WdirNamed'
  BY DEF Finish, WdirNamed, Rooted, NoEmptyName

LEMMA NextNamed ==
    ASSUME \A line \in Lines : NoEmptyName(line.arg), Types, WdirNamed, [Next]_vars
    PROVE  WdirNamed'
  <1>1. phase \in {"run", "data"} => Rooted(wdir) /\ NoEmptyName(wdir)
    BY DEF WdirNamed, Alive
  <1>2. CASE Start
    BY <1>2 DEF Start, WdirNamed, Alive
  <1>3. CASE KernelMain
    <2>1. Rooted(<<Slash>>) /\ NoEmptyName(<<Slash>>)
      BY DEF Rooted, NoEmptyName
    <2> QED BY <1>3, <2>1 DEF KernelMain, Overrun, WdirNamed, Alive, Rooted, NoEmptyName
  <1>4. CASE Type \/ Write \/ Exit
    BY <1>4 DEF Type, Write, Running, Exit, WdirNamed, Alive, Rooted, NoEmptyName
  <1>5. CASE Say \/ Data
    BY <1>1, <1>5, FinishNamed DEF Say, Data
  <1>6. CASE Reboot \/ Hang
    BY <1>6 DEF Reboot, Hang, Return, WdirNamed, Alive
  <1>7. CASE Read
    <2>1. CASE Finish(wdir)
      BY <1>1, <1>7, <2>1, FinishNamed DEF Read, Running
    <2>2. CASE Overrun("path")
      BY <2>2 DEF Overrun, WdirNamed, Alive
    <2> QED BY <1>7, <2>1, <2>2 DEF Read
  <1>8. CASE CdTo
    <2>1. Branch(buff.word) = "cd " /\ At(buff.arg, 1) = Slash /\ Finish(buff.arg)
      BY <1>8 DEF CdTo, Running
    <2>2. NoEmptyName(buff.arg)
      BY <2>1, Arguments DEF Types, TypeOK
    <2>3. Rooted(buff.arg)
      <3>1. buff.arg # << >> /\ buff.arg[1] = Slash
        <4>1. buff.arg \in Seq(Char)
          BY Arrays
        <4> QED BY <2>1, <4>1, SlashFirst
      <3> QED BY <3>1 DEF Rooted
    <2> QED BY <2>1, <2>2, <2>3, FinishNamed
  <1>9. CASE CdUp
    <2>1. Rooted(wdir) /\ NoEmptyName(wdir)
      BY <1>1, <1>9 DEF CdUp, Running
    <2>2. PICK n \in 1..Len(wdir) : Stripped(wdir) = SubSeq(wdir, 1, n)
      BY Arrays, <2>1, Stripping DEF Rooted
    <2> DEFINE dir == Stripped(wdir)
    <2>3. dir \in Seq(Char) /\ Len(dir) = n /\ \A i \in 1..n : dir[i] = wdir[i]
      BY Arrays, <2>2, Beginning
    <2> HIDE DEF dir
    <2>4. Rooted(dir)
      BY <2>1, <2>3 DEF Rooted
    <2>5. NoEmptyName(dir)
      <3> SUFFICES ASSUME NEW i \in 1..(Len(dir) - 1), dir[i] = Slash, dir[i + 1] = Slash
                   PROVE  FALSE
        BY DEF NoEmptyName
      <3>1. i \in 1..n /\ i + 1 \in 1..n /\ i \in 1..(Len(wdir) - 1)
        BY Arrays, <2>3
      <3> QED BY <2>1, <2>3, <3>1 DEF NoEmptyName
    <2> QED BY <1>9, <2>4, <2>5, FinishNamed DEF CdUp, dir
  <1>10. CASE CdDown
    <2>1. CASE Finish(wdir \o buff.arg)
      <3> DEFINE dir == wdir \o buff.arg
      <3>1. /\ Finish(dir) /\ Branch(buff.word) = "cd " /\ At(buff.arg, 1) # Slash
            /\ Rooted(wdir) /\ NoEmptyName(wdir)
        BY <1>1, <1>10, <2>1 DEF CdDown, Running
      <3>2. /\ dir \in Seq(Char) /\ Len(dir) = Len(wdir) + Len(buff.arg)
            /\ \A i \in 1..Len(wdir) : dir[i] = wdir[i]
            /\ \A i \in 1..Len(buff.arg) : dir[Len(wdir) + i] = buff.arg[i]
        BY Arrays, Joining
      <3>3. NoEmptyName(buff.arg)
        BY <3>1, Arguments DEF Types, TypeOK
      <3> HIDE DEF dir
      <3>4. Len(wdir) >= 1 /\ Rooted(dir)
        <4>1. wdir # << >> /\ wdir[1] = Slash /\ Len(wdir) >= 1 /\ Len(dir) >= 1
          <5>1. wdir # << >> /\ wdir[1] = Slash
            BY <3>1 DEF Rooted
          <5> QED BY Arrays, <3>2, <5>1
        <4>2. dir[1] = Slash /\ dir # << >>
          BY Arrays, <3>2, <4>1
        <4> QED BY <4>1, <4>2 DEF Rooted
      <3>5. NoEmptyName(dir)
        <4> SUFFICES ASSUME NEW i \in 1..(Len(dir) - 1), dir[i] = Slash, dir[i + 1] = Slash
                     PROVE  FALSE
          BY DEF NoEmptyName
        <4>1. CASE i < Len(wdir)
          <5>1. i \in 1..Len(wdir) /\ i + 1 \in 1..Len(wdir) /\ i \in 1..(Len(wdir) - 1)
            BY Arrays, <4>1
          <5> QED BY <3>1, <3>2, <5>1 DEF NoEmptyName
        <4>2. CASE i = Len(wdir)
          <5>1. 1 \in 1..Len(buff.arg)
            BY Arrays, <3>2, <4>2
          <5>2. dir[i + 1] = buff.arg[1]
            BY <3>2, <4>2, <5>1
          <5>3. Len(buff.arg) >= 1 /\ buff.arg \in Seq(Char)
            BY Arrays, <5>1
          <5> QED BY <3>1, <5>2, <5>3, FirstChar
        <4>3. CASE i > Len(wdir)
          <5> DEFINE j == i - Len(wdir)
          <5>1. j \in 1..(Len(buff.arg) - 1) /\ j \in 1..Len(buff.arg) /\ j + 1 \in 1..Len(buff.arg)
            BY Arrays, <3>2, <4>3
          <5>2. Len(wdir) + j = i /\ Len(wdir) + (j + 1) = i + 1
            BY Arrays
          <5> HIDE DEF j
          <5>3. buff.arg[j] = Slash /\ buff.arg[j + 1] = Slash
            BY <3>2, <5>1, <5>2
          <5> QED BY <3>3, <5>1, <5>3 DEF NoEmptyName
        <4> QED BY Arrays, <4>1, <4>2, <4>3
      <3> QED BY <3>1, <3>4, <3>5, FinishNamed
    <2>2. CASE Overrun("wdir")
      BY <1>10, <2>2 DEF CdDown, Overrun, WdirNamed, Alive
    <2> QED BY <1>10, <2>1, <2>2 DEF CdDown, Stored
  <1>11. CASE UNCHANGED vars
    BY <1>11 DEF vars, WdirNamed, Alive, Rooted, NoEmptyName
  <1> QED BY <1>2, <1>3, <1>4, <1>5, <1>6, <1>7, <1>8, <1>9, <1>10, <1>11 DEF Next
-----------------------------------------------------------------------------
(* What the line carried out becomes: the last one, or nothing. *)
LEMMA FinishHistory ==
    ASSUME History, NEW dir, Finish(dir),
           Branch(buff.word) \notin {"reboot", "hang"},
           Branch(buff.word) = "write" => buff.arg \in written',
           written \subseteq written'
    PROVE  History'
  <1>1. l_cmd' = buff /\ buff'.word = "" /\ phase' = "prompt"
    BY DEF Finish, Nothing
  <1> QED BY <1>1, EmptyLine DEF History, HistorySound

LEMMA NextHistory == History /\ [Next]_vars => History'
  <1> SUFFICES ASSUME History, [Next]_vars PROVE History'
    OBVIOUS
  <1>0. Nothing.word = ""
    BY DEF Nothing
  <1>1. CASE Start \/ KernelMain
    BY <1>1 DEF Start, KernelMain, Overrun, History, HistorySound
  <1>2. CASE Type
    BY <1>2 DEF Type, History, HistorySound
  <1>3. CASE Say
    BY <1>3, FinishHistory DEF Say
  <1>4. CASE Reboot \/ Hang
    BY <1>0, <1>4, EmptyLine DEF Reboot, Hang, Return, History, HistorySound
  <1>5. CASE Write
    BY <1>5 DEF Write, Running, History, HistorySound
  <1>6. CASE Data
    <2>1. Branch(buff.word) = "write"
      BY <1>6 DEF Data, History
    <2> QED BY <1>6, <2>1, FinishHistory DEF Data
  <1>7. CASE Exit
    BY <1>0, <1>7, EmptyLine DEF Exit, History, HistorySound
  <1>8. CASE Read
    <2>1. CASE Finish(wdir)
      BY <1>8, <2>1, FinishHistory DEF Read, Running
    <2>2. CASE Overrun("path") /\ UNCHANGED <<buff, l_cmd>>
      BY <1>8, <2>2 DEF Read, Overrun, History, HistorySound
    <2> QED BY <1>8, <2>1, <2>2 DEF Read
  <1>9. CASE CdTo
    BY <1>9, FinishHistory DEF CdTo, Running
  <1>10. CASE CdUp
    BY <1>10, FinishHistory DEF CdUp, Running
  <1>11. CASE CdDown
    <2>1. CASE Finish(wdir \o buff.arg)
      BY <1>11, <2>1, FinishHistory DEF CdDown, Running
    <2>2. CASE Overrun("wdir") /\ UNCHANGED <<buff, l_cmd>>
      BY <1>11, <2>2 DEF CdDown, Overrun, History, HistorySound
    <2> QED BY <1>11, <2>1, <2>2 DEF CdDown, Stored
  <1>12. CASE UNCHANGED vars
    BY <1>12 DEF vars, History, HistorySound
  <1> QED BY <1>1, <1>2, <1>3, <1>4, <1>5, <1>6, <1>7, <1>8, <1>9, <1>10, <1>11,
             <1>12 DEF Next
-----------------------------------------------------------------------------
LEMMA Fitting ==
    ASSUME NEW w \in Nat, NEW a \in Nat, NEW l \in Nat, NEW s \in Nat,
           w <= l + 1, 2 * l + 2 < s, 2 * a + 2 < s
    PROVE  w + 1 + a < s /\ w + a < s
  OBVIOUS

(* A directory after no cd or one leaves room for a '/' and an argument.   *)
LEMMA Room ==
    ASSUME Types, Lengths, downs \in {0, 1}, buff \in Lines
    PROVE  Len(wdir) + 1 + Len(buff.arg) < Size /\ Len(wdir) + Len(buff.arg) < Size
  <1>1. 2 * Len(buff.arg) + 2 < Size
    BY Arguments
  <1>2. CASE downs = 0
    <2>1. Len(wdir) <= 0 + 1
      BY <1>2 DEF Lengths
    <2>2. 2 * 0 + 2 < Size
      <3>1. \A a, s \in Nat : 2 * a + 2 < s => 2 * 0 + 2 < s
        OBVIOUS
      <3>2. Len(buff.arg) \in Nat /\ Size \in Nat
        BY Arrays
      <3> QED BY <1>1, <3>1, <3>2
    <2>3. Len(wdir) \in Nat /\ Len(buff.arg) \in Nat /\ Size \in Nat
      BY Arrays
    <2> QED BY <1>1, <2>1, <2>2, <2>3, Fitting
  <1>3. CASE downs = 1
    <2>1. PICK line \in Lines : Len(wdir) <= Len(line.arg) + 1
      BY <1>3 DEF Lengths
    <2>2. 2 * Len(line.arg) + 2 < Size /\ Len(line.arg) \in Nat
      BY Arguments
    <2>3. Len(wdir) \in Nat /\ Len(buff.arg) \in Nat /\ Size \in Nat
      BY Arrays
    <2> QED BY <1>1, <2>1, <2>2, <2>3, Fitting
  <1> QED BY <1>2, <1>3

(* The path read makes of the directory and a name. *)
LEMMA PathLength ==
    ASSUME NEW d \in Seq(Char), NEW name \in Seq(Char), d # << >>
    PROVE  /\ Len(ReadPath(d, name)) \in Nat
           /\ \A s \in Nat : Len(d) + 1 + Len(name) < s => Len(ReadPath(d, name)) < s
  <1>1. <<Slash>> \in Seq(Char) /\ Len(<<Slash>>) = 1
    BY DEF Char, Slash
  <1>2. << >> \in Seq(Char) /\ Len(<< >>) = 0
    BY EmptySeq
  <1>3. ASSUME NEW s \in Seq(Char), Len(s) <= 1
        PROVE  /\ Len(d \o s \o name) \in Nat
               /\ \A t \in Nat : Len(d) + 1 + Len(name) < t => Len(d \o s \o name) < t
    <2>1. d \o s \in Seq(Char) /\ Len(d \o s) = Len(d) + Len(s)
      BY Joining
    <2>2. Len((d \o s) \o name) = Len(d \o s) + Len(name)
      BY <2>1, Joining
    <2>3. Len(d) \in Nat /\ Len(s) \in Nat /\ Len(name) \in Nat
      OBVIOUS
    <2>4. \A k, l, m, t \in Nat : l <= 1 /\ k + 1 + m < t => (k + l) + m < t
      OBVIOUS
    <2> QED BY <1>3, <2>1, <2>2, <2>3, <2>4
  <1>4. CASE Last(d) = Slash
    <2>1. ReadPath(d, name) = d \o << >> \o name
      BY <1>4 DEF ReadPath
    <2> QED BY <1>2, <1>3, <2>1
  <1>5. CASE Last(d) # Slash
    <2>1. ReadPath(d, name) = d \o <<Slash>> \o name
      BY <1>5 DEF ReadPath
    <2> QED BY <1>1, <1>3, <2>1
  <1> QED BY <1>4, <1>5

LEMMA NextLengths == Types /\ Lengths /\ [Next]_vars => Lengths'
  <1> SUFFICES ASSUME Types, Lengths, [Next]_vars PROVE Lengths'
    OBVIOUS
  <1>0. where # "nowhere" => phase = "wild"
    BY DEF Lengths
  <1>1. ASSUME phase # "wild", UNCHANGED <<wdir, downs, where>> PROVE Lengths'
    BY <1>0, <1>1 DEF Lengths, ArraysHold
  <1>2. CASE Start \/ Type \/ Write \/ Exit
    BY <1>1, <1>2 DEF Start, Type, Write, Running, Exit
  <1>3. CASE Say \/ Data
    BY <1>1, <1>3 DEF Say, Data, Finish
  <1>4. CASE Reboot \/ Hang
    BY <1>1, <1>4 DEF Reboot, Hang, Return, Running
  <1>5. CASE KernelMain
    <2>1. where = "nowhere"
      BY <1>0, <1>5 DEF KernelMain
    <2>2. CASE left < Frame
      BY <1>5, <2>2 DEF KernelMain, Overrun, Lengths, ArraysHold
    <2>3. CASE ~(left < Frame)
      <3>1. wdir' = <<Slash>> /\ downs' = 0 /\ where' = "nowhere"
        BY <1>5, <2>1, <2>3 DEF KernelMain
      <3>2. Len(wdir') = 1
        BY <3>1
      <3> QED BY <3>1, <3>2 DEF Lengths, ArraysHold
    <2> QED BY <2>2, <2>3
  <1>6. CASE Read
    <2>1. CASE Len(ReadPath(wdir, buff.arg)) < Size
      BY <1>1, <1>6, <2>1 DEF Read, Running, Finish
    <2>2. CASE ~(Len(ReadPath(wdir, buff.arg)) < Size)
      <3>1. wdir # << >> /\ buff \in Lines
        BY <1>6, Arguments DEF Read, Running, Types, TypeOK, Alive
      <3>2. downs \notin {0, 1}
        <4> SUFFICES ASSUME downs \in {0, 1} PROVE FALSE
          OBVIOUS
        <4>1. Len(wdir) + 1 + Len(buff.arg) < Size
          BY <3>1, Room
        <4>2. Size \in Nat /\ wdir \in Seq(Char) /\ buff.arg \in Seq(Char)
          BY Arrays
        <4>3. Len(ReadPath(wdir, buff.arg)) < Size
          BY <3>1, <4>1, <4>2, PathLength
        <4> QED BY <2>2, <4>3
      <3>3. downs >= 2
        BY <3>2, Arrays
      <3>4. /\ UNCHANGED <<wdir, downs>>
            /\ where' = "path" /\ phase' = "wild"
        BY <1>6, <2>2 DEF Read, Overrun
      <3> QED BY <3>2, <3>3, <3>4 DEF Lengths, ArraysHold
    <2> QED BY <2>1, <2>2
  <1>7. CASE CdTo
    <2>1. where' = where /\ where = "nowhere" /\ wdir' = buff.arg
      BY <1>0, <1>7 DEF CdTo, Running, Finish
    <2>2. buff \in Lines
      BY <1>7, Arguments DEF CdTo, Running, Types, TypeOK
    <2>3. CASE buff.arg = <<Slash>>
      <3>1. Len(wdir') = 1 /\ downs' = 0
        BY <1>7, <2>1, <2>3 DEF CdTo
      <3> QED BY <2>1, <3>1 DEF Lengths, ArraysHold
    <2>4. CASE buff.arg # <<Slash>>
      <3>1. downs' = 1
        BY <1>7, <2>4 DEF CdTo
      <3>2. Len(wdir') <= Len(buff.arg) + 1
        <4>1. \A n \in Nat : n <= n + 1
          OBVIOUS
        <4> QED BY <2>1, <4>1, Arrays
      <3> QED BY <2>1, <2>2, <3>1, <3>2 DEF Lengths, ArraysHold
    <2> QED BY <2>3, <2>4
  <1>8. CASE CdUp
    <2>1. /\ where' = where /\ where = "nowhere" /\ downs' = downs
          /\ wdir' = Stripped(wdir) /\ wdir # << >>
      BY <1>0, <1>8 DEF CdUp, Running, Finish, Types, Alive
    <2>2. PICK n \in 1..Len(wdir) : Stripped(wdir) = SubSeq(wdir, 1, n)
      BY <2>1, Arrays, Stripping
    <2>3. Len(wdir') = n /\ n <= Len(wdir) /\ n \in Nat
      BY <2>1, <2>2, Arrays, Beginning
    <2>4. downs' = 0 => Len(wdir') <= 1
      BY <2>1, <2>3, Arrays DEF Lengths
    <2>5. downs' = 1 => \E line \in Lines : Len(wdir') <= Len(line.arg) + 1
      <3> SUFFICES ASSUME downs = 1
                   PROVE  \E line \in Lines : Len(wdir') <= Len(line.arg) + 1
        BY <2>1
      <3>1. PICK line \in Lines : Len(wdir) <= Len(line.arg) + 1
        BY DEF Lengths
      <3>2. Len(line.arg) \in Nat /\ Len(wdir) \in Nat
        BY Arguments, Arrays
      <3>3. Len(wdir') <= Len(line.arg) + 1
        BY <2>3, <3>1, <3>2
      <3> QED BY <3>3
    <2> QED BY <2>1, <2>4, <2>5 DEF Lengths, ArraysHold
  <1>9. CASE CdDown
    <2>1. downs \in 0..3 /\ downs' = IF downs = 3 THEN 3 ELSE downs + 1
      BY <1>9, Arrays DEF CdDown
    <2>2. where = "nowhere" /\ buff \in Lines
      BY <1>0, <1>9, Arguments DEF CdDown, Running, Types, TypeOK
    <2> DEFINE dir == wdir \o buff.arg
    <2>25. Stored(dir) /\ Len(dir) = Len(wdir) + Len(buff.arg)
      BY <1>9, Arrays, Joining DEF CdDown
    <2> HIDE DEF dir
    <2>3. CASE Len(wdir) + Len(buff.arg) < Size
      <3>1. where' = "nowhere" /\ wdir' = wdir \o buff.arg
        BY <2>2, <2>3, <2>25 DEF Stored, Finish, dir
      <3>2. downs' # 0
        BY <2>1
      <3>3. ASSUME downs' = 1 PROVE Len(wdir') <= Len(buff.arg) + 1
        <4>1. downs = 0
          BY <2>1, <3>3
        <4>2. Len(wdir) <= 1 /\ Len(wdir') = Len(wdir) + Len(buff.arg)
          BY <3>1, <4>1, Arrays, Joining DEF Lengths
        <4>3. Len(wdir) \in Nat /\ Len(buff.arg) \in Nat
          BY Arrays
        <4> QED BY <4>2, <4>3
      <3> QED BY <2>2, <3>1, <3>2, <3>3 DEF Lengths, ArraysHold
    <2>4. CASE ~(Len(wdir) + Len(buff.arg) < Size)
      <3>1. downs \notin {0, 1}
        <4> SUFFICES ASSUME downs \in {0, 1} PROVE FALSE
          OBVIOUS
        <4> QED BY <2>2, <2>4, Room
      <3>2. downs' >= 3 /\ downs' # 0 /\ downs' # 1
        BY <2>1, <3>1
      <3>3. where' = "wdir" /\ phase' = "wild"
        BY <2>4, <2>25 DEF Stored, Overrun
      <3> QED BY <3>2, <3>3 DEF Lengths, ArraysHold
    <2> QED BY <2>3, <2>4
  <1>10. CASE UNCHANGED vars
    BY <1>10 DEF vars, Lengths, ArraysHold
  <1> QED BY <1>2, <1>3, <1>4, <1>5, <1>6, <1>7, <1>8, <1>9, <1>10 DEF Next
-----------------------------------------------------------------------------
LEMMA NextJoined == Types /\ Joined /\ [Next]_vars => Joined'
  <1> SUFFICES ASSUME Types, Joined, [Next]_vars PROVE Joined'
    OBVIOUS
  <1>1. ASSUME UNCHANGED <<wdir, came>> PROVE Joined'
    BY <1>1 DEF Joined
  <1>2. ASSUME came' = << >> PROVE Joined'
    BY <1>2 DEF Joined
  <1>3. CASE KernelMain
    BY <1>1, <1>2, <1>3 DEF KernelMain
  <1>4. CASE Read
    BY <1>1, <1>4 DEF Read, Finish
  <1>5. CASE CdTo \/ CdUp
    BY <1>2, <1>5 DEF CdTo, CdUp
  <1>6. CASE CdDown
    <2>1. Came /\ wdir' = wdir \o buff.arg
      BY <1>6 DEF CdDown, Stored, Finish
    <2>2. CASE Slash \in Range(buff.arg)
      BY <1>2, <2>1, <2>2 DEF Came
    <2>3. CASE Slash \notin Range(buff.arg)
      <3>1. came' = wdir /\ wdir' = wdir \o buff.arg /\ buff.arg \in Seq(Char)
        BY <2>1, <2>3, Arrays DEF Came
      <3> QED BY <2>3, <3>1 DEF Joined
    <2> QED BY <2>2, <2>3
  <1>7. CASE Start \/ Type \/ Say \/ Reboot \/ Hang \/ Write \/ Data \/ Exit
    BY <1>1, <1>7 DEF Start, Type, Say, Reboot, Hang, Return, Write, Data, Exit, Finish
  <1>8. CASE UNCHANGED vars
    BY <1>1, <1>8 DEF vars
  <1> QED BY <1>3, <1>4, <1>5, <1>6, <1>7, <1>8 DEF Next
-----------------------------------------------------------------------------
(* The state is well-formed, the history holds no line that ends the       *)
(* console, wdir is no fuller than the cd's make it, and came a beginning  *)
(* of it.                                                                  *)
THEOREM Inductive == Spec => []IInv
  <1>1. Init => IInv
    <2> SUFFICES ASSUME Init PROVE IInv
      OBVIOUS
    <2>1. History
      BY EmptyLine DEF Init, History, HistorySound, Nothing
    <2>2. Lengths
      <3>1. Len(wdir) = 0
        BY DEF Init
      <3> QED BY <3>1 DEF Init, Lengths, ArraysHold
    <2>3. Joined
      BY DEF Init, Joined
    <2> QED BY <2>1, <2>2, <2>3, InitTyped DEF IInv
  <1>2. IInv /\ [Next]_vars => IInv'
    BY NextTyped, NextHistory, NextLengths, NextJoined DEF IInv
  <1> QED BY <1>1, <1>2, PTL DEF Spec

(* For users who type no empty names, the working directory always begins  *)
(* with '/', has no empty name in it and is the one in the last prompt.    *)
THEOREM WdirStaysNamed ==
    ASSUME \A line \in Lines : NoEmptyName(line.arg)
    PROVE  Spec => []WdirNamed
  <1>1. Init => WdirNamed
    BY DEF Init, WdirNamed, Alive
  <1>2. IInv /\ WdirNamed /\ [Next]_vars => WdirNamed'
    BY NextNamed DEF IInv
  <1> QED BY <1>1, <1>2, Inductive, PTL DEF Spec

(* `!!` neither reboots nor hangs nor repeats itself, and repeats no write *)
(* that was given up.                                                      *)
THEOREM HistoryStaysSound == Spec => []HistorySound
  <1>1. IInv => HistorySound
    BY DEF IInv, History
  <1> QED BY <1>1, Inductive, PTL

(* From "/" no array is overrun before the second cd, for read's path, or  *)
(* the third, for wdir.                                                    *)
THEOREM NoEarlyOverrun == Spec => []ArraysHold
  <1>1. IInv => ArraysHold
    BY DEF IInv, Lengths
  <1> QED BY <1>1, Inductive, PTL

(* cd .. takes back a cd to a name from a directory that ended in '/'.     *)
THEOREM UpTakesBack == Spec => UpUndoesDown
  <1>1. IInv => [CdUp /\ Rooted(came) /\ Last(came) = Slash => wdir' = came]_vars
    <2> SUFFICES ASSUME IInv, CdUp, Rooted(came), Last(came) = Slash
                 PROVE  wdir' = came
      OBVIOUS
    <2>1. PICK name \in Seq(Char) : wdir = came \o name /\ Slash \notin Range(name)
      BY DEF IInv, Joined, Rooted
    <2>2. came \in Seq(Char) /\ came # << >> /\ came[Len(came)] = Slash
      BY Arrays DEF IInv, Rooted, Last
    <2>3. Stripped(wdir) = came
      BY <2>1, <2>2, StrippedJoined
    <2> QED BY <2>3 DEF CdUp, Finish
  <1> QED BY <1>1, Inductive, PTL DEF UpUndoesDown
-----------------------------------------------------------------------------
(* The parts of a path.  A caller of strsplit has met as many parts as     *)
(* there are zeros behind it.                                              *)
Code == 0..255

Walk(w, m, n) ==
    w = [k \in 0..n |-> IF k = 0 THEN [met |-> << >>, p |-> 1] ELSE Stepped(m, w[k - 1])]

LEMMA WalkFurther ==
    ASSUME NEW m, NEW n \in Nat, \E w : Walk(w, m, n)
    PROVE  \E w : Walk(w, m, n + 1)
  <1> DEFINE Start0 == [met |-> << >>, p |-> 1]
  <1>1. PICK w : w = [k \in 0..n |-> IF k = 0 THEN Start0 ELSE Stepped(m, w[k - 1])]
    BY DEF Walk
  <1> HIDE DEF Start0
  <1> DEFINE g == [k \in 0..(n + 1) |-> IF k = 0 THEN Start0 ELSE Stepped(m, w[k - 1])]
  <1>2. \A k \in 0..n : g[k] = w[k]
    <2> TAKE k \in 0..n
    <2>1. k \in 0..(n + 1)
      OBVIOUS
    <2>2. w[k] = IF k = 0 THEN Start0 ELSE Stepped(m, w[k - 1])
      BY <1>1
    <2>3. g[k] = IF k = 0 THEN Start0 ELSE Stepped(m, w[k - 1])
      BY <2>1
    <2> QED BY <2>2, <2>3
  <1>3. \A k \in 0..(n + 1) : g[k] = IF k = 0 THEN Start0 ELSE Stepped(m, g[k - 1])
    <2> TAKE k \in 0..(n + 1)
    <2>1. g[k] = IF k = 0 THEN Start0 ELSE Stepped(m, w[k - 1])
      OBVIOUS
    <2>2. k # 0 => k - 1 \in 0..n
      OBVIOUS
    <2>3. k # 0 => g[k - 1] = w[k - 1]
      BY <1>2, <2>2
    <2> HIDE DEF g
    <2> QED BY <2>1, <2>3
  <1>4. g = [k \in 0..(n + 1) |-> g[k]]
    OBVIOUS
  <1> HIDE DEF g
  <1>5. g = [k \in 0..(n + 1) |-> IF k = 0 THEN Start0 ELSE Stepped(m, g[k - 1])]
    BY <1>3, <1>4
  <1> QED BY <1>5 DEF Walk, Start0

LEMMA WalkExists ==
    ASSUME NEW m, NEW n \in Nat
    PROVE  \E w : Walk(w, m, n)
  <1> DEFINE short == { j \in Nat : ~\E w : Walk(w, m, j) }
  <1> SUFFICES ASSUME short # {} PROVE FALSE
    OBVIOUS
  <1>1. PICK l \in short : \A j \in short : l <= j
    BY LeastNat
  <1>2. \E w : Walk(w, m, 0)
    <2> DEFINE Start0 == [met |-> << >>, p |-> 1]
               g == [k \in 0..0 |-> Start0]
    <2> HIDE DEF Start0
    <2>1. \A k \in 0..0 : k = 0
      OBVIOUS
    <2>2. g = [k \in 0..0 |-> IF k = 0 THEN Start0 ELSE Stepped(m, g[k - 1])]
      BY <2>1
    <2> HIDE DEF g
    <2> QED BY <2>2 DEF Walk, Start0
  <1>3. l # 0 /\ l \in Nat
    BY <1>2
  <1>4. l - 1 \in Nat /\ l - 1 \notin short /\ (l - 1) + 1 = l
    BY <1>1, <1>3
  <1>5. \E w : Walk(w, m, l - 1)
    BY <1>4
  <1>6. \E w : Walk(w, m, (l - 1) + 1)
    BY <1>4, <1>5, WalkFurther
  <1>7. \E w : Walk(w, m, l)
    BY <1>4, <1>6
  <1> QED BY <1>1, <1>7

LEMMA PartsIs ==
    ASSUME NEW split, split.n \in Nat
    PROVE  \E w : Walk(w, split.m, split.n) /\ Parts(split) = w[split.n].met
  <1> DEFINE made == CHOOSE w : Walk(w, split.m, split.n)
  <1>1. Walk(made, split.m, split.n)
    BY WalkExists
  <1>2. Parts(split) = made[split.n].met
    BY DEF Parts, Walk
  <1> HIDE DEF made
  <1> QED BY <1>1, <1>2

LEMMA WalkIs ==
    ASSUME NEW m, NEW n \in Nat, NEW w, Walk(w, m, n)
    PROVE  /\ w[0] = [met |-> << >>, p |-> 1]
           /\ \A k \in 0..(n - 1) : w[k + 1] = Stepped(m, w[k])
  <1>1. \A k \in 0..n : w[k] = IF k = 0 THEN [met |-> << >>, p |-> 1] ELSE Stepped(m, w[k - 1])
    BY DEF Walk
  <1>2. w[0] = [met |-> << >>, p |-> 1]
    <2>1. 0 \in 0..n
      OBVIOUS
    <2> QED BY <1>1, <2>1
  <1>3. ASSUME NEW k \in 0..(n - 1) PROVE w[k + 1] = Stepped(m, w[k])
    <2>1. k + 1 \in 0..n /\ k + 1 # 0 /\ (k + 1) - 1 = k
      OBVIOUS
    <2>2. w[k + 1] = Stepped(m, w[(k + 1) - 1])
      BY <1>1, <2>1
    <2> QED BY <2>1, <2>2
  <1> QED BY <1>2, <1>3

(* The part at p ends before the first zero. *)
LEMMA StringIs ==
    ASSUME NEW m, NEW p \in Nat, NEW e \in p..Len(m), Len(m) \in Nat,
           m[e] = 0, \A i \in p..(e - 1) : m[i] # 0
    PROVE  StringAt(m, p) = SubSeq(m, p, e - 1)
  <1> DEFINE zeros == { i \in p..Len(m) : m[i] = 0 }
  <1>1. e \in zeros /\ \A y \in zeros : e <= y
    OBVIOUS
  <1>2. \A x \in zeros : (\A y \in zeros : x <= y) => x = e
    OBVIOUS
  <1> HIDE DEF zeros
  <1>3. Min(zeros) = e
    BY <1>1, <1>2 DEF Min
  <1> QED BY <1>3 DEF StringAt, zeros

LEMMA FirstZero ==
    ASSUME NEW m, Len(m) \in Nat, m[Len(m)] = 0, NEW p \in 1..Len(m)
    PROVE  \E e \in p..Len(m) : m[e] = 0 /\ \A i \in p..(e - 1) : m[i] # 0
  <1> DEFINE zeros == { i \in p..Len(m) : m[i] = 0 }
  <1>1. zeros \in SUBSET Nat /\ Len(m) \in zeros
    OBVIOUS
  <1>2. PICK e \in zeros : \A y \in zeros : e <= y
    BY <1>1, LeastNat
  <1> QED BY <1>2

Memory(m) == m \in Seq(Code) /\ Len(m) >= 1 /\ m[Len(m)] = 0

Zeros(m, p) == { i \in 1..(p - 1) : m[i] = 0 }

(* After k steps: as many parts, and as many zeros behind.                 *)
Behind(m, w, k) ==
    /\ w.p \in 1..(Len(m) + 1) /\ w.met \in Seq(Seq(Code)) /\ Len(w.met) = k
    /\ Cardinality(Zeros(m, w.p)) = k

LEMMA ZerosFinite ==
    ASSUME NEW m, NEW p \in Nat
    PROVE  IsFiniteSet(Zeros(m, p)) /\ Cardinality(Zeros(m, p)) \in Nat
  <1>1. IsFiniteSet(1..(p - 1))
    BY FS_Interval
  <1>2. Zeros(m, p) \in SUBSET (1..(p - 1))
    BY DEF Zeros
  <1>3. IsFiniteSet(Zeros(m, p))
    BY <1>1, <1>2, FS_Subset
  <1> QED BY <1>3, FS_CardinalityType

(* A step from before the end. *)
LEMMA StepBehind ==
    ASSUME NEW m, Memory(m), NEW w, NEW k \in Nat, Behind(m, w, k), w.p <= Len(m)
    PROVE  /\ \E e \in w.p..Len(m) :
                 /\ m[e] = 0 /\ \A i \in w.p..(e - 1) : m[i] # 0
                 /\ Stepped(m, w) = [met |-> Append(w.met, SubSeq(m, w.p, e - 1)), p |-> e + 1]
           /\ Behind(m, Stepped(m, w), k + 1)
  <1> DEFINE p == w.p
             met == w.met
  <1>1. /\ m \in Seq(Code) /\ Len(m) \in Nat /\ m[Len(m)] = 0 /\ p \in 1..Len(m)
        /\ met \in Seq(Seq(Code)) /\ Len(met) = k /\ Cardinality(Zeros(m, p)) = k
    BY DEF Memory, Behind
  <1> HIDE DEF p, met
  <1>2. PICK e \in p..Len(m) : m[e] = 0 /\ \A i \in p..(e - 1) : m[i] # 0
    BY <1>1, FirstZero
  <1>3. StringAt(m, p) = SubSeq(m, p, e - 1)
    BY <1>1, <1>2, StringIs
  <1>4. SubSeq(m, p, e - 1) \in Seq(Code) /\ Len(SubSeq(m, p, e - 1)) = e - p
    <2>1. \A i \in p..(e - 1) : i \in 1..Len(m)
      BY <1>1, <1>2
    <2>2. SubSeq(m, p, e - 1) \in Seq(Code)
      BY <1>1, <1>2, <2>1, SubSeqProperties
    <2>3. Len(SubSeq(m, p, e - 1)) = IF p <= e - 1 THEN (e - 1) - p + 1 ELSE 0
      BY <1>1, <1>2, <2>1, SubSeqProperties
    <2> QED BY <1>1, <1>2, <2>2, <2>3
  <1> DEFINE part == SubSeq(m, p, e - 1)
             next == [met |-> Append(met, part), p |-> e + 1]
  <1>5. Stepped(m, w) = next
    <2>1. Stepped(m, w) = [met |-> Append(met, StringAt(m, p)), p |-> p + Len(StringAt(m, p)) + 1]
      BY <1>1 DEF Stepped, p, met
    <2>2. p + Len(StringAt(m, p)) + 1 = e + 1
      BY <1>1, <1>2, <1>3, <1>4
    <2> QED BY <1>3, <2>1, <2>2
  <1>6. Append(met, part) \in Seq(Seq(Code)) /\ Len(Append(met, part)) = k + 1
    <2>1. part \in Seq(Code)
      BY <1>4
    <2> HIDE DEF part
    <2> QED BY <1>1, <2>1
  <1>7. Zeros(m, e + 1) = Zeros(m, p) \cup {e} /\ e \notin Zeros(m, p)
    BY <1>1, <1>2 DEF Zeros
  <1>8. Cardinality(Zeros(m, e + 1)) = k + 1
    BY <1>1, <1>7, ZerosFinite, FS_AddElement
  <1>9. e + 1 \in 1..(Len(m) + 1)
    BY <1>1, <1>2
  <1> HIDE DEF part
  <1>10. Behind(m, next, k + 1)
    BY <1>6, <1>8, <1>9 DEF Behind
  <1> QED BY <1>2, <1>5, <1>10 DEF part, p, met

(* The last part is met when all zeros are behind, and no sooner.          *)
LEMMA AtEnd ==
    ASSUME NEW m, Memory(m), NEW w, NEW k \in Nat, Behind(m, w, k)
    PROVE  k = Cardinality(Zeros(m, Len(m) + 1)) <=> w.p = Len(m) + 1
  <1> DEFINE p == w.p
             all == Zeros(m, Len(m) + 1)
  <1>1. /\ Len(m) \in Nat /\ Len(m) >= 1 /\ m[Len(m)] = 0 /\ p \in 1..(Len(m) + 1)
        /\ Cardinality(Zeros(m, p)) = k
    BY DEF Memory, Behind
  <1> HIDE DEF p
  <1>2. CASE p = Len(m) + 1
    BY <1>1, <1>2 DEF p
  <1>3. CASE p <= Len(m)
    <2>1. IsFiniteSet(Zeros(m, p)) /\ IsFiniteSet(all) /\ Cardinality(all) \in Nat
      BY <1>1, ZerosFinite
    <2>2. Len(m) \in all /\ Len(m) \notin Zeros(m, p) /\ Zeros(m, p) \subseteq all
      BY <1>1, <1>3 DEF Zeros
    <2> DEFINE more == Zeros(m, p) \cup {Len(m)}
    <2>3. more \in SUBSET all /\ Cardinality(more) = k + 1
      BY <1>1, <2>1, <2>2, FS_AddElement
    <2>4. Cardinality(more) <= Cardinality(all)
      BY <2>1, <2>3, FS_Subset
    <2> QED BY <1>1, <1>3, <2>1, <2>3, <2>4 DEF p
  <1> QED BY <1>1, <1>2, <1>3

LEMMA Walking ==
    ASSUME NEW m, Memory(m), NEW n \in Nat, n = Cardinality(Zeros(m, Len(m) + 1)),
           NEW w, Walk(w, m, n)
    PROVE  \A k \in 0..n : Behind(m, w[k], k)
  <1> DEFINE bad == { j \in 0..n : ~Behind(m, w[j], j) }
  <1> SUFFICES ASSUME bad # {} PROVE FALSE
    OBVIOUS
  <1>1. PICK l \in bad : \A j \in bad : l <= j
    <2>1. bad \in SUBSET Nat
      OBVIOUS
    <2> QED BY <2>1, LeastNat
  <1>2. /\ w[0] = [met |-> << >>, p |-> 1]
        /\ \A k \in 0..(n - 1) : w[k + 1] = Stepped(m, w[k])
    BY WalkIs
  <1>3. l # 0
    <2>1. Zeros(m, 1) = {}
      BY DEF Zeros
    <2>2. Cardinality(Zeros(m, 1)) = 0
      BY <2>1, FS_EmptySet
    <2> DEFINE none == << >>
    <2>3. none \in Seq(Seq(Code)) /\ Len(none) = 0
      OBVIOUS
    <2>4. w[0].met = none /\ w[0].p = 1
      BY <1>2
    <2> HIDE DEF none
    <2>5. 1 \in 1..(Len(m) + 1)
      BY DEF Memory
    <2>6. Behind(m, w[0], 0)
      BY <2>2, <2>3, <2>4, <2>5 DEF Behind
    <2> QED BY <1>1, <2>6
  <1> DEFINE k == l - 1
  <1>4. k \in 0..(n - 1) /\ k + 1 = l /\ k \in Nat /\ k # n /\ k \in 0..n
    BY <1>1, <1>3
  <1>5. Behind(m, w[k], k)
    BY <1>1, <1>4
  <1> HIDE DEF k
  <1>6. w[k].p # Len(m) + 1
    BY <1>4, <1>5, AtEnd
  <1>7. w[k].p <= Len(m)
    BY <1>5, <1>6 DEF Behind, Memory
  <1>8. Behind(m, Stepped(m, w[k]), k + 1)
    BY <1>4, <1>5, <1>7, StepBehind
  <1>9. Behind(m, w[l], l)
    BY <1>2, <1>4, <1>8
  <1> QED BY <1>1, <1>9

(* Equal as far as they go, two memories have the same parts. *)
LEMMA SameParts ==
    ASSUME NEW m \in Seq(Code), NEW long \in Seq(Code), Len(long) > Len(m),
           \A i \in 1..Len(m) : long[i] = m[i],
           NEW p \in 1..Len(m), NEW e \in p..Len(m)
    PROVE  SubSeq(long, p, e - 1) = SubSeq(m, p, e - 1)
  <1>1. Len(m) \in Nat /\ Len(long) \in Nat
    OBVIOUS
  <1>2. \A i \in p..(e - 1) : i \in 1..Len(m) /\ i \in 1..Len(long)
    BY <1>1
  <1> DEFINE here == SubSeq(m, p, e - 1)
             there == SubSeq(long, p, e - 1)
  <1>3. /\ here \in Seq(Code)
        /\ Len(here) = IF p <= e - 1 THEN (e - 1) - p + 1 ELSE 0
        /\ \A i \in 1..((e - 1) - p + 1) : here[i] = m[p + i - 1]
    BY <1>1, <1>2, SubSeqProperties
  <1>4. /\ there \in Seq(Code)
        /\ Len(there) = IF p <= e - 1 THEN (e - 1) - p + 1 ELSE 0
        /\ \A i \in 1..((e - 1) - p + 1) : there[i] = long[p + i - 1]
    BY <1>1, <1>2, SubSeqProperties
  <1> HIDE DEF here, there
  <1>5. Len(there) = Len(here) /\ \A i \in 1..Len(here) : i \in 1..((e - 1) - p + 1)
    BY <1>1, <1>3, <1>4
  <1>6. \A i \in 1..((e - 1) - p + 1) : p + i - 1 \in 1..Len(m)
    BY <1>1
  <1>7. \A i \in 1..Len(here) : there[i] = here[i]
    BY <1>3, <1>4, <1>5, <1>6
  <1>8. there = here
    BY <1>3, <1>4, <1>5, <1>7, SeqEqual
  <1> QED BY <1>8 DEF here, there

(* As far as the memory is the same so is the walk. *)
LEMMA SameWalk ==
    ASSUME NEW m, Memory(m), NEW n \in Nat, n = Cardinality(Zeros(m, Len(m) + 1)),
           NEW w, Walk(w, m, n),
           NEW long \in Seq(Code), Len(long) > Len(m), \A i \in 1..Len(m) : long[i] = m[i],
           NEW v, Walk(v, long, n + 1)
    PROVE  \A k \in 0..n : v[k] = w[k]
  <1> DEFINE bad == { j \in 0..n : v[j] # w[j] }
  <1> SUFFICES ASSUME bad # {} PROVE FALSE
    OBVIOUS
  <1>1. PICK l \in bad : \A j \in bad : l <= j
    <2>1. bad \in SUBSET Nat
      OBVIOUS
    <2> QED BY <2>1, LeastNat
  <1>2. /\ w[0] = [met |-> << >>, p |-> 1] /\ v[0] = w[0]
        /\ \A k \in 0..(n - 1) : w[k + 1] = Stepped(m, w[k])
        /\ \A k \in 0..n : v[k + 1] = Stepped(long, v[k])
    <2>1. n + 1 \in Nat /\ (n + 1) - 1 = n
      OBVIOUS
    <2> DEFINE top == n + 1
    <2>4. top \in Nat /\ Walk(v, long, top)
      BY <2>1
    <2> HIDE DEF top
    <2>5. /\ v[0] = [met |-> << >>, p |-> 1]
          /\ \A k \in 0..(top - 1) : v[k + 1] = Stepped(long, v[k])
      BY <2>4, WalkIs
    <2>2. /\ v[0] = [met |-> << >>, p |-> 1]
          /\ \A k \in 0..((n + 1) - 1) : v[k + 1] = Stepped(long, v[k])
      BY <2>5 DEF top
    <2>3. /\ w[0] = [met |-> << >>, p |-> 1]
          /\ \A k \in 0..(n - 1) : w[k + 1] = Stepped(m, w[k])
      BY WalkIs
    <2> QED BY <2>1, <2>2, <2>3
  <1>3. l # 0
    BY <1>1, <1>2
  <1> DEFINE k == l - 1
  <1>4. k \in 0..(n - 1) /\ k + 1 = l /\ k \in Nat /\ k # n /\ k \in 0..n
    BY <1>1, <1>3
  <1>5. v[k] = w[k]
    BY <1>1, <1>4
  <1>6. Behind(m, w[k], k)
    BY <1>4, Walking
  <1> HIDE DEF k
  <1>7. w[k].p # Len(m) + 1
    BY <1>4, <1>6, AtEnd
  <1> DEFINE p == w[k].p
             met == w[k].met
  <1>8. p \in 1..Len(m) /\ Len(m) \in Nat /\ m \in Seq(Code) /\ Len(long) \in Nat
    BY <1>6, <1>7 DEF Behind, Memory
  <1>9. PICK e \in p..Len(m) : m[e] = 0 /\ \A i \in p..(e - 1) : m[i] # 0
    BY <1>8, FirstZero DEF Memory
  <1> HIDE DEF p, met
  <1>10. StringAt(m, p) = SubSeq(m, p, e - 1)
    BY <1>8, <1>9, StringIs
  <1>11. StringAt(long, p) = SubSeq(long, p, e - 1)
    <2>1. e \in p..Len(long) /\ long[e] = 0
      BY <1>8, <1>9
    <2>2. \A i \in p..(e - 1) : long[i] # 0
      BY <1>8, <1>9
    <2> QED BY <1>8, <2>1, <2>2, StringIs
  <1>12. SubSeq(long, p, e - 1) = SubSeq(m, p, e - 1)
    BY <1>8, <1>9, SameParts
  <1>13. Stepped(long, w[k]) = Stepped(m, w[k])
    <2>1. ~(p > Len(long)) /\ ~(p > Len(m))
      BY <1>8
    <2> QED BY <1>10, <1>11, <1>12, <2>1 DEF Stepped, p
  <1>14. v[l] = w[l]
    BY <1>2, <1>4, <1>5, <1>13
  <1> QED BY <1>1, <1>14

LEMMA NoZero == \A c \in Char : c # 0
  BY DEF Char

(* What strsplit leaves behind, and that it counts the zeros. *)
SplitUp(d, delim) ==
    LET m == strsplit(d, delim).m
        n == strsplit(d, delim).n
    IN  /\ Memory(m) /\ Len(m) = Len(d) + 1
        /\ \A i \in 1..Len(d) : m[i] = IF d[i] = delim THEN 0 ELSE d[i]
        /\ n \in Nat /\ n >= 1 /\ n = Cardinality(Zeros(m, Len(m) + 1))
        /\ n = Cardinality({ i \in DOMAIN d : d[i] = delim }) + 1

LEMMA SplitAt ==
    ASSUME NEW d \in Seq(Char), NEW delim
    PROVE  SplitUp(d, delim)
  <1> DEFINE m == strsplit(d, delim).m
             n == strsplit(d, delim).n
             slashes == { i \in DOMAIN d : d[i] = delim }
             g == [i \in 1..(Len(d) + 1) |-> IF At(d, i) = delim THEN 0 ELSE At(d, i)]
  <1>1. Len(d) \in Nat /\ DOMAIN d = 1..Len(d) /\ \A i \in 1..Len(d) : d[i] \in Char
    OBVIOUS
  <1>2. m = g /\ n = Cardinality(slashes) + 1
    BY DEF strsplit
  <1> DEFINE z(i) == IF At(d, i) = delim THEN 0 ELSE At(d, i)
  <1>3. \A i \in 1..(Len(d) + 1) : z(i) \in Code
    BY <1>1 DEF At, Char, Code
  <1>4. g \in Seq(Code) /\ Len(g) = Len(d) + 1
    <2>1. g \in [1..(Len(d) + 1) -> Code]
      BY <1>3
    <2>2. Len(d) + 1 \in Nat
      BY <1>1
    <2> HIDE DEF g
    <2>3. g \in Seq(Code)
      BY <2>1, <2>2, SeqDef
    <2>4. Len(g) = Len(d) + 1
      BY <2>1, <2>2, LenProperties
    <2> QED BY <2>3, <2>4
  <1>5. \A i \in 1..Len(d) : g[i] = IF d[i] = delim THEN 0 ELSE d[i]
    BY <1>1 DEF At
  <1>6. g[Len(d) + 1] = 0
    BY <1>1 DEF At
  <1> HIDE DEF g
  <1>7. Memory(g)
    <2>1. Len(g) >= 1 /\ g[Len(g)] = 0
      BY <1>1, <1>4, <1>6
    <2> QED BY <1>4, <2>1 DEF Memory
  <1>8. IsFiniteSet(slashes) /\ Cardinality(slashes) \in Nat
    <2>1. slashes \in SUBSET (1..Len(d)) /\ IsFiniteSet(1..Len(d))
      BY <1>1, FS_Interval
    <2> QED BY <2>1, FS_Subset, FS_CardinalityType
  <1>9. Zeros(g, Len(g) + 1) = slashes \cup {Len(d) + 1} /\ Len(d) + 1 \notin slashes
    <2>1. ASSUME NEW i \in 1..Len(d) PROVE g[i] = 0 <=> d[i] = delim
      <3>1. d[i] \in Char /\ g[i] = IF d[i] = delim THEN 0 ELSE d[i]
        BY <1>1, <1>5
      <3> HIDE DEF slashes, m, n
      <3> QED BY <3>1, NoZero
    <2>2. (Len(g) + 1) - 1 = Len(d) + 1
      BY <1>1, <1>4
    <2>3. \A i : i \in 1..(Len(d) + 1) <=> i \in 1..Len(d) \/ i = Len(d) + 1
      BY <1>1
    <2>4. Len(d) + 1 \notin slashes
      BY <1>1
    <2>5. Zeros(g, Len(g) + 1) = { i \in 1..(Len(d) + 1) : g[i] = 0 }
      BY <2>2 DEF Zeros
    <2>6. slashes = { i \in 1..Len(d) : d[i] = delim }
      BY <1>1
    <2> HIDE DEF slashes
    <2> QED BY <1>6, <2>1, <2>3, <2>4, <2>5, <2>6
  <1>10. Cardinality(Zeros(g, Len(g) + 1)) = Cardinality(slashes) + 1
    BY <1>8, <1>9, FS_AddElement
  <1> HIDE DEF slashes, m, n
  <1>11. n \in Nat /\ n >= 1 /\ n = Cardinality(Zeros(m, Len(m) + 1))
    BY <1>2, <1>8, <1>10
  <1>12. Memory(m) /\ Len(m) = Len(d) + 1
    BY <1>2, <1>4, <1>7
  <1>13. \A i \in 1..Len(d) : m[i] = IF d[i] = delim THEN 0 ELSE d[i]
    BY <1>2, <1>5
  <1> QED BY <1>2, <1>11, <1>12, <1>13 DEF m, n, slashes, SplitUp

LEMMA SplitIs ==
    ASSUME NEW d \in Seq(Char)
    PROVE  LET m == strsplit(d, Slash).m
               n == strsplit(d, Slash).n
           IN  /\ Memory(m) /\ Len(m) = Len(d) + 1
               /\ \A i \in 1..Len(d) : m[i] = IF d[i] = Slash THEN 0 ELSE d[i]
               /\ n \in Nat /\ n >= 1 /\ n = Cardinality(Zeros(m, Len(m) + 1))
               /\ n = Cardinality({ i \in DOMAIN d : d[i] = Slash }) + 1
  <1>1. SplitUp(d, Slash)
    BY SplitAt
  <1> QED BY <1>1 DEF SplitUp

(* Stepping over what strsplit leaves of a path: a '/' and a name behind   *)
(* it add the name to its parts, for paths of every length, empty names    *)
(* and '/' at either end included (strsplit.c:3, ext2.c:312).              *)
THEOREM PartsFurther ==
    ASSUME NEW d \in Seq(Char), NEW name \in Seq(Char), Slash \notin Range(name)
    PROVE  LET long == d \o <<Slash>> \o name
           IN  /\ Parts(strsplit(d, Slash)) \in Seq(Seq(Code))
               /\ Len(Parts(strsplit(d, Slash)))
                      = Cardinality({ i \in DOMAIN d : d[i] = Slash }) + 1
               /\ Parts(strsplit(long, Slash)) = Append(Parts(strsplit(d, Slash)), name)
  <1> DEFINE end == <<Slash>> \o name
             long == d \o end
             m == strsplit(d, Slash).m
             n == strsplit(d, Slash).n
             mm == strsplit(long, Slash).m
             nn == strsplit(long, Slash).n
  <1>1. /\ Len(d) \in Nat /\ Len(name) \in Nat
        /\ DOMAIN d = 1..Len(d) /\ DOMAIN name = 1..Len(name)
        /\ \A i \in 1..Len(d) : d[i] \in Char
        /\ \A i \in 1..Len(name) : name[i] \in Char /\ name[i] # Slash
    BY DEF Range
  <1>2. /\ end \in Seq(Char) /\ Len(end) = Len(name) + 1 /\ end[1] = Slash
        /\ \A i \in 1..Len(name) : end[1 + i] = name[i]
    <2> DEFINE s == <<Slash>>
    <2>1. s \in Seq(Char) /\ Len(s) = 1 /\ s[1] = Slash
      BY DEF Slash, Char
    <2> HIDE DEF s
    <2>2. /\ s \o name \in Seq(Char) /\ Len(s \o name) = Len(s) + Len(name)
          /\ \A i \in 1..Len(s) : (s \o name)[i] = s[i]
          /\ \A i \in 1..Len(name) : (s \o name)[Len(s) + i] = name[i]
      BY <2>1, Joining
    <2> DEFINE e == s \o name
    <2>3. e \in Seq(Char) /\ Len(e) = 1 + Len(name) /\ e[1] = Slash
      BY <2>1, <2>2
    <2>4. \A i \in 1..Len(name) : e[1 + i] = name[i]
      BY <2>1, <2>2
    <2>5. 1 + Len(name) = Len(name) + 1
      BY <1>1
    <2>6. e = end
      BY DEF s
    <2> QED BY <2>3, <2>4, <2>5, <2>6
  <1> HIDE DEF end
  <1>3. /\ long \in Seq(Char) /\ Len(long) = Len(d) + Len(name) + 1
        /\ \A i \in 1..Len(d) : long[i] = d[i]
        /\ long[Len(d) + 1] = Slash
        /\ \A i \in 1..Len(name) : long[Len(d) + 1 + i] = name[i]
    <2>1. /\ long \in Seq(Char) /\ Len(long) = Len(d) + Len(end)
          /\ \A i \in 1..Len(d) : long[i] = d[i]
          /\ \A i \in 1..Len(end) : long[Len(d) + i] = end[i]
      BY <1>2, Joining
    <2> HIDE DEF long
    <2>2. Len(long) = Len(d) + Len(name) + 1
      BY <1>1, <1>2, <2>1
    <2>3. long[Len(d) + 1] = Slash
      BY <1>1, <1>2, <2>1
    <2>4. ASSUME NEW i \in 1..Len(name) PROVE long[Len(d) + 1 + i] = name[i]
      <3>1. 1 + i \in 1..Len(end) /\ Len(d) + (1 + i) = Len(d) + 1 + i
        BY <1>1, <1>2
      <3> QED BY <1>2, <2>1, <3>1
    <2> QED BY <2>1, <2>2, <2>3, <2>4
  <1> HIDE DEF long
  <1> DEFINE slashes == { i \in DOMAIN d : d[i] = Slash }
  <1>4. /\ Memory(m) /\ Len(m) = Len(d) + 1
        /\ \A i \in 1..Len(d) : m[i] = IF d[i] = Slash THEN 0 ELSE d[i]
        /\ n \in Nat /\ n >= 1 /\ n = Cardinality(Zeros(m, Len(m) + 1))
        /\ n = Cardinality(slashes) + 1
    BY SplitIs
  <1>5. /\ Memory(mm) /\ Len(mm) = Len(long) + 1
        /\ \A i \in 1..Len(long) : mm[i] = IF long[i] = Slash THEN 0 ELSE long[i]
        /\ nn \in Nat /\ nn = Cardinality({ i \in DOMAIN long : long[i] = Slash }) + 1
    BY <1>3, SplitIs
  <1>6. nn = n + 1
    <2>1. IsFiniteSet(slashes) /\ Len(d) + 1 \notin slashes
      <3>1. slashes \in SUBSET (1..Len(d)) /\ IsFiniteSet(1..Len(d))
        BY <1>1, FS_Interval
      <3>2. Len(d) + 1 \notin 1..Len(d)
        BY <1>1
      <3> QED BY <3>1, <3>2, FS_Subset
    <2>2. { i \in DOMAIN long : long[i] = Slash } = slashes \cup {Len(d) + 1}
      <3>1. DOMAIN long = 1..(Len(d) + Len(name) + 1)
        BY <1>3
      <3>2. ASSUME NEW i \in DOMAIN long
            PROVE  long[i] = Slash <=> i \in slashes \cup {Len(d) + 1}
        <4>1. CASE i \in 1..Len(d)
          BY <1>1, <1>3, <4>1
        <4>2. CASE i = Len(d) + 1
          BY <1>3, <4>2
        <4>3. CASE i > Len(d) + 1
          <5> DEFINE j == i - (Len(d) + 1)
          <5>1. j \in 1..Len(name) /\ Len(d) + 1 + j = i
            BY <1>1, <3>1, <4>3
          <5>2. long[i] # Slash
            BY <1>1, <1>3, <5>1
          <5>3. i \notin 1..Len(d)
            BY <1>1, <3>1, <4>3
          <5> QED BY <1>1, <4>3, <5>2, <5>3
        <4> QED BY <1>1, <3>1, <4>1, <4>2, <4>3
      <3>3. slashes \cup {Len(d) + 1} \subseteq DOMAIN long
        BY <1>1, <3>1
      <3> QED BY <3>2, <3>3
    <2>3. Cardinality(slashes \cup {Len(d) + 1}) = Cardinality(slashes) + 1
      BY <2>1, FS_AddElement
    <2> QED BY <1>4, <1>5, <2>2, <2>3
  <1> HIDE DEF slashes
  <1>7. PICK w : Walk(w, m, n) /\ Parts(strsplit(d, Slash)) = w[n].met
    BY <1>4, PartsIs
  <1>8. PICK v : Walk(v, mm, n + 1) /\ Parts(strsplit(long, Slash)) = v[n + 1].met
    <2>1. \E v : Walk(v, mm, nn) /\ Parts(strsplit(long, Slash)) = v[nn].met
      BY <1>5, PartsIs
    <2> QED BY <1>6, <2>1
  <1> HIDE DEF m, n, mm, nn
  <1>9. Behind(m, w[n], n)
    <2>1. n \in 0..n
      BY <1>4
    <2> QED BY <1>4, <1>7, <2>1, Walking
  <1>10. w[n].p = Len(m) + 1 /\ w[n].met \in Seq(Seq(Code)) /\ Len(w[n].met) = n
    BY <1>4, <1>9, AtEnd DEF Behind
  <1>11. v[n] = w[n]
    <2>1. mm \in Seq(Code) /\ Len(mm) > Len(m)
      BY <1>1, <1>3, <1>4, <1>5 DEF Memory
    <2>2. ASSUME NEW i \in 1..Len(m) PROVE mm[i] = m[i]
      <3>1. CASE i \in 1..Len(d)
        <4>1. i \in 1..Len(long)
          BY <1>1, <1>3, <3>1
        <4> QED BY <1>3, <1>4, <1>5, <3>1, <4>1
      <3>2. CASE i = Len(d) + 1
        <4>1. i \in 1..Len(long) /\ i = Len(m)
          BY <1>1, <1>3, <1>4, <3>2
        <4>2. mm[i] = 0
          BY <1>3, <1>5, <3>2, <4>1
        <4> QED BY <1>4, <4>1, <4>2 DEF Memory
      <3> QED BY <1>1, <1>4, <3>1, <3>2
    <2>3. n \in 0..n
      BY <1>4
    <2> QED BY <1>4, <1>7, <1>8, <2>1, <2>2, <2>3, SameWalk, SMTT(40)
  <1>12. v[n + 1] = Stepped(mm, w[n])
    <2>1. n \in 0..((n + 1) - 1) /\ n + 1 \in Nat
      BY <1>4
    <2>2. \A k \in 0..((n + 1) - 1) : v[k + 1] = Stepped(mm, v[k])
      BY <1>8, <2>1, WalkIs
    <2> QED BY <1>11, <2>1, <2>2
  <1> DEFINE p == Len(m) + 1
             e == Len(mm)
  <1>13. /\ p \in 1..Len(mm) /\ e \in p..Len(mm) /\ Len(mm) \in Nat
         /\ p = Len(d) + 2 /\ e = Len(d) + Len(name) + 2
    BY <1>1, <1>3, <1>4, <1>5
  <1>14. mm[e] = 0
    BY <1>5 DEF Memory
  <1>15. \A i \in 1..Len(name) : p + i - 1 \in p..(e - 1) /\ mm[p + i - 1] = name[i]
    <2> TAKE i \in 1..Len(name)
    <2> HIDE DEF p, e
    <2>4. p + i - 1 = Len(d) + 1 + i
      BY <1>1, <1>13
    <2>5. Len(d) + 1 + i \in 1..Len(long)
      BY <1>1, <1>3
    <2>6. p + i - 1 \in p..(e - 1)
      BY <1>1, <1>13
    <2>1. p + i - 1 = Len(d) + 1 + i /\ Len(d) + 1 + i \in 1..Len(long) /\ p + i - 1 \in p..(e - 1)
      BY <2>4, <2>5, <2>6
    <2>2. long[Len(d) + 1 + i] = name[i] /\ name[i] # Slash
      BY <1>1, <1>3
    <2>3. mm[Len(d) + 1 + i] = name[i]
      BY <1>5, <2>1, <2>2
    <2> QED BY <2>1, <2>3
  <1>16. \A i \in p..(e - 1) : mm[i] # 0
    <2> TAKE i \in p..(e - 1)
    <2> DEFINE j == i - p + 1
    <2>1. j \in 1..Len(name) /\ p + j - 1 = i
      BY <1>1, <1>13
    <2> HIDE DEF p, e, j
    <2>3. name[j] \in Char
      BY <1>1, <2>1
    <2>4. mm[i] \in Char
      BY <1>15, <2>1, <2>3
    <2>2. mm[i] # 0
      BY <2>4, NoZero
    <2> QED BY <2>2
  <1>17. StringAt(mm, p) = SubSeq(mm, p, e - 1)
    <2> HIDE DEF p, e
    <2>1. p \in Nat
      BY <1>13
    <2> QED BY <1>13, <1>14, <1>16, <2>1, StringIs
  <1>18. SubSeq(mm, p, e - 1) = name
    <2> DEFINE part == SubSeq(mm, p, e - 1)
    <2>1. \A i \in p..(e - 1) : i \in 1..Len(mm)
      BY <1>13
    <2>2. \A i \in p..(e - 1) : mm[i] \in Code
      BY <1>5, <2>1 DEF Memory
    <2>3. p \in Int /\ e - 1 \in Int
      BY <1>13
    <2> HIDE DEF p, e
    <2>4. /\ part \in Seq(Code)
          /\ Len(part) = IF p <= e - 1 THEN (e - 1) - p + 1 ELSE 0
          /\ \A i \in 1..((e - 1) - p + 1) : part[i] = mm[p + i - 1]
      BY <2>2, <2>3, SubSeqProperties
    <2> HIDE DEF part
    <2>5. Len(part) = Len(name) /\ (e - 1) - p + 1 = Len(name)
      BY <1>1, <1>13, <2>4
    <2>6. \A i \in 1..Len(part) : part[i] = name[i]
      BY <1>15, <2>4, <2>5
    <2>7. name \in Seq(Code)
      <3>1. Char \subseteq Code
        BY DEF Char, Code
      <3> QED BY <3>1, SeqMonotonic
    <2>8. part = name
      BY <2>4, <2>5, <2>6, <2>7, SeqEqual
    <2> QED BY <2>8 DEF part
  <1>19. Stepped(mm, w[n]).met = Append(w[n].met, name)
    <2>1. ~(w[n].p > Len(mm)) /\ w[n].p = p
      BY <1>10, <1>13
    <2> HIDE DEF p, e
    <2> QED BY <1>17, <1>18, <2>1 DEF Stepped
  <1>20. Parts(strsplit(long, Slash)) = Append(Parts(strsplit(d, Slash)), name)
    BY <1>7, <1>8, <1>12, <1>19
  <1>21. d \o <<Slash>> \o name = long
    <2>1. <<Slash>> \in Seq(Char)
      BY DEF Slash, Char
    <2>2. (d \o <<Slash>>) \o name = d \o (<<Slash>> \o name)
      BY <2>1, ConcatAssociative
    <2> QED BY <2>2 DEF long, end
  <1> QED BY <1>4, <1>7, <1>10, <1>20, <1>21 DEF slashes

(* And a name without a '/' is its own only part. *)
THEOREM PartsOfName ==
    ASSUME NEW name \in Seq(Char), Slash \notin Range(name)
    PROVE  Parts(strsplit(name, Slash)) = <<name>>
  <1> DEFINE m == strsplit(name, Slash).m
             n == strsplit(name, Slash).n
             slashes == { i \in DOMAIN name : name[i] = Slash }
  <1>1. /\ Len(name) \in Nat /\ DOMAIN name = 1..Len(name)
        /\ \A i \in 1..Len(name) : name[i] \in Char /\ name[i] # Slash
    BY DEF Range
  <1>2. /\ Memory(m) /\ Len(m) = Len(name) + 1
        /\ \A i \in 1..Len(name) : m[i] = IF name[i] = Slash THEN 0 ELSE name[i]
        /\ n \in Nat /\ n = Cardinality(slashes) + 1
    BY SplitIs
  <1>3. slashes = {}
    BY <1>1
  <1>4. n = 1
    <2>1. Cardinality(slashes) = 0
      BY <1>3, FS_EmptySet
    <2> QED BY <1>2, <2>1
  <1>5. PICK w : Walk(w, m, n) /\ Parts(strsplit(name, Slash)) = w[n].met
    BY <1>2, PartsIs
  <1> HIDE DEF m, n, slashes
  <1>6. w[0] = [met |-> << >>, p |-> 1] /\ w[1] = Stepped(m, w[0])
    <2>3. n \in Nat
      BY <1>2
    <2>4. Walk(w, m, n)
      BY <1>5
    <2>1. /\ w[0] = [met |-> << >>, p |-> 1]
          /\ \A k \in 0..(n - 1) : w[k + 1] = Stepped(m, w[k])
      BY <2>3, <2>4, WalkIs
    <2>2. 0 \in 0..(n - 1) /\ 0 + 1 = 1
      BY <1>4
    <2> QED BY <2>1, <2>2
  <1> DEFINE e == Len(m)
  <1>7. e \in 1..Len(m) /\ Len(m) \in Nat /\ m[e] = 0 /\ e = Len(name) + 1
    BY <1>1, <1>2 DEF Memory
  <1>8. \A i \in 1..(e - 1) : m[i] = name[i] /\ m[i] # 0
    <2> TAKE i \in 1..(e - 1)
    <2>1. i \in 1..Len(name)
      BY <1>1, <1>7
    <2>2. m[i] = name[i] /\ name[i] \in Char
      BY <1>1, <1>2, <2>1
    <2> QED BY <2>2, NoZero
  <1>9. StringAt(m, 1) = SubSeq(m, 1, e - 1)
    <2> HIDE DEF e
    <2> QED BY <1>7, <1>8, StringIs
  <1>10. SubSeq(m, 1, e - 1) = name
    <2> DEFINE part == SubSeq(m, 1, e - 1)
    <2>1. Char \subseteq Code
      BY DEF Char, Code
    <2>2. name \in Seq(Code)
      BY <2>1, SeqMonotonic
    <2>3. e - 1 = Len(name) /\ 1 \in Int /\ e - 1 \in Int
      BY <1>1, <1>7
    <2>4. \A i \in 1..(e - 1) : m[i] \in Code
      BY <1>1, <1>8, <2>1, <2>3
    <2> HIDE DEF e
    <2>5. /\ part \in Seq(Code)
          /\ Len(part) = IF 1 <= e - 1 THEN (e - 1) - 1 + 1 ELSE 0
          /\ \A i \in 1..((e - 1) - 1 + 1) : part[i] = m[1 + i - 1]
      BY <2>3, <2>4, SubSeqProperties
    <2> HIDE DEF part
    <2>6. Len(part) = Len(name) /\ (e - 1) - 1 + 1 = e - 1
      BY <1>1, <2>3, <2>5
    <2>7. ASSUME NEW i \in 1..Len(part) PROVE part[i] = name[i]
      <3>1. i \in 1..(e - 1) /\ 1 + i - 1 = i
        BY <2>3, <2>6
      <3> QED BY <1>8, <2>5, <2>6, <3>1
    <2>8. part = name
      BY <2>2, <2>5, <2>6, <2>7, SeqEqual
    <2> QED BY <2>8 DEF part
  <1>11. w[1].met = Append(<< >>, name)
    <2>1. w[0].p = 1 /\ w[0].met = << >> /\ ~(w[0].p > Len(m))
      BY <1>6, <1>7
    <2>2. StringAt(m, w[0].p) = name
      BY <1>9, <1>10, <2>1
    <2> HIDE DEF e
    <2>3. Stepped(m, w[0]).met = Append(w[0].met, StringAt(m, w[0].p))
      BY <2>1 DEF Stepped
    <2>4. Stepped(m, w[0]).met = Append(<< >>, name)
      BY <2>1, <2>2, <2>3
    <2> QED BY <1>6, <2>4
  <1>12. Append(<< >>, name) = <<name>>
    OBVIOUS
  <1> QED BY <1>4, <1>5, <1>11, <1>12

LEMMA FrontOfTail ==
    ASSUME NEW S, NEW s \in Seq(S), Len(s) >= 1, NEW x \in S
    PROVE  Front(Tail(Append(s, x))) = Tail(s)
  <1> DEFINE t == Append(s, x)
             u == Tail(t)
             f == Front(u)
             r == Tail(s)
  <1>1. t \in Seq(S) /\ Len(t) = Len(s) + 1 /\ \A i \in 1..Len(s) : t[i] = s[i]
    OBVIOUS
  <1>2. Len(s) \in Nat /\ s # << >>
    OBVIOUS
  <1> HIDE DEF t
  <1>3. t # << >>
    BY <1>1, <1>2
  <1>4. u \in Seq(S) /\ Len(u) = Len(t) - 1 /\ \A i \in 1..Len(u) : u[i] = t[i + 1]
    BY <1>1, <1>3
  <1>5. r \in Seq(S) /\ Len(r) = Len(s) - 1 /\ \A i \in 1..Len(r) : r[i] = s[i + 1]
    BY <1>2
  <1> HIDE DEF u, r
  <1>6. Len(u) - 1 \in Int /\ Len(u) = Len(s) /\ \A i \in 1..(Len(u) - 1) : u[i] \in S
    BY <1>1, <1>2, <1>4
  <1>7. /\ f \in Seq(S)
        /\ Len(f) = IF 1 <= Len(u) - 1 THEN (Len(u) - 1) - 1 + 1 ELSE 0
        /\ \A i \in 1..((Len(u) - 1) - 1 + 1) : f[i] = u[1 + i - 1]
    BY <1>6, SubSeqProperties DEF Front
  <1> HIDE DEF f
  <1>8. Len(f) = Len(r)
    BY <1>2, <1>5, <1>6, <1>7
  <1>9. ASSUME NEW i \in 1..Len(r) PROVE f[i] = r[i]
    <2>1. /\ i \in 1..((Len(u) - 1) - 1 + 1) /\ 1 + i - 1 = i /\ i \in 1..Len(u)
          /\ i + 1 \in 1..Len(s)
      BY <1>2, <1>5, <1>6
    <2> QED BY <1>1, <1>4, <1>5, <1>7, <2>1
  <1>10. f = r
    BY <1>5, <1>7, <1>8, <1>9, SeqEqual
  <1> QED BY <1>10 DEF f, r, u, t

LEMMA TailOfOne ==
    ASSUME NEW S, NEW s \in Seq(S), Len(s) = 1
    PROVE  Tail(s) = << >>
  <1>1. s # << >>
    OBVIOUS
  <1>2. Tail(s) \in Seq(S) /\ Len(Tail(s)) = 0
    BY <1>1
  <1> QED BY <1>2, EmptySeq

(* For every directory that does not end in '/', unless it is the root. *)
LEMMA SameDirectory ==
    ASSUME NEW dir \in Seq(Char), dir # << >>, Len(dir) > 1 => Last(dir) # Slash,
           NEW name \in Seq(Char), Len(name) >= 1, Slash \notin Range(name)
    PROVE  Walked(dir) = Front(Walked(ReadPath(dir, name)))
  <1> DEFINE root == <<Slash>>
             none == << >>
  <1>1. root \in Seq(Char) /\ Len(root) = 1 /\ root[1] = Slash /\ none \in Seq(Char) /\ Len(none) = 0
    BY DEF Slash, Char
  <1>2. Len(dir) \in Nat /\ Len(dir) >= 1 /\ Len(name) \in Nat
    OBVIOUS
  <1>3. name \in Seq(Code)
    <2>1. Char \subseteq Code
      BY DEF Char, Code
    <2> QED BY <2>1, SeqMonotonic
  <1>4. ASSUME NEW d \in Seq(Char), NEW path, path = d \o root \o name
        PROVE  Front(Walked(path)) = Tail(Parts(strsplit(d, Slash)))
    <2> DEFINE parts == Parts(strsplit(d, Slash))
               slashes == { i \in DOMAIN d : d[i] = Slash }
    <2>1. /\ parts \in Seq(Seq(Code)) /\ Len(parts) = Cardinality(slashes) + 1
          /\ Parts(strsplit(path, Slash)) = Append(parts, name)
      BY <1>4, PartsFurther
    <2>2. Cardinality(slashes) \in Nat
      <3>1. slashes \in SUBSET (1..Len(d)) /\ Len(d) \in Nat
        OBVIOUS
      <3>2. IsFiniteSet(1..Len(d))
        BY <3>1, FS_Interval
      <3> QED BY <3>1, <3>2, FS_Subset, FS_CardinalityType
    <2> HIDE DEF parts, slashes
    <2>3. Len(parts) >= 1
      BY <2>1, <2>2
    <2>4. path # root
      <3>1. d \o root \in Seq(Char) /\ Len(d \o root) = Len(d) + 1
        BY <1>1, Joining
      <3> DEFINE e == d \o root
      <3>2. e \in Seq(Char) /\ Len(e) = Len(d) + 1 /\ path = e \o name
        BY <1>4, <3>1
      <3> HIDE DEF e
      <3>3. Len(path) = Len(e) + Len(name)
        BY <3>2, Joining
      <3>4. Len(d) \in Nat
        OBVIOUS
      <3> HIDE DEF root
      <3>5. Len(path) # 1
        BY <1>2, <3>2, <3>3, <3>4
      <3> QED BY <1>1, <3>5
    <2>5. Walked(path) = Tail(Append(parts, name))
      BY <2>1, <2>4 DEF Walked
    <2>6. Front(Tail(Append(parts, name))) = Tail(parts)
      BY <1>3, <2>1, <2>3, FrontOfTail
    <2> QED BY <2>5, <2>6 DEF parts
  <1>5. CASE Last(dir) # Slash
    <2>1. ReadPath(dir, name) = dir \o root \o name
      BY <1>5 DEF ReadPath
    <2>2. dir # root
      BY <1>1, <1>5 DEF Last
    <2>3. Walked(dir) = Tail(Parts(strsplit(dir, Slash)))
      BY <2>2 DEF Walked
    <2> HIDE DEF root
    <2> QED BY <1>4, <2>1, <2>3
  <1>6. CASE Last(dir) = Slash
    <2> DEFINE length == Len(dir)
    <2> HIDE DEF length
    <2>10. ~(length > 1)
      BY <1>6, Zenon DEF length
    <2>11. length \in Nat /\ length >= 1
      BY <1>2 DEF length
    <2>12. length = 1
      BY <2>10, <2>11
    <2>0. Len(dir) = 1
      BY <2>12 DEF length
    <2>1. Len(dir) = 1 /\ dir[1] = Slash
      BY <1>6, <2>0 DEF Last
    <2>2. dir = root
      <3> HIDE DEF root
      <3>1. Len(dir) = Len(root) /\ \A i \in 1..Len(dir) : dir[i] = root[i]
        BY <1>1, <2>1
      <3> QED BY <1>1, <3>1, SeqEqual
    <2>3. Walked(dir) = none
      BY <2>2 DEF Walked
    <2>4. ReadPath(dir, name) = root \o none \o name
      BY <1>6, <2>2 DEF ReadPath
    <2> HIDE DEF root, none
    <2>5. root \o none = root /\ none \o root = root
      BY <1>1, ConcatEmptySeq DEF none
    <2>6. ReadPath(dir, name) = none \o root \o name
      BY <2>4, <2>5
    <2> DEFINE parts == Parts(strsplit(none, Slash))
    <2>7. Front(Walked(ReadPath(dir, name))) = Tail(parts)
      BY <1>1, <1>4, <2>6
    <2>8. parts \in Seq(Seq(Code)) /\ Len(parts) = 1
      <3> DEFINE slashes == { i \in DOMAIN none : none[i] = Slash }
      <3>1. parts \in Seq(Seq(Code)) /\ Len(parts) = Cardinality(slashes) + 1
        BY <1>1, PartsFurther
      <3>2. DOMAIN none = 1..Len(none) /\ ~ \E i : i \in 1..0
        BY <1>1
      <3>3. slashes = {}
        BY <1>1, <3>2
      <3>4. Cardinality(slashes) = 0
        BY <3>3, FS_EmptySet
      <3> HIDE DEF parts, slashes
      <3> QED BY <3>1, <3>4
    <2> HIDE DEF parts
    <2>9. Tail(parts) = << >>
      <3> DEFINE S == Seq(Code)
      <3>1. parts \in Seq(S) /\ Len(parts) = 1
        BY <2>8
      <3> HIDE DEF S
      <3> QED BY <3>1, TailOfOne
    <2> QED BY <2>3, <2>7, <2>9 DEF none
  <1> QED BY <1>5, <1>6

(* Console.LsAgrees for lines of any length: ls shows the directory that   *)
(* read looks for names in (kernel.c:166, 181), however deep it is, while  *)
(* cd has not left a '/' at the end of wdir.                               *)
THEOREM LsListsWhatReadSearches == Spec => []LsAgrees
  <1>1. IInv => LsAgrees
    <2> SUFFICES ASSUME IInv, Alive, Len(wdir) > 1 => Last(wdir) # Slash
                 PROVE  Walked(wdir) = Front(Walked(ReadPath(wdir, <<97>>)))
      BY DEF LsAgrees
    <2>1. wdir \in Seq(Char) /\ wdir # << >>
      BY DEF IInv, Types, TypeOK, Char
    <2> DEFINE name == <<97>>
    <2>2. name \in Seq(Char) /\ Len(name) = 1
      BY DEF Char
    <2>3. Slash \notin Range(name)
      BY DEF Range, Slash
    <2> HIDE DEF name
    <2>4. Walked(wdir) = Front(Walked(ReadPath(wdir, name)))
      BY <2>1, <2>2, <2>3, SameDirectory
    <2> QED BY <2>4 DEF name
  <1> QED BY <1>1, Inductive, PTL

(* strcmp of strings of any length and characters. *)
LEMMA Told ==
    ASSUME NEW s \in Seq(Char), NEW t \in Seq(Char)
    PROVE  (strcmp(s, t) = 0) <=> (s = t)
  <1> DEFINE differ == { i \in 1..(Len(t) + 1) : At(s, i) # At(t, i) }
  <1>1. Len(s) \in Nat /\ Len(t) \in Nat
    OBVIOUS
  <1>2. /\ \A i \in 1..Len(s) : s[i] \in Char
        /\ \A i \in 1..Len(t) : t[i] \in Char
    OBVIOUS
  <1>3. \A c \in Char : c \in Int /\ c # 0
    BY DEF Char
  <1>4. \A i \in Nat \ {0} : At(s, i) \in Int /\ At(t, i) \in Int
    BY <1>1, <1>2, <1>3 DEF At
  <1>5. CASE differ = {}
    <2>1. \A i \in 1..(Len(t) + 1) : At(s, i) = At(t, i)
      BY <1>5
    <2>2. ~(Len(s) > Len(t))
      <3> SUFFICES ASSUME Len(s) > Len(t) PROVE FALSE
        OBVIOUS
      <3> DEFINE k == Len(t) + 1
      <3>1. k \in 1..Len(s) /\ k <= Len(s) /\ ~(k <= Len(t)) /\ k \in 1..(Len(t) + 1)
        BY <1>1
      <3> HIDE DEF k, differ
      <3>2. At(s, k) = s[k] /\ At(t, k) = 0 /\ s[k] # 0
        BY <1>2, <1>3, <3>1 DEF At
      <3>3. At(s, k) = At(t, k)
        BY <2>1, <3>1 DEF k
      <3> QED BY <3>2, <3>3
    <2>3. ~(Len(s) < Len(t))
      <3> SUFFICES ASSUME Len(s) < Len(t) PROVE FALSE
        OBVIOUS
      <3> DEFINE k == Len(s) + 1
      <3>1. k \in 1..Len(t) /\ k <= Len(t) /\ ~(k <= Len(s)) /\ k \in 1..(Len(t) + 1)
        BY <1>1
      <3> HIDE DEF k, differ
      <3>2. At(t, k) = t[k] /\ At(s, k) = 0 /\ t[k] # 0
        BY <1>2, <1>3, <3>1 DEF At
      <3>3. At(s, k) = At(t, k)
        BY <2>1, <3>1
      <3> QED BY <3>2, <3>3
    <2>4. Len(s) = Len(t)
      BY <1>1, <2>2, <2>3
    <2>5. ASSUME NEW i \in 1..Len(s) PROVE s[i] = t[i]
      <3>1. i <= Len(s) /\ i <= Len(t) /\ i \in 1..(Len(t) + 1)
        BY <1>1, <2>4
      <3> HIDE DEF differ
      <3> QED BY <2>1, <3>1 DEF At
    <2>6. s = t
      BY <2>4, <2>5, SeqEqual
    <2> QED BY <1>5, <2>6 DEF strcmp
  <1>6. CASE differ # {}
    <2>1. differ \in SUBSET Nat
      BY <1>1
    <2>2. PICK l \in differ : \A m \in differ : l <= m
      BY <1>6, <2>1, LeastNat
    <2>3. \A x \in differ : (\A y \in differ : x <= y) => x = l
      BY <2>1, <2>2
    <2>4. At(s, l) # At(t, l) /\ l \in Nat \ {0}
      OBVIOUS
    <2> HIDE DEF differ
    <2>5. Min(differ) = l
      BY <2>2, <2>3 DEF Min
    <2>6. strcmp(s, t) = At(s, l) - At(t, l)
      BY <1>6, <2>5 DEF strcmp, differ
    <2>7. strcmp(s, t) # 0
      BY <1>4, <2>4, <2>6
    <2>8. s # t
      BY <2>4
    <2> QED BY <2>7, <2>8
  <1> QED BY <1>5, <1>6

LEMMA StringsTyped == Strings \subseteq Seq(Char) /\ Letters \subseteq Char
  <1> SUFFICES ASSUME NEW s \in Strings PROVE s \in Seq(Char)
    BY LibcAssumption DEF Char
  <1>1. PICK l \in 0..MaxLen : s \in [1..l -> Letters]
    BY DEF Strings
  <1>2. l \in Nat /\ Letters \subseteq Char
    BY <1>1, LibcAssumption DEF Char
  <1>3. s \in [1..l -> Char]
    BY <1>1, <1>2
  <1> QED BY <1>2, <1>3, SeqDef

(* Libc.NamesApart for strings of any letters and any length: strcmp takes *)
(* no name for its prefix, and only equal ones for equal (strcmp.c:3).     *)
THEOREM NamesToldApart == NamesApart
  BY StringsTyped, Told DEF NamesApart
-----------------------------------------------------------------------------
(* The library's loops.  What holds before the first turn and, if before a *)
(* turn, then after it, holds after every turn.                            *)
LEMMA Turns ==
    ASSUME NEW n \in Nat, NEW T, 0 \in T, \A k \in 0..(n - 1) : k \in T => k + 1 \in T
    PROVE  \A k \in 0..n : k \in T
  <1> DEFINE bad == { j \in 0..n : j \notin T }
  <1> SUFFICES ASSUME bad # {} PROVE FALSE
    OBVIOUS
  <1>1. PICK l \in bad : \A j \in bad : l <= j
    <2>1. bad \in SUBSET Nat
      OBVIOUS
    <2> QED BY <2>1, LeastNat
  <1>2. l # 0 /\ l \in 0..n /\ l \notin T
    OBVIOUS
  <1>3. l - 1 \in 0..(n - 1) /\ l - 1 \in 0..n /\ (l - 1) + 1 = l /\ ~(l <= l - 1)
    BY <1>2
  <1>4. l - 1 \in T
    BY <1>1, <1>3
  <1> QED BY <1>2, <1>3, <1>4

(* Such a loop, if its turns stay in S, is a function of the turns. *)
Loop(f, n, start, F) ==
    f = [k \in 0..n |-> IF k = 0 THEN start ELSE F[k][f[k - 1]]]

LEMMA LoopExists ==
    ASSUME NEW S, NEW start \in S, NEW n \in Nat, NEW F \in [1..n -> [S -> S]]
    PROVE  \E f \in [0..n -> S] : Loop(f, n, start, F)
  <1> DEFINE Far(f, j) == f[0] = start /\ \A k \in 1..j : f[k] = F[k][f[k - 1]]
             T == { j \in 0..n : \E f \in [0..j -> S] : Far(f, j) }
  <1>1. 0 \in T
    <2> DEFINE f == [k \in 0..0 |-> start]
    <2>1. f \in [0..0 -> S] /\ Far(f, 0)
      OBVIOUS
    <2> HIDE DEF f, Far
    <2>2. 0 \in 0..n
      OBVIOUS
    <2> QED BY <2>1, <2>2
  <1>2. ASSUME NEW j \in 0..(n - 1), j \in T PROVE j + 1 \in T
    <2>1. PICK f \in [0..j -> S] : Far(f, j)
      BY <1>2
    <2> DEFINE l == j + 1
               g == [k \in 0..l |-> IF k = l THEN F[l][f[j]] ELSE f[k]]
    <2>2. l \in 1..n /\ l \in 0..n /\ j \in 0..j /\ l - 1 = j
      OBVIOUS
    <2>3. F[l] \in [S -> S] /\ f[j] \in S
      BY <2>2
    <2>4. F[l][f[j]] \in S
      BY <2>3
    <2>5. \A k \in 0..l : k # l => k \in 0..j
      OBVIOUS
    <2>6. g \in [0..l -> S]
      <3> DEFINE val(k) == IF k = l THEN F[l][f[j]] ELSE f[k]
      <3>1. \A k \in 0..l : val(k) \in S
        BY <2>4, <2>5
      <3> QED BY <3>1
    <2>7. \A k \in 0..j : g[k] = f[k]
      OBVIOUS
    <2>8. g[l] = F[l][f[j]]
      BY <2>2
    <2> HIDE DEF g
    <2>9. g[0] = start
      BY <2>1, <2>7
    <2>10. ASSUME NEW k \in 1..l PROVE g[k] = F[k][g[k - 1]]
      <3>1. k - 1 \in 0..j /\ g[k - 1] = f[k - 1]
        BY <2>7
      <3>2. CASE k = l
        BY <2>2, <2>8, <3>1, <3>2
      <3>3. CASE k # l
        <4>1. k \in 1..j /\ k \in 0..j
          BY <3>3
        <4> QED BY <2>1, <2>7, <3>1, <4>1
      <3> QED BY <3>2, <3>3
    <2>11. Far(g, l)
      BY <2>9, <2>10
    <2> HIDE DEF Far
    <2> QED BY <2>2, <2>6, <2>11
  <1>3. n \in T
    <2> HIDE DEF T
    <2>1. \A k \in 0..n : k \in T
      BY <1>1, <1>2, Turns
    <2> QED BY <2>1
  <1>4. PICK f \in [0..n -> S] : Far(f, n)
    BY <1>3
  <1>5. \A k \in 0..n : f[k] = IF k = 0 THEN start ELSE F[k][f[k - 1]]
    BY <1>4
  <1>6. f = [k \in 0..n |-> f[k]]
    OBVIOUS
  <1>7. f = [k \in 0..n |-> IF k = 0 THEN start ELSE F[k][f[k - 1]]]
    BY <1>5, <1>6
  <1> QED BY <1>7 DEF Loop
-----------------------------------------------------------------------------
(* Copies.  The memory after the first j characters were copied. *)
Copied(m, d, s, j) == [p \in DOMAIN m |-> IF p \in d..(d + j - 1) THEN m[s + p - d] ELSE m[p]]

Copyable(P, d, s, n) ==
    /\ P \in SUBSET Nat /\ d \in Nat /\ s \in Nat /\ n \in Nat
    /\ \A i \in 0..(n - 1) : d + i \in P /\ s + i \in P
    /\ d \notin (s + 1)..(s + n - 1)

LEMMA MovedIn ==
    ASSUME NEW P, NEW m \in [P -> Nat], NEW d \in P, NEW s \in P
    PROVE  Moved(m, d, s) \in [P -> Nat] /\ \A p \in P : Moved(m, d, s)[p] = IF p = d THEN m[s] ELSE m[p]
  BY DEF Moved

LEMMA CopiedIn ==
    ASSUME NEW P, NEW m \in [P -> Nat], NEW d, NEW s, NEW n, Copyable(P, d, s, n),
           NEW j \in 0..n
    PROVE  Copied(m, d, s, j) \in [P -> Nat]
  <1> DEFINE val(p) == IF p \in d..(d + j - 1) THEN m[s + p - d] ELSE m[p]
  <1>1. ASSUME NEW p \in P PROVE val(p) \in Nat
    <2>1. CASE p \in d..(d + j - 1)
      <3> DEFINE i == p - d
      <3>1. i \in 0..(n - 1) /\ s + p - d = s + i
        BY <2>1 DEF Copyable
      <3> HIDE DEF i
      <3>2. s + i \in P
        BY <3>1 DEF Copyable
      <3>3. m[s + p - d] \in Nat
        BY <3>1, <3>2
      <3> QED BY <2>1, <3>3
    <2>2. CASE p \notin d..(d + j - 1)
      BY <2>2
    <2> QED BY <2>1, <2>2
  <1>2. Copied(m, d, s, j) = [p \in P |-> val(p)]
    BY DEF Copied
  <1> QED BY <1>1, <1>2

(* The next character is one that has not been copied over. *)
LEMMA MovedOn ==
    ASSUME NEW P, NEW m \in [P -> Nat], NEW d, NEW s, NEW n, Copyable(P, d, s, n),
           NEW j \in 0..(n - 1)
    PROVE  Moved(Copied(m, d, s, j), d + j, s + j) = Copied(m, d, s, j + 1)
  <1> DEFINE here == Copied(m, d, s, j)
             next == Copied(m, d, s, j + 1)
  <1>1. j \in 0..n /\ j + 1 \in 0..n /\ d \in Nat /\ s \in Nat /\ n \in Nat
    BY DEF Copyable
  <1>2. here \in [P -> Nat] /\ next \in [P -> Nat]
    BY <1>1, CopiedIn
  <1>3. d + j \in P /\ s + j \in P
    BY DEF Copyable
  <1>4. \A p \in P : /\ here[p] = IF p \in d..(d + j - 1) THEN m[s + p - d] ELSE m[p]
                     /\ next[p] = IF p \in d..(d + (j + 1) - 1) THEN m[s + p - d] ELSE m[p]
    BY DEF Copied
  <1> HIDE DEF here, next
  <1>5. s + j \notin d..(d + j - 1)
    BY <1>1 DEF Copyable
  <1>6. here[s + j] = m[s + j]
    BY <1>3, <1>4, <1>5
  <1>7. ASSUME NEW p \in P
        PROVE  Moved(here, d + j, s + j)[p] = next[p]
    <2>0. p \in Nat
      BY DEF Copyable
    <2>1. Moved(here, d + j, s + j)[p] = IF p = d + j THEN here[s + j] ELSE here[p]
      BY <1>2, <1>3, MovedIn
    <2>2. CASE p = d + j
      <3>1. p \in d..(d + (j + 1) - 1) /\ s + p - d = s + j
        BY <1>1, <2>2
      <3> QED BY <1>4, <1>6, <2>1, <2>2, <3>1
    <2>3. CASE p # d + j
      <3>1. p \in d..(d + (j + 1) - 1) <=> p \in d..(d + j - 1)
        BY <1>1, <2>0, <2>3
      <3> QED BY <1>4, <2>1, <2>3, <3>1
    <2> QED BY <2>2, <2>3
  <1>8. Moved(here, d + j, s + j) \in [P -> Nat]
    BY <1>2, <1>3, MovedIn
  <1>9. Moved(here, d + j, s + j) = next
    BY <1>2, <1>7, <1>8
  <1> QED BY <1>9 DEF here, next

LEMMA NoneCopied ==
    ASSUME NEW P, NEW m \in [P -> Nat], NEW d \in Nat, NEW s \in Nat
    PROVE  Copied(m, d, s, 0) = m
  <1>1. \A p : p \notin d..(d + 0 - 1)
    OBVIOUS
  <1> QED BY <1>1 DEF Copied

OneByOne(t, m, d, s, n) ==
    t = [i \in 0..n |-> IF i = 0 THEN m ELSE Moved(t[i - 1], d + i - 1, s + i - 1)]

(* memcpy_uint16_t copies n cells (memcpy_uint16_t.c:3). *)
LEMMA CellsCopied ==
    ASSUME NEW P, NEW m \in [P -> Nat], NEW d, NEW s, NEW n, Copyable(P, d, s, n)
    PROVE  memcpy_uint16_t(m, d, s, n) = Copied(m, d, s, n)
  <1> DEFINE S == [P -> Nat]
             F == [i \in 1..n |-> [x \in S |-> Moved(x, d + i - 1, s + i - 1)]]
  <1>0. n \in Nat /\ d \in Nat /\ s \in Nat
    BY DEF Copyable
  <1>1. \A i \in 1..n : d + i - 1 \in P /\ s + i - 1 \in P /\ d + i - 1 = d + (i - 1) /\ s + i - 1 = s + (i - 1)
    <2> TAKE i \in 1..n
    <2>1. i - 1 \in 0..(n - 1) /\ d + i - 1 = d + (i - 1) /\ s + i - 1 = s + (i - 1)
      BY <1>0
    <2>2. d + (i - 1) \in P /\ s + (i - 1) \in P
      BY <2>1 DEF Copyable
    <2> QED BY <2>1, <2>2
  <1>2. \A i \in 1..n : \A x \in S : Moved(x, d + i - 1, s + i - 1) \in S
    BY <1>1, MovedIn
  <1>3. F \in [1..n -> [S -> S]]
    BY <1>2
  <1>4. \A i \in 1..n : \A x \in S : F[i][x] = Moved(x, d + i - 1, s + i - 1)
    OBVIOUS
  <1> HIDE DEF F, S
  <1>5. PICK f \in [0..n -> S] : Loop(f, n, m, F)
    BY <1>0, <1>3, LoopExists DEF S
  <1>6. OneByOne(f, m, d, s, n)
    <2> DEFINE g == [i \in 0..n |-> IF i = 0 THEN m ELSE Moved(f[i - 1], d + i - 1, s + i - 1)]
    <2>1. ASSUME NEW i \in 0..n PROVE f[i] = g[i]
      <3>1. f[i] = IF i = 0 THEN m ELSE F[i][f[i - 1]]
        BY <1>5 DEF Loop
      <3>2. i # 0 => i \in 1..n /\ i - 1 \in 0..n
        BY <1>0
      <3>3. i # 0 => F[i][f[i - 1]] = Moved(f[i - 1], d + i - 1, s + i - 1)
        BY <1>4, <1>5, <3>2
      <3> QED BY <3>1, <3>3
    <2>2. f = g
      BY <1>5, <2>1
    <2> QED BY <2>2 DEF OneByOne
  <1> DEFINE made == CHOOSE t : OneByOne(t, m, d, s, n)
  <1>7. OneByOne(made, m, d, s, n)
    BY <1>6
  <1>8. memcpy_uint16_t(m, d, s, n) = made[n]
    BY DEF memcpy_uint16_t, OneByOne
  <1> HIDE DEF made
  <1>9. \A i \in 0..n : made[i] = IF i = 0 THEN m ELSE Moved(made[i - 1], d + i - 1, s + i - 1)
    BY <1>7 DEF OneByOne
  <1> DEFINE T == { i \in 0..n : made[i] = Copied(m, d, s, i) }
  <1>10. 0 \in T
    BY <1>0, <1>9, NoneCopied
  <1>11. ASSUME NEW i \in 0..(n - 1), i \in T PROVE i + 1 \in T
    <2>1. i + 1 \in 0..n /\ i + 1 # 0 /\ (i + 1) - 1 = i /\ d + (i + 1) - 1 = d + i /\ s + (i + 1) - 1 = s + i
      BY <1>0
    <2>2. made[i + 1] = Moved(made[i], d + i, s + i)
      BY <1>9, <2>1
    <2>3. Moved(Copied(m, d, s, i), d + i, s + i) = Copied(m, d, s, i + 1)
      BY MovedOn
    <2> QED BY <1>11, <2>1, <2>2, <2>3
  <1>12. n \in T
    <2> HIDE DEF T
    <2>1. \A i \in 0..n : i \in T
      BY <1>0, <1>10, <1>11, Turns
    <2> QED BY <1>0, <2>1
  <1> QED BY <1>8, <1>12

(* memcpy does, whether the number is odd or even: what has been copied    *)
(* after k pairs is the odd character and twice k (memcpy.c:9).            *)
ByPairs(t, m, d, s, n) ==
    t = [k \in 0..(n \div 2) |->
            IF k = 0 THEN IF n % 2 = 1 THEN Moved(m, d, s) ELSE m
            ELSE LET i == (n % 2) + 2*k - 2
                 IN  Moved(Moved(t[k - 1], d + i, s + i), d + i + 1, s + i + 1)]

LEMMA Halves ==
    ASSUME NEW n \in Nat
    PROVE  n \div 2 \in Nat /\ n % 2 \in 0..1 /\ n = (n % 2) + 2 * (n \div 2)
  OBVIOUS

LEMMA BytesCopied ==
    ASSUME NEW P, NEW m \in [P -> Nat], NEW d, NEW s, NEW n, Copyable(P, d, s, n)
    PROVE  memcpy(m, d, s, n) = Copied(m, d, s, n)
  <1> DEFINE S == [P -> Nat]
             odd == n % 2
             half == n \div 2
             start == IF odd = 1 THEN Moved(m, d, s) ELSE m
             two(x, i) == Moved(Moved(x, d + i, s + i), d + i + 1, s + i + 1)
             F == [k \in 1..half |-> [x \in S |-> two(x, odd + 2*k - 2)]]
  <1>0. n \in Nat /\ d \in Nat /\ s \in Nat
    BY DEF Copyable
  <1>1. half \in Nat /\ odd \in 0..1 /\ n = odd + 2 * half
    BY <1>0, Halves
  <1> HIDE DEF odd, half
  <1>2. ASSUME NEW k \in 1..half
        PROVE  LET i == odd + 2*k - 2
               IN  i \in 0..(n - 1) /\ i + 1 \in 0..(n - 1)
    BY <1>1
  <1>3. \A i \in 0..(n - 1) : d + i \in P /\ s + i \in P
    BY DEF Copyable
  <1>4. ASSUME NEW i \in 0..(n - 1), i + 1 \in 0..(n - 1), NEW x \in S
        PROVE  two(x, i) \in S
    <2>1. d + i \in P /\ s + i \in P /\ d + i + 1 \in P /\ s + i + 1 \in P
      <3>1. d + (i + 1) \in P /\ s + (i + 1) \in P
        BY <1>3, <1>4
      <3>2. d + (i + 1) = d + i + 1 /\ s + (i + 1) = s + i + 1
        BY <1>0
      <3> QED BY <1>3, <3>1, <3>2
    <2>2. Moved(x, d + i, s + i) \in S
      BY <2>1, MovedIn
    <2> QED BY <2>1, <2>2, MovedIn
  <1>5. start \in S /\ start = Copied(m, d, s, odd)
    <2>1. CASE odd = 1
      <3>1. 0 \in 0..(n - 1) /\ d + 0 = d /\ s + 0 = s
        BY <1>0, <1>1, <2>1
      <3>2. d \in P /\ s \in P
        BY <1>3, <3>1
      <3>3. Moved(Copied(m, d, s, 0), d + 0, s + 0) = Copied(m, d, s, 0 + 1)
        BY <3>1, MovedOn
      <3>4. Moved(m, d, s) = Copied(m, d, s, 1)
        BY <1>0, <3>1, <3>3, NoneCopied
      <3>5. Moved(m, d, s) \in S
        BY <3>2, MovedIn
      <3> QED BY <2>1, <3>4, <3>5
    <2>2. CASE odd # 1
      <3>1. odd = 0
        BY <1>1, <2>2
      <3> QED BY <1>0, <2>2, <3>1, NoneCopied
    <2> QED BY <2>1, <2>2
  <1> HIDE DEF start
  <1>6. F \in [1..half -> [S -> S]]
    <2>1. \A k \in 1..half : \A x \in S : two(x, odd + 2*k - 2) \in S
      <3> TAKE k \in 1..half
      <3> DEFINE i == odd + 2*k - 2
      <3>1. i \in 0..(n - 1) /\ i + 1 \in 0..(n - 1)
        BY <1>2
      <3> HIDE DEF i, two, S
      <3>2. \A x \in S : two(x, i) \in S
        BY <1>4, <3>1
      <3> QED BY <3>2 DEF i
    <2> HIDE DEF two, S
    <2> QED BY <2>1
  <1>7. \A k \in 1..half : \A x \in S : F[k][x] = two(x, odd + 2*k - 2)
    <2> HIDE DEF two, S
    <2> QED OBVIOUS
  <1> HIDE DEF F, S, two
  <1>8. PICK f \in [0..half -> S] : Loop(f, half, start, F)
    BY <1>1, <1>5, <1>6, LoopExists
  <1>9. ByPairs(f, m, d, s, n)
    <2> DEFINE g == [k \in 0..half |-> IF k = 0 THEN start ELSE two(f[k - 1], odd + 2*k - 2)]
    <2>1. ASSUME NEW k \in 0..half PROVE f[k] = g[k]
      <3>1. f[k] = IF k = 0 THEN start ELSE F[k][f[k - 1]]
        BY <1>8 DEF Loop
      <3>2. k # 0 => k \in 1..half /\ k - 1 \in 0..half
        BY <1>1
      <3>3. k # 0 => F[k][f[k - 1]] = two(f[k - 1], odd + 2*k - 2)
        BY <1>7, <1>8, <3>2
      <3> QED BY <3>1, <3>3
    <2>2. f = g
      BY <1>8, <2>1
    <2> QED BY <2>2 DEF ByPairs, two, start, half, odd
  <1> DEFINE made == CHOOSE t : ByPairs(t, m, d, s, n)
  <1>10. ByPairs(made, m, d, s, n)
    BY <1>9
  <1>11. memcpy(m, d, s, n) = made[half]
    BY DEF memcpy, ByPairs, half
  <1> HIDE DEF made
  <1>12. \A k \in 0..half : made[k] = IF k = 0 THEN start ELSE two(made[k - 1], odd + 2*k - 2)
    BY <1>10 DEF ByPairs, two, start, half, odd
  <1> DEFINE T == { k \in 0..half : made[k] = Copied(m, d, s, odd + 2*k) }
  <1>13. 0 \in T
    <2>1. odd + 2*0 = odd /\ 0 \in 0..half
      BY <1>1
    <2> QED BY <1>5, <1>12, <2>1
  <1>14. ASSUME NEW k \in 0..(half - 1), k \in T PROVE k + 1 \in T
    <2> DEFINE i == odd + 2*k
               l == k + 1
    <2>1. l \in 0..half /\ l \in 1..half /\ l # 0 /\ l - 1 = k /\ odd + 2*l - 2 = i /\ odd + 2*l = (i + 1) + 1
      BY <1>1
    <2>2. i \in 0..(n - 1) /\ i + 1 \in 0..(n - 1)
      BY <1>1
    <2>3. made[k] = Copied(m, d, s, i)
      BY <1>14
    <2>4. made[l] = two(made[l - 1], odd + 2*l - 2)
      BY <1>12, <2>1
    <2> HIDE DEF i, l
    <2>5. made[l] = two(Copied(m, d, s, i), i)
      BY <2>1, <2>3, <2>4
    <2>6. Moved(Copied(m, d, s, i), d + i, s + i) = Copied(m, d, s, i + 1)
      BY <2>2, MovedOn
    <2>7. d + (i + 1) = d + i + 1 /\ s + (i + 1) = s + i + 1
      BY <1>0, <2>2
    <2>8. Moved(Copied(m, d, s, i + 1), d + (i + 1), s + (i + 1)) = Copied(m, d, s, (i + 1) + 1)
      BY <2>2, MovedOn
    <2>9. made[l] = Copied(m, d, s, odd + 2*l)
      BY <2>1, <2>5, <2>6, <2>7, <2>8 DEF two
    <2> QED BY <2>1, <2>9 DEF l
  <1>15. half \in T
    <2> HIDE DEF T
    <2>1. \A k \in 0..half : k \in T
      BY <1>1, <1>13, <1>14, Turns
    <2> QED BY <1>1, <2>1
  <1> QED BY <1>1, <1>11, <1>15

(* Libc.CopiesExact for memories of every size.                            *)
THEOREM CopiesAreExact == CopiesExact
  <1> DEFINE P == 1..(2 * MaxLen)
             m == [p \in P |-> p]
  <1>1. MaxLen \in Nat
    BY LibcAssumption
  <1>2. m \in [P -> Nat] /\ DOMAIN m = P
    OBVIOUS
  <1>3. ASSUME NEW d \in P, NEW s \in P, NEW n \in 0..MaxLen,
               d + n - 1 \in 0..(2 * MaxLen), s + n - 1 \in 0..(2 * MaxLen),
               d \notin (s + 1)..(s + n - 1)
        PROVE  LET ideal == [p \in P |-> IF p \in d..(d + n - 1) THEN m[s + p - d] ELSE m[p]]
               IN  memcpy(m, d, s, n) = ideal /\ memcpy_uint16_t(m, d, s, n) = ideal
    <2>1. Copyable(P, d, s, n)
      BY <1>1, <1>3 DEF Copyable
    <2> HIDE DEF m, P
    <2>2. memcpy(m, d, s, n) = Copied(m, d, s, n) /\ memcpy_uint16_t(m, d, s, n) = Copied(m, d, s, n)
      BY <1>2, <2>1, BytesCopied, CellsCopied
    <2> QED BY <1>2, <2>2 DEF Copied
  <1>4. \A d, s \in P : \A n \in 0..MaxLen :
            d + n - 1 \in 0..(2 * MaxLen) /\ s + n - 1 \in 0..(2 * MaxLen) /\ d \notin (s + 1)..(s + n - 1) =>
                LET ideal == [p \in P |-> IF p \in d..(d + n - 1) THEN m[s + p - d] ELSE m[p]]
                IN  memcpy(m, d, s, n) = ideal /\ memcpy_uint16_t(m, d, s, n) = ideal
    <2> HIDE DEF m, P
    <2> QED BY <1>3
  <1> QED BY <1>4 DEF CopiesExact
-----------------------------------------------------------------------------
(* The parts of a string, joined.  Each part is what stands between two    *)
(* zeros.                                                                  *)
Met(m, w, k) ==
    LET p == w[k].p
        e == w[k + 1].p - 1
    IN  /\ p \in 1..Len(m) /\ e \in p..Len(m) /\ m[e] = 0
        /\ \A i \in p..(e - 1) : m[i] # 0
        /\ w[k + 1].met = Append(w[k].met, SubSeq(m, p, e - 1))

LEMMA PartMet ==
    ASSUME NEW m, Memory(m), NEW n \in Nat, n = Cardinality(Zeros(m, Len(m) + 1)),
           NEW w, Walk(w, m, n), NEW k \in 0..(n - 1)
    PROVE  Met(m, w, k)
  <1>1. k \in Nat /\ k \in 0..n /\ k # n
    OBVIOUS
  <1>2. Behind(m, w[k], k)
    BY <1>1, Walking
  <1>3. w[k].p # Len(m) + 1
    BY <1>1, <1>2, AtEnd
  <1>4. w[k].p \in 1..Len(m) /\ Len(m) \in Nat
    BY <1>2, <1>3 DEF Behind, Memory
  <1>5. w[k].p <= Len(m)
    BY <1>4
  <1>6. PICK e \in w[k].p..Len(m) :
            /\ m[e] = 0 /\ \A i \in w[k].p..(e - 1) : m[i] # 0
            /\ Stepped(m, w[k]) = [met |-> Append(w[k].met, SubSeq(m, w[k].p, e - 1)), p |-> e + 1]
    BY <1>1, <1>2, <1>5, StepBehind
  <1>7. w[k + 1] = Stepped(m, w[k])
    BY WalkIs
  <1>8. w[k + 1].p = e + 1 /\ w[k + 1].met = Append(w[k].met, SubSeq(m, w[k].p, e - 1))
    <2> DEFINE met == Append(w[k].met, SubSeq(m, w[k].p, e - 1))
    <2>1. w[k + 1] = [met |-> met, p |-> e + 1]
      BY <1>6, <1>7
    <2> HIDE DEF met
    <2>2. w[k + 1].p = e + 1 /\ w[k + 1].met = met
      BY <2>1
    <2> QED BY <2>2 DEF met
  <1>9. w[k + 1].p - 1 = e
    BY <1>4, <1>8
  <1> QED BY <1>4, <1>6, <1>8, <1>9 DEF Met

(* What has been met stays. *)
LEMMA MetStays ==
    ASSUME NEW m, Memory(m), NEW n \in Nat, n = Cardinality(Zeros(m, Len(m) + 1)),
           NEW w, Walk(w, m, n)
    PROVE  \A j \in 1..n : w[n].met[j] = w[j].met[j]
  <1> DEFINE T == { k \in 0..n : \A j \in 1..k : w[k].met[j] = w[j].met[j] }
  <1>1. 0 \in T
    OBVIOUS
  <1>2. ASSUME NEW k \in 0..(n - 1), k \in T PROVE k + 1 \in T
    <2> DEFINE part == SubSeq(m, w[k].p, w[k + 1].p - 1 - 1)
               met == w[k].met
    <2>1. w[k + 1].met = Append(met, part)
      <3>1. Met(m, w, k)
        BY PartMet
      <3> QED BY <3>1 DEF Met
    <2>2. Behind(m, w[k], k)
      BY Walking
    <2>3. met \in Seq(Seq(Code)) /\ Len(met) = k
      BY <2>2 DEF Behind
    <2>4. ASSUME NEW j \in 1..(k + 1) PROVE w[k + 1].met[j] = w[j].met[j]
      <3>1. CASE j = k + 1
        BY <3>1
      <3>2. CASE j # k + 1
        <4>1. j \in 1..k
          BY <3>2
        <4> HIDE DEF part, met
        <4>2. Append(met, part)[j] = met[j]
          BY <2>3, <4>1
        <4>3. met[j] = w[j].met[j]
          BY <1>2, <4>1 DEF met
        <4> QED BY <2>1, <4>2, <4>3
      <3> QED BY <3>1, <3>2
    <2>5. k + 1 \in 0..n
      OBVIOUS
    <2> QED BY <2>4, <2>5
  <1>3. n \in T
    <2> HIDE DEF T
    <2>1. \A k \in 0..n : k \in T
      BY <1>1, <1>2, Turns
    <2> QED BY <2>1
  <1> QED BY <1>3

LEMMA Piecing ==
    ASSUME NEW s \in Seq(Char), NEW delim \in Char,
           NEW p \in 2..(Len(s) + 1), NEW e \in p..(Len(s) + 1), s[p - 1] = delim
    PROVE  SubSeq(s, 1, p - 2) \o << delim >> \o SubSeq(s, p, e - 1) = SubSeq(s, 1, e - 1)
  <1> DEFINE front == SubSeq(s, 1, p - 2)
             back == SubSeq(s, p, e - 1)
             all == SubSeq(s, 1, e - 1)
             mid == << delim >>
  <1>1. Len(s) \in Nat
    OBVIOUS
  <1>2. \A i \in 1..(e - 1) : s[i] \in Char
    BY <1>1
  <1>3. /\ front \in Seq(Char) /\ Len(front) = p - 2 /\ \A i \in 1..(p - 2) : front[i] = s[i]
    <2>1. \A i \in 1..(p - 2) : s[i] \in Char
      BY <1>1, <1>2
    <2>2. /\ front \in Seq(Char) /\ Len(front) = IF 1 <= p - 2 THEN (p - 2) - 1 + 1 ELSE 0
          /\ \A i \in 1..((p - 2) - 1 + 1) : front[i] = s[1 + i - 1]
      BY <2>1, SubSeqProperties
    <2> HIDE DEF front
    <2>3. Len(front) = p - 2
      BY <1>1, <2>2
    <2>4. \A i \in 1..(p - 2) : front[i] = s[i]
      <3> TAKE i \in 1..(p - 2)
      <3>1. i \in 1..((p - 2) - 1 + 1) /\ 1 + i - 1 = i
        BY <1>1
      <3> QED BY <2>2, <3>1
    <2> QED BY <2>2, <2>3, <2>4
  <1>4. /\ all \in Seq(Char) /\ Len(all) = e - 1 /\ \A i \in 1..(e - 1) : all[i] = s[i]
    <2>2. /\ all \in Seq(Char) /\ Len(all) = IF 1 <= e - 1 THEN (e - 1) - 1 + 1 ELSE 0
          /\ \A i \in 1..((e - 1) - 1 + 1) : all[i] = s[1 + i - 1]
      BY <1>1, <1>2, SubSeqProperties
    <2> HIDE DEF all
    <2>3. Len(all) = e - 1
      BY <1>1, <2>2
    <2>4. \A i \in 1..(e - 1) : all[i] = s[i]
      <3> TAKE i \in 1..(e - 1)
      <3>1. i \in 1..((e - 1) - 1 + 1) /\ 1 + i - 1 = i
        BY <1>1
      <3> QED BY <2>2, <3>1
    <2> QED BY <2>2, <2>3, <2>4
  <1>5. /\ back \in Seq(Char) /\ Len(back) = e - p /\ \A i \in 1..(e - p) : back[i] = s[p + i - 1]
    <2>1. \A i \in p..(e - 1) : s[i] \in Char
      BY <1>1, <1>2
    <2>2. /\ back \in Seq(Char) /\ Len(back) = IF p <= e - 1 THEN (e - 1) - p + 1 ELSE 0
          /\ \A i \in 1..((e - 1) - p + 1) : back[i] = s[p + i - 1]
      BY <1>1, <2>1, SubSeqProperties
    <2> HIDE DEF back
    <2>3. Len(back) = e - p /\ (e - 1) - p + 1 = e - p
      BY <1>1, <2>2
    <2> QED BY <2>2, <2>3
  <1>6. mid \in Seq(Char) /\ Len(mid) = 1 /\ mid[1] = delim
    OBVIOUS
  <1> HIDE DEF front, back, all, mid
  <1> DEFINE half == front \o mid
             whole == half \o back
  <1>7. /\ half \in Seq(Char) /\ Len(half) = p - 1
        /\ \A i \in 1..(p - 2) : half[i] = s[i]
        /\ half[p - 1] = s[p - 1]
    <2>1. half \in Seq(Char) /\ Len(half) = Len(front) + Len(mid)
      BY <1>3, <1>6, Joining
    <2>2. \A i \in 1..Len(front) : half[i] = front[i]
      BY <1>3, <1>6, Joining
    <2>3. \A i \in 1..Len(mid) : half[Len(front) + i] = mid[i]
      BY <1>3, <1>6, Joining
    <2>4. half[Len(front) + 1] = mid[1]
      <3> HIDE DEF half
      <3>1. 1 \in 1..Len(mid)
        BY <1>6
      <3> QED BY <2>3, <3>1
    <2>5. Len(front) + 1 = p - 1 /\ Len(front) + Len(mid) = p - 1
      BY <1>1, <1>3, <1>6
    <2> QED BY <1>3, <1>6, <2>1, <2>2, <2>4, <2>5
  <1>8. \A i \in 1..(p - 1) : half[i] = s[i]
    <2> TAKE i \in 1..(p - 1)
    <2>1. i \in 1..(p - 2) \/ i = p - 1
      BY <1>1
    <2> QED BY <1>7, <2>1
  <1> HIDE DEF half
  <1>9. whole \in Seq(Char) /\ Len(whole) = e - 1
    <2>1. whole \in Seq(Char) /\ Len(whole) = Len(half) + Len(back)
      BY <1>5, <1>7, Joining
    <2>2. Len(half) + Len(back) = e - 1
      BY <1>1, <1>5, <1>7
    <2> QED BY <2>1, <2>2
  <1>10. ASSUME NEW i \in 1..(e - 1) PROVE whole[i] = s[i]
    <2>1. CASE i <= p - 1
      <3>1. i \in 1..Len(half) /\ i \in 1..(p - 1)
        BY <1>1, <1>7, <2>1
      <3>2. whole[i] = half[i]
        BY <1>5, <1>7, <3>1, Joining
      <3> QED BY <1>8, <3>1, <3>2
    <2>2. CASE ~(i <= p - 1)
      <3> DEFINE j == i - (p - 1)
      <3>1. j \in 1..(e - p) /\ j \in 1..Len(back) /\ Len(half) + j = i /\ p + j - 1 = i
        BY <1>1, <1>5, <1>7, <2>2
      <3> HIDE DEF j
      <3>2. whole[Len(half) + j] = back[j]
        BY <1>5, <1>7, <3>1, Joining
      <3>3. back[j] = s[p + j - 1]
        BY <1>5, <3>1
      <3> QED BY <3>1, <3>2, <3>3
    <2> QED BY <2>1, <2>2
  <1> HIDE DEF whole
  <1>11. \A i \in 1..Len(whole) : whole[i] = all[i]
    BY <1>4, <1>9, <1>10
  <1>12. whole = all
    BY <1>4, <1>9, <1>11, SeqEqual
  <1> QED BY <1>12 DEF whole, half, front, back, all, mid

(* The part between two zeros of what strsplit leaves is that of the       *)
(* string, and no delimiter is in it.                                      *)
Restores(m, s, delim) ==
    /\ Memory(m) /\ Len(m) = Len(s) + 1
    /\ \A i \in 1..Len(s) : m[i] = IF s[i] = delim THEN 0 ELSE s[i]

SamePart(m, s, delim, p, e) ==
    LET part == SubSeq(s, p, e - 1)
    IN  /\ SubSeq(m, p, e - 1) = part /\ part \in Seq(Char)
        /\ \A i \in DOMAIN part : part[i] # delim

LEMMA PartOfString ==
    ASSUME NEW s \in Seq(Char), NEW delim \in Char, NEW m, Restores(m, s, delim),
           NEW p \in 1..Len(m), NEW e \in p..Len(m), \A i \in p..(e - 1) : m[i] # 0
    PROVE  SamePart(m, s, delim, p, e)
  <1> DEFINE here == SubSeq(m, p, e - 1)
             there == SubSeq(s, p, e - 1)
  <1>1. Len(s) \in Nat /\ Len(m) \in Nat /\ m \in Seq(Code) /\ \A i \in 1..Len(s) : s[i] \in Char
    BY DEF Memory, Restores
  <1>2. \A i \in p..(e - 1) : i \in 1..Len(s) /\ i \in 1..Len(m)
    BY <1>1 DEF Restores
  <1>3. ASSUME NEW i \in p..(e - 1) PROVE m[i] = s[i] /\ s[i] # delim /\ s[i] \in Char /\ m[i] \in Code
    <2>1. i \in 1..Len(s) /\ i \in 1..Len(m) /\ m[i] # 0
      BY <1>2
    <2>2. m[i] = s[i] /\ s[i] # delim
      BY <2>1 DEF Restores
    <2> QED BY <1>1, <2>1, <2>2
  <1>4. /\ here \in Seq(Code) /\ Len(here) = IF p <= e - 1 THEN (e - 1) - p + 1 ELSE 0
        /\ \A i \in 1..((e - 1) - p + 1) : here[i] = m[p + i - 1]
    BY <1>1, <1>3, SubSeqProperties
  <1>5. /\ there \in Seq(Char) /\ Len(there) = IF p <= e - 1 THEN (e - 1) - p + 1 ELSE 0
        /\ \A i \in 1..((e - 1) - p + 1) : there[i] = s[p + i - 1]
    BY <1>1, <1>3, SubSeqProperties
  <1> HIDE DEF here, there
  <1>6. Len(here) = e - p /\ Len(there) = e - p /\ (e - 1) - p + 1 = e - p
    BY <1>1, <1>4, <1>5
  <1>7. ASSUME NEW i \in 1..(e - p) PROVE here[i] = there[i] /\ there[i] # delim
    <2>1. p + i - 1 \in p..(e - 1)
      BY <1>1
    <2>2. here[i] = m[p + i - 1] /\ there[i] = s[p + i - 1]
      BY <1>4, <1>5, <1>6
    <2> QED BY <1>3, <2>1, <2>2
  <1>8. here = there
    BY <1>4, <1>5, <1>6, <1>7, SeqEqual
  <1>9. DOMAIN there = 1..(e - p)
    BY <1>5, <1>6
  <1>10. \A i \in DOMAIN there : there[i] # delim
    BY <1>7, <1>9
  <1> QED BY <1>5, <1>8, <1>10 DEF here, there, SamePart

JoinedUp(j, parts, delim) ==
    j = [k \in DOMAIN parts |-> IF k = 1 THEN parts[1] ELSE j[k - 1] \o << delim >> \o parts[k]]

(* Stepping over the parts of any string meets parts without the           *)
(* delimiter, and joined they are the string (strsplit.c:3, ext2.c:271).   *)
THEOREM PartsJoinAgain ==
    ASSUME NEW s \in Seq(Char), NEW delim \in Char
    PROVE  LET parts == Parts(strsplit(s, delim))
           IN  /\ parts # << >>
               /\ \A k \in DOMAIN parts : \A i \in DOMAIN parts[k] : parts[k][i] # delim
               /\ \A j : JoinedUp(j, parts, delim) => j[Len(parts)] = s
               /\ \E j : JoinedUp(j, parts, delim)
  <1> DEFINE m == strsplit(s, delim).m
             n == strsplit(s, delim).n
             parts == Parts(strsplit(s, delim))
  <1>1. /\ Memory(m) /\ Len(m) = Len(s) + 1
        /\ \A i \in 1..Len(s) : m[i] = IF s[i] = delim THEN 0 ELSE s[i]
        /\ n \in Nat /\ n >= 1 /\ n = Cardinality(Zeros(m, Len(m) + 1))
    <2>1. SplitUp(s, delim)
      BY SplitAt
    <2> QED BY <2>1 DEF SplitUp
  <1>2. PICK w : Walk(w, m, n) /\ parts = w[n].met
    BY <1>1, PartsIs
  <1> HIDE DEF m, n, parts
  <1>3. Behind(m, w[n], n) /\ w[0].p = 1
    <2>1. n \in 0..n
      BY <1>1
    <2>2. \A k \in 0..n : Behind(m, w[k], k)
      BY <1>1, <1>2, Walking
    <2>3. w[0] = [met |-> << >>, p |-> 1]
      BY <1>1, <1>2, WalkIs
    <2> QED BY <2>1, <2>2, <2>3
  <1>4. parts \in Seq(Seq(Code)) /\ Len(parts) = n /\ DOMAIN parts = 1..n
    BY <1>1, <1>2, <1>3 DEF Behind
  <1>5. Len(s) \in Nat /\ w[n].p = Len(s) + 2
    <2>1. w[n].p = Len(m) + 1
      BY <1>1, <1>3, AtEnd
    <2> QED BY <1>1, <2>1
  <1> DEFINE from(k) == w[k - 1].p
             to(k) == w[k].p - 1
             part(k) == SubSeq(s, from(k), to(k) - 1)
  <1>6. ASSUME NEW k \in 1..n
        PROVE  /\ from(k) \in 1..(Len(s) + 1) /\ to(k) \in from(k)..(Len(s) + 1)
               /\ parts[k] = part(k) /\ part(k) \in Seq(Char)
               /\ \A i \in DOMAIN part(k) : part(k)[i] # delim
               /\ m[to(k)] = 0
    <2> DEFINE b == k - 1
               p == w[b].p
               e == w[b + 1].p - 1
    <2>1. b \in 0..(n - 1) /\ b + 1 = k /\ b \in Nat /\ b \in 0..n
      BY <1>1
    <2>2. p = from(k) /\ e = to(k)
      BY <2>1
    <2> HIDE DEF b
    <2>3. /\ p \in 1..Len(m) /\ e \in p..Len(m) /\ m[e] = 0
          /\ \A i \in p..(e - 1) : m[i] # 0
          /\ w[b + 1].met = Append(w[b].met, SubSeq(m, p, e - 1))
      <3>1. Met(m, w, b)
        BY <1>1, <1>2, <2>1, PartMet
      <3> QED BY <3>1 DEF Met
    <2>4. Behind(m, w[b], b)
      BY <1>1, <1>2, <2>1, Walking
    <2> HIDE DEF p, e
    <2>5. /\ SubSeq(m, p, e - 1) = SubSeq(s, p, e - 1)
          /\ SubSeq(s, p, e - 1) \in Seq(Char)
          /\ \A i \in DOMAIN SubSeq(s, p, e - 1) : SubSeq(s, p, e - 1)[i] # delim
      <3>1. Restores(m, s, delim)
        BY <1>1 DEF Restores
      <3>2. \A i \in p..(e - 1) : m[i] # 0
        BY <2>3
      <3>3. p \in 1..Len(m) /\ e \in p..Len(m)
        BY <2>3
      <3>4. SamePart(m, s, delim, p, e)
        BY <3>1, <3>2, <3>3, PartOfString
      <3> QED BY <3>4 DEF SamePart
    <2>6. Append(w[b].met, SubSeq(m, p, e - 1))[k] = SubSeq(m, p, e - 1)
      <3> DEFINE met == w[b].met
                 x == SubSeq(m, p, e - 1)
      <3>1. met \in Seq(Seq(Code)) /\ Len(met) = b
        BY <2>4 DEF Behind
      <3> HIDE DEF met, x
      <3>2. Append(met, x)[Len(met) + 1] = x
        BY <3>1
      <3> QED BY <2>1, <3>1, <3>2 DEF met, x
    <2>7. parts[k] = w[k].met[k]
      BY <1>1, <1>2, MetStays
    <2>8. parts[k] = SubSeq(s, p, e - 1)
      BY <2>1, <2>3, <2>5, <2>6, <2>7
    <2> QED BY <1>1, <2>2, <2>3, <2>5, <2>8
  <1>7. \A k \in 2..n : from(k) = to(k - 1) + 1
    <2> TAKE k \in 2..n
    <2>1. k - 1 \in 1..n
      BY <1>1
    <2>2. to(k - 1) \in Int
      BY <1>5, <1>6, <2>1
    <2>3. Behind(m, w[k - 1], k - 1)
      <3>1. k - 1 \in 0..n
        BY <1>1
      <3> QED BY <1>1, <1>2, <3>1, Walking
    <2>4. w[k - 1].p \in Int
      BY <1>1, <1>5, <2>3 DEF Behind
    <2> QED BY <2>4
  <1> DEFINE front(k) == SubSeq(s, 1, to(k) - 1)
  <1>8. front(1) = parts[1]
    <2>1. 1 \in 1..n /\ 1 - 1 = 0
      BY <1>1
    <2>2. from(1) = 1
      BY <1>3, <2>1
    <2> QED BY <1>6, <2>1, <2>2
  <1>9. ASSUME NEW k \in 2..n PROVE front(k - 1) \o << delim >> \o parts[k] = front(k)
    <2> DEFINE p == from(k)
               e == to(k)
               b == k - 1
    <2>1. k \in 1..n /\ b \in 1..n
      BY <1>1
    <2>2. to(b) \in 1..(Len(s) + 1) /\ p = to(b) + 1 /\ m[to(b)] = 0
      <3>1. from(b) \in 1..(Len(s) + 1) /\ to(b) \in from(b)..(Len(s) + 1) /\ m[to(b)] = 0
        BY <1>6, <2>1
      <3>2. p = to(b) + 1
        BY <1>7
      <3> HIDE DEF from, to, b, p
      <3> QED BY <1>5, <3>1, <3>2
    <2>3. p \in 1..(Len(s) + 1) /\ e \in p..(Len(s) + 1) /\ parts[k] = SubSeq(s, p, e - 1)
      BY <1>6, <2>1
    <2> HIDE DEF p, e
    <2>4. p \in 2..(Len(s) + 1) /\ p - 1 = to(b) /\ p - 2 = to(b) - 1 /\ p - 1 \in 1..Len(s)
      <3> HIDE DEF to, b
      <3> QED BY <1>5, <2>2, <2>3
    <2>5. s[p - 1] = delim
      <3>1. m[p - 1] = 0 /\ s[p - 1] \in Char
        BY <2>2, <2>4, SMTT(40)
      <3>2. m[p - 1] = IF s[p - 1] = delim THEN 0 ELSE s[p - 1]
        BY <1>1, <2>4
      <3> QED BY <3>1, <3>2, NoZero
    <2>6. SubSeq(s, 1, p - 2) \o << delim >> \o SubSeq(s, p, e - 1) = SubSeq(s, 1, e - 1)
      BY <2>3, <2>4, <2>5, Piecing
    <2>7. front(b) = SubSeq(s, 1, p - 2)
      BY <2>4
    <2> QED BY <2>3, <2>6, <2>7 DEF e
  <1>10. front(n) = s
    <2>1. to(n) - 1 = Len(s)
      BY <1>5
    <2> QED BY <2>1
  <1> HIDE DEF front, part, from, to
  <1>11. ASSUME NEW j, JoinedUp(j, parts, delim) PROVE j[n] = s
    <2>1. \A k \in 1..n : j[k] = IF k = 1 THEN parts[1] ELSE j[k - 1] \o << delim >> \o parts[k]
      BY <1>4, <1>11 DEF JoinedUp
    <2> DEFINE top == n - 1
               T == { k \in 0..top : j[k + 1] = front(k + 1) }
    <2>2. top \in Nat
      BY <1>1
    <2>3. 0 \in T
      <3>1. 1 \in 1..n /\ 0 + 1 = 1 /\ 0 \in 0..top
        BY <1>1
      <3>2. j[1] = parts[1]
        BY <2>1, <3>1
      <3> QED BY <1>8, <3>1, <3>2
    <2>4. ASSUME NEW k \in 0..(top - 1), k \in T PROVE k + 1 \in T
      <3> DEFINE l == k + 2
      <3>1. l \in 2..n /\ l \in 1..n /\ l # 1 /\ l - 1 = k + 1 /\ (k + 1) + 1 = l /\ k + 1 \in 0..top
        BY <1>1, <2>2
      <3> HIDE DEF l
      <3>2. j[l - 1] = front(l - 1)
        BY <2>4, <3>1
      <3>3. j[l] = j[l - 1] \o << delim >> \o parts[l]
        BY <2>1, <3>1
      <3>4. j[l] = front(l)
        BY <1>9, <3>1, <3>2, <3>3
      <3> QED BY <3>1, <3>4
    <2>5. top \in T
      <3> HIDE DEF T, top
      <3>1. \A k \in 0..top : k \in T
        BY <2>2, <2>3, <2>4, Turns
      <3> QED BY <2>2, <3>1
    <2>6. top + 1 = n
      BY <1>1
    <2> HIDE DEF top
    <2> QED BY <1>10, <2>5, <2>6
  <1>12. \E j : JoinedUp(j, parts, delim)
    <2> DEFINE j == [k \in 1..n |-> front(k)]
               g == [k \in 1..n |-> IF k = 1 THEN parts[1] ELSE j[k - 1] \o << delim >> \o parts[k]]
    <2>1. ASSUME NEW k \in 1..n PROVE j[k] = g[k]
      <3>1. CASE k = 1
        BY <1>8, <3>1
      <3>2. CASE k # 1
        <4>1. k \in 2..n /\ k - 1 \in 1..n
          BY <1>1, <3>2
        <4>2. j[k - 1] = front(k - 1) /\ j[k] = front(k)
          BY <4>1
        <4>3. g[k] = j[k - 1] \o << delim >> \o parts[k]
          BY <3>2
        <4> HIDE DEF j, g
        <4> QED BY <1>9, <4>1, <4>2, <4>3
      <3> QED BY <3>1, <3>2
    <2>2. j = g
      <3>1. j = [k \in 1..n |-> j[k]] /\ g = [k \in 1..n |-> g[k]]
        OBVIOUS
      <3> HIDE DEF j, g
      <3> QED BY <2>1, <3>1
    <2> HIDE DEF j
    <2>3. JoinedUp(j, parts, delim)
      BY <1>4, <2>2 DEF JoinedUp
    <2> QED BY <2>3
  <1>13. \A k \in 1..n : \A i \in DOMAIN parts[k] : parts[k][i] # delim
    BY <1>6
  <1>14. parts # << >>
    <2>1. Len(parts) # 0
      BY <1>1, <1>4
    <2> QED BY <2>1
  <1> QED BY <1>4, <1>11, <1>12, <1>13, <1>14 DEF parts

LEMMA AllPartsJoin == PartsJoin
  <1>1. ASSUME NEW s \in Strings, NEW delim \in Letters
        PROVE  LET parts == Parts(strsplit(s, delim))
                   joined[k \in DOMAIN parts] ==
                       IF k = 1 THEN parts[1] ELSE joined[k - 1] \o << delim >> \o parts[k]
               IN  /\ parts # << >>
                   /\ \A k \in DOMAIN parts : \A i \in DOMAIN parts[k] : parts[k][i] # delim
                   /\ s = joined[Len(parts)]
    <2> DEFINE parts == Parts(strsplit(s, delim))
               joined == CHOOSE j : JoinedUp(j, parts, delim)
    <2>1. s \in Seq(Char) /\ delim \in Char
      BY StringsTyped
    <2>2. /\ parts # << >>
          /\ \A k \in DOMAIN parts : \A i \in DOMAIN parts[k] : parts[k][i] # delim
          /\ \A j : JoinedUp(j, parts, delim) => j[Len(parts)] = s
          /\ \E j : JoinedUp(j, parts, delim)
      BY <2>1, PartsJoinAgain
    <2> HIDE DEF parts
    <2>3. JoinedUp(joined, parts, delim)
      BY <2>2
    <2>4. joined[Len(parts)] = s
      BY <2>2, <2>3
    <2> HIDE DEF joined
    <2> QED BY <2>2, <2>4 DEF joined, parts, JoinedUp
  <1>2. \A s \in Strings : \A delim \in Letters :
            LET parts == Parts(strsplit(s, delim))
                joined[k \in DOMAIN parts] ==
                    IF k = 1 THEN parts[1] ELSE joined[k - 1] \o << delim >> \o parts[k]
            IN  /\ parts # << >>
                /\ \A k \in DOMAIN parts : \A i \in DOMAIN parts[k] : parts[k][i] # delim
                /\ s = joined[Len(parts)]
    BY <1>1, Zenon
  <1> QED BY <1>2, Zenon DEF PartsJoin

(* Libc.StringsExact, for memories of every size, strings of any letters   *)
(* and every length: copies are exact, names are told apart, and parts     *)
(* join to the string they are of.                                         *)
THEOREM StringsAreExact == Spec => []LibraryStrings
  <1>1. StringsExact
    BY CopiesAreExact, NamesToldApart, AllPartsJoin DEF StringsExact
  <1>2. LibraryStrings
    BY <1>1 DEF LibraryStrings
  <1> QED BY <1>2, PTL
-----------------------------------------------------------------------------
(* Numbers.  What str_reverse has turned round after pos swaps. *)
Turned(s, pos) ==
    [i \in 1..Len(s) |-> IF i <= pos \/ i > Len(s) - pos THEN s[Len(s) + 1 - i] ELSE s[i]]

LEMMA OfLength ==
    ASSUME NEW n \in Nat, NEW f \in [1..n -> Nat]
    PROVE  f \in Seq(Nat) /\ Len(f) = n
  <1>1. f \in Seq(Nat)
    BY SeqDef
  <1>2. DOMAIN f = 1..n /\ DOMAIN f = 1..Len(f) /\ Len(f) \in Nat
    BY <1>1, LenProperties
  <1> QED BY <1>1, <1>2

LEMMA TurnedIs ==
    ASSUME NEW s \in Seq(Nat), NEW pos \in Nat
    PROVE  Turned(s, pos) \in [1..Len(s) -> Nat]
  <1>1. Len(s) \in Nat /\ \A i \in 1..Len(s) : s[i] \in Nat
    OBVIOUS
  <1>2. \A i \in 1..Len(s) : Len(s) + 1 - i \in 1..Len(s)
    BY <1>1
  <1> QED BY <1>1, <1>2 DEF Turned

LEMMA SwappedIs ==
    ASSUME NEW n \in Nat, NEW x \in [1..n -> Nat], NEW i \in 1..n, NEW j \in 1..n, i # j
    PROVE  Swapped(x, i, j) \in [1..n -> Nat]
  BY DEF Swapped

LEMMA TurnedOn ==
    ASSUME NEW s \in Seq(Nat), NEW pos \in 1..(Len(s) \div 2)
    PROVE  Swapped(Turned(s, pos - 1), pos, Len(s) + 1 - pos) = Turned(s, pos)
  <1> DEFINE n == Len(s)
             a == pos - 1
             j == n + 1 - pos
             here == Turned(s, a)
             next == Turned(s, pos)
  <1>1. n \in Nat /\ 2 * (n \div 2) <= n /\ n \div 2 \in Nat
    BY Halves
  <1>2. /\ pos \in 1..n /\ a \in Nat /\ j \in 1..n /\ pos # j /\ n - a \in Int
        /\ j > a /\ j <= n - a /\ pos > a /\ pos <= n - a /\ n - a = j /\ n - pos = j - 1
        /\ n + 1 - j = pos /\ n + 1 - pos = j
    BY <1>1
  <1>3. here \in [1..n -> Nat] /\ next \in [1..n -> Nat]
    BY <1>2, TurnedIs
  <1>4. \A i \in 1..n : /\ here[i] = IF i <= a \/ i > n - a THEN s[n + 1 - i] ELSE s[i]
                        /\ next[i] = IF i <= pos \/ i > n - pos THEN s[n + 1 - i] ELSE s[i]
    BY DEF Turned
  <1> HIDE DEF here, next, n, a, j
  <1> DEFINE x == Swapped(here, pos, j)
  <1>5. /\ x \in [1..n -> Nat]
        /\ \A k \in 1..n : x[k] = IF k = pos THEN here[j] ELSE IF k = j THEN here[pos] ELSE here[k]
    <2>1. pos \in 1..n /\ j \in 1..n /\ pos # j
      BY <1>2
    <2>2. here \in [1..n -> Nat]
      BY <1>3
    <2>3. x \in [1..n -> Nat]
      BY <1>1, <2>1, <2>2, SwappedIs
    <2>4. \A k \in 1..n : x[k] = IF k = pos THEN here[j] ELSE IF k = j THEN here[pos] ELSE here[k]
      BY <2>1, <2>2 DEF Swapped
    <2> QED BY <2>3, <2>4
  <1> HIDE DEF x
  <1>6. here[j] = s[j] /\ here[pos] = s[pos]
    BY <1>2, <1>4
  <1>7. ASSUME NEW i \in 1..n PROVE x[i] = next[i]
    <2>1. CASE i = pos
      <3>1. x[i] = s[j]
        BY <1>5, <1>6, <2>1
      <3>2. next[i] = s[n + 1 - i]
        BY <1>2, <1>4, <2>1
      <3> QED BY <1>2, <2>1, <3>1, <3>2
    <2>2. CASE i = j
      <3>1. x[i] = s[pos]
        BY <1>2, <1>5, <1>6, <2>2
      <3>2. i > n - pos
        BY <1>1, <1>2, <2>2
      <3>3. next[i] = s[n + 1 - i]
        BY <1>4, <3>2
      <3> QED BY <1>2, <2>2, <3>1, <3>3
    <2>3. CASE i # pos /\ i # j
      <3>1. x[i] = here[i]
        BY <1>5, <2>3
      <3>2. (i <= pos <=> i <= a) /\ (i > n - pos <=> i > n - a)
        BY <1>1, <1>2, <2>3 DEF a
      <3> QED BY <1>4, <3>1, <3>2
    <2> QED BY <2>1, <2>2, <2>3
  <1>8. x = next
    <2>1. x = [i \in 1..n |-> x[i]] /\ next = [i \in 1..n |-> next[i]]
      BY <1>3, <1>5
    <2> QED BY <1>7, <2>1
  <1> QED BY <1>8 DEF x, here, next, a, j, n

Turning(t, s) ==
    t = [pos \in 0..(Len(s) \div 2) |->
            IF pos = 0 THEN s ELSE Swapped(t[pos - 1], pos, Len(s) + 1 - pos)]

LEMMA ReverseIs ==
    ASSUME NEW s \in Seq(Nat)
    PROVE  /\ str_reverse(s) \in Seq(Nat) /\ Len(str_reverse(s)) = Len(s)
           /\ \A i \in 1..Len(s) : str_reverse(s)[i] = s[Len(s) + 1 - i]
  <1> DEFINE n == Len(s)
             half == n \div 2
  <1>1. n \in Nat /\ half \in Nat /\ n % 2 \in 0..1 /\ n = (n % 2) + 2 * half
    BY Halves
  <1> HIDE DEF half
  <1>2. Turned(s, 0) = s
    <2>1. \A i \in 1..n : ~(i <= 0 \/ i > n - 0)
      BY <1>1
    <2>2. Turned(s, 0) \in [1..n -> Nat] /\ s \in [1..n -> Nat]
      BY TurnedIs
    <2>3. \A i \in 1..n : Turned(s, 0)[i] = s[i]
      BY <2>1 DEF Turned
    <2> QED BY <2>2, <2>3
  <1>3. \E t : Turning(t, s)
    <2> DEFINE t == [pos \in 0..half |-> Turned(s, pos)]
               g == [pos \in 0..half |-> IF pos = 0 THEN s ELSE Swapped(t[pos - 1], pos, Len(s) + 1 - pos)]
    <2>1. ASSUME NEW pos \in 0..half PROVE t[pos] = g[pos]
      <3>1. CASE pos = 0
        BY <1>2, <3>1
      <3>2. CASE pos # 0
        <4>1. pos \in 1..half /\ pos - 1 \in 0..half
          BY <1>1, <3>2
        <4>2. t[pos - 1] = Turned(s, pos - 1) /\ t[pos] = Turned(s, pos)
          BY <4>1
        <4>3. g[pos] = Swapped(t[pos - 1], pos, Len(s) + 1 - pos)
          BY <3>2
        <4>4. Swapped(Turned(s, pos - 1), pos, Len(s) + 1 - pos) = Turned(s, pos)
          BY <4>1, TurnedOn DEF half
        <4> HIDE DEF t, g
        <4> QED BY <4>2, <4>3, <4>4
      <3> QED BY <3>1, <3>2
    <2>2. t = [k \in 0..half |-> t[k]] /\ g = [k \in 0..half |-> g[k]]
      OBVIOUS
    <2> HIDE DEF t, g
    <2>3. t = g
      BY <2>1, <2>2
    <2>4. Turning(t, s)
      BY <2>3 DEF Turning, half, g
    <2> QED BY <2>4
  <1> DEFINE made == CHOOSE t : Turning(t, s)
  <1>4. Turning(made, s)
    BY <1>3
  <1>5. str_reverse(s) = made[half]
    BY DEF str_reverse, Turning, half
  <1> HIDE DEF made
  <1>6. \A pos \in 0..half : made[pos] = IF pos = 0 THEN s ELSE Swapped(made[pos - 1], pos, Len(s) + 1 - pos)
    BY <1>4 DEF Turning, half
  <1> DEFINE T == { pos \in 0..half : made[pos] = Turned(s, pos) }
  <1>7. 0 \in T
    BY <1>1, <1>2, <1>6
  <1>8. ASSUME NEW k \in 0..(half - 1), k \in T PROVE k + 1 \in T
    <2> DEFINE l == k + 1
    <2>1. l \in 0..half /\ l \in 1..half /\ l # 0 /\ l - 1 = k
      BY <1>1
    <2> HIDE DEF l
    <2>2. made[l] = Swapped(made[l - 1], l, Len(s) + 1 - l)
      BY <1>6, <2>1
    <2>3. Swapped(Turned(s, l - 1), l, Len(s) + 1 - l) = Turned(s, l)
      BY <2>1, TurnedOn DEF half
    <2>4. made[l] = Turned(s, l)
      BY <1>8, <2>1, <2>2, <2>3
    <2> QED BY <2>1, <2>4 DEF l
  <1>9. half \in T
    <2> HIDE DEF T
    <2>1. \A k \in 0..half : k \in T
      BY <1>1, <1>7, <1>8, Turns
    <2> QED BY <1>1, <2>1
  <1>10. str_reverse(s) = Turned(s, half)
    BY <1>5, <1>9
  <1>11. ASSUME NEW i \in 1..n PROVE Turned(s, half)[i] = s[n + 1 - i]
    <2>1. Turned(s, half)[i] = IF i <= half \/ i > n - half THEN s[n + 1 - i] ELSE s[i]
      BY DEF Turned
    <2>2. i <= half \/ i > n - half \/ i = n + 1 - i
      BY <1>1
    <2> QED BY <2>1, <2>2
  <1>12. Turned(s, half) \in [1..n -> Nat]
    BY <1>1, TurnedIs
  <1>13. Turned(s, half) \in Seq(Nat) /\ Len(Turned(s, half)) = n
    BY <1>1, <1>12, OfLength
  <1> QED BY <1>10, <1>11, <1>13

(* A digit and what it stands for. *)
Meant(c) == IF c < 65 THEN c - 48 ELSE c - 55

LEMMA DigitIs ==
    ASSUME NEW r \in 0..15
    PROVE  /\ Digit(r) \in Nat /\ Meant(Digit(r)) = r /\ (Digit(r) = 48 <=> r = 0)
           /\ Digit(r) \in 1..255
  BY DEF Digit, Meant

(* The loop of printf and u32_to_str: what is left of the number after     *)
(* each division, and how many digits that gives.                          *)
Divided(rest, base, val, len) ==
    rest = [i \in 0..len |-> IF i = 0 THEN val ELSE rest[i - 1] \div base]

Divisions(rest, count, base, val, len) ==
    /\ rest \in [0..len -> Nat] /\ count \in 0..len
    /\ rest[0] = val /\ \A i \in 0..(len - 1) : rest[i + 1] = rest[i] \div base
    /\ count = len \/ rest[count] = 0
    /\ \A i \in 0..(count - 1) : rest[i] # 0

Remainders(rest, count, base) ==
    str_reverse(IF count = 0 THEN << Digit(0) >>
                ELSE [i \in 1..count |-> Digit(rest[i - 1] % base)])

LEMMA Quotient ==
    ASSUME NEW base \in Nat \ {0}, NEW v \in Nat
    PROVE  v \div base \in Nat
  OBVIOUS

LEMMA NumeralIs ==
    ASSUME NEW base \in Nat \ {0}, NEW val \in Nat, NEW len \in Nat
    PROVE  \E rest, count :
              Divisions(rest, count, base, val, len) /\ Numeral(base, val, len) = Remainders(rest, count, base)
  <1> DEFINE F == [i \in 1..len |-> [x \in Nat |-> x \div base]]
             made == CHOOSE rest : Divided(rest, base, val, len)
             stops == { i \in 0..len : made[i] = 0 \/ i = len }
             count == Min(stops)
  <1>1. \E rest : Divided(rest, base, val, len)
    <2>1. F \in [1..len -> [Nat -> Nat]]
      BY Quotient
    <2>2. \A i \in 1..len : \A x \in Nat : F[i][x] = x \div base
      OBVIOUS
    <2> HIDE DEF F
    <2>3. PICK f \in [0..len -> Nat] : Loop(f, len, val, F)
      BY <2>1, LoopExists
    <2> DEFINE g == [i \in 0..len |-> IF i = 0 THEN val ELSE f[i - 1] \div base]
    <2>4. ASSUME NEW i \in 0..len PROVE f[i] = g[i]
      <3>1. f[i] = IF i = 0 THEN val ELSE F[i][f[i - 1]]
        BY <2>3 DEF Loop
      <3>2. i # 0 => i \in 1..len /\ i - 1 \in 0..len
        OBVIOUS
      <3>3. i # 0 => F[i][f[i - 1]] = f[i - 1] \div base
        BY <2>2, <2>3, <3>2
      <3> QED BY <3>1, <3>3
    <2>5. f = [i \in 0..len |-> f[i]] /\ g = [i \in 0..len |-> g[i]]
      BY <2>3
    <2>6. f = g
      BY <2>4, <2>5
    <2> QED BY <2>6 DEF Divided
  <1>2. Divided(made, base, val, len)
    BY <1>1
  <1>3. Numeral(base, val, len) = Remainders(made, count, base)
    BY DEF Numeral, Divided, Remainders
  <1> HIDE DEF made
  <1>4. \A i \in 0..len : made[i] = IF i = 0 THEN val ELSE made[i - 1] \div base
    BY <1>2 DEF Divided
  <1>5. made[0] = val
    BY <1>4
  <1>6. ASSUME NEW i \in 0..(len - 1) PROVE made[i + 1] = made[i] \div base
    <2>1. i + 1 \in 0..len /\ i + 1 # 0 /\ (i + 1) - 1 = i
      OBVIOUS
    <2>2. made[i + 1] = made[(i + 1) - 1] \div base
      BY <1>4, <2>1
    <2> QED BY <2>1, <2>2
  <1>7. made \in [0..len -> Nat]
    <2> DEFINE T == { i \in 0..len : made[i] \in Nat }
    <2>1. 0 \in T
      BY <1>5
    <2>2. ASSUME NEW i \in 0..(len - 1), i \in T PROVE i + 1 \in T
      <3>1. made[i] \in Nat
        BY <2>2
      <3>2. made[i] \div base \in Nat
        BY <3>1, Quotient
      <3> QED BY <1>6, <3>2
    <2>3. \A i \in 0..len : i \in T
      <3> HIDE DEF T
      <3> QED BY <2>1, <2>2, Turns
    <2>4. made = [i \in 0..len |-> made[i]]
      BY <1>2 DEF Divided
    <2> QED BY <2>3, <2>4
  <1>8. count \in stops /\ \A i \in stops : count <= i
    <2>1. stops \in SUBSET Nat /\ len \in stops
      OBVIOUS
    <2>2. PICK l \in stops : \A i \in stops : l <= i
      BY <2>1, LeastNat
    <2>3. \A x \in stops : (\A y \in stops : x <= y) => x = l
      BY <2>1, <2>2
    <2> HIDE DEF stops
    <2>4. Min(stops) = l
      BY <2>2, <2>3 DEF Min
    <2> QED BY <2>2, <2>4
  <1> HIDE DEF count
  <1>9. count \in 0..len /\ (count = len \/ made[count] = 0)
    BY <1>8
  <1>10. ASSUME NEW i \in 0..(count - 1) PROVE made[i] # 0
    <2>1. i \in 0..len /\ ~(count <= i)
      BY <1>9
    <2> QED BY <1>8, <2>1
  <1>11. Divisions(made, count, base, val, len)
    BY <1>5, <1>6, <1>7, <1>9, <1>10 DEF Divisions
  <1> QED BY <1>3, <1>11

(* The number a numeral stands for, digit by digit. *)
Horner(sum, base, s) ==
    /\ sum \in [0..Len(s) -> Int] /\ sum[0] = 0
    /\ \A k \in 0..(Len(s) - 1) : sum[k + 1] = sum[k] * base + Meant(s[k + 1])

Summed(sum, base, s) ==
    sum = [k \in 0..Len(s) |->
              IF k = 0 THEN 0
              ELSE sum[k - 1] * base + (IF s[k] < 65 THEN s[k] - 48 ELSE s[k] - 55)]

LEMMA ValueIs ==
    ASSUME NEW base \in Nat, NEW s \in Seq(Nat)
    PROVE  \E sum : Horner(sum, base, s) /\ Value(base, s) = sum[Len(s)]
  <1> DEFINE n == Len(s)
             next(x, k) == x * base + Meant(s[k])
             F == [k \in 1..n |-> [x \in Int |-> next(x, k)]]
             made == CHOOSE sum : Summed(sum, base, s)
  <1>1. n \in Nat /\ \A k \in 1..n : s[k] \in Nat
    OBVIOUS
  <1>2. \A k \in 1..n : Meant(s[k]) \in Int
    BY <1>1 DEF Meant
  <1>3. \A k \in 1..n : \A x \in Int : next(x, k) \in Int
    BY <1>2
  <1>4. \A x, k : next(x, k) = x * base + (IF s[k] < 65 THEN s[k] - 48 ELSE s[k] - 55)
    BY DEF Meant
  <1>5. \E sum : Summed(sum, base, s)
    <2> HIDE DEF next
    <2>1. F \in [1..n -> [Int -> Int]]
      BY <1>3
    <2>2. \A k \in 1..n : \A x \in Int : F[k][x] = next(x, k)
      OBVIOUS
    <2> HIDE DEF F
    <2> DEFINE S == Int
    <2>0. F \in [1..n -> [S -> S]] /\ 0 \in S
      BY <2>1
    <2> HIDE DEF S
    <2>3. PICK f \in [0..n -> S] : Loop(f, n, 0, F)
      BY <1>1, <2>0, LoopExists
    <2> USE DEF S
    <2> DEFINE g == [k \in 0..n |-> IF k = 0 THEN 0 ELSE next(f[k - 1], k)]
    <2>4. ASSUME NEW k \in 0..n PROVE f[k] = g[k]
      <3>1. f[k] = IF k = 0 THEN 0 ELSE F[k][f[k - 1]]
        BY <2>3 DEF Loop
      <3>2. k # 0 => k \in 1..n /\ k - 1 \in 0..n
        BY <1>1
      <3>3. k # 0 => F[k][f[k - 1]] = next(f[k - 1], k)
        BY <2>2, <2>3, <3>2
      <3> QED BY <3>1, <3>3
    <2>5. f = [k \in 0..n |-> f[k]] /\ g = [k \in 0..n |-> g[k]]
      BY <2>3
    <2>6. f = g
      BY <2>4, <2>5
    <2>7. Summed(f, base, s)
      BY <2>6 DEF Summed, next, Meant
    <2> QED BY <2>7
  <1>6. Summed(made, base, s)
    BY <1>5
  <1>7. Value(base, s) = made[n]
    BY DEF Value, Summed
  <1> HIDE DEF made
  <1>8. \A k \in 0..n : made[k] = IF k = 0 THEN 0 ELSE next(made[k - 1], k)
    BY <1>6 DEF Summed, Meant
  <1>9. made[0] = 0
    BY <1>1, <1>8
  <1>10. ASSUME NEW k \in 0..(n - 1) PROVE made[k + 1] = next(made[k], k + 1)
    <2>1. k + 1 \in 0..n /\ k + 1 # 0 /\ (k + 1) - 1 = k
      BY <1>1
    <2> HIDE DEF next
    <2>2. made[k + 1] = next(made[(k + 1) - 1], k + 1)
      BY <1>8, <2>1
    <2> QED BY <2>1, <2>2
  <1>11. made \in [0..n -> Int]
    <2> DEFINE T == { k \in 0..n : made[k] \in Int }
    <2>1. 0 \in T
      BY <1>1, <1>9
    <2>2. ASSUME NEW k \in 0..(n - 1), k \in T PROVE k + 1 \in T
      <3>1. made[k] \in Int /\ k + 1 \in 1..n
        BY <1>1, <2>2
      <3> HIDE DEF next
      <3>2. next(made[k], k + 1) \in Int
        BY <1>3, <3>1
      <3> QED BY <1>10, <3>1, <3>2
    <2>3. \A k \in 0..n : k \in T
      <3> HIDE DEF T
      <3> QED BY <1>1, <2>1, <2>2, Turns
    <2>4. made = [k \in 0..n |-> made[k]]
      BY <1>6 DEF Summed
    <2> QED BY <2>3, <2>4
  <1>12. Horner(made, base, s)
    BY <1>9, <1>10, <1>11 DEF Horner
  <1> QED BY <1>7, <1>12

LEMMA Divided10 ==
    ASSUME NEW v \in Nat
    PROVE  v = 10 * (v \div 10) + (v % 10) /\ v % 10 \in 0..9
  OBVIOUS

LEMMA Divided16 ==
    ASSUME NEW v \in Nat
    PROVE  v = 16 * (v \div 16) + (v % 16) /\ v % 16 \in 0..15
  OBVIOUS

Bases == {10, 16}

LEMMA DividedIs ==
    ASSUME NEW base \in Bases, NEW v \in Nat
    PROVE  /\ v \div base \in Nat /\ v % base \in 0..15
           /\ v = (v \div base) * base + (v % base)
           /\ \A b \in Nat : v <= 10 * b + 9 => v \div base <= b
           /\ v # 0 /\ v \div base = 0 => v % base # 0
  <1>1. CASE base = 10
    BY <1>1, Divided10
  <1>2. CASE base = 16
    BY <1>2, Divided16
  <1> QED BY <1>1, <1>2 DEF Bases

(* A numeral long enough for its number: it stands for the number, begins  *)
(* with no zero, and its characters are digits.                            *)
Stands(s, base, val) ==
    /\ s \in Seq(1..255) /\ Len(s) >= 1 /\ Value(base, s) = val
    /\ Len(s) > 1 => s[1] # 48
    /\ base = 10 => s \in Seq(48..57)

LEMMA NumeralStands ==
    ASSUME NEW base \in Bases, NEW val \in Nat, NEW len \in Nat,
           NEW rest, NEW count, Divisions(rest, count, base, val, len), rest[count] = 0
    PROVE  Stands(Remainders(rest, count, base), base, val)
  <1> DEFINE low == IF count = 0 THEN << Digit(0) >>
                    ELSE [i \in 1..count |-> Digit(rest[i - 1] % base)]
             s == str_reverse(low)
  <1>1. /\ rest \in [0..len -> Nat] /\ count \in 0..len /\ rest[0] = val
        /\ \A i \in 0..(len - 1) : rest[i + 1] = rest[i] \div base
        /\ \A i \in 0..(count - 1) : rest[i] # 0
    BY DEF Divisions
  <1>2. base \in Nat
    BY DEF Bases
  <1>3. CASE count = 0
    <2>1. Digit(0) = 48 /\ val = 0
      BY <1>1, <1>3 DEF Digit
    <2>2. low = << 48 >> /\ low \in Seq(Nat) /\ Len(low) = 1 /\ low[1] = 48
      BY <1>3, <2>1
    <2> HIDE DEF low
    <2>3. s \in Seq(Nat) /\ Len(s) = 1 /\ s[1] = 48
      <3>1. /\ s \in Seq(Nat) /\ Len(s) = Len(low)
            /\ \A i \in 1..Len(low) : s[i] = low[Len(low) + 1 - i]
        BY <2>2, ReverseIs
      <3>2. 1 \in 1..Len(low) /\ Len(low) + 1 - 1 = 1
        BY <2>2
      <3>3. s[1] = low[Len(low) + 1 - 1]
        BY <3>1, <3>2
      <3> QED BY <2>2, <3>1, <3>2, <3>3
    <2> HIDE DEF s
    <2>4. PICK sum : Horner(sum, base, s) /\ Value(base, s) = sum[Len(s)]
      BY <1>2, <2>3, ValueIs
    <2>5. sum[0] = 0 /\ sum[0 + 1] = sum[0] * base + Meant(s[0 + 1])
      <3>1. 0 \in 0..(Len(s) - 1)
        BY <2>3
      <3> QED BY <2>4, <3>1 DEF Horner
    <2>6. Meant(48) = 0
      BY DEF Meant
    <2>7. Value(base, s) = 0
      BY <1>2, <2>3, <2>4, <2>5, <2>6
    <2>8. s \in Seq(48..57) /\ s \in Seq(1..255)
      <3>1. s = << 48 >>
        BY <2>3
      <3> QED BY <3>1
    <2>9. Stands(s, base, val)
      BY <2>1, <2>3, <2>7, <2>8 DEF Stands
    <2> QED BY <2>9 DEF s, low, Remainders
  <1>4. CASE count # 0
    <2> DEFINE d(i) == rest[i - 1] % base
    <2>1. count \in Nat \ {0} /\ count <= len
      BY <1>1, <1>4
    <2>2. ASSUME NEW i \in 1..count
          PROVE  /\ d(i) \in 0..15 /\ i - 1 \in 0..len /\ i - 1 \in 0..(count - 1)
                 /\ rest[i - 1] \in Nat /\ rest[i] \in Nat
                 /\ rest[i - 1] = rest[i] * base + d(i)
                 /\ rest[i] = rest[i - 1] \div base
                 /\ base = 10 => d(i) \in 0..9
      <3>1. i - 1 \in 0..len /\ i - 1 \in 0..(len - 1) /\ (i - 1) + 1 = i /\ i \in 0..len /\ i - 1 \in 0..(count - 1)
        BY <1>1
      <3>2. rest[i - 1] \in Nat /\ rest[i] \in Nat
        BY <1>1, <3>1
      <3>3. rest[i] = rest[i - 1] \div base
        BY <1>1, <3>1
      <3>4. d(i) \in 0..15 /\ rest[i - 1] = (rest[i - 1] \div base) * base + d(i)
        BY <3>2, DividedIs
      <3>5. base = 10 => d(i) \in 0..9
        BY <3>2, Divided10
      <3> QED BY <3>1, <3>2, <3>3, <3>4, <3>5
    <2> HIDE DEF d
    <2>3. low = [i \in 1..count |-> Digit(d(i))]
      BY <1>4 DEF d
    <2>4. \A i \in 1..count : /\ Digit(d(i)) \in Nat /\ Digit(d(i)) \in 1..255
                              /\ Meant(Digit(d(i))) = d(i) /\ (Digit(d(i)) = 48 <=> d(i) = 0)
      BY <2>2, DigitIs
    <2>5. low \in Seq(Nat) /\ Len(low) = count /\ \A i \in 1..count : low[i] = Digit(d(i))
      <3>1. low \in [1..count -> Nat]
        BY <2>3, <2>4
      <3>2. \A i \in 1..count : low[i] = Digit(d(i))
        BY <2>3
      <3> HIDE DEF low
      <3> QED BY <2>1, <3>1, <3>2, OfLength
    <2> HIDE DEF low
    <2>6. /\ s \in Seq(Nat) /\ Len(s) = count
          /\ \A i \in 1..count : s[i] = low[count + 1 - i]
      BY <2>5, ReverseIs
    <2> HIDE DEF s
    <2>7. PICK sum : Horner(sum, base, s) /\ Value(base, s) = sum[Len(s)]
      BY <1>2, <2>6, ValueIs
    <2> DEFINE T == { k \in 0..count : sum[k] = rest[count - k] }
    <2>8. 0 \in T
      <3>1. count - 0 = count /\ 0 \in 0..count
        BY <2>1
      <3>2. sum[0] = 0
        BY <2>7 DEF Horner
      <3> QED BY <3>1, <3>2
    <2>9. ASSUME NEW k \in 0..(count - 1), k \in T PROVE k + 1 \in T
      <3> DEFINE i == count - k
      <3>1. i \in 1..count /\ k + 1 \in 1..count /\ count + 1 - (k + 1) = i /\ count - (k + 1) = i - 1 /\ k + 1 \in 0..count
        BY <2>1
      <3>2. sum[k + 1] = sum[k] * base + Meant(s[k + 1])
        BY <2>6, <2>7 DEF Horner
      <3>3. s[k + 1] = low[i]
        BY <2>6, <3>1
      <3>4. sum[k] = rest[i]
        BY <2>9
      <3> HIDE DEF i
      <3>5. Meant(s[k + 1]) = d(i)
        BY <2>4, <2>5, <3>1, <3>3
      <3>6. rest[i - 1] = rest[i] * base + d(i)
        BY <2>2, <3>1
      <3>7. sum[k + 1] = rest[i - 1]
        BY <3>2, <3>4, <3>5, <3>6
      <3> QED BY <3>1, <3>7
    <2>10. count \in T
      <3> HIDE DEF T
      <3>1. \A k \in 0..count : k \in T
        BY <2>1, <2>8, <2>9, Turns
      <3> QED BY <2>1, <3>1
    <2>11. Value(base, s) = val
      <3>1. sum[count] = rest[count - count] /\ count - count = 0
        BY <2>1, <2>10
      <3> QED BY <1>1, <2>6, <2>7, <3>1
    <2>12. s[1] # 48
      <3>1. 1 \in 1..count /\ count \in 1..count /\ count + 1 - 1 = count /\ count - 1 \in 0..(count - 1)
        BY <2>1
      <3>2. s[1] = Digit(d(count))
        <4>1. s[1] = low[count + 1 - 1]
          BY <2>6, <3>1
        <4> QED BY <2>5, <3>1, <4>1
      <3>3. rest[count - 1] # 0 /\ rest[count - 1] \div base = 0 /\ rest[count - 1] \in Nat
        BY <1>1, <2>2, <3>1
      <3>4. d(count) # 0
        BY <3>3, DividedIs DEF d
      <3> QED BY <2>4, <3>1, <3>2, <3>4
    <2>13. \A i \in 1..count : s[i] \in 1..255 /\ (base = 10 => s[i] \in 48..57)
      <3> TAKE i \in 1..count
      <3> DEFINE j == count + 1 - i
      <3>1. j \in 1..count
        BY <2>1
      <3>2. s[i] = Digit(d(j))
        BY <2>5, <2>6, <3>1
      <3> HIDE DEF j
      <3>3. Digit(d(j)) \in 1..255
        BY <2>4, <3>1
      <3>4. base = 10 => d(j) \in 0..9
        BY <2>2, <3>1
      <3>5. base = 10 => Digit(d(j)) \in 48..57
        BY <3>4 DEF Digit
      <3> QED BY <3>2, <3>3, <3>5
    <2>14. s \in Seq(1..255) /\ (base = 10 => s \in Seq(48..57))
      <3>1. s \in [1..count -> Nat]
        BY <2>6
      <3>2. s \in [1..count -> 1..255] /\ (base = 10 => s \in [1..count -> 48..57])
        BY <2>13, <3>1
      <3> QED BY <2>1, <3>2, SeqDef
    <2>15. Len(s) >= 1
      BY <2>1, <2>6
    <2>16. Stands(s, base, val)
      BY <2>11, <2>12, <2>14, <2>15 DEF Stands
    <2> QED BY <2>16 DEF s, low, Remainders
  <1> QED BY <1>3, <1>4

LEMMA Divided65536 ==
    ASSUME NEW v \in Nat
    PROVE  v = 65536 * (v \div 65536) + (v % 65536) /\ v % 65536 \in Nat /\ v % 65536 < 65536
  OBVIOUS

LEMMA WordIs == Word \in Nat \ {0} /\ Word <= 10 * 999999999 + 9
  <1>1. Word \in Nat \ {0} /\ Word \div 65536 \in Nat /\ Word \div 65536 <= 65536
    BY LibcAssumption
  <1>2. Word = 65536 * (Word \div 65536) + (Word % 65536) /\ Word % 65536 \in Nat /\ Word % 65536 < 65536
    BY <1>1, Divided65536
  <1> QED BY <1>1, <1>2

(* A word has at most ten digits, so the array of fourteen is not filled.  *)
LEMMA TenDigits ==
    ASSUME NEW base \in Bases, NEW val \in Nat, val <= 10 * 999999999 + 9, NEW rest, NEW count,
           Divisions(rest, count, base, val, 14)
    PROVE  rest[count] = 0
  <1>1. /\ rest \in [0..14 -> Nat] /\ count \in 0..14 /\ rest[0] = val
        /\ \A i \in 0..13 : rest[i + 1] = rest[i] \div base
        /\ count = 14 \/ rest[count] = 0
        /\ \A i \in 0..(count - 1) : rest[i] # 0
    BY DEF Divisions
  <1>2. ASSUME NEW i \in 0..13, NEW b \in Nat, rest[i] <= 10 * b + 9 PROVE rest[i + 1] <= b
    <2>1. rest[i] \in Nat
      BY <1>1
    <2>2. rest[i] \div base <= b
      BY <1>2, <2>1, DividedIs
    <2> QED BY <1>1, <2>2
  <1>3. rest[0] <= 10 * 999999999 + 9
    BY <1>1
  <1>4. rest[1] <= 999999999
    <2>1. rest[0 + 1] <= 999999999
      BY <1>2, <1>3
    <2> QED BY <2>1
  <1>5. rest[2] <= 99999999
    <2>1. rest[1 + 1] <= 99999999
      BY <1>2, <1>4
    <2> QED BY <2>1
  <1>6. rest[3] <= 9999999
    <2>1. rest[2 + 1] <= 9999999
      BY <1>2, <1>5
    <2> QED BY <2>1
  <1>7. rest[4] <= 999999
    <2>1. rest[3 + 1] <= 999999
      BY <1>2, <1>6
    <2> QED BY <2>1
  <1>8. rest[5] <= 99999
    <2>1. rest[4 + 1] <= 99999
      BY <1>2, <1>7
    <2> QED BY <2>1
  <1>9. rest[6] <= 9999
    <2>1. rest[5 + 1] <= 9999
      BY <1>2, <1>8
    <2> QED BY <2>1
  <1>10. rest[7] <= 999
    <2>1. rest[6 + 1] <= 999
      BY <1>2, <1>9
    <2> QED BY <2>1
  <1>11. rest[8] <= 99
    <2>1. rest[7 + 1] <= 99
      BY <1>2, <1>10
    <2> QED BY <2>1
  <1>12. rest[9] <= 9
    <2>1. rest[8 + 1] <= 9
      BY <1>2, <1>11
    <2> QED BY <2>1
  <1>13. rest[10] = 0
    <2>1. rest[9 + 1] <= 0 /\ rest[10] \in Nat
      BY <1>1, <1>2, <1>12
    <2> QED BY <2>1
  <1>14. count # 14
    BY <1>1, <1>13
  <1> QED BY <1>1, <1>14

LEMMA Printed ==
    ASSUME NEW base \in Bases, NEW val \in 0..(Word - 1)
    PROVE  Stands(Numeral(base, val, 14), base, val)
  <1>1. base \in Nat \ {0} /\ val \in Nat /\ val <= 10 * 999999999 + 9
    BY WordIs DEF Bases
  <1>2. PICK rest, count :
              Divisions(rest, count, base, val, 14) /\ Numeral(base, val, 14) = Remainders(rest, count, base)
    <2>1. 14 \in Nat
      OBVIOUS
    <2> QED BY <1>1, <2>1, NumeralIs
  <1>3. rest[count] = 0
    BY <1>1, <1>2, TenDigits
  <1> QED BY <1>1, <1>2, <1>3, NumeralStands

(* Every number that fits a word is printed whole: printf.c, u32_to_str.c. *)
THEOREM NumbersArePrinted == NumbersPrinted
  <1>1. ASSUME NEW val \in 0..(Word - 1), NEW base \in {10, 16}
        PROVE  /\ Value(base, Numeral(base, val, 14)) = val
               /\ Len(Numeral(base, val, 14)) > 1 => Numeral(base, val, 14)[1] # 48
    BY Printed DEF Bases, Stands
  <1> QED BY <1>1 DEF NumbersPrinted

LEMMA RemainderIs ==
    ASSUME NEW x \in Int
    PROVE  x = (x \div Word) * Word + (x % Word) /\ x % Word \in 0..(Word - 1) /\ x \div Word \in Int
  <1>1. ASSUME NEW w \in Nat \ {0}
        PROVE  x = (x \div w) * w + (x % w) /\ x % w \in 0..(w - 1) /\ x \div w \in Int
    OBVIOUS
  <1> QED BY <1>1, LibcAssumption

LEMMA RemainderOnly ==
    ASSUME NEW w \in Nat \ {0}, NEW r \in 0..(w - 1), NEW t \in 0..(w - 1), NEW q \in Int, t = r + q * w
    PROVE  t = r
  <1>1. CASE q = 0
    BY <1>1
  <1>2. CASE q >= 1
    <2>1. q * w >= w
      BY <1>2
    <2> QED BY <2>1
  <1>3. CASE q <= -1
    <2>1. q * w <= -w
      BY <1>3
    <2> QED BY <2>1
  <1> QED BY <1>1, <1>2, <1>3

(* The loop of sqrt. *)
Multiplied(v, val, pow) ==
    v = [i \in 0..(pow - 1) |-> IF i = 0 THEN val ELSE (v[i - 1] * val) % Word]

Powers(v, val, pow) ==
    /\ v \in [0..(pow - 1) -> Nat] /\ v[0] = val
    /\ \A i \in 0..(pow - 2) : v[i + 1] = (v[i] * val) % Word

LEMMA SqrtIs ==
    ASSUME NEW val \in Nat, NEW pow \in Nat \ {0}
    PROVE  \E v : Powers(v, val, pow) /\ sqrt(val, pow) = v[pow - 1]
  <1> DEFINE n == pow - 1
             F == [i \in 1..n |-> [x \in Nat |-> (x * val) % Word]]
             made == CHOOSE v : Multiplied(v, val, pow)
  <1>1. n \in Nat
    OBVIOUS
  <1>2. \A x \in Nat : (x * val) % Word \in Nat
    <2> TAKE x \in Nat
    <2>1. x * val \in Int
      OBVIOUS
    <2>2. \A y \in Int : y % Word \in 0..(Word - 1)
      BY RemainderIs
    <2>3. \A r \in 0..(Word - 1) : r \in Nat
      BY LibcAssumption
    <2> HIDE DEF n
    <2> QED BY <2>1, <2>2, <2>3
  <1> HIDE DEF n
  <1>3. \E v : Multiplied(v, val, pow)
    <2>1. F \in [1..n -> [Nat -> Nat]]
      BY <1>2
    <2>2. \A i \in 1..n : \A x \in Nat : F[i][x] = (x * val) % Word
      OBVIOUS
    <2> HIDE DEF F
    <2>3. PICK f \in [0..n -> Nat] : Loop(f, n, val, F)
      BY <1>1, <2>1, LoopExists
    <2> DEFINE g == [i \in 0..n |-> IF i = 0 THEN val ELSE (f[i - 1] * val) % Word]
    <2>4. ASSUME NEW i \in 0..n PROVE f[i] = g[i]
      <3>1. f[i] = IF i = 0 THEN val ELSE F[i][f[i - 1]]
        BY <2>3 DEF Loop
      <3>2. i # 0 => i \in 1..n /\ i - 1 \in 0..n
        BY <1>1
      <3>3. i # 0 => F[i][f[i - 1]] = (f[i - 1] * val) % Word
        BY <2>2, <2>3, <3>2
      <3> QED BY <3>1, <3>3
    <2>5. f = [i \in 0..n |-> f[i]] /\ g = [i \in 0..n |-> g[i]]
      BY <2>3
    <2>6. f = g
      BY <2>4, <2>5
    <2> QED BY <2>6 DEF Multiplied, n
  <1>4. Multiplied(made, val, pow)
    BY <1>3
  <1>5. sqrt(val, pow) = made[n]
    BY DEF sqrt, Multiplied, n
  <1> HIDE DEF made
  <1>6. \A i \in 0..n : made[i] = IF i = 0 THEN val ELSE (made[i - 1] * val) % Word
    BY <1>4 DEF Multiplied, n
  <1>7. made[0] = val
    BY <1>1, <1>6
  <1>8. ASSUME NEW i \in 0..(n - 1) PROVE made[i + 1] = (made[i] * val) % Word
    <2>1. i + 1 \in 0..n /\ i + 1 # 0 /\ (i + 1) - 1 = i
      BY <1>1
    <2>2. made[i + 1] = (made[(i + 1) - 1] * val) % Word
      BY <1>6, <2>1
    <2> QED BY <2>1, <2>2
  <1>9. made \in [0..n -> Nat]
    <2> DEFINE T == { i \in 0..n : made[i] \in Nat }
    <2>1. 0 \in T
      BY <1>1, <1>7
    <2>2. ASSUME NEW i \in 0..(n - 1), i \in T PROVE i + 1 \in T
      <3>1. made[i] \in Nat /\ i + 1 \in 0..n
        BY <1>1, <2>2
      <3>2. (made[i] * val) % Word \in Nat
        BY <1>2, <3>1
      <3> QED BY <1>8, <3>1, <3>2
    <2>3. \A i \in 0..n : i \in T
      <3> HIDE DEF T
      <3> QED BY <1>1, <2>1, <2>2, Turns
    <2>4. made = [i \in 0..n |-> made[i]]
      BY <1>4 DEF Multiplied, n
    <2> QED BY <2>3, <2>4
  <1>10. pow - 2 = n - 1
    BY DEF n
  <1>11. Powers(made, val, pow)
    BY <1>7, <1>8, <1>9, <1>10 DEF Powers, n
  <1> QED BY <1>5, <1>11 DEF n

LEMMA SqrtNext ==
    ASSUME NEW val \in Nat, NEW pow \in Nat \ {0}
    PROVE  /\ sqrt(val, pow) \in Nat /\ sqrt(val, 1) = val
           /\ sqrt(val, pow + 1) = (sqrt(val, pow) * val) % Word
  <1> DEFINE n == pow - 1
             l == pow + 1
  <1>0. /\ n \in Nat /\ pow - 1 = n /\ pow - 2 = n - 1
        /\ l \in Nat \ {0} /\ l - 1 = pow /\ l - 2 = n /\ n + 1 = pow /\ 1 \in Nat \ {0} /\ 1 - 1 = 0
    OBVIOUS
  <1> HIDE DEF n, l
  <1>1. PICK v : Powers(v, val, pow) /\ sqrt(val, pow) = v[pow - 1]
    BY SqrtIs
  <1>2. PICK u : Powers(u, val, l) /\ sqrt(val, l) = u[l - 1]
    BY <1>0, SqrtIs
  <1>3. PICK w : Powers(w, val, 1) /\ sqrt(val, 1) = w[1 - 1]
    BY <1>0, SqrtIs
  <1>4. v \in [0..n -> Nat] /\ v[0] = val /\ \A i \in 0..(n - 1) : v[i + 1] = (v[i] * val) % Word
    BY <1>0, <1>1 DEF Powers
  <1>5. u \in [0..pow -> Nat] /\ u[0] = val /\ \A i \in 0..n : u[i + 1] = (u[i] * val) % Word
    BY <1>0, <1>2 DEF Powers
  <1>6. sqrt(val, 1) = val
    BY <1>0, <1>3 DEF Powers
  <1> DEFINE T == { i \in 0..n : u[i] = v[i] }
  <1>7. 0 \in T
    BY <1>0, <1>4, <1>5
  <1>8. ASSUME NEW i \in 0..(n - 1), i \in T PROVE i + 1 \in T
    <2>1. i + 1 \in 0..n /\ i \in 0..n
      BY <1>0
    <2>2. u[i + 1] = (u[i] * val) % Word /\ v[i + 1] = (v[i] * val) % Word
      BY <1>4, <1>5, <2>1
    <2> QED BY <1>8, <2>1, <2>2
  <1>9. n \in T
    <2> HIDE DEF T
    <2>1. \A i \in 0..n : i \in T
      BY <1>0, <1>7, <1>8, Turns
    <2> QED BY <1>0, <2>1
  <1>10. u[n] = v[n] /\ u[n + 1] = (u[n] * val) % Word /\ n \in 0..n
    BY <1>0, <1>5, <1>9
  <1>11. sqrt(val, pow) = v[n] /\ sqrt(val, l) = u[pow] /\ v[n] \in Nat
    BY <1>0, <1>1, <1>2, <1>4, <1>10
  <1> QED BY <1>0, <1>6, <1>10, <1>11 DEF l

(* The loop of atoi.  The digit of weight 10^(pow - 1) is multiplied by    *)
(* Weight(pow - 1).                                                        *)
Weight(k) == IF k = 0 THEN 1 ELSE sqrt(10, k)

ReadsOff(rtn, str) ==
    rtn = [pow \in 0..Len(str) |->
              IF pow = 0 THEN 0
              ELSE (rtn[pow - 1]
                      + Low(str, pow) * (IF pow = 1 THEN 1 ELSE sqrt(10, pow - 1))) % Word]

Reading(rtn, str) ==
    /\ rtn \in [0..Len(str) -> Nat] /\ rtn[0] = 0
    /\ \A k \in 0..(Len(str) - 1) :
           rtn[k + 1] = (rtn[k] + Low(str, k + 1) * Weight(k)) % Word

Digits == 48..57

LEMMA LowIs ==
    ASSUME NEW str \in Seq(Digits), NEW pow \in 1..Len(str)
    PROVE  Low(str, pow) \in 0..9 /\ Low(str, pow) = Meant(str[Len(str) + 1 - pow])
  <1> DEFINE i == Len(str) + 1 - pow
  <1>1. i \in 1..Len(str)
    OBVIOUS
  <1> HIDE DEF i
  <1>2. str[i] \in 48..57
    BY <1>1 DEF Digits
  <1>3. Low(str, pow) = str[i] - 48
    BY DEF Low, i
  <1>4. Meant(str[i]) = str[i] - 48
    BY <1>2 DEF Meant
  <1> QED BY <1>2, <1>3, <1>4 DEF i

LEMMA WeightIs ==
    ASSUME NEW k \in Nat
    PROVE  /\ Weight(k) \in Nat /\ Weight(0) = 1
           /\ Weight(k + 1) = IF k = 0 THEN 10 ELSE (Weight(k) * 10) % Word
  <1>1. CASE k = 0
    <2>1. 1 \in Nat \ {0} /\ 10 \in Nat
      OBVIOUS
    <2>2. sqrt(10, 1) = 10
      BY <2>1, SqrtNext
    <2>3. 0 + 1 = 1 /\ 1 # 0
      OBVIOUS
    <2>4. Weight(0 + 1) = sqrt(10, 1)
      BY <2>3 DEF Weight
    <2>5. Weight(0) = 1
      BY DEF Weight
    <2> QED BY <1>1, <2>2, <2>4, <2>5
  <1>2. CASE k # 0
    <2>1. k \in Nat \ {0} /\ 10 \in Nat /\ k + 1 # 0
      BY <1>2
    <2>2. sqrt(10, k) \in Nat /\ sqrt(10, k + 1) = (sqrt(10, k) * 10) % Word
      BY <2>1, SqrtNext
    <2>3. Weight(k) = sqrt(10, k) /\ Weight(k + 1) = sqrt(10, k + 1) /\ Weight(0) = 1
      BY <2>1 DEF Weight
    <2> QED BY <1>2, <2>2, <2>3
  <1> QED BY <1>1, <1>2

LEMMA ReadingIs ==
    ASSUME NEW str \in Seq(Digits)
    PROVE  \E rtn : Reading(rtn, str) /\ atoi(str) = rtn[Len(str)]
  <1> DEFINE n == Len(str)
             next(x, pow) == (x + Low(str, pow) * (IF pow = 1 THEN 1 ELSE sqrt(10, pow - 1))) % Word
             F == [pow \in 1..n |-> [x \in Nat |-> next(x, pow)]]
             made == CHOOSE rtn : ReadsOff(rtn, str)
  <1>1. n \in Nat
    OBVIOUS
  <1>2. ASSUME NEW pow \in 1..n
        PROVE  \A x \in Nat : next(x, pow) = (x + Low(str, pow) * Weight(pow - 1)) % Word
    <2>1. pow - 1 = 0 <=> pow = 1
      OBVIOUS
    <2>2. (IF pow = 1 THEN 1 ELSE sqrt(10, pow - 1)) = Weight(pow - 1)
      BY <2>1 DEF Weight
    <2> QED BY <2>2
  <1>3. ASSUME NEW pow \in 1..n, NEW x \in Nat PROVE next(x, pow) \in Nat
    <2>1. pow - 1 \in Nat
      BY <1>1
    <2>2. Weight(pow - 1) \in Nat
      BY <2>1, WeightIs
    <2>3. Low(str, pow) \in Nat
      <3>1. Low(str, pow) \in 0..9
        BY LowIs
      <3> QED BY <3>1
    <2>4. x + Low(str, pow) * Weight(pow - 1) \in Int
      BY <2>2, <2>3
    <2>5. \A y \in Int : y % Word \in Nat
      <3>1. \A y \in Int : y % Word \in 0..(Word - 1)
        BY RemainderIs
      <3>2. \A r \in 0..(Word - 1) : r \in Nat
        BY LibcAssumption
      <3> QED BY <3>1, <3>2
    <2> HIDE DEF next
    <2>6. next(x, pow) = (x + Low(str, pow) * Weight(pow - 1)) % Word
      BY <1>2
    <2> QED BY <2>4, <2>5, <2>6
  <1>4. \E rtn : ReadsOff(rtn, str)
    <2>0. \A x, pow : next(x, pow) = (x + Low(str, pow) * (IF pow = 1 THEN 1 ELSE sqrt(10, pow - 1))) % Word
      OBVIOUS
    <2> HIDE DEF next
    <2>1. F \in [1..n -> [Nat -> Nat]]
      BY <1>3
    <2>2. \A k \in 1..n : \A x \in Nat : F[k][x] = next(x, k)
      OBVIOUS
    <2> HIDE DEF F
    <2>3. PICK f \in [0..n -> Nat] : Loop(f, n, 0, F)
      BY <1>1, <2>1, LoopExists
    <2> DEFINE g == [k \in 0..n |-> IF k = 0 THEN 0 ELSE next(f[k - 1], k)]
    <2>4. ASSUME NEW k \in 0..n PROVE f[k] = g[k]
      <3>1. f[k] = IF k = 0 THEN 0 ELSE F[k][f[k - 1]]
        BY <2>3 DEF Loop
      <3>2. k # 0 => k \in 1..n /\ k - 1 \in 0..n
        BY <1>1
      <3>3. k # 0 => F[k][f[k - 1]] = next(f[k - 1], k)
        BY <2>2, <2>3, <3>2
      <3> QED BY <3>1, <3>3
    <2>5. f = [k \in 0..n |-> f[k]] /\ g = [k \in 0..n |-> g[k]]
      BY <2>3
    <2>6. f = g
      BY <2>4, <2>5
    <2>7. ReadsOff(f, str)
      BY <2>6 DEF ReadsOff, next
    <2> QED BY <2>7
  <1>5. ReadsOff(made, str)
    BY <1>4
  <1>6. atoi(str) = made[n]
    BY DEF atoi, ReadsOff
  <1> HIDE DEF made
  <1>7. \A k \in 0..n : made[k] = IF k = 0 THEN 0 ELSE next(made[k - 1], k)
    BY <1>5 DEF ReadsOff
  <1>8. made[0] = 0
    BY <1>1, <1>7
  <1> HIDE DEF next
  <1>9. ASSUME NEW k \in 0..(n - 1) PROVE made[k + 1] = next(made[k], k + 1) /\ k + 1 \in 1..n
    <2>1. k + 1 \in 0..n /\ k + 1 # 0 /\ (k + 1) - 1 = k /\ k + 1 \in 1..n
      BY <1>1
    <2>2. made[k + 1] = next(made[(k + 1) - 1], k + 1)
      BY <1>7, <2>1
    <2> QED BY <2>1, <2>2
  <1>10. made \in [0..n -> Nat]
    <2> DEFINE T == { k \in 0..n : made[k] \in Nat }
    <2>1. 0 \in T
      BY <1>1, <1>8
    <2>2. ASSUME NEW k \in 0..(n - 1), k \in T PROVE k + 1 \in T
      <3>1. made[k] \in Nat /\ k + 1 \in 0..n
        BY <1>1, <2>2
      <3>2. next(made[k], k + 1) \in Nat
        BY <1>3, <1>9, <3>1
      <3> QED BY <1>9, <3>1, <3>2
    <2>3. \A k \in 0..n : k \in T
      <3> HIDE DEF T
      <3> QED BY <1>1, <2>1, <2>2, Turns
    <2>4. made = [k \in 0..n |-> made[k]]
      BY <1>5 DEF ReadsOff
    <2> QED BY <2>3, <2>4
  <1>11. ASSUME NEW k \in 0..(n - 1)
         PROVE  made[k + 1] = (made[k] + Low(str, k + 1) * Weight(k)) % Word
    <2>1. made[k] \in Nat /\ (k + 1) - 1 = k
      BY <1>1, <1>10
    <2>2. next(made[k], k + 1) = (made[k] + Low(str, k + 1) * Weight((k + 1) - 1)) % Word
      BY <1>2, <1>9, <2>1
    <2> QED BY <1>9, <2>1, <2>2
  <1>12. Reading(made, str)
    BY <1>8, <1>10, <1>11 DEF Reading
  <1> QED BY <1>6, <1>12

(* After k digits from the right the number is what the digits before them *)
(* make, P times, and L; modulo Word P is the weight and L what was added. *)
Reads(sum, rtn, n, k) ==
    \E P, L, a, b \in Int :
        sum[n] = sum[n - k] * P + L /\ L = rtn[k] + a * Word /\ P = Weight(k) + b * Word

LEMMA OneDigit ==
    ASSUME NEW S \in Int, NEW t \in Int, NEW d \in Int, NEW P \in Int, NEW L \in Int,
           S = (t * 10 + d) * P + L
    PROVE  S = t * (P * 10) + (L + d * P)
  OBVIOUS

LEMMA OneDigitAdded ==
    ASSUME NEW w \in Int, NEW P \in Int, NEW L \in Int, NEW a \in Int, NEW b \in Int, NEW r \in Int,
           NEW d \in Int, NEW p \in Int, NEW q \in Int, NEW s \in Int,
           L = r + a * w, P = p + b * w, r + d * p = q * w + s
    PROVE  L + d * P = s + (q + a + d * b) * w
  <1>1. L + d * P = r + a * w + d * p + d * (b * w)
    OBVIOUS
  <1>2. d * (b * w) = (d * b) * w
    OBVIOUS
  <1>3. (q + a + d * b) * w = q * w + a * w + (d * b) * w
    OBVIOUS
  <1> QED BY <1>1, <1>2, <1>3

LEMMA AtoiIs ==
    ASSUME NEW s \in Seq(Digits)
    PROVE  atoi(s) = Value(10, s) % Word
  <1> DEFINE n == Len(s)
  <1>1. n \in Nat /\ s \in Seq(Nat) /\ 10 \in Nat /\ Word \in Nat \ {0} /\ Word \in Int
    <2>1. Digits \subseteq Nat
      BY DEF Digits
    <2>2. n \in Nat /\ s \in [1..n -> Digits]
      OBVIOUS
    <2>3. s \in Seq(Nat)
      <3> HIDE DEF n
      <3>1. s \in [1..n -> Nat]
        BY <2>1, <2>2
      <3> QED BY <2>2, <3>1, SeqDef
    <2>4. Word \in Nat \ {0} /\ Word \in Int
      BY LibcAssumption
    <2> HIDE DEF n
    <2> QED BY <2>2, <2>3, <2>4
  <1>2. PICK rtn : Reading(rtn, s) /\ atoi(s) = rtn[n]
    BY ReadingIs
  <1>3. PICK sum : Horner(sum, 10, s) /\ Value(10, s) = sum[n]
    BY <1>1, ValueIs
  <1>4. /\ rtn \in [0..n -> Nat] /\ rtn[0] = 0
        /\ \A k \in 0..(n - 1) : rtn[k + 1] = (rtn[k] + Low(s, k + 1) * Weight(k)) % Word
    BY <1>2 DEF Reading
  <1>5. /\ sum \in [0..n -> Int] /\ sum[0] = 0
        /\ \A k \in 0..(n - 1) : sum[k + 1] = sum[k] * 10 + Meant(s[k + 1])
    BY <1>3 DEF Horner
  <1> DEFINE T == { k \in 0..n : Reads(sum, rtn, n, k) }
  <1>6. 0 \in T
    <2>1. n - 0 = n /\ 0 \in 0..n /\ n \in 0..n /\ 0 \in Int /\ 1 \in Int
      BY <1>1
    <2>2. sum[n] \in Int /\ Weight(0) = 1
      BY <1>5, <2>1, WeightIs
    <2>3. sum[n] = sum[n - 0] * 1 + 0 /\ 0 = rtn[0] + 0 * Word /\ 1 = Weight(0) + 0 * Word
      BY <1>1, <1>4, <2>1, <2>2
    <2>4. Reads(sum, rtn, n, 0)
      BY <2>1, <2>3 DEF Reads
    <2> QED BY <2>1, <2>4
  <1>7. ASSUME NEW k \in 0..(n - 1), k \in T PROVE k + 1 \in T
    <2> DEFINE i == n - k
               d == Low(s, k + 1)
               w == Weight(k)
    <2>1. PICK P, L, a, b \in Int :
              sum[n] = sum[n - k] * P + L /\ L = rtn[k] + a * Word /\ P = Weight(k) + b * Word
      BY <1>7 DEF Reads
    <2>2. /\ i - 1 \in 0..(n - 1) /\ (i - 1) + 1 = i /\ n - (k + 1) = i - 1 /\ n + 1 - (k + 1) = i
          /\ k + 1 \in 1..n /\ k + 1 \in 0..n /\ k \in Nat /\ i \in 0..n /\ i - 1 \in 0..n /\ n \in 0..n /\ k \in 0..n
      BY <1>1
    <2>3. d = Meant(s[i]) /\ d \in Int
      <3>1. d \in 0..9 /\ d = Meant(s[n + 1 - (k + 1)])
        BY <2>2, LowIs
      <3> QED BY <2>2, <3>1
    <2>4. w \in Nat /\ w \in Int /\ Weight(k + 1) = IF k = 0 THEN 10 ELSE (w * 10) % Word
      BY <2>2, WeightIs
    <2>5. sum[i] = sum[i - 1] * 10 + d
      <3>1. sum[(i - 1) + 1] = sum[i - 1] * 10 + Meant(s[(i - 1) + 1])
        BY <1>5, <2>2
      <3> QED BY <2>2, <2>3, <3>1
    <2>6. rtn[k + 1] = (rtn[k] + d * w) % Word
      BY <1>4
    <2>7. sum[n] \in Int /\ sum[i] \in Int /\ sum[i - 1] \in Int /\ rtn[k] \in Int /\ rtn[k + 1] \in Int
      <3> HIDE DEF n, i
      <3>1. \A j \in 0..n : sum[j] \in Int /\ rtn[j] \in Int
        BY <1>4, <1>5
      <3> QED BY <2>2, <3>1
    <2>8. sum[n] = sum[i] * P + L /\ L = rtn[k] + a * Word /\ P = w + b * Word
      BY <2>1
    <2> HIDE DEF i, d, w
    <2>9. sum[n] = sum[i - 1] * (P * 10) + (L + d * P)
      <3>1. sum[n] = (sum[i - 1] * 10 + d) * P + L
        BY <2>5, <2>8
      <3> QED BY <2>3, <2>7, <3>1, OneDigit, SMTT(40)
    <2>10. \E f \in Int : L + d * P = rtn[k + 1] + f * Word
      <3> DEFINE x == rtn[k] + d * w
      <3>1. x \in Int
        BY <2>3, <2>4, <2>7
      <3>2. x = (x \div Word) * Word + (x % Word) /\ x \div Word \in Int
        BY <3>1, RemainderIs
      <3> DEFINE q == x \div Word
      <3>3. q \in Int /\ rtn[k] + d * w = q * Word + rtn[k + 1]
        BY <2>6, <3>2
      <3> HIDE DEF q
      <3>4. L + d * P = rtn[k + 1] + (q + a + d * b) * Word
        <4> DEFINE r == rtn[k]
                   t == rtn[k + 1]
        <4>1. r \in Int /\ t \in Int /\ L = r + a * Word /\ r + d * w = q * Word + t
          BY <2>7, <2>8, <3>3
        <4> HIDE DEF r, t, x
        <4>2. P = w + b * Word /\ w \in Int /\ d \in Int /\ q \in Int /\ Word \in Int
          BY <1>1, <2>3, <2>4, <2>8, <3>3
        <4>3. L + d * P = t + (q + a + d * b) * Word
          BY <4>1, <4>2, OneDigitAdded
        <4> QED BY <4>3 DEF t
      <3>5. q + a + d * b \in Int
        BY <2>3, <3>3
      <3> QED BY <3>4, <3>5
    <2>11. \E g \in Int : P * 10 = Weight(k + 1) + g * Word
      <3>1. CASE k = 0
        <4>1. w = 1
          BY <3>1, WeightIs DEF w
        <4>2. P * 10 = 10 + (b * 10) * Word
          BY <1>1, <2>8, <4>1
        <4>3. Weight(k + 1) = 10 /\ b * 10 \in Int
          BY <2>4, <3>1
        <4> QED BY <4>2, <4>3
      <3>2. CASE k # 0
        <4> DEFINE x == w * 10
                   q == x \div Word
                   r == x % Word
        <4>1. x \in Int
          BY <2>4
        <4>2. x = q * Word + r /\ q \in Int /\ r \in 0..(Word - 1)
          BY <4>1, RemainderIs
        <4>3. Weight(k + 1) = r
          BY <2>4, <3>2
        <4>4. r \in Int
          BY <1>1, <4>2
        <4>5. w * 10 = q * Word + r
          BY <4>2
        <4> HIDE DEF q, r, x
        <4>6. P * 10 = w * 10 + (b * 10) * Word
          BY <1>1, <2>4, <2>8
        <4>7. (q + b * 10) * Word = q * Word + (b * 10) * Word
          BY <1>1, <4>2
        <4>8. q * Word \in Int /\ (b * 10) * Word \in Int /\ q + b * 10 \in Int /\ w * 10 \in Int
          BY <1>1, <2>4, <4>2
        <4>9. P * 10 = r + (q + b * 10) * Word
          BY <4>4, <4>5, <4>6, <4>7, <4>8
        <4> QED BY <4>3, <4>8, <4>9
      <3> QED BY <3>1, <3>2
    <2>12. PICK f \in Int : L + d * P = rtn[k + 1] + f * Word
      BY <2>10
    <2>13. PICK g \in Int : P * 10 = Weight(k + 1) + g * Word
      BY <2>11
    <2>14. P * 10 \in Int /\ L + d * P \in Int
      BY <2>3
    <2>15. sum[n] = sum[n - (k + 1)] * (P * 10) + (L + d * P)
      BY <2>2, <2>9
    <2> DEFINE PP == P * 10
               LL == L + d * P
    <2>16. PP \in Int /\ LL \in Int /\ sum[n] = sum[n - (k + 1)] * PP + LL
      BY <2>14, <2>15
    <2>17. LL = rtn[k + 1] + f * Word /\ PP = Weight(k + 1) + g * Word
      BY <2>12, <2>13
    <2> HIDE DEF PP, LL
    <2>18. Reads(sum, rtn, n, k + 1)
      BY <2>16, <2>17 DEF Reads
    <2> QED BY <2>2, <2>18
  <1>8. n \in T
    <2> HIDE DEF T
    <2>1. \A k \in 0..n : k \in T
      BY <1>1, <1>6, <1>7, Turns
    <2> QED BY <1>1, <2>1
  <1>9. PICK P, L, a, b \in Int :
            sum[n] = sum[n - n] * P + L /\ L = rtn[n] + a * Word /\ P = Weight(n) + b * Word
    BY <1>8 DEF Reads
  <1>10. sum[n] = rtn[n] + a * Word
    <2>1. n - n = 0
      BY <1>1
    <2>2. sum[n - n] * P = 0
      BY <1>5, <2>1
    <2>3. L \in Int
      OBVIOUS
    <2> QED BY <1>9, <2>2, <2>3
  <1>11. rtn[n] \in 0..(Word - 1)
    <2>1. CASE n = 0
      BY <1>1, <1>4, <2>1
    <2>2. CASE n # 0
      <3> DEFINE x == rtn[n - 1] + Low(s, n) * Weight(n - 1)
      <3>1. n - 1 \in 0..(n - 1) /\ (n - 1) + 1 = n /\ n \in 1..n /\ n - 1 \in Nat /\ n - 1 \in 0..n
        BY <1>1, <2>2
      <3>2. rtn[(n - 1) + 1] = (rtn[n - 1] + Low(s, (n - 1) + 1) * Weight(n - 1)) % Word
        BY <1>4, <3>1
      <3>3. rtn[n] = x % Word
        BY <3>1, <3>2
      <3>4. Low(s, n) \in 0..9 /\ Weight(n - 1) \in Nat /\ rtn[n - 1] \in Nat
        BY <1>4, <3>1, LowIs, WeightIs
      <3>5. x \in Int
        BY <3>4
      <3> HIDE DEF x
      <3> QED BY <3>3, <3>5, RemainderIs
    <2> QED BY <2>1, <2>2
  <1> DEFINE r == sum[n] % Word
             q == sum[n] \div Word
  <1>12. sum[n] \in Int
    BY <1>1, <1>5
  <1>13. sum[n] = q * Word + r /\ r \in 0..(Word - 1) /\ q \in Int
    BY <1>12, RemainderIs
  <1> HIDE DEF r, q
  <1>14. rtn[n] = r + (q - a) * Word /\ q - a \in Int
    <2>1. (q - a) * Word = q * Word - a * Word /\ q - a \in Int
      BY <1>1, <1>13
    <2>2. q * Word \in Int /\ a * Word \in Int /\ r \in Int /\ rtn[n] \in Int
      BY <1>1, <1>11, <1>13
    <2> QED BY <1>10, <1>13, <2>1, <2>2
  <1>15. rtn[n] = r
    BY <1>1, <1>11, <1>13, <1>14, RemainderOnly
  <1> QED BY <1>2, <1>3, <1>15 DEF r

LEMMA NumbersAreReadBack == NumbersReadBack
  <1>1. ASSUME NEW v \in 0..(Word - 1) PROVE atoi(u32_to_str(v, 14)) = v
    <2> DEFINE s == Numeral(10, v, 14)
    <2>1. 10 \in Bases
      BY DEF Bases
    <2>2. Stands(s, 10, v)
      BY <2>1, Printed
    <2>3. s \in Seq(Digits) /\ Value(10, s) = v
      BY <2>2 DEF Stands, Digits
    <2> HIDE DEF s
    <2>4. atoi(s) = v % Word
      BY <2>3, AtoiIs
    <2>5. v \in Int /\ v % Word \in 0..(Word - 1) /\ v = (v \div Word) * Word + (v % Word) /\ v \div Word \in Int
      BY LibcAssumption, RemainderIs
    <2> DEFINE r == v % Word
               q == v \div Word
    <2>6. v = r
      <3>1. v = r + q * Word /\ r \in 0..(Word - 1) /\ q \in Int
        BY <2>5, LibcAssumption
      <3>2. Word \in Nat \ {0}
        BY LibcAssumption
      <3> HIDE DEF r, q
      <3> QED BY <3>1, <3>2, RemainderOnly
    <2> QED BY <2>4, <2>6 DEF u32_to_str, s
  <1>2. ASSUME NEW l \in 1..4, NEW s \in [1..l -> {48, 49, 57}] PROVE atoi(s) = Value(10, s) % Word
    <2>1. s \in [1..l -> Digits] /\ l \in Nat
      BY DEF Digits
    <2>2. s \in Seq(Digits)
      BY <2>1, SeqDef
    <2> QED BY <2>2, AtoiIs
  <1> QED BY <1>1, <1>2 DEF NumbersReadBack

(* THEOREM.  The console reads back every number it prints, for words of   *)
(* up to 32 bits.                                                          *)
THEOREM NumbersAreExact == Spec => []LibraryNumbers
  <1>1. NumbersExact
    BY NumbersArePrinted, NumbersAreReadBack DEF NumbersExact
  <1>2. LibraryNumbers
    BY <1>1 DEF LibraryNumbers
  <1> QED BY <1>2, PTL
-----------------------------------------------------------------------------
(* printf.  What is printed from place p of the format on, with parameter  *)
(* a the next: the loop is a function of the two, as every turn moves p on.*)
Places(format) == [p : 1..(Len(format) + 1), a : Nat]
Place(pos, arg) == [p |-> pos, a |-> arg]

PrintedOn(out, format, params, w) ==
    LET p == w.p
        end == RunEnd(format, RunStart(format, p))
    IN  IF p > Len(format) THEN << >>
        ELSE IF format[p] # Percent \/ At(format, p + 1) = Percent
        THEN SubSeq(format, RunStart(format, p), end - 1) \o out[[p |-> end, a |-> w.a]]
        ELSE IF At(format, p + 1) \in Directives
        THEN Shown(format[p + 1], params[w.a]) \o out[[p |-> p + 2, a |-> w.a + 1]]
        ELSE SubSeq(format, p, Len(format))

Printing(out, format, params) ==
    out = [w \in Places(format) |-> PrintedOn(out, format, params, w)]

LEMMA RunEndIs ==
    ASSUME NEW format \in Seq(Char), NEW p \in 1..Len(format)
    PROVE  /\ RunEnd(format, p) \in (p + 1)..(Len(format) + 1)
           /\ RunEnd(format, p) # p + 1 =>
                 /\ p + 1 \in 1..Len(format) /\ format[p + 1] # Percent
                 /\ RunEnd(format, p + 1) = RunEnd(format, p)
  <1> DEFINE n == Len(format)
             S(q) == { e \in (q + 1)..(n + 1) : At(format, e) \in {0, Percent} }
  <1>1. n \in Nat /\ p \in 1..n /\ \A i \in 1..n : format[i] \in Char
    OBVIOUS
  <1>2. \A q : RunEnd(format, q) = Min(S(q))
    BY DEF RunEnd
  <1>3. At(format, n + 1) = 0 /\ \A i \in 1..n : At(format, i) = format[i] /\ At(format, i) # 0
    <2>1. ~(n + 1 <= n) /\ \A i \in 1..n : i <= n
      BY <1>1
    <2>0. \A x \in Char : x # 0
      BY DEF Char
    <2>2. \A i \in 1..n : format[i] # 0
      <3> HIDE DEF n
      <3> QED BY <1>1, <2>0
    <2> HIDE DEF n
    <2> QED BY <2>1, <2>2 DEF At, n
  <1> HIDE DEF n
  <1>4. ASSUME NEW q \in 0..n PROVE Min(S(q)) \in S(q) /\ \A e \in S(q) : Min(S(q)) <= e
    <2>1. S(q) \in SUBSET Nat /\ n + 1 \in S(q)
      BY <1>1, <1>3
    <2>2. PICK l \in S(q) : \A e \in S(q) : l <= e
      BY <2>1, LeastNat
    <2>3. \A x \in S(q) : (\A y \in S(q) : x <= y) => x = l
      BY <2>1, <2>2
    <2> HIDE DEF S
    <2>4. Min(S(q)) = l
      BY <2>2, <2>3 DEF Min
    <2> QED BY <2>2, <2>4
  <1> DEFINE e == Min(S(p))
             f == Min(S(p + 1))
  <1>5. p \in 0..n /\ p + 1 \in Nat
    BY <1>1
  <1>6. e \in S(p) /\ \A x \in S(p) : e <= x
    BY <1>4, <1>5
  <1>7. ASSUME e # p + 1 PROVE p + 1 \in 1..n /\ format[p + 1] # Percent /\ f = e
    <2>1. e \in (p + 1)..(n + 1) /\ p + 1 \in (p + 1)..(n + 1)
      BY <1>1, <1>6
    <2>2. p + 1 \notin S(p) /\ e > p + 1
      <3> HIDE DEF e
      <3>1. e > p + 1 /\ e \in Int
        BY <1>1, <1>7, <2>1
      <3>2. ~(e <= p + 1)
        BY <1>1, <3>1
      <3> HIDE DEF S
      <3> QED BY <1>6, <3>1, <3>2
    <2>3. p + 1 \in 1..n
      <3> HIDE DEF e
      <3> QED BY <1>1, <2>1, <2>2
    <2>4. At(format, p + 1) \notin {0, Percent}
      BY <2>1, <2>2
    <2>5. format[p + 1] # Percent
      BY <1>3, <2>3, <2>4
    <2>6. f \in S(p + 1) /\ \A x \in S(p + 1) : f <= x
      <3>1. p + 1 \in 0..n
        BY <1>1, <2>3
      <3> HIDE DEF S
      <3> QED BY <1>4, <3>1
    <2> HIDE DEF e, f
    <2>7. f \in S(p) /\ e \in S(p + 1)
      BY <1>1, <1>6, <2>2, <2>6
    <2>8. f <= e /\ e <= f
      <3> HIDE DEF S
      <3> QED BY <1>6, <2>6, <2>7
    <2>9. f \in Int /\ e \in Int
      BY <1>6, <2>6
    <2>10. f = e
      BY <2>8, <2>9
    <2> QED BY <2>3, <2>5, <2>10
  <1>8. e \in (p + 1)..(n + 1)
    BY <1>6
  <1> QED BY <1>2, <1>7, <1>8 DEF n

(* Where a turn goes on. *)
LEMMA Onwards ==
    ASSUME NEW format \in Seq(Char), NEW p \in 1..Len(format)
    PROVE  /\ format[p] # Percent => RunStart(format, p) = p
           /\ format[p] = Percent /\ At(format, p + 1) = Percent =>
                 RunStart(format, p) = p + 1 /\ p + 1 \in 1..Len(format)
           /\ format[p] # Percent \/ At(format, p + 1) = Percent =>
                 RunEnd(format, RunStart(format, p)) \in (p + 1)..(Len(format) + 1)
           /\ At(format, p + 1) \in Directives => p + 1 \in 1..Len(format)
  <1> DEFINE n == Len(format)
  <1>1. n \in Nat /\ p \in 1..n
    OBVIOUS
  <1>2. At(format, p + 1) # 0 => p + 1 \in 1..n
    <2>1. ~(p + 1 <= n) => At(format, p + 1) = 0
      BY DEF At
    <2> QED BY <1>1, <2>1
  <1>3. \A q \in 1..n : RunEnd(format, q) \in (q + 1)..(n + 1)
    BY RunEndIs
  <1> HIDE DEF n
  <1>4. Percent # 0 /\ 0 \notin Directives
    BY DEF Percent, Directives
  <1>5. format[p] # Percent => RunStart(format, p) = p /\ RunEnd(format, p) \in (p + 1)..(n + 1)
    BY <1>1, <1>3 DEF RunStart
  <1>6. ASSUME format[p] = Percent, At(format, p + 1) = Percent
        PROVE  /\ RunStart(format, p) = p + 1 /\ p + 1 \in 1..n
               /\ RunEnd(format, p + 1) \in (p + 1)..(n + 1)
    <2>1. RunStart(format, p) = p + 1
      BY <1>6 DEF RunStart
    <2>2. p + 1 \in 1..n
      BY <1>2, <1>4, <1>6
    <2>3. RunEnd(format, p + 1) \in ((p + 1) + 1)..(n + 1)
      BY <1>3, <2>2
    <2>4. RunEnd(format, p + 1) \in (p + 1)..(n + 1)
      BY <1>1, <2>3
    <2> QED BY <2>1, <2>2, <2>4
  <1>7. At(format, p + 1) \in Directives => p + 1 \in 1..n
    BY <1>2, <1>4
  <1> QED BY <1>5, <1>6, <1>7 DEF n

(* A turn depends on what is printed behind it only. *)
LEMMA TurnsOn ==
    ASSUME NEW format \in Seq(Char), NEW params, NEW w \in Places(format), NEW f, NEW g,
           \A v \in Places(format) : v.p > w.p => f[v] = g[v]
    PROVE  PrintedOn(f, format, params, w) = PrintedOn(g, format, params, w)
  <1> DEFINE n == Len(format)
             p == w.p
             a == w.a
             end == RunEnd(format, RunStart(format, p))
  <1>1. n \in Nat /\ p \in 1..(n + 1) /\ a \in Nat
    BY DEF Places
  <1>2. CASE p > n
    BY <1>2 DEF PrintedOn
  <1>3. CASE ~(p > n) /\ (format[p] # Percent \/ At(format, p + 1) = Percent)
    <2>1. p \in 1..n
      BY <1>1, <1>3
    <2>2. end \in (p + 1)..(n + 1)
      BY <1>3, <2>1, Onwards
    <2> DEFINE v == [p |-> end, a |-> a]
    <2>3. v \in Places(format) /\ v.p > w.p
      BY <1>1, <2>2 DEF Places
    <2>4. f[v] = g[v]
      BY <2>3
    <2> HIDE DEF end
    <2>5. \A o : PrintedOn(o, format, params, w) = SubSeq(format, RunStart(format, p), end - 1) \o o[v]
      BY <1>3 DEF PrintedOn, end
    <2> HIDE DEF v
    <2> QED BY <2>4, <2>5
  <1>4. CASE ~(p > n) /\ ~(format[p] # Percent \/ At(format, p + 1) = Percent) /\ At(format, p + 1) \in Directives
    <2>1. p \in 1..n
      BY <1>1, <1>4
    <2>2. p + 1 \in 1..n
      BY <1>4, <2>1, Onwards
    <2> DEFINE v == [p |-> p + 2, a |-> a + 1]
    <2>3. v \in Places(format) /\ v.p > w.p
      BY <1>1, <2>2 DEF Places
    <2>4. f[v] = g[v]
      BY <2>3
    <2>5. \A o : PrintedOn(o, format, params, w) = Shown(format[p + 1], params[a]) \o o[v]
      BY <1>4 DEF PrintedOn
    <2> HIDE DEF v
    <2> QED BY <2>4, <2>5
  <1>5. CASE ~(p > n) /\ ~(format[p] # Percent \/ At(format, p + 1) = Percent) /\ At(format, p + 1) \notin Directives
    BY <1>5 DEF PrintedOn
  <1> QED BY <1>2, <1>3, <1>4, <1>5

LEMMA PrintingExists ==
    ASSUME NEW format \in Seq(Char), NEW params
    PROVE  \E out : Printing(out, format, params)
  <1> DEFINE n == Len(format)
             NearEnd(j) == { w \in Places(format) : w.p >= n + 1 - j }
             T == { j \in 0..n : \E f : f = [w \in NearEnd(j) |-> PrintedOn(f, format, params, w)] }
  <1>1. n \in Nat
    OBVIOUS
  <1>2. \A w \in Places(format) : w.p \in 1..(n + 1)
    BY DEF Places
  <1> HIDE DEF n
  <1>3. 0 \in T
    <2> DEFINE f == [w \in NearEnd(0) |-> << >>]
               g == [w \in NearEnd(0) |-> PrintedOn(f, format, params, w)]
    <2>1. \A w \in NearEnd(0) : g[w] = << >>
      <3> TAKE w \in NearEnd(0)
      <3>1. w.p > n
        BY <1>1, <1>2
      <3> QED BY <3>1 DEF PrintedOn, n
    <2>2. f = g
      BY <2>1
    <2>3. 0 \in 0..n
      BY <1>1
    <2> QED BY <2>2, <2>3
  <1>4. ASSUME NEW j \in 0..(n - 1), j \in T PROVE j + 1 \in T
    <2>1. PICK f : f = [w \in NearEnd(j) |-> PrintedOn(f, format, params, w)]
      BY <1>4
    <2> DEFINE B == NearEnd(j + 1)
               h == [w \in B |-> PrintedOn(f, format, params, w)]
               g == [w \in B |-> PrintedOn(h, format, params, w)]
    <2>2. NearEnd(j) \subseteq B
      <3>1. \A w \in Places(format) : w.p >= n + 1 - j => w.p >= n + 1 - (j + 1)
        BY <1>1, <1>2
      <3> QED BY <3>1
    <2>3. ASSUME NEW w \in NearEnd(j) PROVE h[w] = f[w]
      <3>1. w \in B
        BY <2>2
      <3>2. h[w] = PrintedOn(f, format, params, w)
        BY <3>1
      <3>3. f[w] = PrintedOn(f, format, params, w)
        BY <2>1
      <3> QED BY <3>2, <3>3
    <2>4. ASSUME NEW w \in B PROVE h[w] = g[w]
      <3>1. h[w] = PrintedOn(f, format, params, w) /\ g[w] = PrintedOn(h, format, params, w)
        OBVIOUS
      <3>2. w \in Places(format) /\ w.p >= n + 1 - (j + 1)
        OBVIOUS
      <3>3. ASSUME NEW v \in Places(format), v.p > w.p PROVE f[v] = h[v]
        <4>1. v.p >= n + 1 - j
          BY <1>1, <1>2, <3>2, <3>3
        <4>2. v \in NearEnd(j)
          BY <4>1
        <4> HIDE DEF h, NearEnd
        <4> QED BY <2>3, <4>2
      <3> HIDE DEF h, g, B
      <3>4. PrintedOn(f, format, params, w) = PrintedOn(h, format, params, w)
        BY <3>2, <3>3, TurnsOn
      <3> QED BY <3>1, <3>4
    <2>5. h = [w \in B |-> h[w]] /\ g = [w \in B |-> g[w]]
      OBVIOUS
    <2>6. h = g
      <3> HIDE DEF h, g, B
      <3> QED BY <2>4, <2>5
    <2>7. j + 1 \in 0..n
      BY <1>1
    <2>8. h = [w \in NearEnd(j + 1) |-> PrintedOn(h, format, params, w)]
      <3> HIDE DEF h
      <3> QED BY <2>6
    <2> HIDE DEF h
    <2> QED BY <2>7, <2>8
  <1>5. n \in T
    <2> HIDE DEF T
    <2>1. \A j \in 0..n : j \in T
      BY <1>1, <1>3, <1>4, Turns
    <2> QED BY <1>1, <2>1
  <1>6. NearEnd(n) = Places(format)
    BY <1>1, <1>2
  <1>7. PICK f : f = [w \in NearEnd(n) |-> PrintedOn(f, format, params, w)]
    BY <1>5
  <1> HIDE DEF NearEnd
  <1>8. Printing(f, format, params)
    BY <1>6, <1>7 DEF Printing
  <1> QED BY <1>8

(* What is printed from place pos on. *)
Rest(format, params, pos, arg) == (CHOOSE out : Printing(out, format, params))[[p |-> pos, a |-> arg]]

LEMMA PrintfIs ==
    ASSUME NEW format, NEW params
    PROVE  printf(format, params) = Rest(format, params, 1, 1)
  BY DEF printf, Rest, Printing, Places, PrintedOn

LEMMA RestIs ==
    ASSUME NEW format \in Seq(Char), NEW params, NEW p \in 1..(Len(format) + 1), NEW a \in Nat
    PROVE  /\ p > Len(format) => Rest(format, params, p, a) = << >>
           /\ p <= Len(format) /\ (format[p] # Percent \/ At(format, p + 1) = Percent) =>
                 Rest(format, params, p, a) =
                     SubSeq(format, RunStart(format, p), RunEnd(format, RunStart(format, p)) - 1)
                       \o Rest(format, params, RunEnd(format, RunStart(format, p)), a)
           /\ p <= Len(format) /\ format[p] = Percent /\ At(format, p + 1) \in Directives =>
                 Rest(format, params, p, a) =
                     Shown(format[p + 1], params[a]) \o Rest(format, params, p + 2, a + 1)
  <1> DEFINE out == CHOOSE o : Printing(o, format, params)
             w == [p |-> p, a |-> a]
  <1>1. Printing(out, format, params)
    BY PrintingExists
  <1>2. \A q, b : Rest(format, params, q, b) = out[[p |-> q, a |-> b]]
    BY DEF Rest
  <1> HIDE DEF out
  <1>3. w \in Places(format) /\ w.p = p /\ w.a = a
    BY DEF Places
  <1>4. out[w] = PrintedOn(out, format, params, w)
    BY <1>1, <1>3 DEF Printing
  <1>5. Rest(format, params, p, a) = PrintedOn(out, format, params, w)
    BY <1>2, <1>4
  <1>6. Percent \notin Directives
    BY DEF Percent, Directives
  <1>7. p > Len(format) => PrintedOn(out, format, params, w) = << >>
    BY <1>3 DEF PrintedOn
  <1>8. p <= Len(format) => ~(p > Len(format))
    OBVIOUS
  <1>9. ASSUME p <= Len(format), format[p] # Percent \/ At(format, p + 1) = Percent
        PROVE  PrintedOn(out, format, params, w) =
                     SubSeq(format, RunStart(format, p), RunEnd(format, RunStart(format, p)) - 1)
                       \o Rest(format, params, RunEnd(format, RunStart(format, p)), a)
    <2> HIDE DEF w
    <2> QED BY <1>2, <1>3, <1>8, <1>9 DEF PrintedOn
  <1>10. ASSUME p <= Len(format), format[p] = Percent, At(format, p + 1) \in Directives
        PROVE  PrintedOn(out, format, params, w) =
                     Shown(format[p + 1], params[a]) \o Rest(format, params, p + 2, a + 1)
    <2> HIDE DEF w
    <2> QED BY <1>2, <1>3, <1>6, <1>8, <1>10 DEF PrintedOn
  <1> QED BY <1>5, <1>7, <1>9, <1>10

(* What is printed from here on is a string, and so is what follows the    *)
(* run of characters that starts here.                                     *)
Printable(format, params, p, a) ==
    /\ p \in 1..(Len(format) + 1) /\ a \in Nat
    /\ Rest(format, params, p, a) \in Seq(Nat)
    /\ p <= Len(format) /\ format[p] # Percent => Rest(format, params, RunEnd(format, p), a) \in Seq(Nat)

(* From p and a on it is out that is printed, and then what is from q and  *)
(* b on.                                                                   *)
PrintsThen(format, params, p, a, out, q, b) ==
    /\ Printable(format, params, p, a)
    /\ Rest(format, params, p, a) = out \o Rest(format, params, q, b)

LEMMA EndPrints ==
    ASSUME NEW format \in Seq(Char), NEW params, NEW a \in Nat
    PROVE  /\ Printable(format, params, Len(format) + 1, a)
           /\ Rest(format, params, Len(format) + 1, a) = << >>
  <1> DEFINE n == Len(format)
             l == n + 1
  <1>1. n \in Nat
    OBVIOUS
  <1>2. l \in 1..(n + 1) /\ l > n /\ ~(l <= n)
    BY <1>1
  <1>3. Rest(format, params, l, a) = << >>
    BY <1>2, RestIs
  <1>4. << >> \in Seq(Nat)
    OBVIOUS
  <1> HIDE DEF n, l
  <1>5. Printable(format, params, l, a)
    BY <1>2, <1>3, <1>4 DEF Printable, n
  <1> QED BY <1>3, <1>5 DEF l, n

LEMMA ThreeStrings ==
    ASSUME NEW s \in Seq(Nat), NEW t \in Seq(Nat), NEW u \in Seq(Nat)
    PROVE  (s \o t) \o u = s \o (t \o u)
  BY ConcatAssociative, SMTT(40)

LEMMA RunIs ==
    ASSUME NEW format \in Seq(Char), NEW params, NEW q \in 1..Len(format), NEW a \in Nat,
           Printable(format, params, q + 1, a)
    PROVE  /\ Rest(format, params, RunEnd(format, q), a) \in Seq(Nat)
           /\ SubSeq(format, q, RunEnd(format, q) - 1) \o Rest(format, params, RunEnd(format, q), a)
                = << format[q] >> \o Rest(format, params, q + 1, a)
  <1> DEFINE n == Len(format)
             e == RunEnd(format, q)
             R(p) == Rest(format, params, p, a)
  <1>1. n \in Nat /\ q \in 1..n /\ \A i \in 1..n : format[i] \in Nat
    <2>1. n \in Nat /\ q \in 1..n /\ \A i \in 1..n : format[i] \in Char
      OBVIOUS
    <2>2. Char \subseteq Nat
      BY DEF Char
    <2> HIDE DEF n
    <2> QED BY <2>1, <2>2
  <1>2. e \in (q + 1)..(n + 1)
    BY RunEndIs
  <1>3. e # q + 1 => q + 1 \in 1..n /\ format[q + 1] # Percent /\ RunEnd(format, q + 1) = e
    BY RunEndIs
  <1>4. /\ R(q + 1) \in Seq(Nat)
        /\ q + 1 <= n /\ format[q + 1] # Percent => R(RunEnd(format, q + 1)) \in Seq(Nat)
    BY DEF Printable
  <1>5. e # q + 1 => R(q + 1) =
            SubSeq(format, RunStart(format, q + 1), RunEnd(format, RunStart(format, q + 1)) - 1)
               \o R(RunEnd(format, RunStart(format, q + 1)))
    <2> HAVE e # q + 1
    <2>1. q + 1 \in 1..n /\ format[q + 1] # Percent
      BY <1>3
    <2>2. q + 1 \in 1..(n + 1) /\ q + 1 <= n
      BY <1>1, <2>1
    <2> QED BY <2>1, <2>2, RestIs
  <1> HIDE DEF R, n, e
  <1>6. CASE e = q + 1
    <2>1. SubSeq(format, q, e - 1) = << format[q] >>
      <3>1. e - 1 = q /\ q \in Int /\ \A i \in q..q : format[i] \in Nat
        BY <1>1, <1>6
      <3> DEFINE s == SubSeq(format, q, q)
      <3>2. /\ s \in Seq(Nat)
            /\ Len(s) = IF q <= q THEN q - q + 1 ELSE 0
            /\ \A i \in 1..(q - q + 1) : s[i] = format[q + i - 1]
        BY <3>1, SubSeqProperties
      <3>3. q - q + 1 = 1 /\ q + 1 - 1 = q /\ q <= q /\ 1 \in 1..1
        BY <1>1
      <3>4. Len(s) = 1 /\ s[1] = format[q]
        <4>1. 1 \in 1..(q - q + 1)
          BY <3>3
        <4>2. s[1] = format[q + 1 - 1]
          BY <3>2, <4>1
        <4> QED BY <3>2, <3>3, <4>2
      <3> HIDE DEF s
      <3>5. s = << format[q] >>
        BY <3>2, <3>4
      <3> QED BY <3>1, <3>5 DEF s
    <2> QED BY <1>4, <1>6, <2>1 DEF R, e
  <1>7. CASE e # q + 1
    <2> DEFINE r == q + 1
               whole == SubSeq(format, q, e - 1)
               tail == SubSeq(format, r, e - 1)
    <2>1. /\ r \in 1..n /\ format[r] # Percent /\ RunEnd(format, r) = e
          /\ r \in Int /\ e - 1 \in Int /\ q \in Int /\ q <= e - 1 /\ r <= e - 1
      BY <1>1, <1>2, <1>3, <1>7
    <2>2. R(e) \in Seq(Nat)
      BY <1>1, <1>4, <2>1 DEF n
    <2>3. RunStart(format, r) = r
      BY <2>1 DEF RunStart
    <2>4. At(format, r) \notin {Percent}
      <3>1. r <= Len(format)
        BY <1>1, <2>1 DEF n
      <3> QED BY <2>1, <3>1 DEF At
    <2>5. R(r) = tail \o R(e)
      BY <1>5, <1>7, <2>1, <2>3, <2>4
    <2>6. \A i \in q..(e - 1) : format[i] \in Nat
      BY <1>1, <1>2
    <2>7. \A i \in r..(e - 1) : format[i] \in Nat
      BY <1>1, <2>6
    <2>8. /\ whole \in Seq(Nat) /\ Len(whole) = IF q <= e - 1 THEN (e - 1) - q + 1 ELSE 0
          /\ \A i \in 1..((e - 1) - q + 1) : whole[i] = format[q + i - 1]
      BY <2>1, <2>6, SubSeqProperties
    <2>9. /\ tail \in Seq(Nat) /\ Len(tail) = IF r <= e - 1 THEN (e - 1) - r + 1 ELSE 0
          /\ \A i \in 1..((e - 1) - r + 1) : tail[i] = format[r + i - 1]
      BY <2>1, <2>7, SubSeqProperties
    <2> HIDE DEF whole, tail
    <2> DEFINE head == << format[q] >>
    <2>10. head \in Seq(Nat) /\ Len(head) = 1 /\ head[1] = format[q]
      <3>1. format[q] \in Nat
        BY <1>1
      <3> QED BY <3>1
    <2> HIDE DEF head
    <2>11. /\ head \o tail \in Seq(Nat) /\ Len(head \o tail) = Len(head) + Len(tail)
           /\ \A i \in 1..(Len(head) + Len(tail)) :
                 (head \o tail)[i] = IF i <= Len(head) THEN head[i] ELSE tail[i - Len(head)]
      BY <2>9, <2>10, ConcatProperties
    <2> DEFINE k == e - q
    <2>12. Len(whole) = k /\ Len(tail) = k - 1 /\ k \in Nat /\ (e - 1) - q + 1 = k /\ (e - 1) - r + 1 = k - 1
      BY <1>1, <1>2, <2>1, <2>8, <2>9
    <2> HIDE DEF k
    <2>13. ASSUME NEW i \in 1..k PROVE whole[i] = (head \o tail)[i]
      <3>1. whole[i] = format[q + i - 1]
        BY <2>8, <2>12
      <3>2. (head \o tail)[i] = IF i <= 1 THEN head[i] ELSE tail[i - 1]
        <4>1. 1 + (k - 1) = k
          BY <2>12
        <4> QED BY <2>10, <2>11, <2>12, <4>1
      <3>3. CASE i = 1
        <4>1. q + i - 1 = q
          BY <1>1, <3>3
        <4> QED BY <2>10, <3>1, <3>2, <3>3, <4>1
      <3>4. CASE i # 1
        <4>1. i - 1 \in 1..(k - 1) /\ r + (i - 1) - 1 = q + i - 1 /\ ~(i <= 1)
          BY <1>1, <2>12, <3>4
        <4>2. tail[i - 1] = format[r + (i - 1) - 1]
          BY <2>9, <2>12, <4>1
        <4> QED BY <3>1, <3>2, <4>1, <4>2
      <3> QED BY <3>3, <3>4
    <2>14. whole = head \o tail
      <3>1. Len(head \o tail) = k
        BY <2>10, <2>11, <2>12
      <3> QED BY <2>8, <2>11, <2>12, <2>13, <3>1, SeqEqual
    <2>15. whole \o R(e) = head \o (tail \o R(e))
      <3> DEFINE rest == R(e)
      <3>1. rest \in Seq(Nat) /\ tail \in Seq(Nat) /\ head \in Seq(Nat)
        BY <2>2, <2>9, <2>10
      <3> HIDE DEF rest
      <3>2. (head \o tail) \o rest = head \o (tail \o rest)
        BY <3>1, ThreeStrings
      <3> QED BY <2>14, <3>2 DEF rest
    <2>16. whole \o R(e) = head \o R(r)
      BY <2>5, <2>15
    <2> QED BY <2>2, <2>16 DEF whole, head, R, e
  <1> QED BY <1>6, <1>7

(* One character, a '%' printed for two, and a parameter. *)
LEMMA CharPrints ==
    ASSUME NEW format \in Seq(Char), NEW params, NEW p \in 1..Len(format), NEW a \in Nat,
           format[p] # Percent, Printable(format, params, p + 1, a)
    PROVE  PrintsThen(format, params, p, a, << format[p] >>, p + 1, a)
  <1> DEFINE e == RunEnd(format, p)
             rest == Rest(format, params, e, a)
             here == Rest(format, params, p, a)
             next == Rest(format, params, p + 1, a)
             head == << format[p] >>
  <1>1. Len(format) \in Nat /\ p \in 1..(Len(format) + 1) /\ p <= Len(format) /\ format[p] \in Nat
    <2>1. format[p] \in Char
      OBVIOUS
    <2>2. \A c \in Char : c \in Nat
      BY DEF Char
    <2>3. format[p] \in Nat
      BY <2>1, <2>2
    <2> QED BY <2>3
  <1>2. RunStart(format, p) = p
    BY DEF RunStart
  <1>3. here = SubSeq(format, p, e - 1) \o rest
    <2>1. here = SubSeq(format, RunStart(format, p), RunEnd(format, RunStart(format, p)) - 1)
                   \o Rest(format, params, RunEnd(format, RunStart(format, p)), a)
      BY <1>1, RestIs
    <2> QED BY <1>2, <2>1
  <1>4. rest \in Seq(Nat) /\ SubSeq(format, p, e - 1) \o rest = head \o next
    BY RunIs
  <1>5. next \in Seq(Nat)
    BY DEF Printable
  <1>6. head \in Seq(Nat)
    BY <1>1
  <1>7. here = head \o next /\ here \in Seq(Nat)
    <2>1. here = head \o next
      BY <1>3, <1>4
    <2> HIDE DEF here, head, next
    <2> QED BY <1>5, <1>6, <2>1
  <1>8. Printable(format, params, p, a)
    BY <1>1, <1>4, <1>7 DEF Printable
  <1> QED BY <1>7, <1>8 DEF PrintsThen

LEMMA PercentPrints ==
    ASSUME NEW format \in Seq(Char), NEW params, NEW p \in 1..Len(format), NEW a \in Nat,
           p + 1 \in 1..Len(format), format[p] = Percent, format[p + 1] = Percent,
           Printable(format, params, p + 2, a)
    PROVE  PrintsThen(format, params, p, a, << Percent >>, p + 2, a)
  <1> DEFINE q == p + 1
             e == RunEnd(format, q)
             rest == Rest(format, params, e, a)
             here == Rest(format, params, p, a)
             next == Rest(format, params, q + 1, a)
             head == << Percent >>
  <1>1. Len(format) \in Nat /\ p \in 1..(Len(format) + 1) /\ p <= Len(format) /\ q + 1 = p + 2 /\ q \in 1..Len(format) /\ q <= Len(format)
    OBVIOUS
  <1>2. At(format, q) = Percent /\ RunStart(format, p) = q
    BY <1>1 DEF RunStart, At
  <1>3. Printable(format, params, q + 1, a) /\ format[q] = Percent
    BY <1>1
  <1> HIDE DEF q
  <1>4. here = SubSeq(format, q, e - 1) \o rest
    <2>1. At(format, p + 1) = Percent
      BY <1>2 DEF q
    <2> QED BY <1>1, <1>2, <2>1, RestIs
  <1>5. rest \in Seq(Nat) /\ SubSeq(format, q, e - 1) \o rest = << format[q] >> \o next
    BY <1>1, <1>3, RunIs
  <1>6. next \in Seq(Nat)
    BY <1>3 DEF Printable
  <1>7. head \in Seq(Nat)
    BY DEF Percent
  <1>8. here = head \o next /\ here \in Seq(Nat)
    <2>1. here = head \o next
      BY <1>3, <1>4, <1>5
    <2> HIDE DEF here, head, next
    <2> QED BY <1>6, <1>7, <2>1
  <1>9. Printable(format, params, p, a)
    BY <1>1, <1>8 DEF Printable
  <1>10. next = Rest(format, params, p + 2, a)
    BY <1>1
  <1> QED BY <1>8, <1>9, <1>10 DEF PrintsThen

LEMMA ParameterPrints ==
    ASSUME NEW format \in Seq(Char), NEW params, NEW p \in 1..Len(format), NEW a \in Nat,
           p + 1 \in 1..Len(format), format[p] = Percent, format[p + 1] \in Directives,
           Shown(format[p + 1], params[a]) \in Seq(Nat), Printable(format, params, p + 2, a + 1)
    PROVE  PrintsThen(format, params, p, a, Shown(format[p + 1], params[a]), p + 2, a + 1)
  <1> DEFINE here == Rest(format, params, p, a)
             next == Rest(format, params, p + 2, a + 1)
             meant == Shown(format[p + 1], params[a])
  <1>1. Len(format) \in Nat /\ p \in 1..(Len(format) + 1) /\ p <= Len(format) /\ p + 1 <= Len(format)
    OBVIOUS
  <1>2. At(format, p + 1) = format[p + 1]
    BY <1>1 DEF At
  <1>3. here = meant \o next
    BY <1>1, <1>2, RestIs
  <1>4. next \in Seq(Nat)
    BY DEF Printable
  <1>5. meant \in Seq(Nat)
    OBVIOUS
  <1>6. here \in Seq(Nat)
    <2> HIDE DEF here, meant, next
    <2> QED BY <1>3, <1>4, <1>5
  <1>7. Printable(format, params, p, a)
    BY <1>1, <1>6 DEF Printable
  <1> QED BY <1>3, <1>7 DEF PrintsThen

(* Pieces of a format. *)
LEMMA ShownIs ==
    ASSUME NEW q
    PROVE  /\ Shown(99, q) = <<q[1] % 256>> /\ Shown(115, q) = q
           /\ Shown(100, q) = Numeral(10, q[1], 14) /\ Shown(120, q) = Numeral(16, q[1], 20)
  BY DEF Shown

LEMMA NumeralTyped ==
    ASSUME NEW base \in Bases, NEW val \in Nat, NEW len \in Nat
    PROVE  Numeral(base, val, len) \in Seq(Nat)
  <1>1. base \in Nat \ {0}
    BY DEF Bases
  <1>2. PICK rest, count :
              Divisions(rest, count, base, val, len) /\ Numeral(base, val, len) = Remainders(rest, count, base)
    BY <1>1, NumeralIs
  <1>3. rest \in [0..len -> Nat] /\ count \in 0..len
    BY <1>2 DEF Divisions
  <1> DEFINE low == IF count = 0 THEN << Digit(0) >>
                    ELSE [i \in 1..count |-> Digit(rest[i - 1] % base)]
  <1>4. low \in Seq(Nat)
    <2>1. CASE count = 0
      <3>1. Digit(0) \in Nat
        BY DEF Digit
      <3> QED BY <2>1, <3>1
    <2>2. CASE count # 0
      <3>1. \A i \in 1..count : rest[i - 1] \in Nat
        BY <1>3
      <3>2. \A v \in Nat : v % base \in 0..15
        BY DividedIs
      <3>3. \A r \in 0..15 : Digit(r) \in Nat
        BY DigitIs
      <3>4. \A i \in 1..count : Digit(rest[i - 1] % base) \in Nat
        BY <3>1, <3>2, <3>3
      <3>5. low \in [1..count -> Nat] /\ count \in Nat
        BY <1>3, <2>2, <3>4
      <3> HIDE DEF low
      <3> QED BY <3>5, SeqDef
    <2> QED BY <2>1, <2>2
  <1>5. str_reverse(low) \in Seq(Nat)
    <2> HIDE DEF low
    <2> QED BY <1>4, ReverseIs
  <1> QED BY <1>2, <1>5 DEF Remainders

Piece(x) == x.f \in Seq(Char) /\ x.p \in Seq(Seq(Nat)) /\ x.out \in Seq(Nat)

Text(x) ==
    /\ x.p = << >> /\ x.out = x.f /\ Len(x.f) \in 1..2
    /\ \A i \in 1..Len(x.f) : x.f[i] # Percent

Percents(x) == x.f = << Percent, Percent >> /\ x.p = << >> /\ x.out = << Percent >>

Parameter(x) ==
    /\ Len(x.f) = 2 /\ x.f[1] = Percent /\ x.f[2] \in Directives
    /\ Len(x.p) = 1 /\ x.out = Shown(x.f[2], x.p[1])

LEMMA PieceIs ==
    ASSUME NEW x \in Pieces
    PROVE  Piece(x) /\ (Text(x) \/ Percents(x) \/ Parameter(x))
  <1>1. \A s \in Strings : s \in Seq(Char) /\ s \in Seq(Nat)
    <2> TAKE s \in Strings
    <2>1. s \in Seq(Char)
      BY StringsTyped
    <2>2. Char \subseteq Nat
      BY DEF Char
    <2> DEFINE n == Len(s)
    <2>3. n \in Nat /\ s \in [1..n -> Char]
      BY <2>1
    <2> HIDE DEF n
    <2>4. s \in [1..n -> Nat]
      BY <2>2, <2>3
    <2> QED BY <2>1, <2>3, <2>4, SeqDef
  <1>2. Percent \in Char /\ Percent \in Nat /\ {99, 100, 115, 120} \subseteq Char /\ {99, 100, 115, 120} \subseteq Directives
    BY DEF Percent, Char, Directives
  <1>3. CASE \E s \in { t \in Strings : Len(t) \in 1..2 /\ Percent \notin Range(t) } :
                x = [f |-> s, p |-> << >>, out |-> s]
    <2>1. PICK s \in Strings : Len(s) \in 1..2 /\ Percent \notin Range(s) /\ x = [f |-> s, p |-> << >>, out |-> s]
      BY <1>3
    <2>2. x.f = s /\ x.p = << >> /\ x.out = s
      BY <2>1
    <2>3. s \in Seq(Char) /\ s \in Seq(Nat)
      BY <1>1
    <2>4. \A i \in 1..Len(s) : s[i] # Percent
      <3>1. \A i \in 1..Len(s) : s[i] \in Range(s)
        BY <2>3 DEF Range
      <3> QED BY <2>1, <3>1
    <2>5. << >> \in Seq(Seq(Nat))
      OBVIOUS
    <2>6. Piece(x)
      BY <2>2, <2>3, <2>5 DEF Piece
    <2>7. Text(x)
      BY <2>1, <2>2, <2>4 DEF Text
    <2> QED BY <2>6, <2>7
  <1>4. CASE x = [f |-> <<Percent, Percent>>, p |-> << >>, out |-> <<Percent>>]
    <2>1. x.f = <<Percent, Percent>> /\ x.p = << >> /\ x.out = <<Percent>>
      BY <1>4
    <2>2. << >> \in Seq(Seq(Nat)) /\ <<Percent, Percent>> \in Seq(Char) /\ <<Percent>> \in Seq(Nat)
      BY <1>2
    <2> QED BY <2>1, <2>2 DEF Piece, Percents
  <1>5. CASE \E d \in {99, 100, 120}, v \in {0, Word - 1} :
                x = [f |-> <<Percent, d>>, p |-> << <<v>> >>, out |-> Shown(d, <<v>>)]
    <2>1. PICK d \in {99, 100, 120}, v \in {0, Word - 1} :
                x = [f |-> <<Percent, d>>, p |-> << <<v>> >>, out |-> Shown(d, <<v>>)]
      BY <1>5
    <2>2. x.f = <<Percent, d>> /\ x.p = << <<v>> >> /\ x.out = Shown(d, <<v>>)
      BY <2>1
    <2>3. v \in Nat
      BY LibcAssumption
    <2> DEFINE q == <<v>>
    <2>4. q \in Seq(Nat) /\ q[1] = v
      BY <2>3
    <2> HIDE DEF q
    <2>5. Shown(d, q) \in Seq(Nat)
      <3>1. 10 \in Bases /\ 16 \in Bases /\ 14 \in Nat /\ 20 \in Nat
        BY DEF Bases
      <3>2. Numeral(10, v, 14) \in Seq(Nat) /\ Numeral(16, v, 20) \in Seq(Nat)
        <4>1. ASSUME NEW base, base \in Bases, NEW len, len \in Nat PROVE Numeral(base, v, len) \in Seq(Nat)
          BY <2>3, <4>1, NumeralTyped
        <4>2. Numeral(10, v, 14) \in Seq(Nat)
          BY <3>1, <4>1
        <4>3. Numeral(16, v, 20) \in Seq(Nat)
          BY <3>1, <4>1
        <4> QED BY <4>2, <4>3
      <3>3. CASE d = 99
        <4>1. v % 256 \in Nat
          BY <2>3
        <4>2. Shown(99, q) = <<v % 256>>
          BY <2>4, ShownIs
        <4> DEFINE c == v % 256
        <4>3. c \in Nat
          BY <4>1
        <4>4. Shown(99, q) = <<c>>
          BY <4>2
        <4> HIDE DEF c
        <4>5. <<c>> \in Seq(Nat)
          BY <4>3
        <4> QED BY <3>3, <4>4, <4>5
      <3>4. CASE d = 100
        BY <2>4, <3>2, <3>4, ShownIs
      <3>5. CASE d = 120
        BY <2>4, <3>2, <3>5, ShownIs
      <3> QED BY <3>3, <3>4, <3>5
    <2>6. x.p = << q >> /\ x.out = Shown(d, q)
      BY <2>2 DEF q
    <2>7. << q >> \in Seq(Seq(Nat)) /\ Len(<< q >>) = 1 /\ << q >>[1] = q
      BY <2>4
    <2>8. d \in Char /\ d \in Directives
      BY <1>2
    <2>9. x.f \in Seq(Char) /\ Len(x.f) = 2 /\ x.f[1] = Percent /\ x.f[2] = d
      BY <1>2, <2>2, <2>8
    <2>10. x.p \in Seq(Seq(Nat)) /\ Len(x.p) = 1 /\ x.p[1] = q
      BY <2>6, <2>7
    <2>11. Piece(x)
      BY <2>5, <2>6, <2>9, <2>10 DEF Piece
    <2>12. Parameter(x)
      BY <2>6, <2>8, <2>9, <2>10 DEF Parameter
    <2> QED BY <2>11, <2>12
  <1>6. CASE \E s \in Strings : x = [f |-> <<Percent, 115>>, p |-> <<s>>, out |-> s]
    <2>1. PICK s \in Strings : x = [f |-> <<Percent, 115>>, p |-> <<s>>, out |-> s]
      BY <1>6
    <2>2. x.f = <<Percent, 115>> /\ x.p = << s >> /\ x.out = s
      BY <2>1
    <2>3. s \in Seq(Nat)
      BY <1>1
    <2>4. x.out = Shown(115, s)
      BY <2>2, ShownIs
    <2>5. 115 \in Char /\ 115 \in Directives
      BY <1>2
    <2>6. x.f \in Seq(Char) /\ Len(x.f) = 2 /\ x.f[1] = Percent /\ x.f[2] = 115
      BY <1>2, <2>2, <2>5
    <2>7. << s >> \in Seq(Seq(Nat)) /\ Len(<< s >>) = 1 /\ << s >>[1] = s
      BY <2>3
    <2>8. x.p \in Seq(Seq(Nat)) /\ Len(x.p) = 1 /\ x.p[1] = s
      BY <2>2, <2>7
    <2>9. Piece(x)
      BY <2>2, <2>3, <2>6, <2>8 DEF Piece
    <2>10. Parameter(x)
      BY <2>4, <2>5, <2>6, <2>8 DEF Parameter
    <2> QED BY <2>9, <2>10
  <1> QED BY <1>3, <1>4, <1>5, <1>6 DEF Pieces

(* t stands in s from place p on. *)
Has(s, p, t) ==
    /\ p \in Nat \ {0} /\ p + Len(t) - 1 <= Len(s)
    /\ \A i \in 1..Len(t) : s[p + i - 1] = t[i]

LEMMA ThreeStand ==
    ASSUME NEW S, NEW x \in Seq(S), NEW y \in Seq(S), NEW z \in Seq(S)
    PROVE  /\ x \o y \o z \in Seq(S) /\ Len(x \o y \o z) = Len(x) + Len(y) + Len(z)
           /\ Has(x \o y \o z, 1, x) /\ Has(x \o y \o z, 1 + Len(x), y)
           /\ Has(x \o y \o z, 1 + Len(x) + Len(y), z)
  <1> DEFINE l == Len(x)
             m == Len(y)
             n == Len(z)
             s == x \o y
             t == s \o z
  <1>1. l \in Nat /\ m \in Nat /\ n \in Nat
    OBVIOUS
  <1>2. /\ s \in Seq(S) /\ Len(s) = l + m
        /\ \A i \in 1..(l + m) : s[i] = IF i <= l THEN x[i] ELSE y[i - l]
    BY ConcatProperties
  <1> HIDE DEF s
  <1>3. /\ t \in Seq(S) /\ Len(t) = Len(s) + n
        /\ \A i \in 1..(Len(s) + n) : t[i] = IF i <= Len(s) THEN s[i] ELSE z[i - Len(s)]
    <2>1. s \in Seq(S)
      BY <1>2
    <2> QED BY <2>1, ConcatProperties
  <1> HIDE DEF t, l, m, n
  <1>4. /\ Len(t) = l + m + n
        /\ \A i \in 1..(l + m + n) : t[i] = IF i <= l + m THEN s[i] ELSE z[i - (l + m)]
    BY <1>1, <1>2, <1>3
  <1>5. \A i \in 1..l : t[1 + i - 1] = x[i]
    <2> TAKE i \in 1..l
    <2>1. 1 + i - 1 = i /\ i \in 1..(l + m + n) /\ i \in 1..(l + m) /\ i <= l + m /\ i <= l
      BY <1>1
    <2> QED BY <1>2, <1>4, <2>1
  <1>6. \A i \in 1..m : t[1 + l + i - 1] = y[i]
    <2> TAKE i \in 1..m
    <2> DEFINE j == l + i
    <2>1. /\ 1 + l + i - 1 = j /\ j \in 1..(l + m + n) /\ j \in 1..(l + m)
          /\ j <= l + m /\ ~(j <= l) /\ j - l = i
      BY <1>1
    <2> HIDE DEF j
    <2>2. t[j] = s[j] /\ s[j] = y[j - l]
      BY <1>2, <1>4, <2>1
    <2> QED BY <2>1, <2>2
  <1>7. \A i \in 1..n : t[1 + l + m + i - 1] = z[i]
    <2> TAKE i \in 1..n
    <2> DEFINE j == l + m + i
    <2>1. 1 + l + m + i - 1 = j /\ j \in 1..(l + m + n) /\ ~(j <= l + m) /\ j - (l + m) = i
      BY <1>1
    <2> HIDE DEF j
    <2>2. t[j] = z[j - (l + m)]
      BY <1>4, <2>1
    <2> QED BY <2>1, <2>2
  <1>8. /\ 1 \in Nat \ {0} /\ 1 + l \in Nat \ {0} /\ 1 + l + m \in Nat \ {0}
        /\ 1 + l - 1 <= l + m + n /\ 1 + l + m - 1 <= l + m + n /\ 1 + l + m + n - 1 <= l + m + n
    BY <1>1
  <1>9. Has(t, 1, x)
    BY <1>4, <1>5, <1>8 DEF Has, l
  <1>10. Has(t, 1 + l, y)
    BY <1>4, <1>6, <1>8 DEF Has, m
  <1>11. Has(t, 1 + l + m, z)
    BY <1>4, <1>7, <1>8 DEF Has, n
  <1> QED BY <1>3, <1>4, <1>9, <1>10, <1>11 DEF t, s, l, m, n

LEMMA TwoChars ==
    ASSUME NEW u \in Nat, NEW v \in Nat
    PROVE  << u >> \in Seq(Nat) /\ << v >> \in Seq(Nat) /\ << u >> \o << v >> = << u, v >>
  <1> DEFINE s == << u >>
             t == << v >>
  <1>1. s \in Seq(Nat) /\ t \in Seq(Nat) /\ Len(s) = 1 /\ Len(t) = 1 /\ s[1] = u /\ t[1] = v
    OBVIOUS
  <1> HIDE DEF s, t
  <1>2. /\ s \o t \in Seq(Nat) /\ Len(s \o t) = Len(s) + Len(t)
        /\ \A i \in 1..(Len(s) + Len(t)) : (s \o t)[i] = IF i <= Len(s) THEN s[i] ELSE t[i - Len(s)]
    BY <1>1, ConcatProperties
  <1> DEFINE j == s \o t
  <1>3. Len(j) = 2 /\ j[1] = u /\ j[2] = v /\ j \in Seq(Nat)
    <2>1. Len(s) + Len(t) = 2 /\ 1 \in 1..2 /\ 2 \in 1..2 /\ 1 <= 1 /\ ~(2 <= 1) /\ 2 - 1 = 1
      BY <1>1
    <2>2. Len(j) = 2 /\ j \in Seq(Nat)
      BY <1>2, <2>1
    <2>3. j[1] = s[1]
      BY <1>1, <1>2, <2>1
    <2>4. j[2] = t[1]
      BY <1>1, <1>2, <2>1
    <2> QED BY <1>1, <2>2, <2>3, <2>4
  <1> HIDE DEF j
  <1>4. j = << u, v >>
    BY <1>3
  <1> QED BY <1>1, <1>4 DEF j, s, t

(* A piece prints what it should. *)
LEMMA PiecePrints ==
    ASSUME NEW format \in Seq(Char), NEW params, NEW x,
           Piece(x), Text(x) \/ Percents(x) \/ Parameter(x),
           NEW p, Has(format, p, x.f), NEW a \in Nat,
           \A i \in 1..Len(x.p) : params[a + i - 1] = x.p[i],
           Printable(format, params, p + Len(x.f), a + Len(x.p))
    PROVE  PrintsThen(format, params, p, a, x.out, p + Len(x.f), a + Len(x.p))
  <1>1. /\ p \in Nat \ {0} /\ p + Len(x.f) - 1 <= Len(format) /\ Len(format) \in Nat
        /\ \A i \in 1..Len(x.f) : format[p + i - 1] = x.f[i]
    BY DEF Has
  <1>2. x.f \in Seq(Char) /\ x.out \in Seq(Nat)
    BY DEF Piece
  <1>3. p + 1 - 1 = p /\ p + 2 - 1 = p + 1 /\ (p + 1) + 1 = p + 2 /\ a + 1 - 1 = a /\ a + 0 = a
    BY <1>1
  <1>4. CASE Text(x) /\ Len(x.f) = 1
    <2>1. p \in 1..Len(format) /\ Len(x.p) = 0
      BY <1>1, <1>3, <1>4 DEF Text
    <2>2. 1 \in 1..Len(x.f)
      BY <1>4
    <2>3. format[p] = x.f[1] /\ x.f[1] # Percent
      BY <1>1, <1>3, <1>4, <2>2 DEF Text
    <2>4. x.f = << x.f[1] >> /\ x.out = x.f
      BY <1>2, <1>4 DEF Text
    <2>5. Printable(format, params, p + 1, a)
      BY <1>3, <1>4, <2>1
    <2>6. PrintsThen(format, params, p, a, << format[p] >>, p + 1, a)
      BY <2>1, <2>3, <2>5, CharPrints
    <2>7. << format[p] >> = x.out
      BY <2>3, <2>4
    <2> QED BY <1>3, <1>4, <2>1, <2>6, <2>7
  <1>5. CASE Text(x) /\ Len(x.f) = 2
    <2> DEFINE q == p + 1
               c == << format[p] >>
               d == << format[q] >>
               here == Rest(format, params, p, a)
               then == Rest(format, params, q, a)
               next == Rest(format, params, p + 2, a)
    <2>1. p \in 1..Len(format) /\ q \in 1..Len(format) /\ Len(x.p) = 0 /\ q + 1 = p + 2
      BY <1>1, <1>3, <1>5 DEF Text
    <2>2. 1 \in 1..Len(x.f) /\ 2 \in 1..Len(x.f)
      BY <1>5
    <2>3. format[p] = x.f[1] /\ format[q] = x.f[2] /\ x.f[1] # Percent /\ x.f[2] # Percent
      BY <1>1, <1>3, <1>5, <2>2 DEF Text
    <2>4. x.f = << x.f[1], x.f[2] >> /\ x.out = x.f
      BY <1>2, <1>5 DEF Text
    <2>5. Printable(format, params, q + 1, a)
      BY <1>3, <1>5, <2>1
    <2>6. PrintsThen(format, params, q, a, d, q + 1, a)
      BY <2>1, <2>3, <2>5, CharPrints
    <2>7. PrintsThen(format, params, p, a, c, q, a)
      <3>1. Printable(format, params, p + 1, a)
        BY <2>6 DEF PrintsThen
      <3> QED BY <2>1, <2>3, <3>1, CharPrints
    <2>8. here = c \o then /\ then = d \o next /\ Printable(format, params, p, a)
      BY <2>1, <2>6, <2>7 DEF PrintsThen
    <2>9. next \in Seq(Nat)
      BY <2>1, <2>5 DEF Printable
    <2>10. x.f[1] \in Nat /\ x.f[2] \in Nat
      <3>1. x.f[1] \in Char /\ x.f[2] \in Char
        BY <1>2, <2>2
      <3>2. \A k \in Char : k \in Nat
        BY DEF Char
      <3> QED BY <3>1, <3>2
    <2>11. c \in Seq(Nat) /\ d \in Seq(Nat) /\ c \o d = << format[p], format[q] >>
      <3>1. format[p] \in Nat /\ format[q] \in Nat
        BY <2>3, <2>10
      <3> HIDE DEF q
      <3> QED BY <3>1, TwoChars
    <2> HIDE DEF c, d, here, then, next, q
    <2>12. (c \o d) \o next = c \o (d \o next)
      BY <2>9, <2>11, ThreeStrings
    <2>13. here = x.out \o next
      BY <2>3, <2>4, <2>8, <2>11, <2>12
    <2>14. PrintsThen(format, params, p, a, x.out, p + 2, a)
      BY <2>8, <2>13 DEF PrintsThen, here, next
    <2> QED BY <1>3, <1>5, <2>1, <2>14
  <1>6. CASE Percents(x)
    <2>1. Len(x.f) = 2 /\ x.f[1] = Percent /\ x.f[2] = Percent /\ Len(x.p) = 0 /\ x.out = << Percent >>
      BY <1>6 DEF Percents
    <2>2. 1 \in 1..Len(x.f) /\ 2 \in 1..Len(x.f)
      BY <2>1
    <2>3. p \in 1..Len(format) /\ p + 1 \in 1..Len(format)
      BY <1>1, <2>1
    <2>4. format[p] = Percent /\ format[p + 1] = Percent
      BY <1>1, <1>3, <2>1, <2>2
    <2>5. Printable(format, params, p + 2, a)
      BY <1>3, <2>1
    <2>6. PrintsThen(format, params, p, a, << Percent >>, p + 2, a)
      BY <2>3, <2>4, <2>5, PercentPrints
    <2> QED BY <1>3, <2>1, <2>6
  <1>7. CASE Parameter(x)
    <2>1. /\ Len(x.f) = 2 /\ x.f[1] = Percent /\ x.f[2] \in Directives /\ Len(x.p) = 1
          /\ x.out = Shown(x.f[2], x.p[1])
      BY <1>7 DEF Parameter
    <2>2. 1 \in 1..Len(x.f) /\ 2 \in 1..Len(x.f) /\ 1 \in 1..Len(x.p)
      BY <2>1
    <2>3. p \in 1..Len(format) /\ p + 1 \in 1..Len(format)
      BY <1>1, <2>1
    <2>4. format[p] = Percent /\ format[p + 1] = x.f[2] /\ params[a] = x.p[1]
      BY <1>1, <1>3, <2>1, <2>2
    <2>5. Printable(format, params, p + 2, a + 1)
      BY <2>1
    <2>6. Shown(format[p + 1], params[a]) = x.out
      BY <2>1, <2>4
    <2>7. PrintsThen(format, params, p, a, Shown(format[p + 1], params[a]), p + 2, a + 1)
      <3>1. Shown(format[p + 1], params[a]) \in Seq(Nat)
        BY <1>2, <2>6
      <3>2. format[p + 1] \in Directives
        BY <2>1, <2>4
      <3> QED BY <2>3, <2>4, <2>5, <3>1, <3>2, ParameterPrints
    <2> QED BY <2>1, <2>6, <2>7
  <1>8. Text(x) => Len(x.f) = 1 \/ Len(x.f) = 2
    BY DEF Text
  <1> QED BY <1>4, <1>5, <1>6, <1>7, <1>8

(* A format of three pieces prints what they print: printf.c.              *)
LEMMA PiecesPrint == PrintsPieces
  <1> SUFFICES ASSUME NEW x \in Pieces, NEW y \in Pieces, NEW z \in Pieces
               PROVE  printf(x.f \o y.f \o z.f, x.p \o y.p \o z.p) = x.out \o y.out \o z.out
    BY DEF PrintsPieces
  <1> DEFINE format == x.f \o y.f \o z.f
             params == x.p \o y.p \o z.p
             P2 == 1 + Len(x.f)
             P3 == 1 + Len(x.f) + Len(y.f)
             A2 == 1 + Len(x.p)
             A3 == 1 + Len(x.p) + Len(y.p)
             P4 == P3 + Len(z.f)
             A4 == A3 + Len(z.p)
             R(p, a) == Rest(format, params, p, a)
  <1>1. /\ Piece(x) /\ (Text(x) \/ Percents(x) \/ Parameter(x))
        /\ Piece(y) /\ (Text(y) \/ Percents(y) \/ Parameter(y))
        /\ Piece(z) /\ (Text(z) \/ Percents(z) \/ Parameter(z))
    BY PieceIs
  <1>2. /\ x.f \in Seq(Char) /\ y.f \in Seq(Char) /\ z.f \in Seq(Char)
        /\ x.p \in Seq(Seq(Nat)) /\ y.p \in Seq(Seq(Nat)) /\ z.p \in Seq(Seq(Nat))
        /\ x.out \in Seq(Nat) /\ y.out \in Seq(Nat) /\ z.out \in Seq(Nat)
    BY <1>1 DEF Piece
  <1>3. /\ format \in Seq(Char) /\ Len(format) = Len(x.f) + Len(y.f) + Len(z.f)
        /\ Has(format, 1, x.f) /\ Has(format, P2, y.f) /\ Has(format, P3, z.f)
    BY <1>2, ThreeStand
  <1>4. Has(params, 1, x.p) /\ Has(params, A2, y.p) /\ Has(params, A3, z.p)
    BY <1>2, ThreeStand
  <1>5. /\ Len(x.f) \in Nat /\ Len(y.f) \in Nat /\ Len(z.f) \in Nat
        /\ Len(x.p) \in Nat /\ Len(y.p) \in Nat /\ Len(z.p) \in Nat
    BY <1>2, SMTT(40)
  <1>6. /\ P4 = Len(format) + 1 /\ P3 = P2 + Len(y.f) /\ A3 = A2 + Len(y.p)
        /\ A2 \in Nat /\ A3 \in Nat /\ A4 \in Nat /\ 1 \in Nat
    <2>1. Len(format) = Len(x.f) + Len(y.f) + Len(z.f)
      BY <1>3
    <2> DEFINE k == Len(format)
               l == Len(x.f)
               m == Len(y.f)
               n == Len(z.f)
               b == Len(x.p)
               c == Len(y.p)
               d == Len(z.p)
    <2>2. l \in Nat /\ m \in Nat /\ n \in Nat /\ b \in Nat /\ c \in Nat /\ d \in Nat /\ k = l + m + n
      BY <1>5, <2>1
    <2> HIDE DEF k, l, m, n, b, c, d
    <2>3. 1 + l + m + n = k + 1 /\ 1 + b \in Nat /\ 1 + b + c \in Nat /\ 1 + b + c + d \in Nat
      BY <2>2
    <2>4. P4 = Len(format) + 1
      BY <2>3 DEF k, l, m, n
    <2>5. A2 \in Nat /\ A3 \in Nat /\ A4 \in Nat
      BY <2>3 DEF b, c, d
    <2> HIDE DEF P4
    <2> QED BY <2>4, <2>5
  <1>7. /\ \A i \in 1..Len(x.p) : params[1 + i - 1] = x.p[i]
        /\ \A i \in 1..Len(y.p) : params[A2 + i - 1] = y.p[i]
        /\ \A i \in 1..Len(z.p) : params[A3 + i - 1] = z.p[i]
    BY <1>4 DEF Has
  <1> HIDE DEF format, params
  <1>8. Printable(format, params, P4, A4) /\ R(P4, A4) = << >>
    BY <1>3, <1>6, EndPrints
  <1>9. PrintsThen(format, params, P3, A3, z.out, P4, A4)
    <2>1. Printable(format, params, P3 + Len(z.f), A3 + Len(z.p))
      BY <1>8
    <2> HIDE DEF P3, A3
    <2> QED BY <1>1, <1>3, <1>6, <1>7, <2>1, PiecePrints
  <1> HIDE DEF P3, A3
  <1>10. PrintsThen(format, params, P2, A2, y.out, P3, A3)
    <2>1. Printable(format, params, P2 + Len(y.f), A2 + Len(y.p))
      BY <1>6, <1>9 DEF PrintsThen
    <2> HIDE DEF P2, A2
    <2>2. PrintsThen(format, params, P2, A2, y.out, P2 + Len(y.f), A2 + Len(y.p))
      BY <1>1, <1>3, <1>6, <1>7, <2>1, PiecePrints
    <2> QED BY <1>6, <2>2
  <1>11. PrintsThen(format, params, 1, 1, x.out, P2, A2)
    <2>1. Printable(format, params, 1 + Len(x.f), 1 + Len(x.p))
      BY <1>10 DEF PrintsThen
    <2> QED BY <1>1, <1>3, <1>6, <1>7, <2>1, PiecePrints
  <1>12. /\ R(P3, A3) = z.out \o R(P4, A4) /\ R(P2, A2) = y.out \o R(P3, A3)
         /\ R(1, 1) = x.out \o R(P2, A2)
    BY <1>9, <1>10, <1>11 DEF PrintsThen
  <1>13. z.out \o << >> = z.out
    BY <1>2, ConcatEmptySeq
  <1>14. R(1, 1) = x.out \o (y.out \o z.out)
    BY <1>8, <1>12, <1>13
  <1>15. printf(format, params) = R(1, 1)
    BY PrintfIs
  <1>16. (x.out \o y.out) \o z.out = x.out \o (y.out \o z.out)
    BY <1>2, ThreeStrings
  <1> QED BY <1>14, <1>15, <1>16 DEF format, params

(* THEOREM.  A format prints what its pieces print, in their order, for    *)
(* strings of any length and characters.                                   *)
THEOREM PrintsAreExact == Spec => []LibraryPrints
  <1>1. LibraryPrints
    BY PiecesPrint DEF LibraryPrints
  <1> QED BY <1>1, PTL
=============================================================================
