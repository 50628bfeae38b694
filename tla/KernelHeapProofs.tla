-------------------------- MODULE KernelHeapProofs --------------------------
(***************************************************************************)
(* The heap under its users, for all sizes of the heap, of blocks and of   *)
(* buffers and for all commands.  A command is a program, and the proof    *)
(* goes in four parts: what storing, marking and finding do with the runs; *)
(* which blocks a program holds between its steps, so that it frees what   *)
(* it holds and nothing else; the invariant that relates the two to the    *)
(* blocks in use, as long as every store goes where it should; and the one *)
(* that keeps the private data when stores do not.                         *)
(***************************************************************************)
EXTENDS KernelHeap, SequenceTheorems, WellFoundedInduction, TLAPS

(* Runs of bytes in the heap, apart from each other.  Bytes are given by   *)
(* their addresses.                                                        *)
Span(i) == i \in (0..HeapSize) \X (0..HeapSize) /\ Lo(i) < Hi(i)

Runs(s) ==
    /\ \A i \in s : Span(i)
    /\ \A i, j \in s : i # j => Hi(i) < Lo(j) \/ Hi(j) < Lo(i)

Within(b, i) == Lo(i) <= b /\ b < Hi(i)
InRuns(b, s) == \E i \in s : Within(b, i)

LEMMA LeastNat ==
    ASSUME NEW S \in SUBSET Nat, S # {}
    PROVE  \E l \in S : \A m \in S : l <= m
  <1> DEFINE less == OpToRel(<, Nat)
  <1>1. IsWellFoundedOn(less, Nat)
    BY NatLessThanWellFounded
  <1>2. \A m, k \in Nat : m < k => <<m, k>> \in less
    BY DEF OpToRel
  <1> HIDE DEF less
  <1>3. PICK l \in S : \A m \in S : ~(<<m, l>> \in less)
    BY <1>1, WFMin
  <1>4. \A m \in S : l <= m
    <2> TAKE m \in S
    <2>1. m \in Nat /\ l \in Nat /\ ~(m < l)
      BY <1>2, <1>3
    <2> QED BY <2>1
  <1> QED BY <1>4

LEMMA GreatestNat ==
    ASSUME NEW n \in Nat, NEW S \in SUBSET (0..n), S # {}
    PROVE  \E h \in S : \A m \in S : m <= h
  <1> DEFINE gaps == { n - i : i \in S }
  <1>1. \A i \in S : i \in Int /\ n - i \in Nat /\ n - i \in gaps
    OBVIOUS
  <1>2. gaps \in SUBSET Nat /\ gaps # {}
    BY <1>1
  <1>3. PICK g \in gaps : \A m \in gaps : g <= m
    BY <1>2, LeastNat
  <1>4. PICK top \in S : g = n - top
    BY <1>3
  <1>5. \A i \in S : i <= top
    <2> TAKE i \in S
    <2>1. n - top <= n - i /\ i \in Int /\ top \in Int
      BY <1>1, <1>3, <1>4
    <2> QED BY <2>1
  <1> QED BY <1>5

LEMMA Ends ==
    ASSUME NEW i, Span(i)
    PROVE  /\ Lo(i) \in 0..HeapSize /\ Hi(i) \in 0..HeapSize
           /\ Lo(i) \in Nat /\ Hi(i) \in Nat /\ Lo(i) < Hi(i)
  BY SizesAssumption DEF Span, Lo, Hi

LEMMA Pair ==
    ASSUME NEW a \in 0..HeapSize, NEW b \in 0..HeapSize, a < b
    PROVE  Span(<<a, b>>) /\ Lo(<<a, b>>) = a /\ Hi(<<a, b>>) = b
  BY DEF Span, Lo, Hi

(* What is stored makes one run with all that it touches. *)
LEMMA FilledIs ==
    ASSUME NEW s, Runs(s), NEW i, Span(i)
    PROVE  /\ Runs(Filled(s, i))
           /\ \A b \in Nat : InRuns(b, Filled(s, i)) <=> InRuns(b, s) \/ Within(b, i)
  <1> DEFINE touching == { j \in s : Lo(j) <= Hi(i) /\ Lo(i) <= Hi(j) }
             all == touching \cup {i}
             los == { Lo(j) : j \in all }
             his == { Hi(j) : j \in all }
             lo == CHOOSE a \in los : \A j \in all : a <= Lo(j)
             hi == CHOOSE b \in his : \A j \in all : Hi(j) <= b
  <1>1. HeapSize \in Nat
    BY SizesAssumption
  <1>2. \A j \in all : Span(j)
    BY DEF Runs
  <1>3. \A j \in all : /\ Lo(j) \in 0..HeapSize /\ Hi(j) \in 0..HeapSize
                       /\ Lo(j) \in Nat /\ Hi(j) \in Nat /\ Lo(j) < Hi(j)
    BY <1>2, Ends
  <1>4. /\ i \in all /\ touching \subseteq s
        /\ \A j \in all : j = i \/ (j \in s /\ Lo(j) <= Hi(i) /\ Lo(i) <= Hi(j))
        /\ \A j \in s : j \in touching <=> (Lo(j) <= Hi(i) /\ Lo(i) <= Hi(j))
        /\ all = touching \cup {i}
    OBVIOUS
  <1>5. Filled(s, i) = (s \ touching) \cup {<<lo, hi>>}
    BY DEF Filled
  <1> HIDE DEF touching, all
  <1>6. lo \in los /\ \A j \in all : lo <= Lo(j)
    <2>1. los \in SUBSET Nat /\ los # {}
      BY <1>3, <1>4
    <2>2. PICK a \in los : \A m \in los : a <= m
      BY <2>1, LeastNat
    <2>3. \A j \in all : a <= Lo(j)
      BY <2>2
    <2> QED BY <2>2, <2>3
  <1>7. hi \in his /\ \A j \in all : Hi(j) <= hi
    <2>1. his \in SUBSET (0..HeapSize) /\ his # {}
      BY <1>3, <1>4
    <2>2. PICK b \in his : \A m \in his : m <= b
      BY <1>1, <2>1, GreatestNat
    <2>3. \A j \in all : Hi(j) <= b
      BY <2>2
    <2> QED BY <2>2, <2>3
  <1> DEFINE one == <<lo, hi>>
  <1> HIDE DEF lo, hi
  <1>8. PICK l \in all : lo = Lo(l)
    BY <1>6
  <1>9. PICK h \in all : hi = Hi(h)
    BY <1>7
  <1> HIDE DEF los, his
  <1>10. /\ lo \in 0..HeapSize /\ hi \in 0..HeapSize /\ lo \in Nat /\ hi \in Nat
         /\ lo <= Lo(i) /\ Hi(i) <= hi /\ lo < hi
    <2>1. lo <= Lo(i) /\ Hi(i) <= hi
      BY <1>4, <1>6, <1>7
    <2>2. Lo(i) < Hi(i) /\ Lo(i) \in Nat /\ Hi(i) \in Nat
      BY <1>3, <1>4
    <2>3. lo \in 0..HeapSize /\ hi \in 0..HeapSize /\ lo \in Nat /\ hi \in Nat
      BY <1>3, <1>8, <1>9
    <2> QED BY <2>1, <2>2, <2>3
  <1>11. Span(one) /\ Lo(one) = lo /\ Hi(one) = hi
    BY <1>10, Pair
  <1> HIDE DEF one
  <1>12. ASSUME NEW j \in s \ touching PROVE hi < Lo(j) \/ Hi(j) < lo
    <2>1. Span(j) /\ j \in s /\ j \notin touching
      BY DEF Runs
    <2>2. Lo(j) \in Nat /\ Hi(j) \in Nat /\ Lo(j) < Hi(j)
      BY <2>1, Ends
    <2>3. Lo(i) \in Nat /\ Hi(i) \in Nat /\ Lo(i) < Hi(i)
      BY <1>3, <1>4
    <2>4. Hi(i) < Lo(j) \/ Hi(j) < Lo(i)
      BY <1>4, <2>1, <2>2, <2>3
    <2>5. \A k \in all : k # i => Hi(j) < Lo(k) \/ Hi(k) < Lo(j)
      <3> TAKE k \in all
      <3> HAVE k # i
      <3>1. k \in s /\ k \in touching
        BY <1>4
      <3>2. k # j
        BY <2>1, <3>1
      <3> QED BY <2>1, <3>1, <3>2 DEF Runs
    <2>6. CASE Hi(i) < Lo(j)
      <3>1. CASE h = i
        BY <1>9, <2>6, <3>1
      <3>2. CASE h # i
        <4>1. Lo(h) <= Hi(i)
          BY <1>4, <3>2
        <4>2. Lo(h) \in Nat /\ Hi(h) \in Nat
          BY <1>3
        <4>3. Hi(j) < Lo(h) \/ Hi(h) < Lo(j)
          BY <2>5, <3>2
        <4>4. Hi(h) < Lo(j)
          BY <2>2, <2>3, <2>6, <4>1, <4>2, <4>3
        <4> QED BY <1>9, <4>4
      <3> QED BY <3>1, <3>2
    <2>7. CASE Hi(j) < Lo(i)
      <3>1. CASE l = i
        BY <1>8, <2>7, <3>1
      <3>2. CASE l # i
        <4>1. Lo(i) <= Hi(l)
          BY <1>4, <3>2
        <4>2. Lo(l) \in Nat /\ Hi(l) \in Nat
          BY <1>3
        <4>3. Hi(j) < Lo(l) \/ Hi(l) < Lo(j)
          BY <2>5, <3>2
        <4>4. Hi(j) < Lo(l)
          BY <2>2, <2>3, <2>7, <4>1, <4>2, <4>3
        <4> QED BY <1>8, <4>4
      <3> QED BY <3>1, <3>2
    <2> QED BY <2>4, <2>6, <2>7
  <1> DEFINE rest == s \ touching
             new == rest \cup {one}
  <1>13. Filled(s, i) = new
    BY <1>5 DEF one
  <1>14. Runs(new)
    <2>1. \A j \in new : Span(j)
      BY <1>11 DEF Runs
    <2>2. ASSUME NEW j \in new, NEW k \in new, j # k
          PROVE  Hi(j) < Lo(k) \/ Hi(k) < Lo(j)
      <3>1. CASE j \in rest /\ k \in rest
        BY <2>2, <3>1 DEF Runs
      <3>2. CASE j \in rest /\ k = one
        BY <1>11, <1>12, <3>2
      <3>3. CASE j = one /\ k \in rest
        BY <1>11, <1>12, <3>3
      <3> QED BY <2>2, <3>1, <3>2, <3>3
    <2> QED BY <2>1, <2>2 DEF Runs
  <1>15. ASSUME NEW b \in Nat PROVE InRuns(b, new) <=> InRuns(b, s) \/ Within(b, i)
    <2>1. ASSUME NEW k \in s, Within(b, k) PROVE InRuns(b, new)
      <3>1. CASE k \in touching
        <4>1. k \in all
          BY <1>4, <3>1
        <4>2. lo <= Lo(k) /\ Hi(k) <= hi /\ Lo(k) \in Nat /\ Hi(k) \in Nat
          BY <1>3, <1>6, <1>7, <4>1
        <4>3. Within(b, one)
          BY <1>10, <1>11, <2>1, <4>2 DEF Within
        <4> QED BY <4>3 DEF InRuns
      <3>2. CASE k \notin touching
        BY <2>1, <3>2 DEF InRuns
      <3> QED BY <3>1, <3>2
    <2>2. ASSUME Within(b, i) PROVE InRuns(b, new)
      <3>1. Lo(i) \in Nat /\ Hi(i) \in Nat
        BY <1>3, <1>4
      <3>2. Within(b, one)
        BY <1>10, <1>11, <2>2, <3>1 DEF Within
      <3> QED BY <3>2 DEF InRuns
    <2>3. ASSUME Within(b, one) PROVE InRuns(b, s) \/ Within(b, i)
      <3>1. Lo(i) \in Nat /\ Hi(i) \in Nat
        BY <1>3, <1>4
      <3>2. CASE b < Lo(i)
        <4>1. l # i /\ l \in s /\ Lo(i) <= Hi(l) /\ Hi(l) \in Nat /\ Lo(l) \in Nat
          BY <1>3, <1>4, <1>8, <1>11, <2>3, <3>1, <3>2 DEF Within
        <4>2. Within(b, l)
          BY <1>8, <1>11, <2>3, <3>1, <3>2, <4>1 DEF Within
        <4> QED BY <4>1, <4>2 DEF InRuns
      <3>3. CASE b >= Hi(i)
        <4>1. h # i /\ h \in s /\ Lo(h) <= Hi(i) /\ Hi(h) \in Nat /\ Lo(h) \in Nat
          BY <1>3, <1>4, <1>9, <1>11, <2>3, <3>1, <3>3 DEF Within
        <4>2. Within(b, h)
          BY <1>9, <1>11, <2>3, <3>1, <3>3, <4>1 DEF Within
        <4> QED BY <4>1, <4>2 DEF InRuns
      <3>4. CASE Lo(i) <= b /\ b < Hi(i)
        BY <3>4 DEF Within
      <3> QED BY <3>1, <3>2, <3>3, <3>4
    <2>4. ASSUME NEW k \in rest, Within(b, k) PROVE InRuns(b, s)
      BY <2>4 DEF InRuns
    <2>5. InRuns(b, new) => InRuns(b, s) \/ Within(b, i)
      <3> SUFFICES ASSUME NEW k \in new, Within(b, k) PROVE InRuns(b, s) \/ Within(b, i)
        BY DEF InRuns
      <3> QED BY <2>3, <2>4
    <2>6. InRuns(b, s) => InRuns(b, new)
      BY <2>1 DEF InRuns
    <2> QED BY <2>2, <2>5, <2>6
  <1> QED BY <1>13, <1>14, <1>15

LEMMA Meeting ==
    ASSUME NEW i, NEW j, Span(i), Span(j)
    PROVE  Meet(i, j) <=> \E b \in Nat : Within(b, i) /\ Within(b, j)
  <1>1. /\ Lo(i) \in Nat /\ Hi(i) \in Nat /\ Lo(i) < Hi(i)
        /\ Lo(j) \in Nat /\ Hi(j) \in Nat /\ Lo(j) < Hi(j)
    BY Ends
  <1>2. ASSUME Meet(i, j) PROVE \E b \in Nat : Within(b, i) /\ Within(b, j)
    <2>1. Lo(i) < Hi(j) /\ Lo(j) < Hi(i)
      BY <1>2 DEF Meet
    <2>2. CASE Lo(i) <= Lo(j)
      <3>1. Within(Lo(j), i) /\ Within(Lo(j), j)
        BY <1>1, <2>1, <2>2 DEF Within
      <3> QED BY <1>1, <3>1
    <2>3. CASE Lo(j) <= Lo(i)
      <3>1. Within(Lo(i), i) /\ Within(Lo(i), j)
        BY <1>1, <2>1, <2>3 DEF Within
      <3> QED BY <1>1, <3>1
    <2> QED BY <1>1, <2>2, <2>3
  <1>3. ASSUME NEW b \in Nat, Within(b, i), Within(b, j) PROVE Meet(i, j)
    BY <1>1, <1>3 DEF Within, Meet
  <1> QED BY <1>2, <1>3

(* What is freed is cut out of the runs. *)
LEMMA MarkedIs ==
    ASSUME NEW s, Runs(s), NEW i, Span(i)
    PROVE  /\ Runs(Marked(s, i))
           /\ \A b \in Nat : InRuns(b, Marked(s, i)) <=> InRuns(b, s) /\ ~Within(b, i)
  <1> DEFINE new == Marked(s, i)
             below(j) == <<Lo(j), Lo(i)>>
             above(j) == <<Hi(i), Hi(j)>>
  <1>1. /\ Lo(i) \in 0..HeapSize /\ Hi(i) \in 0..HeapSize
        /\ Lo(i) \in Nat /\ Hi(i) \in Nat /\ Lo(i) < Hi(i)
    BY Ends
  <1>2. ASSUME NEW j \in s
        PROVE  /\ Span(j) /\ Lo(j) \in 0..HeapSize /\ Hi(j) \in 0..HeapSize
               /\ Lo(j) \in Nat /\ Hi(j) \in Nat /\ Lo(j) < Hi(j)
    <2>1. Span(j)
      BY DEF Runs
    <2> QED BY <2>1, Ends
  <1>3. ASSUME NEW j \in s, Lo(j) < Lo(i)
        PROVE  Span(below(j)) /\ Lo(below(j)) = Lo(j) /\ Hi(below(j)) = Lo(i)
    BY <1>1, <1>2, <1>3, Pair
  <1>4. ASSUME NEW j \in s, Hi(i) < Hi(j)
        PROVE  Span(above(j)) /\ Lo(above(j)) = Hi(i) /\ Hi(above(j)) = Hi(j)
    BY <1>1, <1>2, <1>4, Pair
  <1> DEFINE Piece(r, j) ==
                 \/ r = j /\ ~Meet(i, j)
                 \/ r = below(j) /\ Meet(i, j) /\ Lo(j) < Lo(i)
                 \/ r = above(j) /\ Meet(i, j) /\ Hi(i) < Hi(j)
  <1>5. \A r : r \in new <=> \E j \in s : Piece(r, j)
    BY DEF Marked
  <1> HIDE DEF new
  <1>6. ASSUME NEW j \in s, NEW r, Piece(r, j)
        PROVE  /\ Span(r) /\ Lo(j) <= Lo(r) /\ Hi(r) <= Hi(j)
               /\ Lo(r) \in Nat /\ Hi(r) \in Nat
               /\ Hi(r) <= Lo(i) \/ Hi(i) <= Lo(r)
    <2>1. CASE r = j /\ ~Meet(i, j)
      BY <1>1, <1>2, <2>1 DEF Meet
    <2>2. CASE r = below(j) /\ Lo(j) < Lo(i) /\ Meet(i, j)
      <3>1. Span(r) /\ Lo(r) = Lo(j) /\ Hi(r) = Lo(i)
        BY <1>3, <2>2
      <3>2. Lo(i) < Hi(j)
        BY <2>2 DEF Meet
      <3> QED BY <1>1, <1>2, <3>1, <3>2
    <2>3. CASE r = above(j) /\ Hi(i) < Hi(j) /\ Meet(i, j)
      <3>1. Span(r) /\ Lo(r) = Hi(i) /\ Hi(r) = Hi(j)
        BY <1>4, <2>3
      <3>2. Lo(j) < Hi(i)
        BY <2>3 DEF Meet
      <3> QED BY <1>1, <1>2, <3>1, <3>2
    <2> QED BY <1>6, <2>1, <2>2, <2>3
  <1>7. ASSUME NEW j \in s, NEW b \in Nat, Within(b, j), ~Within(b, i)
        PROVE  \E r : Piece(r, j) /\ Within(b, r)
    <2>1. CASE ~Meet(i, j)
      BY <1>7, <2>1
    <2>2. CASE Meet(i, j) /\ b < Lo(i)
      <3>1. Lo(j) < Lo(i)
        BY <1>1, <1>2, <1>7, <2>2 DEF Within
      <3>2. Piece(below(j), j)
        BY <2>2, <3>1
      <3>3. Within(b, below(j))
        BY <1>3, <1>7, <2>2, <3>1 DEF Within
      <3> QED BY <3>2, <3>3
    <2>3. CASE Meet(i, j) /\ b >= Hi(i)
      <3>1. Hi(i) < Hi(j)
        BY <1>1, <1>2, <1>7, <2>3 DEF Within
      <3>2. Piece(above(j), j)
        BY <2>3, <3>1
      <3>3. Within(b, above(j))
        BY <1>4, <1>7, <2>3, <3>1 DEF Within
      <3> QED BY <3>2, <3>3
    <2>4. b < Lo(i) \/ b >= Hi(i)
      BY <1>1, <1>7 DEF Within
    <2> QED BY <2>1, <2>2, <2>3, <2>4
  <1>8. ASSUME NEW j \in s, NEW r, NEW t, Piece(r, j), Piece(t, j), r # t
        PROVE  Hi(r) < Lo(t) \/ Hi(t) < Lo(r)
    <2>1. CASE ~Meet(i, j)
      BY <1>8, <2>1
    <2>2. CASE Meet(i, j)
      <3>1. \/ r = below(j) /\ t = above(j) /\ Lo(j) < Lo(i) /\ Hi(i) < Hi(j)
            \/ r = above(j) /\ t = below(j) /\ Lo(j) < Lo(i) /\ Hi(i) < Hi(j)
        BY <1>8, <2>2
      <3> HIDE DEF below, above
      <3> QED BY <1>1, <1>3, <1>4, <3>1
    <2> QED BY <2>1, <2>2
  <1> HIDE DEF Piece
  <1>9. Runs(new)
    <2>1. \A r \in new : Span(r)
      BY <1>5, <1>6
    <2>2. ASSUME NEW r \in new, NEW t \in new, r # t
          PROVE  Hi(r) < Lo(t) \/ Hi(t) < Lo(r)
      <3>1. PICK j \in s : Piece(r, j)
        BY <1>5
      <3>2. PICK k \in s : Piece(t, k)
        BY <1>5
      <3>3. CASE j = k
        BY <1>8, <2>2, <3>1, <3>2, <3>3
      <3>4. CASE j # k
        <4>1. Hi(j) < Lo(k) \/ Hi(k) < Lo(j)
          BY <3>4 DEF Runs
        <4>2. /\ Lo(j) <= Lo(r) /\ Hi(r) <= Hi(j)
              /\ Lo(r) \in Nat /\ Hi(r) \in Nat
          BY <1>6, <3>1
        <4>3. /\ Lo(k) <= Lo(t) /\ Hi(t) <= Hi(k)
              /\ Lo(t) \in Nat /\ Hi(t) \in Nat
          BY <1>6, <3>2
        <4>4. /\ Lo(j) \in Nat /\ Hi(j) \in Nat
              /\ Lo(k) \in Nat /\ Hi(k) \in Nat
          BY <1>2
        <4> QED BY <4>1, <4>2, <4>3, <4>4
      <3> QED BY <3>3, <3>4
    <2> QED BY <2>1, <2>2 DEF Runs
  <1>10. ASSUME NEW b \in Nat PROVE InRuns(b, new) <=> InRuns(b, s) /\ ~Within(b, i)
    <2>1. ASSUME NEW r \in new, Within(b, r) PROVE InRuns(b, s) /\ ~Within(b, i)
      <3>1. PICK j \in s : Piece(r, j)
        BY <1>5
      <3>2. /\ Lo(j) <= Lo(r) /\ Hi(r) <= Hi(j)
            /\ Lo(r) \in Nat /\ Hi(r) \in Nat
            /\ Hi(r) <= Lo(i) \/ Hi(i) <= Lo(r)
        BY <1>6, <3>1
      <3>3. Lo(j) \in Nat /\ Hi(j) \in Nat
        BY <1>2
      <3>4. Within(b, j)
        BY <2>1, <3>2, <3>3 DEF Within
      <3>5. ~Within(b, i)
        BY <1>1, <2>1, <3>2 DEF Within
      <3> QED BY <3>4, <3>5 DEF InRuns
    <2>2. ASSUME NEW j \in s, Within(b, j), ~Within(b, i) PROVE InRuns(b, new)
      <3>1. PICK r : Piece(r, j) /\ Within(b, r)
        BY <1>7, <2>2
      <3>2. r \in new
        BY <1>5, <3>1
      <3> QED BY <3>1, <3>2 DEF InRuns
    <2> QED BY <2>1, <2>2 DEF InRuns
  <1> QED BY <1>9, <1>10 DEF new

(* Where malloc finds a run, it touches nothing that is stored. *)
LEMMA FirstFitIs ==
    ASSUME Runs(used), NEW n \in Nat, Fits(n) # {}
    PROVE  /\ FirstFit(n) \in Nat /\ FirstFit(n) + Need(n) <= HeapSize
           /\ FirstFit(n) \in {0} \cup { Hi(i) : i \in used }
           /\ \A i \in used : ~Meet(<<FirstFit(n), FirstFit(n) + Need(n)>>, i)
  <1>1. Fits(n) \in SUBSET Nat
    <2>1. \A i \in used : Hi(i) \in Nat
      BY Ends DEF Runs
    <2> QED BY <2>1 DEF Fits
  <1>2. PICK a \in Fits(n) : \A b \in Fits(n) : a <= b
    BY <1>1, LeastNat
  <1>3. FirstFit(n) \in Fits(n)
    <2> DEFINE fits == Fits(n)
    <2>1. a \in fits /\ \A b \in fits : a <= b
      BY <1>2
    <2> HIDE DEF fits
    <2>2. (CHOOSE c \in fits : \A b \in fits : c <= b) \in fits
      BY <2>1
    <2> QED BY <2>2 DEF fits, FirstFit
  <1>4. FirstFit(n) \in Nat
    BY <1>1, <1>3
  <1> DEFINE c == FirstFit(n)
  <1>5. /\ c + Need(n) <= HeapSize /\ c \in {0} \cup { Hi(i) : i \in used }
        /\ \A i \in used : ~Meet(<<c, c + Need(n)>>, i)
    <2>1. c \in Fits(n)
      BY <1>3
    <2> HIDE DEF c
    <2> QED BY <2>1 DEF Fits
  <1> QED BY <1>4, <1>5
-----------------------------------------------------------------------------
(* Programs.  From which blocks a program holds, by the variables that     *)
(* point to them, to which it holds after it.                              *)
Vars == Globals \cup Locals

StepSet == [op : {"malloc", "store", "free"}, var : Vars, n : Nat]

(* What the blocks of the file system's variables are for, and the blocks  *)
(* that are freed before the function returns that took them.              *)
SizeOf(v) ==
    IF v \in {"d_inode", "f_inode", "root_inode", "e_inode", "w_inode", "l_inode"} THEN Inode
    ELSE IF v \in {"f_name", "l_name"} THEN Name
    ELSE IF v = "whole" THEN FileBuff
    ELSE IF v = "data" THEN BinBuff
    ELSE IF v = "priv" THEN Priv
    ELSE IF v = "sb" THEN SbBuff ELSE Block

Inner == {"sb", "r_buff", "d_inode", "f_inode", "f_buff", "f_name", "root_inode",
          "e_block", "wi_buff", "l_inode", "l_buff", "l_name"}

(* A command that uses root_buff has taken the inode it looks up before,   *)
(* or both read's buffer and its inode: root_buff does not get the first   *)
(* block of the heap.                                                      *)
Anchored(A) == "w_inode" \in A \/ {"whole", "e_inode"} \subseteq A

(* Blocks are as large as what they are for and root_buff is taken last;   *)
(* at most one byte goes past the end of a block, but for what is stored   *)
(* through root_buff and into read's buffer; and the anchor is freed last. *)
TameMalloc(step, A) ==
    /\ step.var # "ptr" => step.n = SizeOf(step.var)
    /\ step.var = "root_buff" => Anchored(A)
    /\ Anchored(A \cup {step.var}) =>
           Anchored(A) \/ (step.var \in {"w_inode", "e_inode"} /\ A \cap Inner = {})

TameStore(step, A) ==
    \/ step.var \in {"root_buff", "whole"}
    \/ step.var = "priv" /\ step.n = Priv
    \/ step.var \in A /\ step.n <= SizeOf(step.var) + 1

TameFree(step, A) ==
    step.var \in Inner \cup {"root_buff"} \/ ~Anchored(A \ {step.var})

Tame(step, A) ==
    /\ step.op = "malloc" => TameMalloc(step, A)
    /\ step.op = "store" => TameStore(step, A)
    /\ step.op = "free" => TameFree(step, A)

(* A step of all programs but the first probe's malloc of priv and the     *)
(* console's free: nothing is taken that is held, nothing freed that is    *)
(* not, and all of it tamely.                                              *)
Moves(step, A, B) ==
    /\ step \in StepSet /\ A \in SUBSET Vars /\ B \in SUBSET Vars
    /\ Tame(step, A)
    /\ \/ /\ step.op = "malloc" /\ step.var \notin A \cup {"priv"}
          /\ step.n > 0 \/ step.var = "ptr"
          /\ B = A \cup {step.var}
       \/ step.op = "store" /\ step.n > 0 /\ step.var # "ptr" /\ B = A
       \/ step.op = "free" /\ step.var \in A \ {"priv"} /\ B = A \ {step.var}

Along(h, prog, A, B) ==
    /\ h \in [0..Len(prog) -> SUBSET Vars]
    /\ h[0] = A /\ h[Len(prog)] = B
    /\ \A k \in 1..Len(prog) : Moves(prog[k], h[k - 1], h[k])

Path(prog, A, B) == prog \in Seq(StepSet) /\ \E h : Along(h, prog, A, B)

LEMMA Variables ==
    /\ \A v \in {"sb", "r_buff", "d_inode", "f_inode", "f_buff", "f_name", "root_inode",
                 "e_inode", "e_block", "whole", "w_inode", "wi_buff",
                 "l_inode", "l_buff", "l_name", "data", "root_buff"} :
           v \in Vars /\ v # "priv" /\ v # "ptr"
    /\ "priv" \in Vars /\ "ptr" \in Vars
  BY DEF Vars, Globals, Locals

LEMMA SizesAre ==
    /\ \A n \in {Block, Name, FileBuff, BinBuff, Inode, Priv, SbBuff} : n \in Nat \ {0}
    /\ BinBuff + 1 \in Nat \ {0}
    /\ \A n \in Over : Block + n \in Nat \ {0}
    /\ \A i \in Nat : (i + 1) * Block \in Nat \ {0}
    /\ Asked \subseteq Nat /\ Hows \subseteq {"found", "none", "root"}
    /\ Blocks \subseteq Nat /\ HeapSize \in Nat /\ Word \in Nat /\ HeapSize + 3 < Word
  <1>1. /\ HeapSize \in Nat /\ Word \in Nat /\ Block \in Nat \ {0} /\ Name \in Nat \ {0}
        /\ FileBuff \in Nat \ {0} /\ BinBuff \in Nat \ {0}
        /\ Over \subseteq Nat /\ Asked \subseteq Nat /\ Blocks \subseteq Nat
        /\ Hows \subseteq {"found", "none", "root"} /\ HeapSize + 3 < Word
    BY SizesAssumption
  <1>2. Inode \in Nat \ {0} /\ Priv \in Nat \ {0} /\ SbBuff \in Nat \ {0}
    BY DEF Inode, Priv, Superblock, SbBuff
  <1>3. \A i \in Nat : (i + 1) * Block \in Nat \ {0}
    <2> TAKE i \in Nat
    <2>1. i + 1 \in Nat \ {0}
      OBVIOUS
    <2> DEFINE m == i + 1
    <2> HIDE DEF m
    <2>2. \A a, b \in Nat \ {0} : a * b \in Nat \ {0}
      OBVIOUS
    <2>3. m * Block \in Nat \ {0}
      BY <1>1, <2>1, <2>2 DEF m
    <2> QED BY <2>3 DEF m
  <1>4. BinBuff + 1 \in Nat \ {0} /\ \A n \in Over : Block + n \in Nat \ {0}
    BY <1>1
  <1> QED BY <1>1, <1>2, <1>3, <1>4

LEMMA NewMoves ==
    ASSUME NEW v \in Vars \ {"priv"}, NEW n \in Nat, n > 0 \/ v = "ptr",
           NEW A \in SUBSET Vars, v \notin A,
           v = "ptr" \/ n = SizeOf(v), v = "root_buff" => Anchored(A),
           Anchored(A \cup {v}) =>
               Anchored(A) \/ (v \in {"w_inode", "e_inode"} /\ A \cap Inner = {})
    PROVE  Moves(New(v, n), A, A \cup {v})
  <1> DEFINE step == New(v, n)
  <1>1. step.op = "malloc" /\ step.var = v /\ step.n = n /\ step \in StepSet
    BY DEF New, StepSet
  <1> HIDE DEF step
  <1>2. Tame(step, A)
    BY <1>1 DEF Tame, TameMalloc
  <1> QED BY <1>1, <1>2 DEF Moves, step

(* The blocks of the functions below are of no account. *)
LEMMA NewInner ==
    ASSUME NEW v \in Inner, NEW n \in Nat \ {0}, n = SizeOf(v), NEW A \in SUBSET Vars, v \notin A
    PROVE  Moves(New(v, n), A, A \cup {v})
  <1>1. v \in Vars \ {"priv"} /\ v \notin {"root_buff", "w_inode", "e_inode", "whole"}
    BY DEF Inner, Vars, Globals, Locals
  <1>2. Anchored(A \cup {v}) => Anchored(A)
    BY <1>1 DEF Anchored
  <1>3. n \in Nat /\ n > 0
    OBVIOUS
  <1> QED BY <1>1, <1>2, <1>3, NewMoves

LEMMA PutMoves ==
    ASSUME NEW v \in Vars \ {"ptr"}, NEW n \in Nat \ {0}, NEW A \in SUBSET Vars,
           \/ v \in {"root_buff", "whole"}
           \/ v = "priv" /\ n = Priv
           \/ v \in A /\ n <= SizeOf(v) + 1
    PROVE  Moves(Put(v, n), A, A)
  <1> DEFINE step == Put(v, n)
  <1>1. step.op = "store" /\ step.var = v /\ step.n = n /\ step \in StepSet
    BY DEF Put, StepSet
  <1> HIDE DEF step
  <1>2. Tame(step, A)
    BY <1>1 DEF Tame, TameStore
  <1> QED BY <1>1, <1>2 DEF Moves, step

LEMMA DropMoves ==
    ASSUME NEW v \in Vars \ {"priv"}, NEW A \in SUBSET Vars, v \in A,
           v \in Inner \cup {"root_buff"} \/ ~Anchored(A \ {v})
    PROVE  Moves(Drop(v), A, A \ {v})
  <1> DEFINE step == Drop(v)
  <1>1. step.op = "free" /\ step.var = v /\ step \in StepSet
    BY DEF Drop, StepSet
  <1> HIDE DEF step
  <1>2. Tame(step, A)
    BY <1>1 DEF Tame, TameFree
  <1> QED BY <1>1, <1>2 DEF Moves, step

(* What the blocks are for fits. *)
LEMMA SizesOf ==
    /\ \A v \in {"d_inode", "f_inode", "root_inode", "e_inode", "w_inode", "l_inode"} :
           SizeOf(v) = Inode /\ Inode <= SizeOf(v) + 1
    /\ SizeOf("f_name") = Name /\ SizeOf("l_name") = Name
    /\ SizeOf("whole") = FileBuff /\ SizeOf("data") = BinBuff /\ BinBuff + 1 <= SizeOf("data") + 1
    /\ \A v \in {"r_buff", "f_buff", "root_buff", "e_block", "wi_buff", "l_buff"} :
           SizeOf(v) = Block /\ Block <= SizeOf(v) + 1
    /\ SizeOf("sb") = SbBuff
  <1>1. Inode <= Inode + 1 /\ Block <= Block + 1
    BY SizesAre
  <1>2. \A v \in {"d_inode", "f_inode", "root_inode", "e_inode", "w_inode", "l_inode"} :
            SizeOf(v) = Inode
    BY DEF SizeOf
  <1>3. \A v \in {"r_buff", "f_buff", "root_buff", "e_block", "wi_buff", "l_buff"} :
            SizeOf(v) = Block
    BY DEF SizeOf
  <1>4. SizeOf("f_name") = Name /\ SizeOf("l_name") = Name
        /\ SizeOf("whole") = FileBuff /\ SizeOf("data") = BinBuff /\ SizeOf("sb") = SbBuff
    BY DEF SizeOf
  <1>5. BinBuff + 1 <= BinBuff + 1
    BY SizesAre
  <1> QED BY <1>1, <1>2, <1>3, <1>4, <1>5

LEMMA AnchoredMore ==
    ASSUME NEW A, NEW B, A \subseteq B, Anchored(A)
    PROVE  Anchored(B)
  BY DEF Anchored

LEMMA PathEmpty ==
    ASSUME NEW A \in SUBSET Vars
    PROVE  Path(<< >>, A, A)
  <1> DEFINE h == [k \in 0..0 |-> A]
             none == << >>
  <1>1. none \in Seq(StepSet) /\ Len(none) = 0
    OBVIOUS
  <1> HIDE DEF none
  <1>2. Along(h, none, A, A)
    BY <1>1 DEF Along
  <1> QED BY <1>1, <1>2 DEF Path, none

LEMMA PathOne ==
    ASSUME NEW step, NEW A, NEW B, Moves(step, A, B)
    PROVE  Path(<<step>>, A, B)
  <1> DEFINE h == [k \in 0..1 |-> IF k = 0 THEN A ELSE B]
             one == <<step>>
  <1>1. step \in StepSet /\ A \in SUBSET Vars /\ B \in SUBSET Vars
    BY DEF Moves
  <1>2. one \in Seq(StepSet) /\ Len(one) = 1 /\ one[1] = step
    BY <1>1
  <1> HIDE DEF one
  <1>3. h \in [0..1 -> SUBSET Vars] /\ h[0] = A /\ h[1] = B
    BY <1>1
  <1> HIDE DEF h
  <1>4. Along(h, one, A, B)
    <2>1. \A k \in 1..1 : k = 1 /\ k - 1 = 0
      OBVIOUS
    <2> QED BY <1>2, <1>3, <2>1 DEF Along
  <1> QED BY <1>2, <1>4 DEF Path, one

LEMMA PathJoin ==
    ASSUME NEW p, NEW q, NEW A, NEW M, NEW B, Path(p, A, M), Path(q, M, B)
    PROVE  Path(p \o q, A, B) /\ Len(p \o q) = Len(p) + Len(q) /\ {Len(p), Len(q)} \subseteq Nat
  <1> DEFINE r == p \o q
  <1>1. p \in Seq(StepSet) /\ q \in Seq(StepSet)
    BY DEF Path
  <1>2. /\ Len(p) \in Nat /\ Len(q) \in Nat
        /\ r \in Seq(StepSet) /\ Len(r) = Len(p) + Len(q)
        /\ \A i \in 1..(Len(p) + Len(q)) : r[i] = IF i <= Len(p) THEN p[i] ELSE q[i - Len(p)]
    BY <1>1, ConcatProperties
  <1> HIDE DEF r
  <1>3. PICK g : Along(g, p, A, M)
    BY DEF Path
  <1>4. PICK h : Along(h, q, M, B)
    BY DEF Path
  <1> DEFINE f == [k \in 0..(Len(p) + Len(q)) |-> IF k <= Len(p) THEN g[k] ELSE h[k - Len(p)]]
  <1>5. /\ g \in [0..Len(p) -> SUBSET Vars] /\ g[0] = A /\ g[Len(p)] = M
        /\ \A k \in 1..Len(p) : Moves(p[k], g[k - 1], g[k])
    BY <1>3 DEF Along
  <1>6. /\ h \in [0..Len(q) -> SUBSET Vars] /\ h[0] = M /\ h[Len(q)] = B
        /\ \A k \in 1..Len(q) : Moves(q[k], h[k - 1], h[k])
    BY <1>4 DEF Along
  <1>7. \A k \in 0..(Len(p) + Len(q)) : f[k] = IF k <= Len(p) THEN g[k] ELSE h[k - Len(p)]
    OBVIOUS
  <1>8. f \in [0..(Len(p) + Len(q)) -> SUBSET Vars]
    <2>1. \A k \in 0..(Len(p) + Len(q)) :
              (IF k <= Len(p) THEN g[k] ELSE h[k - Len(p)]) \in SUBSET Vars
      <3> TAKE k \in 0..(Len(p) + Len(q))
      <3>1. CASE k <= Len(p)
        <4>1. k \in 0..Len(p)
          BY <1>2, <3>1
        <4>2. g[k] \in SUBSET Vars
          BY <1>5, <4>1
        <4> QED BY <3>1, <4>2
      <3>2. CASE ~(k <= Len(p))
        <4>1. k - Len(p) \in 0..Len(q)
          BY <1>2, <3>2
        <4>2. h[k - Len(p)] \in SUBSET Vars
          BY <1>6, <4>1
        <4> QED BY <3>2, <4>2
      <3> QED BY <3>1, <3>2
    <2> QED BY <2>1
  <1> HIDE DEF f
  <1>9. f[0] = A
    BY <1>2, <1>5, <1>7
  <1>10. \A k \in 0..Len(q) : f[Len(p) + k] = h[k]
    <2> TAKE k \in 0..Len(q)
    <2>1. Len(p) + k \in 0..(Len(p) + Len(q)) /\ (Len(p) + k) - Len(p) = k
      BY <1>2
    <2>2. CASE k = 0
      <3>1. Len(p) + k = Len(p) /\ Len(p) <= Len(p)
        BY <1>2, <2>2
      <3> QED BY <1>5, <1>6, <1>7, <2>1, <2>2, <3>1
    <2>3. CASE k # 0
      <3>1. ~(Len(p) + k <= Len(p))
        BY <1>2, <2>3
      <3> QED BY <1>7, <2>1, <3>1
    <2> QED BY <2>2, <2>3
  <1>11. f[Len(r)] = B
    <2>1. Len(q) \in 0..Len(q)
      BY <1>2
    <2> QED BY <1>2, <1>6, <1>10, <2>1
  <1>12. ASSUME NEW k \in 1..Len(r) PROVE Moves(r[k], f[k - 1], f[k])
    <2>1. k \in 1..(Len(p) + Len(q)) /\ k \in 0..(Len(p) + Len(q)) /\ k - 1 \in 0..(Len(p) + Len(q))
      BY <1>2
    <2>2. CASE k <= Len(p)
      <3>1. k - 1 <= Len(p) /\ k \in 1..Len(p)
        BY <1>2, <2>1, <2>2
      <3>2. r[k] = p[k] /\ f[k] = g[k] /\ f[k - 1] = g[k - 1]
        BY <1>2, <1>7, <2>1, <2>2, <3>1
      <3> QED BY <1>5, <3>1, <3>2
    <2>3. CASE ~(k <= Len(p))
      <3> DEFINE j == k - Len(p)
      <3>1. j \in 1..Len(q) /\ j \in 0..Len(q) /\ j - 1 \in 0..Len(q)
            /\ Len(p) + j = k /\ Len(p) + (j - 1) = k - 1
        BY <1>2, <2>1, <2>3
      <3>2. r[k] = q[j]
        BY <1>2, <2>1, <2>3
      <3> HIDE DEF j
      <3>3. f[k] = h[j] /\ f[k - 1] = h[j - 1]
        BY <1>10, <3>1
      <3> QED BY <1>6, <3>1, <3>2, <3>3
    <2> QED BY <2>2, <2>3
  <1>13. Along(f, r, A, B)
    BY <1>2, <1>8, <1>9, <1>11, <1>12 DEF Along
  <1> QED BY <1>2, <1>13 DEF Path, r

LEMMA Two ==
    ASSUME NEW S, NEW a \in S, NEW b \in S
    PROVE  <<a, b>> = <<a>> \o <<b>>
  <1>1. /\ <<a>> \in Seq(S) /\ Len(<<a>>) = 1 /\ <<a>>[1] = a
        /\ <<b>> \in Seq(S) /\ Len(<<b>>) = 1 /\ <<b>>[1] = b
        /\ <<a, b>> \in Seq(S) /\ Len(<<a, b>>) = 2 /\ <<a, b>>[1] = a /\ <<a, b>>[2] = b
    OBVIOUS
  <1> DEFINE p == <<a>>
             q == <<b>>
             r == <<a, b>>
  <1> HIDE DEF p, q, r
  <1>2. /\ p \o q \in Seq(S) /\ Len(p \o q) = 2
        /\ (p \o q)[1] = a /\ (p \o q)[2] = b
    BY <1>1, ConcatProperties DEF p, q
  <1>3. r = p \o q
    <2> DEFINE t == p \o q
    <2>1. r \in Seq(S) /\ Len(r) = 2 /\ r[1] = a /\ r[2] = b
      BY <1>1 DEF r
    <2>2. t \in Seq(S) /\ Len(t) = 2 /\ t[1] = a /\ t[2] = b
      BY <1>2
    <2> HIDE DEF t
    <2>3. \A k \in 1..2 : k = 1 \/ k = 2
      OBVIOUS
    <2>4. \A k \in 1..Len(r) : r[k] = t[k]
      BY <2>1, <2>2, <2>3
    <2>5. r = t
      BY <2>1, <2>2, <2>4, SeqEqual
    <2> QED BY <2>5 DEF t
  <1> QED BY <1>3 DEF p, q, r

LEMMA PathTwo ==
    ASSUME NEW s1, NEW s2, NEW A, NEW M, NEW B, Moves(s1, A, M), Moves(s2, M, B)
    PROVE  Path(<<s1, s2>>, A, B)
  <1>1. s1 \in StepSet /\ s2 \in StepSet
    BY DEF Moves
  <1>2. Path(<<s1>>, A, M) /\ Path(<<s2>>, M, B)
    BY PathOne
  <1>3. Path(<<s1>> \o <<s2>>, A, B)
    BY <1>2, PathJoin
  <1>4. <<s1, s2>> = <<s1>> \o <<s2>>
    BY <1>1, Two
  <1> QED BY <1>3, <1>4

LEMMA Three ==
    ASSUME NEW S, NEW a \in S, NEW b \in S, NEW c \in S
    PROVE  <<a, b, c>> = <<a, b>> \o <<c>>
  <1>1. /\ <<a, b>> \in Seq(S) /\ Len(<<a, b>>) = 2 /\ <<a, b>>[1] = a /\ <<a, b>>[2] = b
        /\ <<c>> \in Seq(S) /\ Len(<<c>>) = 1 /\ <<c>>[1] = c
        /\ <<a, b, c>> \in Seq(S) /\ Len(<<a, b, c>>) = 3
        /\ <<a, b, c>>[1] = a /\ <<a, b, c>>[2] = b /\ <<a, b, c>>[3] = c
    OBVIOUS
  <1> DEFINE p == <<a, b>>
             q == <<c>>
             r == <<a, b, c>>
  <1> HIDE DEF p, q, r
  <1>2. /\ p \o q \in Seq(S) /\ Len(p \o q) = 3
        /\ (p \o q)[1] = a /\ (p \o q)[2] = b /\ (p \o q)[3] = c
    BY <1>1, ConcatProperties DEF p, q
  <1>3. r = p \o q
    <2> DEFINE t == p \o q
    <2>1. r \in Seq(S) /\ Len(r) = 3 /\ r[1] = a /\ r[2] = b /\ r[3] = c
      BY <1>1 DEF r
    <2>2. t \in Seq(S) /\ Len(t) = 3 /\ t[1] = a /\ t[2] = b /\ t[3] = c
      BY <1>2
    <2> HIDE DEF t
    <2>3. \A k \in 1..3 : k = 1 \/ k = 2 \/ k = 3
      OBVIOUS
    <2>4. \A k \in 1..Len(r) : r[k] = t[k]
      BY <2>1, <2>2, <2>3
    <2>5. r = t
      BY <2>1, <2>2, <2>4, SeqEqual
    <2> QED BY <2>5 DEF t
  <1> QED BY <1>3 DEF p, q, r

LEMMA PathThree ==
    ASSUME NEW s1, NEW s2, NEW s3, NEW A, NEW M, NEW N, NEW B,
           Moves(s1, A, M), Moves(s2, M, N), Moves(s3, N, B)
    PROVE  Path(<<s1, s2, s3>>, A, B)
  <1>1. s1 \in StepSet /\ s2 \in StepSet /\ s3 \in StepSet
    BY DEF Moves
  <1>2. Path(<<s1, s2>>, A, N) /\ Path(<<s3>>, N, B)
    BY PathOne, PathTwo
  <1>3. Path(<<s1, s2>> \o <<s3>>, A, B)
    BY <1>2, PathJoin
  <1>4. <<s1, s2, s3>> = <<s1, s2>> \o <<s3>>
    BY <1>1, Three
  <1> QED BY <1>3, <1>4

LEMMA ReadInodePath ==
    ASSUME NEW into \in {"d_inode", "f_inode", "root_inode", "e_inode", "w_inode", "l_inode"},
           NEW A \in SUBSET Vars, into \in A, "r_buff" \notin A
    PROVE  Path(ReadInode(into), A, A)
  <1> DEFINE M == A \cup {"r_buff"}
  <1>1. /\ "r_buff" \in Vars \ {"priv"} /\ M \in SUBSET Vars /\ M \ {"r_buff"} = A
        /\ "r_buff" \in Inner /\ SizeOf("r_buff") = Block /\ Block \in Nat \ {0}
        /\ into \in Vars \ {"ptr"} /\ into \in M /\ Inode \in Nat \ {0} /\ Inode <= SizeOf(into) + 1
    BY Variables, SizesAre, SizesOf DEF Inner
  <1>2. Moves(New("r_buff", Block), A, M)
    BY <1>1, NewInner
  <1>3. Moves(Put(into, Inode), M, M)
    BY <1>1, PutMoves
  <1>4. Moves(Drop("r_buff"), M, A)
    <2>1. Moves(Drop("r_buff"), M, M \ {"r_buff"})
      BY <1>1, DropMoves
    <2> QED BY <1>1, <2>1
  <1> QED BY <1>2, <1>3, <1>4, PathThree DEF ReadInode

LEMMA WriteInodePath ==
    ASSUME NEW A \in SUBSET Vars, "wi_buff" \notin A
    PROVE  Path(WriteInode, A, A)
  <1> DEFINE M == A \cup {"wi_buff"}
  <1>1. /\ "wi_buff" \in Inner /\ SizeOf("wi_buff") = Block /\ M \in SUBSET Vars /\ M \ {"wi_buff"} = A
        /\ "wi_buff" \in Vars \ {"priv"} /\ Block \in Nat \ {0}
    BY Variables, SizesAre, SizesOf DEF Inner
  <1>2. Moves(New("wi_buff", Block), A, M)
    BY <1>1, NewInner
  <1>3. Moves(Drop("wi_buff"), M, A)
    <2>1. Moves(Drop("wi_buff"), M, M \ {"wi_buff"})
      BY <1>1, DropMoves
    <2> QED BY <1>1, <2>1
  <1> QED BY <1>2, <1>3, PathTwo DEF WriteInode

LEMMA ReadDirectoryPath ==
    ASSUME NEW hit \in BOOLEAN,
           NEW A \in SUBSET Vars, "r_buff" \notin A, "d_inode" \notin A
    PROVE  Path(ReadDirectory(hit), A, A)
  <1> DEFINE M == A \cup {"d_inode"}
             first == << New("d_inode", Inode) >>
             then == IF hit THEN ReadInode("d_inode") ELSE << >>
             last == << Drop("d_inode") >>
  <1>1. /\ "d_inode" \in Vars \ {"priv"} /\ "d_inode" \in Vars \ {"ptr"}
        /\ M \in SUBSET Vars /\ M \ {"d_inode"} = A /\ "r_buff" \notin M
        /\ "d_inode" \in Inner /\ "d_inode" \in M /\ SizeOf("d_inode") = Inode
        /\ Inode \in Nat \ {0}
    BY Variables, SizesAre, SizesOf DEF Inner
  <1>2. Path(first, A, M)
    <2>1. Moves(New("d_inode", Inode), A, M)
      BY <1>1, NewInner
    <2> QED BY <2>1, PathOne
  <1>3. Path(then, M, M)
    <2> HIDE DEF M
    <2>1. CASE hit
      <3>1. Path(ReadInode("d_inode"), M, M)
        BY <1>1, ReadInodePath
      <3> QED BY <2>1, <3>1
    <2>2. CASE ~hit
      <3>1. Path(<< >>, M, M)
        BY <1>1, PathEmpty
      <3> QED BY <2>2, <3>1
    <2> QED BY <2>1, <2>2
  <1>4. Path(last, M, A)
    <2>1. Moves(Drop("d_inode"), M, M \ {"d_inode"})
      BY <1>1, DropMoves
    <2>2. Moves(Drop("d_inode"), M, A)
      BY <1>1, <2>1
    <2> QED BY <2>2, PathOne
  <1>5. ReadDirectory(hit) = first \o then \o last
    BY DEF ReadDirectory
  <1> HIDE DEF first, then, last, M
  <1>6. Path(first \o then, A, M)
    BY <1>2, <1>3, PathJoin
  <1> QED BY <1>4, <1>5, <1>6, PathJoin

(* What a look-up takes and gives back. *)
Look == {"r_buff", "d_inode", "root_inode", "root_buff", "f_inode", "f_buff", "f_name"}

LEMMA ReadRootDirectoryPath ==
    ASSUME NEW A \in SUBSET Vars, "r_buff" \notin A, "d_inode" \notin A,
           "root_inode" \notin A, "root_buff" \notin A, Anchored(A)
    PROVE  Path(ReadRootDirectory, A, A)
  <1> DEFINE N == A \cup {"root_inode"}
             M == N \cup {"root_buff"}
             L == M \ {"root_inode"}
             p1 == << New("root_inode", Inode), New("root_buff", Block) >>
             p2 == ReadInode("root_inode")
             p3 == << Put("root_buff", Block) >>
             p4 == ReadDirectory(TRUE)
             p5 == << Drop("root_inode"), Drop("root_buff") >>
  <1>1. /\ {"root_inode", "root_buff"} \subseteq Vars \ {"priv", "ptr"}
        /\ N \in SUBSET Vars /\ M \in SUBSET Vars /\ L \in SUBSET Vars
        /\ L \ {"root_buff"} = A /\ "root_buff" \in L /\ "root_inode" \in M
        /\ "r_buff" \notin M /\ "d_inode" \notin M /\ "root_buff" \notin N
        /\ "root_inode" \in Inner /\ SizeOf("root_inode") = Inode /\ SizeOf("root_buff") = Block
        /\ Block \in Nat \ {0} /\ Block > 0 /\ Inode \in Nat \ {0}
    BY Variables, SizesAre, SizesOf DEF Inner
  <1>0. Anchored(N)
    BY AnchoredMore
  <1>2. Path(p1, A, M)
    <2>1. Moves(New("root_inode", Inode), A, N)
      BY <1>1, NewInner
    <2>2. Moves(New("root_buff", Block), N, M)
      <3> HIDE DEF N
      <3> QED BY <1>0, <1>1, NewMoves
    <2> QED BY <2>1, <2>2, PathTwo
  <1>5. Path(p5, M, A)
    <2>1. Moves(Drop("root_inode"), M, L)
      BY <1>1, DropMoves
    <2>2. Moves(Drop("root_buff"), L, L \ {"root_buff"})
      BY <1>1, DropMoves
    <2>3. Moves(Drop("root_buff"), L, A)
      BY <1>1, <2>2
    <2> QED BY <2>1, <2>3, PathTwo
  <1> HIDE DEF L, M, N
  <1>3. Path(p2, M, M) /\ Path(p4, M, M)
    BY <1>1, ReadInodePath, ReadDirectoryPath
  <1>4. Path(p3, M, M)
    <2>1. Moves(Put("root_buff", Block), M, M)
      BY <1>1, PutMoves
    <2> QED BY <2>1, PathOne
  <1>6. ReadRootDirectory = p1 \o p2 \o p3 \o p4 \o p5
    BY DEF ReadRootDirectory
  <1> HIDE DEF p1, p2, p3, p4, p5
  <1>7. Path(p1 \o p2, A, M)
    BY <1>2, <1>3, PathJoin
  <1>8. Path(p1 \o p2 \o p3, A, M)
    BY <1>4, <1>7, PathJoin
  <1>9. Path(p1 \o p2 \o p3 \o p4, A, M)
    BY <1>3, <1>8, PathJoin
  <1> QED BY <1>5, <1>6, <1>9, PathJoin

LEMMA FindPath ==
    ASSUME NEW into \in {"e_inode", "w_inode"}, NEW how \in {"found", "none", "root"},
           NEW A \in SUBSET Vars, A \cap Look = {}, into \in A, Anchored(A)
    PROVE  Path(FindFileInode(into, how), A, A)
  <1> DEFINE N1 == A \cup {"f_inode"}
             N2 == N1 \cup {"f_buff"}
             M == N2 \cup {"f_name"}
             L1 == M \ {"f_name"}
             L2 == L1 \ {"f_inode"}
             first == << New("f_inode", Inode), New("f_buff", Block), New("f_name", Name) >>
             last == << Drop("f_name"), Drop("f_inode"), Drop("f_buff") >>
             root == ReadRootDirectory \o << Put(into, Inode) >>
             none == ReadInode("f_inode") \o << Put("f_buff", Block) >> \o ReadDirectory(FALSE)
             found == ReadInode("f_inode") \o << Put("f_buff", Block) >>
                      \o ReadDirectory(TRUE) \o ReadInode("f_inode") \o << Put(into, Inode) >>
  <1>1. /\ {"f_inode", "f_buff", "f_name"} \subseteq Vars \ {"priv", "ptr"}
        /\ N1 \in SUBSET Vars /\ N2 \in SUBSET Vars /\ M \in SUBSET Vars
        /\ L1 \in SUBSET Vars /\ L2 \in SUBSET Vars
        /\ L2 \ {"f_buff"} = A /\ "f_name" \in M /\ "f_inode" \in L1 /\ "f_buff" \in L2
        /\ "f_inode" \notin A /\ "f_buff" \notin N1 /\ "f_name" \notin N2
        /\ "r_buff" \notin M /\ "d_inode" \notin M /\ "root_inode" \notin M /\ "root_buff" \notin M
        /\ Block \in Nat \ {0} /\ Block > 0 /\ Inode \in Nat \ {0} /\ Inode > 0
        /\ Name \in Nat \ {0} /\ Name > 0
        /\ into \in M /\ "f_inode" \in M /\ "f_buff" \in M /\ into \in Vars \ {"ptr"}
        /\ {"f_inode", "f_buff", "f_name"} \subseteq Inner
    BY Variables, SizesAre DEF Look, Inner
  <1>0. Anchored(M)
    BY AnchoredMore
  <1>2. Path(first, A, M)
    <2>1. Moves(New("f_inode", Inode), A, N1)
      BY <1>1, NewInner, SizesOf
    <2>2. Moves(New("f_buff", Block), N1, N2)
      BY <1>1, NewInner, SizesOf
    <2>3. Moves(New("f_name", Name), N2, M)
      BY <1>1, NewInner, SizesOf
    <2> QED BY <2>1, <2>2, <2>3, PathThree
  <1>3. Path(last, M, A)
    <2>1. Moves(Drop("f_name"), M, L1)
      BY <1>1, DropMoves
    <2>2. Moves(Drop("f_inode"), L1, L2)
      BY <1>1, DropMoves
    <2>3. Moves(Drop("f_buff"), L2, L2 \ {"f_buff"})
      BY <1>1, DropMoves
    <2>4. Moves(Drop("f_buff"), L2, A)
      BY <1>1, <2>3
    <2> QED BY <2>1, <2>2, <2>4, PathThree
  <1> HIDE DEF N1, N2, M, L1, L2
  <1>4. /\ Path(ReadInode("f_inode"), M, M)
        /\ Path(ReadDirectory(TRUE), M, M) /\ Path(ReadDirectory(FALSE), M, M)
        /\ Path(ReadRootDirectory, M, M)
    BY <1>0, <1>1, ReadInodePath, ReadDirectoryPath, ReadRootDirectoryPath
  <1>5. Path(<< Put(into, Inode) >>, M, M) /\ Path(<< Put("f_buff", Block) >>, M, M)
    <2>1. Moves(Put(into, Inode), M, M) /\ Moves(Put("f_buff", Block), M, M)
      BY <1>1, PutMoves, SizesOf
    <2> QED BY <2>1, PathOne
  <1>6. Path(root, M, M)
    BY <1>4, <1>5, PathJoin
  <1>7. Path(ReadInode("f_inode") \o << Put("f_buff", Block) >>, M, M)
    BY <1>4, <1>5, PathJoin
  <1>8. Path(none, M, M)
    BY <1>4, <1>7, PathJoin
  <1>9. Path(found, M, M)
    <2>1. Path(ReadInode("f_inode") \o << Put("f_buff", Block) >> \o ReadDirectory(TRUE), M, M)
      BY <1>4, <1>7, PathJoin
    <2>2. Path(ReadInode("f_inode") \o << Put("f_buff", Block) >> \o ReadDirectory(TRUE)
               \o ReadInode("f_inode"), M, M)
      BY <1>4, <2>1, PathJoin
    <2> QED BY <1>5, <2>2, PathJoin
  <1>10. /\ how = "root" => FindFileInode(into, how) = first \o root \o last
         /\ how = "found" => FindFileInode(into, how) = first \o found \o last
         /\ how = "none" => FindFileInode(into, how) = first \o none \o last
    <2>1. CASE how = "root"
      BY <2>1, Zenon DEF FindFileInode
    <2>2. CASE how = "found"
      BY <2>2, Zenon DEF FindFileInode
    <2>3. CASE how = "none"
      BY <2>3, Zenon DEF FindFileInode
    <2> QED BY <2>1, <2>2, <2>3
  <1> HIDE DEF first, last, root, none, found
  <1>11. ASSUME NEW body, Path(body, M, M) PROVE Path(first \o body \o last, A, A)
    <2>1. Path(first \o body, A, M)
      BY <1>2, <1>11, PathJoin
    <2> QED BY <1>3, <2>1, PathJoin
  <1> QED BY <1>6, <1>8, <1>9, <1>10, <1>11

LEMMA OneBlockPath ==
    ASSUME NEW i \in Nat, NEW A \in SUBSET Vars, "e_block" \notin A
    PROVE  Path(OneBlock(i), A, A)
  <1> DEFINE M == A \cup {"e_block"}
             n == (i + 1) * Block
  <1>1. /\ "e_block" \in Vars \ {"priv"} /\ "whole" \in Vars \ {"ptr"}
        /\ M \in SUBSET Vars /\ M \ {"e_block"} = A
        /\ "e_block" \in Inner /\ SizeOf("e_block") = Block /\ Block \in Nat \ {0} /\ n \in Nat \ {0}
    BY Variables, SizesAre, SizesOf DEF Inner
  <1>2. Moves(New("e_block", Block), A, M)
    BY <1>1, NewInner
  <1>3. Moves(Put("whole", n), M, M)
    <2> HIDE DEF n
    <2> QED BY <1>1, PutMoves
  <1>4. Moves(Drop("e_block"), M, A)
    <2>1. Moves(Drop("e_block"), M, M \ {"e_block"})
      BY <1>1, DropMoves
    <2> QED BY <1>1, <2>1
  <1> QED BY <1>2, <1>3, <1>4, PathThree DEF OneBlock

(* The blocks of a file one after the other. *)
LEMMA BlocksPath ==
    ASSUME NEW k \in Nat, NEW A \in SUBSET Vars, "e_block" \notin A
    PROVE  Path(FlattenSeq([i \in 1..k |-> OneBlock(i - 1)]), A, A)
  <1> DEFINE one(i) == OneBlock(i - 1)
             seqs == [i \in 1..k |-> one(i)]
             Flat(f, n) == f = [i \in 1..n |-> IF i = 1 THEN one(i) ELSE f[i - 1] \o one(i)]
  <1>1. \A i \in Nat \ {0} : Path(one(i), A, A)
    BY OneBlockPath
  <1>2. Len(seqs) = k /\ \A i \in 1..k : seqs[i] = one(i)
    OBVIOUS
  <1> HIDE DEF one
  <1>3. ASSUME NEW n \in Nat PROVE \E f : Flat(f, n)
    <2> DEFINE bad == { m \in Nat : ~ \E f : Flat(f, m) }
    <2>1. SUFFICES bad = {}
      OBVIOUS
    <2>2. SUFFICES ASSUME bad # {} PROVE FALSE
      OBVIOUS
    <2>3. PICK m \in bad : \A l \in bad : m <= l
      <3>1. bad \in SUBSET Nat
        OBVIOUS
      <3> HIDE DEF bad
      <3> QED BY <2>2, <3>1, LeastNat
    <2>4. m \in Nat /\ ~ \E f : Flat(f, m)
      OBVIOUS
    <2>5. CASE m = 0
      <3> DEFINE f == [i \in 1..0 |-> 0]
      <3>1. Flat(f, 0)
        OBVIOUS
      <3> QED BY <2>4, <2>5, <3>1
    <2>6. CASE m # 0
      <3>1. m - 1 \in Nat /\ m - 1 \notin bad
        <4>1. m - 1 \in Nat /\ ~(m <= m - 1)
          BY <2>4, <2>6
        <4> HIDE DEF bad
        <4> QED BY <2>3, <4>1
      <3>2. PICK f : Flat(f, m - 1)
        BY <3>1
      <3> DEFINE g == [i \in 1..m |-> IF i = 1 THEN one(i)
                                      ELSE IF i = m THEN f[m - 1] \o one(m) ELSE f[i]]
      <3>3. \A i \in 1..m : i # 1 => i - 1 \in 1..(m - 1) /\ i - 1 \in 1..m /\ i - 1 # m
        BY <2>4
      <3>4. \A i \in 1..(m - 1) : i \in 1..m /\ i # m
        BY <2>4
      <3>5. \A i \in 1..(m - 1) : f[i] = IF i = 1 THEN one(i) ELSE f[i - 1] \o one(i)
        BY <3>2
      <3>6. \A i \in 1..(m - 1) : g[i] = f[i]
        BY <3>4, <3>5
      <3>7. \A i \in 1..m : g[i] = IF i = 1 THEN one(i) ELSE g[i - 1] \o one(i)
        <4> TAKE i \in 1..m
        <4>1. CASE i = 1
          BY <4>1
        <4>2. CASE i # 1 /\ i = m
          <5>1. g[i] = f[m - 1] \o one(m) /\ g[i - 1] = f[i - 1]
            BY <3>3, <3>6, <4>2
          <5> QED BY <4>2, <5>1
        <4>3. CASE i # 1 /\ i # m
          <5>1. i \in 1..(m - 1)
            BY <2>4, <4>3
          <5>2. g[i] = f[i] /\ g[i - 1] = f[i - 1]
            BY <3>3, <3>6, <4>3, <5>1
          <5> QED BY <3>5, <4>3, <5>1, <5>2
        <4> QED BY <4>1, <4>2, <4>3
      <3>8. DOMAIN g = 1..m /\ g = [i \in 1..m |-> g[i]]
        OBVIOUS
      <3> HIDE DEF g
      <3>9. Flat(g, m)
        BY <3>7, <3>8
      <3> QED BY <2>4, <3>9
    <2> QED BY <2>5, <2>6
  <1>4. ASSUME NEW f, Flat(f, k), NEW n \in 1..k PROVE Path(f[n], A, A)
    <2> DEFINE bad == { m \in 1..k : ~Path(f[m], A, A) }
    <2>1. SUFFICES bad = {}
      OBVIOUS
    <2>2. SUFFICES ASSUME bad # {} PROVE FALSE
      OBVIOUS
    <2>3. PICK m \in bad : \A l \in bad : m <= l
      <3>1. bad \in SUBSET Nat
        OBVIOUS
      <3> HIDE DEF bad
      <3> QED BY <2>2, <3>1, LeastNat
    <2>4. m \in 1..k /\ ~Path(f[m], A, A) /\ m \in Nat \ {0}
      OBVIOUS
    <2>5. f[m] = IF m = 1 THEN one(m) ELSE f[m - 1] \o one(m)
      BY <1>4, <2>4
    <2>6. CASE m = 1
      BY <1>1, <2>4, <2>5, <2>6
    <2>7. CASE m # 1
      <3>1. m - 1 \in 1..k /\ m - 1 \notin bad
        BY <2>3, <2>4, <2>7
      <3>2. Path(f[m - 1], A, A) /\ Path(one(m), A, A)
        BY <1>1, <2>4, <3>1
      <3> QED BY <2>4, <2>5, <2>7, <3>2, PathJoin
    <2> QED BY <2>6, <2>7
  <1>5. CASE k = 0
    <2>1. FlattenSeq(seqs) = seqs
      BY <1>2, <1>5 DEF FlattenSeq
    <2>2. seqs = << >>
      BY <1>5
    <2>3. Path(<< >>, A, A)
      BY PathEmpty
    <2> QED BY <2>1, <2>2, <2>3 DEF one
  <1>6. CASE k # 0
    <2> DEFINE flat == CHOOSE f : f = [i \in 1..k |->
                           IF i = 1 THEN seqs[i] ELSE f[i - 1] \o seqs[i]]
    <2>1. FlattenSeq(seqs) = flat[k]
      BY <1>2, <1>6 DEF FlattenSeq
    <2>2. \A f : Flat(f, k) <=> f = [i \in 1..k |-> IF i = 1 THEN seqs[i] ELSE f[i - 1] \o seqs[i]]
      BY <1>2
    <2>3. Flat(flat, k)
      <3> HIDE DEF Flat, seqs
      <3>1. PICK f : Flat(f, k)
        BY <1>3
      <3>2. f = [i \in 1..k |-> IF i = 1 THEN seqs[i] ELSE f[i - 1] \o seqs[i]]
        BY <2>2, <3>1
      <3>3. flat = [i \in 1..k |-> IF i = 1 THEN seqs[i] ELSE flat[i - 1] \o seqs[i]]
        BY <3>2
      <3> HIDE DEF flat
      <3> QED BY <2>2, <3>3
    <2> HIDE DEF flat, Flat
    <2>4. k \in 1..k
      BY <1>6
    <2>5. Path(flat[k], A, A)
      BY <1>4, <2>3, <2>4
    <2> QED BY <2>1, <2>5 DEF one
  <1> QED BY <1>5, <1>6

LEMMA ReadFilePath ==
    ASSUME NEW how \in {"found", "none", "root"}, NEW k \in Nat, NEW A \in SUBSET Vars,
           A \cap (Look \cup {"e_inode", "e_block"}) = {},
           "whole" \in A, "w_inode" \notin A, A \cap Inner = {}
    PROVE  Path(ReadFile(how, k), A, IF how = "found" THEN A ELSE A \cup {"e_inode"})
  <1> DEFINE M == A \cup {"e_inode"}
             first == << New("e_inode", Inode) >>
             look == FindFileInode("e_inode", how)
             all == FlattenSeq([i \in 1..k |-> OneBlock(i - 1)])
             last == << Drop("e_inode") >>
  <1>1. /\ "e_inode" \in Vars \ {"priv"} /\ "e_inode" \in Vars \ {"ptr"}
        /\ M \in SUBSET Vars /\ M \cap Look = {} /\ M \ {"e_inode"} = A /\ "e_block" \notin M
        /\ Inode \in Nat /\ Inode > 0 /\ how \in {"found", "none", "root"}
        /\ "e_inode" \in M /\ Anchored(M) /\ ~Anchored(A) /\ SizeOf("e_inode") = Inode
    BY Variables, SizesAre, SizesOf DEF Look, Anchored
  <1>2. Path(first, A, M)
    <2>1. Moves(New("e_inode", Inode), A, M)
      BY <1>1, NewMoves
    <2> QED BY <2>1, PathOne
  <1>3. Path(last, M, A)
    <2>1. Moves(Drop("e_inode"), M, M \ {"e_inode"})
      BY <1>1, DropMoves
    <2>2. Moves(Drop("e_inode"), M, A)
      BY <1>1, <2>1
    <2> QED BY <2>2, PathOne
  <1>4. /\ how = "found" => ReadFile(how, k) = first \o look \o (all \o last)
        /\ how # "found" => ReadFile(how, k) = first \o look \o << >>
    BY DEF ReadFile
  <1>5. M = A \cup {"e_inode"}
    OBVIOUS
  <1> HIDE DEF M
  <1>6. Path(look, M, M) /\ Path(all, M, M) /\ Path(<< >>, M, M)
    BY <1>1, FindPath, BlocksPath, PathEmpty
  <1> HIDE DEF first, look, all, last
  <1>7. Path(first \o look, A, M)
    BY <1>2, <1>6, PathJoin
  <1>8. Path(all \o last, M, A)
    BY <1>3, <1>6, PathJoin
  <1>9. Path(first \o look \o (all \o last), A, A) /\ Path(first \o look \o << >>, A, M)
    BY <1>6, <1>7, <1>8, PathJoin
  <1> QED BY <1>4, <1>5, <1>9

LEMMA ReadPath ==
    ASSUME NEW how \in {"found", "none", "root"}, NEW k \in Nat, NEW A \in SUBSET Vars,
           A \cap (Look \cup {"e_inode", "e_block", "whole"}) = {},
           "w_inode" \notin A, A \cap Inner = {}
    PROVE  /\ Path(Read(how, k), A, IF how = "found" THEN A ELSE A \cup {"e_inode"})
           /\ Len(Read(how, k)) > 0
  <1> DEFINE M == A \cup {"whole"}
             B == IF how = "found" THEN A ELSE A \cup {"e_inode"}
             N == IF how = "found" THEN M ELSE M \cup {"e_inode"}
             first == << New("whole", FileBuff) >>
             file == ReadFile(how, k)
             last == << Drop("whole") >>
  <1>1. /\ "whole" \in Vars \ {"priv"} /\ "e_inode" \in Vars
        /\ M \in SUBSET Vars /\ N \in SUBSET Vars /\ N \ {"whole"} = B /\ "whole" \in N
        /\ M \cap (Look \cup {"e_inode", "e_block"}) = {}
        /\ FileBuff \in Nat /\ FileBuff > 0 /\ SizeOf("whole") = FileBuff
        /\ "whole" \in M /\ "w_inode" \notin M /\ M \cap Inner = {}
        /\ ~Anchored(M) /\ ~Anchored(N \ {"whole"})
    BY Variables, SizesAre, SizesOf DEF Look, Anchored, Inner
  <1>2. Path(first, A, M)
    <2>1. Moves(New("whole", FileBuff), A, M)
      BY <1>1, NewMoves
    <2> QED BY <2>1, PathOne
  <1>3. Path(file, M, N)
    <2> HIDE DEF M
    <2> QED BY <1>1, ReadFilePath
  <1>4. Path(last, N, B)
    <2>1. Moves(Drop("whole"), N, N \ {"whole"})
      <3> HIDE DEF N
      <3> QED BY <1>1, DropMoves
    <2>2. Moves(Drop("whole"), N, B)
      BY <1>1, <2>1
    <2> QED BY <2>2, PathOne
  <1>5. Read(how, k) = first \o file \o last /\ Len(last) = 1
    BY DEF Read
  <1> HIDE DEF B, M, N, first, file, last
  <1>6. Path(first \o file, A, N)
    BY <1>2, <1>3, PathJoin
  <1>7. Path(first \o file \o last, A, B)
        /\ Len(first \o file \o last) = Len(first \o file) + Len(last)
        /\ {Len(first \o file), Len(last)} \subseteq Nat
    BY <1>4, <1>6, PathJoin
  <1>8. Len(first \o file \o last) > 0
    BY <1>5, <1>7
  <1> QED BY <1>5, <1>7, <1>8 DEF B

LEMMA LoadBinPath ==
    ASSUME NEW how \in {"found", "none", "root"}, NEW k \in Nat
    PROVE  /\ Path(LoadBin(how, k), {}, IF how = "found" THEN {"data"} ELSE {"data", "e_inode"})
           /\ Len(LoadBin(how, k)) > 0
  <1> DEFINE M == {"data"}
             B == IF how = "found" THEN {"data"} ELSE {"data", "e_inode"}
             first == << New("data", BinBuff) >>
             read == Read(how, k)
             last == IF how = "found" THEN << Put("data", BinBuff + 1) >> ELSE << >>
  <1>1. /\ "data" \in Vars \ {"priv"} /\ "data" \in Vars \ {"ptr"} /\ "e_inode" \in Vars
        /\ M \in SUBSET Vars /\ B \in SUBSET Vars /\ {} \in SUBSET Vars /\ {} \cup {"data"} = M
        /\ B = IF how = "found" THEN M ELSE M \cup {"e_inode"}
        /\ M \cap (Look \cup {"e_inode", "e_block", "whole"}) = {}
        /\ BinBuff \in Nat /\ BinBuff > 0 /\ BinBuff + 1 \in Nat \ {0}
        /\ "w_inode" \notin M /\ M \cap Inner = {} /\ "data" \in B
        /\ SizeOf("data") = BinBuff /\ BinBuff + 1 <= SizeOf("data") + 1 /\ ~Anchored(M)
    BY Variables, SizesAre, SizesOf DEF Look, Inner, Anchored
  <1>2. Path(first, {}, M)
    <2>1. Moves(New("data", BinBuff), {}, {} \cup {"data"})
      BY <1>1, NewMoves
    <2>2. Moves(New("data", BinBuff), {}, M)
      BY <1>1, <2>1
    <2> QED BY <2>2, PathOne
  <1>3. Path(read, M, B) /\ Len(read) > 0
    <2> HIDE DEF M, B
    <2> QED BY <1>1, ReadPath
  <1>4. Path(last, B, B)
    <2> HIDE DEF B
    <2>1. CASE how = "found"
      <3>1. Moves(Put("data", BinBuff + 1), B, B)
        BY <1>1, PutMoves
      <3> QED BY <2>1, <3>1, PathOne
    <2>2. CASE how # "found"
      BY <1>1, <2>2, PathEmpty
    <2> QED BY <2>1, <2>2
  <1>5. LoadBin(how, k) = first \o read \o last
    BY DEF LoadBin
  <1> HIDE DEF B, M, first, read, last
  <1>6. Path(first \o read, {}, B) /\ Len(first \o read) = Len(first) + Len(read)
        /\ {Len(first), Len(read)} \subseteq Nat
    BY <1>2, <1>3, PathJoin
  <1>7. Path(first \o read \o last, {}, B)
        /\ Len(first \o read \o last) = Len(first \o read) + Len(last)
        /\ {Len(first \o read), Len(last)} \subseteq Nat
    BY <1>4, <1>6, PathJoin
  <1>8. Len(first \o read \o last) > 0
    <2> DEFINE a == Len(first)
               b == Len(read)
               c == Len(last)
               d == Len(first \o read)
               e == Len(first \o read \o last)
    <2>1. a \in Nat /\ b \in Nat /\ c \in Nat /\ d = a + b /\ e = d + c /\ b > 0
      BY <1>3, <1>6, <1>7
    <2> HIDE DEF a, b, c, d, e
    <2>2. e > 0
      BY <2>1
    <2> QED BY <2>2 DEF e
  <1> QED BY <1>5, <1>7, <1>8 DEF B

LEMMA ListPath ==
    ASSUME NEW how \in {"found", "none", "root"}
    PROVE  Path(List(how), {}, {}) /\ Len(List(how)) > 0
  <1> DEFINE N1 == {"l_inode"}
             N2 == {"l_inode", "l_buff"}
             M == {"l_inode", "l_buff", "l_name"}
             D == {"l_inode", "l_buff", "l_name", "d_inode"}
             first == << New("l_inode", Inode), New("l_buff", Block), New("l_name", Name) >>
             last == << Drop("l_name"), Drop("l_inode"), Drop("l_buff") >>
             read == ReadInode("l_inode")
             put == << Put("l_buff", Block) >>
             in == ListInDirectory
             found == ReadDirectory(TRUE) \o ReadInode("l_inode") \o put \o in
             none == ReadDirectory(FALSE)
  <1>1. /\ {"l_inode", "l_buff", "l_name", "d_inode"} \subseteq Vars \ {"priv", "ptr"}
        /\ {} \in SUBSET Vars /\ N1 \in SUBSET Vars /\ N2 \in SUBSET Vars
        /\ M \in SUBSET Vars /\ D \in SUBSET Vars
        /\ N1 = {} \cup {"l_inode"} /\ N2 = N1 \cup {"l_buff"} /\ M = N2 \cup {"l_name"}
        /\ D = M \cup {"d_inode"} /\ D \ {"d_inode"} = M
        /\ M \ {"l_name"} = N2 /\ N2 \ {"l_inode"} = {"l_buff"} /\ {"l_buff"} \ {"l_buff"} = {}
        /\ "l_inode" \notin {} /\ "l_buff" \notin N1 /\ "l_name" \notin N2 /\ "d_inode" \notin M
        /\ "l_name" \in M /\ "l_inode" \in N2 /\ "l_buff" \in {"l_buff"} /\ "d_inode" \in D
        /\ {"l_buff"} \in SUBSET Vars
        /\ "r_buff" \notin M /\ "r_buff" \notin D
        /\ Block \in Nat \ {0} /\ Block > 0 /\ Inode \in Nat \ {0} /\ Inode > 0
        /\ Name \in Nat \ {0} /\ Name > 0 /\ how \in {"found", "none", "root"}
        /\ {"l_inode", "l_buff", "l_name", "d_inode"} \subseteq Inner
        /\ "l_inode" \in M /\ "l_buff" \in M
    BY Variables, SizesAre DEF Inner
  <1> HIDE DEF N1, N2, M, D
  <1>2. Path(first, {}, M)
    <2>1. Moves(New("l_inode", Inode), {}, N1)
      <3>1. Moves(New("l_inode", Inode), {}, {} \cup {"l_inode"})
        BY <1>1, NewInner, SizesOf
      <3> QED BY <1>1, <3>1
    <2>2. Moves(New("l_buff", Block), N1, N2)
      <3>1. Moves(New("l_buff", Block), N1, N1 \cup {"l_buff"})
        BY <1>1, NewInner, SizesOf
      <3> QED BY <1>1, <3>1
    <2>3. Moves(New("l_name", Name), N2, M)
      <3>1. Moves(New("l_name", Name), N2, N2 \cup {"l_name"})
        BY <1>1, NewInner, SizesOf
      <3> QED BY <1>1, <3>1
    <2> QED BY <2>1, <2>2, <2>3, PathThree
  <1>3. Path(last, M, {})
    <2>1. Moves(Drop("l_name"), M, N2)
      <3>1. Moves(Drop("l_name"), M, M \ {"l_name"})
        BY <1>1, DropMoves
      <3> QED BY <1>1, <3>1
    <2>2. Moves(Drop("l_inode"), N2, {"l_buff"})
      <3>1. Moves(Drop("l_inode"), N2, N2 \ {"l_inode"})
        BY <1>1, DropMoves
      <3> QED BY <1>1, <3>1
    <2>3. Moves(Drop("l_buff"), {"l_buff"}, {})
      <3>1. Moves(Drop("l_buff"), {"l_buff"}, {"l_buff"} \ {"l_buff"})
        BY <1>1, DropMoves
      <3> QED BY <1>1, <3>1
    <2> QED BY <2>1, <2>2, <2>3, PathThree
  <1>4. Path(put, M, M)
    <2>1. Moves(Put("l_buff", Block), M, M)
      BY <1>1, PutMoves, SizesOf
    <2> QED BY <2>1, PathOne
  <1>5. /\ Path(read, M, M) /\ Path(ReadInode("l_inode"), M, M) /\ Path(ReadInode("d_inode"), D, D)
        /\ Path(ReadDirectory(TRUE), M, M) /\ Path(none, M, M)
    BY <1>1, ReadInodePath, ReadDirectoryPath
  <1>6. Path(in, M, M)
    <2> DEFINE a == << New("d_inode", Inode) >>
               b == ReadInode("d_inode")
               c == << Drop("d_inode") >>
    <2>1. Path(a, M, D)
      <3>1. Moves(New("d_inode", Inode), M, M \cup {"d_inode"})
        BY <1>1, NewInner, SizesOf
      <3>2. Moves(New("d_inode", Inode), M, D)
        BY <1>1, <3>1
      <3> QED BY <3>2, PathOne
    <2>2. Path(c, D, M)
      <3>1. Moves(Drop("d_inode"), D, D \ {"d_inode"})
        BY <1>1, DropMoves
      <3>2. Moves(Drop("d_inode"), D, M)
        BY <1>1, <3>1
      <3> QED BY <3>2, PathOne
    <2>3. in = a \o b \o c
      BY DEF ListInDirectory
    <2> HIDE DEF a, c
    <2>4. Path(a \o b, M, D)
      BY <1>5, <2>1, PathJoin
    <2>5. Path(a \o b \o c, M, M)
      BY <2>2, <2>4, PathJoin
    <2> QED BY <2>3, <2>5
  <1>7. Path(found, M, M)
    <2>1. Path(ReadDirectory(TRUE) \o ReadInode("l_inode"), M, M)
      BY <1>5, PathJoin
    <2>2. Path(ReadDirectory(TRUE) \o ReadInode("l_inode") \o put, M, M)
      BY <1>4, <2>1, PathJoin
    <2> QED BY <1>6, <2>2, PathJoin
  <1>8. /\ how = "root" => List(how) = first \o read \o put \o in \o last
        /\ how = "found" => List(how) = first \o read \o put \o found \o last
        /\ how = "none" => List(how) = first \o read \o put \o none \o last
    <2>1. CASE how = "root"
      BY <2>1, Zenon DEF List
    <2>2. CASE how = "found"
      BY <2>2, Zenon DEF List
    <2>3. CASE how = "none"
      BY <2>3, Zenon DEF List
    <2> QED BY <2>1, <2>2, <2>3
  <1>9. Len(last) = 3
    OBVIOUS
  <1> HIDE DEF first, last, read, put, in, found, none
  <1>10. ASSUME NEW inner, Path(inner, M, M)
         PROVE  /\ Path(first \o read \o put \o inner \o last, {}, {})
                /\ Len(first \o read \o put \o inner \o last) > 0
    <2>1. Path(first \o read, {}, M)
      BY <1>2, <1>5, PathJoin
    <2>2. Path(first \o read \o put, {}, M)
      BY <1>4, <2>1, PathJoin
    <2>3. Path(first \o read \o put \o inner, {}, M)
      BY <1>10, <2>2, PathJoin
    <2> DEFINE all == first \o read \o put \o inner
    <2> HIDE DEF all
    <2>4. Path(all \o last, {}, {}) /\ Len(all \o last) = Len(all) + Len(last)
          /\ {Len(all), Len(last)} \subseteq Nat
      BY <1>3, <2>3, PathJoin DEF all
    <2>5. Len(all \o last) > 0
      BY <1>9, <2>4
    <2> QED BY <2>4, <2>5 DEF all
  <1>11. CASE how = "root"
    <2>1. List(how) = first \o read \o put \o in \o last
      BY <1>8, <1>11
    <2> QED BY <1>6, <1>10, <2>1
  <1>12. CASE how = "found"
    <2>1. List(how) = first \o read \o put \o found \o last
      BY <1>8, <1>12
    <2> QED BY <1>7, <1>10, <2>1
  <1>13. CASE how = "none"
    <2>1. List(how) = first \o read \o put \o none \o last
      BY <1>8, <1>13
    <2> QED BY <1>5, <1>10, <2>1
  <1> QED BY <1>1, <1>11, <1>12, <1>13

LEMMA WriteFreshPath ==
    ASSUME NEW how \in {"found", "none", "root"}
    PROVE  Path(WriteFresh(how), {}, {}) /\ Len(WriteFresh(how)) > 0
  <1> DEFINE M == {"w_inode"}
             first == << New("w_inode", Inode) >>
             look == FindFileInode("w_inode", how)
             read == ReadInode("w_inode")
             write == WriteInode
             last == << Put("root_buff", Block), Drop("w_inode") >>
  <1>1. /\ "w_inode" \in Vars \ {"priv"} /\ "w_inode" \in Vars \ {"ptr"}
        /\ "root_buff" \in Vars \ {"ptr"} /\ how \in {"found", "none", "root"}
        /\ M \in SUBSET Vars /\ {} \in SUBSET Vars /\ {} \cup {"w_inode"} = M
        /\ M \ {"w_inode"} = {} /\ "w_inode" \in M /\ "w_inode" \notin {}
        /\ M \cap Look = {} /\ "r_buff" \notin M /\ "wi_buff" \notin M
        /\ Block \in Nat \ {0} /\ Inode \in Nat /\ Inode > 0 /\ SizeOf("w_inode") = Inode
        /\ "w_inode" \in M /\ Anchored(M) /\ ~Anchored({}) /\ {} \cap Inner = {}
    BY Variables, SizesAre, SizesOf DEF Look, Anchored, Inner
  <1> HIDE DEF M
  <1>2. Path(first, {}, M)
    <2>1. Moves(New("w_inode", Inode), {}, {} \cup {"w_inode"})
      BY <1>1, NewMoves
    <2>2. Moves(New("w_inode", Inode), {}, M)
      BY <1>1, <2>1
    <2> QED BY <2>2, PathOne
  <1>3. Path(look, M, M) /\ Path(read, M, M) /\ Path(write, M, M)
    BY <1>1, FindPath, ReadInodePath, WriteInodePath
  <1>4. Moves(Put("root_buff", Block), M, M)
    BY <1>1, PutMoves
  <1>5. Path(AllocBlock, M, M)
    BY <1>4, PathTwo DEF AllocBlock
  <1>6. Path(last, M, {})
    <2>1. Moves(Drop("w_inode"), M, M \ {"w_inode"})
      BY <1>1, DropMoves
    <2>2. Moves(Drop("w_inode"), M, {})
      BY <1>1, <2>1
    <2> QED BY <1>4, <2>2, PathTwo
  <1>7. WriteFresh(how) = first \o look \o read \o AllocBlock \o write \o last /\ Len(last) = 2
    BY DEF WriteFresh
  <1> HIDE DEF first, look, read, write, last
  <1>8. Path(first \o look, {}, M)
    BY <1>2, <1>3, PathJoin
  <1>9. Path(first \o look \o read, {}, M)
    BY <1>3, <1>8, PathJoin
  <1>10. Path(first \o look \o read \o AllocBlock, {}, M)
    BY <1>5, <1>9, PathJoin
  <1>11. Path(first \o look \o read \o AllocBlock \o write, {}, M)
    BY <1>3, <1>10, PathJoin
  <1> DEFINE all == first \o look \o read \o AllocBlock \o write
  <1> HIDE DEF all
  <1>12. Path(all \o last, {}, {}) /\ Len(all \o last) = Len(all) + Len(last)
         /\ {Len(all), Len(last)} \subseteq Nat
    BY <1>6, <1>11, PathJoin DEF all
  <1>13. Len(all \o last) > 0
    BY <1>7, <1>12
  <1> QED BY <1>7, <1>12, <1>13 DEF all

LEMMA WriteAppendPath ==
    ASSUME NEW how \in {"found", "none", "root"}, NEW over \in Over
    PROVE  Path(WriteAppend(how, over), {}, {}) /\ Len(WriteAppend(how, over)) > 0
  <1> DEFINE M == {"w_inode"}
             N == {"w_inode", "root_buff"}
             first == << New("w_inode", Inode) >>
             look == FindFileInode("w_inode", how)
             read == ReadInode("w_inode")
             buff == << New("root_buff", Block), Put("root_buff", Block),
                        Put("root_buff", Block + over) >>
             write == WriteInode
             last == << Drop("w_inode"), Drop("root_buff") >>
  <1>1. /\ {"w_inode", "root_buff"} \subseteq Vars \ {"priv", "ptr"}
        /\ how \in {"found", "none", "root"}
        /\ M \in SUBSET Vars /\ N \in SUBSET Vars /\ {} \in SUBSET Vars
        /\ {} \cup {"w_inode"} = M /\ M \cup {"root_buff"} = N
        /\ N \ {"w_inode"} = {"root_buff"} /\ {"root_buff"} \ {"root_buff"} = {}
        /\ {"root_buff"} \in SUBSET Vars /\ "root_buff" \in {"root_buff"}
        /\ "w_inode" \in N /\ "w_inode" \notin {} /\ "root_buff" \notin M
        /\ M \cap Look = {} /\ "r_buff" \notin M /\ "wi_buff" \notin N
        /\ Block \in Nat \ {0} /\ Block > 0 /\ Block + over \in Nat \ {0}
        /\ Inode \in Nat /\ Inode > 0 /\ SizeOf("w_inode") = Inode
        /\ "w_inode" \in M /\ Anchored(M) /\ ~Anchored({}) /\ {} \cap Inner = {}
        /\ ~Anchored({"root_buff"}) /\ SizeOf("root_buff") = Block
    BY Variables, SizesAre, SizesOf DEF Look, Anchored, Inner
  <1> HIDE DEF M, N
  <1>2. Path(first, {}, M)
    <2>1. Moves(New("w_inode", Inode), {}, {} \cup {"w_inode"})
      BY <1>1, NewMoves
    <2>2. Moves(New("w_inode", Inode), {}, M)
      BY <1>1, <2>1
    <2> QED BY <2>2, PathOne
  <1>3. Path(look, M, M) /\ Path(read, M, M) /\ Path(write, N, N)
    BY <1>1, FindPath, ReadInodePath, WriteInodePath
  <1>4. Path(buff, M, N)
    <2>1. Moves(New("root_buff", Block), M, M \cup {"root_buff"})
      BY <1>1, NewMoves
    <2>2. Moves(New("root_buff", Block), M, N)
      BY <1>1, <2>1
    <2>3. Moves(Put("root_buff", Block), N, N) /\ Moves(Put("root_buff", Block + over), N, N)
      BY <1>1, PutMoves
    <2> QED BY <2>2, <2>3, PathThree
  <1>6. Path(last, N, {})
    <2>1. Moves(Drop("w_inode"), N, N \ {"w_inode"})
      BY <1>1, DropMoves
    <2>2. Moves(Drop("w_inode"), N, {"root_buff"})
      BY <1>1, <2>1
    <2>3. Moves(Drop("root_buff"), {"root_buff"}, {"root_buff"} \ {"root_buff"})
      BY <1>1, DropMoves
    <2>4. Moves(Drop("root_buff"), {"root_buff"}, {})
      BY <1>1, <2>3
    <2> QED BY <2>2, <2>4, PathTwo
  <1>7. WriteAppend(how, over) = first \o look \o read \o buff \o write \o last /\ Len(last) = 2
    BY DEF WriteAppend
  <1> HIDE DEF first, look, read, buff, write, last
  <1>8. Path(first \o look, {}, M)
    BY <1>2, <1>3, PathJoin
  <1>9. Path(first \o look \o read, {}, M)
    BY <1>3, <1>8, PathJoin
  <1>10. Path(first \o look \o read \o buff, {}, N)
    BY <1>4, <1>9, PathJoin
  <1>11. Path(first \o look \o read \o buff \o write, {}, N)
    BY <1>3, <1>10, PathJoin
  <1> DEFINE all == first \o look \o read \o buff \o write
  <1> HIDE DEF all
  <1>12. Path(all \o last, {}, {}) /\ Len(all \o last) = Len(all) + Len(last)
         /\ {Len(all), Len(last)} \subseteq Nat
    BY <1>6, <1>11, PathJoin DEF all
  <1>13. Len(all \o last) > 0
    BY <1>7, <1>12
  <1> QED BY <1>7, <1>12, <1>13 DEF all

(* What the steps of a command move between: two of them are not as the    *)
(* others.                                                                 *)
Going(c, k, A, B) ==
    \/ Moves(Steps(c)[k], A, B)
    \/ /\ c = Plain("boot") /\ k = 2 /\ Steps(c)[k] = New("priv", Priv)
       /\ A = {"sb"} /\ B = {"sb"}
    \/ c = Plain("free") /\ Steps(c)[k] = Drop("ptr") /\ A = {} /\ B = {}

Left == {"ptr", "e_inode", "data"}

Tour(h, c) ==
    /\ Steps(c) \in Seq(StepSet) /\ Len(Steps(c)) \in Nat \ {0}
    /\ h \in [0..Len(Steps(c)) -> SUBSET Vars]
    /\ h[0] = {} /\ h[Len(Steps(c))] \subseteq Left
    /\ \A k \in 1..Len(Steps(c)) : Going(c, k, h[k - 1], h[k])

(* The variables whose blocks a command holds between its steps. *)
Chain(c) == CHOOSE h : Tour(h, c)

LEMMA TourOfPath ==
    ASSUME NEW c, NEW B, B \subseteq Left, Path(Steps(c), {}, B), Len(Steps(c)) > 0
    PROVE  \E h : Tour(h, c)
  <1> DEFINE prog == Steps(c)
  <1>1. prog \in Seq(StepSet)
    BY DEF Path
  <1>2. PICK h : Along(h, prog, {}, B)
    BY DEF Path
  <1>3. Len(prog) \in Nat \ {0}
    BY <1>1
  <1>4. Tour(h, c)
    <2> HIDE DEF prog
    <2> QED BY <1>1, <1>2, <1>3 DEF Tour, Going, Along, prog
  <1> QED BY <1>4

LEMMA CommandIs ==
    ASSUME NEW c \in Commands
    PROVE  \/ \E name \in {"none", "boot", "reboot", "read", "free"} : c = <<name, "none", 0>>
           \/ \E k \in Blocks : c = <<"read", "found", k>>
           \/ \E name \in {"load bin", "ls", "write"}, how \in Hows : c = <<name, how, 0>>
           \/ \E how \in Hows, over \in Over : c = <<"append", how, over>>
           \/ \E n \in Asked : c = <<"malloc", "none", n>>
  <1>1. CASE c = None \/ c \in { Plain(name) : name \in {"boot", "reboot", "read", "free"} }
    BY <1>1 DEF None, Plain
  <1>2. CASE c \in {"read"} \X {"found"} \X Blocks
    <2>1. \E x \in {"read"}, y \in {"found"}, k \in Blocks : c = <<x, y, k>>
      BY <1>2
    <2> QED BY <2>1
  <1>3. CASE c \in {"load bin", "ls", "write"} \X Hows \X {0}
    <2>1. \E x \in {"load bin", "ls", "write"}, y \in Hows, k \in {0} : c = <<x, y, k>>
      <3> DEFINE names == {"load bin", "ls", "write"}
      <3>1. c \in names \X Hows \X {0}
        BY <1>3
      <3> HIDE DEF names
      <3>2. \E x \in names, y \in Hows, k \in {0} : c = <<x, y, k>>
        BY <3>1
      <3> QED BY <3>2 DEF names
    <2> QED BY <2>1
  <1>4. CASE c \in {"append"} \X Hows \X Over
    <2>1. \E x \in {"append"}, y \in Hows, k \in Over : c = <<x, y, k>>
      BY <1>4
    <2> QED BY <2>1
  <1>5. CASE c \in {"malloc"} \X {"none"} \X Asked
    <2>1. \E x \in {"malloc"}, y \in {"none"}, k \in Asked : c = <<x, y, k>>
      BY <1>5
    <2> QED BY <2>1
  <1> QED BY <1>1, <1>2, <1>3, <1>4, <1>5 DEF Commands

LEMMA StepsAre ==
    ASSUME NEW c
    PROVE  /\ c[1] = "boot" => Steps(c) = Probe(FALSE)
           /\ c[1] = "reboot" => Steps(c) = Probe(TRUE)
           /\ c[1] = "read" => Steps(c) = Read(c[2], c[3])
           /\ c[1] = "load bin" => Steps(c) = LoadBin(c[2], 2)
           /\ c[1] = "ls" => Steps(c) = List(c[2])
           /\ c[1] = "write" => Steps(c) = WriteFresh(c[2])
           /\ c[1] = "append" => Steps(c) = WriteAppend(c[2], c[3])
           /\ c[1] = "malloc" => Steps(c) = << New("ptr", c[3]) >>
           /\ c[1] = "free" => Steps(c) = << Drop("ptr") >>
  <1>1. c[1] = "boot" => Steps(c) = Probe(FALSE)
    BY Zenon DEF Steps
  <1>2. c[1] = "reboot" => Steps(c) = Probe(TRUE)
    BY Zenon DEF Steps
  <1>3. c[1] = "read" => Steps(c) = Read(c[2], c[3])
    BY Zenon DEF Steps
  <1>4. c[1] = "load bin" => Steps(c) = LoadBin(c[2], 2)
    BY Zenon DEF Steps
  <1>5. c[1] = "ls" => Steps(c) = List(c[2])
    BY Zenon DEF Steps
  <1>6. c[1] = "write" => Steps(c) = WriteFresh(c[2])
    BY Zenon DEF Steps
  <1>7. c[1] = "append" => Steps(c) = WriteAppend(c[2], c[3])
    BY Zenon DEF Steps
  <1>8. c[1] = "malloc" => Steps(c) = << New("ptr", c[3]) >>
    BY Zenon DEF Steps
  <1>9. c[1] = "free" => Steps(c) = << Drop("ptr") >>
    BY Zenon DEF Steps
  <1> QED BY <1>1, <1>2, <1>3, <1>4, <1>5, <1>6, <1>7, <1>8, <1>9

LEMMA TwoTwo ==
    ASSUME NEW S, NEW a \in S, NEW b \in S, NEW c \in S, NEW d \in S
    PROVE  LET t == <<a>> \o <<b>> \o <<c, d>>
           IN  /\ t \in Seq(S) /\ Len(t) = 4
               /\ t[1] = a /\ t[2] = b /\ t[3] = c /\ t[4] = d
  <1> DEFINE p == <<a, b>>
             q == <<c, d>>
  <1>1. /\ p \in Seq(S) /\ Len(p) = 2 /\ p[1] = a /\ p[2] = b
        /\ q \in Seq(S) /\ Len(q) = 2 /\ q[1] = c /\ q[2] = d
    OBVIOUS
  <1>2. <<a>> \o <<b>> = p
    BY Two
  <1> HIDE DEF p, q
  <1>3. /\ p \o q \in Seq(S) /\ Len(p \o q) = 4
        /\ (p \o q)[1] = a /\ (p \o q)[2] = b /\ (p \o q)[3] = c /\ (p \o q)[4] = d
    BY <1>1, ConcatProperties
  <1> QED BY <1>2, <1>3 DEF q

LEMMA OneTwo ==
    ASSUME NEW S, NEW a \in S, NEW c \in S, NEW d \in S
    PROVE  LET t == <<a>> \o << >> \o <<c, d>>
           IN  t \in Seq(S) /\ Len(t) = 3 /\ t[1] = a /\ t[2] = c /\ t[3] = d
  <1> DEFINE p == <<a>>
             q == <<c, d>>
             none == << >>
  <1>1. /\ p \in Seq(S) /\ Len(p) = 1 /\ p[1] = a
        /\ q \in Seq(S) /\ Len(q) = 2 /\ q[1] = c /\ q[2] = d
        /\ none \in Seq(S)
    OBVIOUS
  <1>2. p \o none = p
    <2> HIDE DEF p
    <2> QED BY <1>1, ConcatEmptySeq
  <1> HIDE DEF p, q, none
  <1>3. /\ p \o q \in Seq(S) /\ Len(p \o q) = 3
        /\ (p \o q)[1] = a /\ (p \o q)[2] = c /\ (p \o q)[3] = d
    <2>1. /\ p \o q \in Seq(S) /\ Len(p \o q) = 3
          /\ \A i \in 1..3 : (p \o q)[i] = IF i <= 1 THEN p[i] ELSE q[i - 1]
      <3>1. /\ p \o q \in Seq(S) /\ Len(p \o q) = Len(p) + Len(q)
            /\ \A i \in 1..(Len(p) + Len(q)) :
                   (p \o q)[i] = IF i <= Len(p) THEN p[i] ELSE q[i - Len(p)]
        BY <1>1, ConcatProperties
      <3>2. Len(p) = 1 /\ Len(q) = 2 /\ Len(p) + Len(q) = 3
        BY <1>1
      <3> QED BY <3>1, <3>2
    <2> QED BY <1>1, <2>1
  <1> QED BY <1>2, <1>3 DEF p, q, none

(* The probe of the file system at boot, and at every later boot. *)
LEMMA ProbeIs ==
    /\ LET t == Steps(Plain("boot"))
       IN  /\ t \in Seq(StepSet) /\ Len(t) = 4
           /\ t[1] = New("sb", SbBuff) /\ t[2] = New("priv", Priv)
           /\ t[3] = Put("priv", Priv) /\ t[4] = Drop("sb")
    /\ LET t == Steps(Plain("reboot"))
       IN  /\ t \in Seq(StepSet) /\ Len(t) = 3
           /\ t[1] = New("sb", SbBuff)
           /\ t[2] = Put("priv", Priv) /\ t[3] = Drop("sb")
  <1> DEFINE a == New("sb", SbBuff)
             b == New("priv", Priv)
             c == Put("priv", Priv)
             d == Drop("sb")
  <1>1. a \in StepSet /\ b \in StepSet /\ c \in StepSet /\ d \in StepSet
    BY Variables, SizesAre DEF New, Put, Drop, StepSet
  <1>2. /\ Steps(Plain("boot")) = <<a>> \o <<b>> \o <<c, d>>
        /\ Steps(Plain("reboot")) = <<a>> \o << >> \o <<c, d>>
    <2>1. Plain("boot")[1] = "boot" /\ Plain("reboot")[1] = "reboot"
      BY DEF Plain
    <2>2. Steps(Plain("boot")) = Probe(FALSE) /\ Steps(Plain("reboot")) = Probe(TRUE)
      BY <2>1, StepsAre
    <2> QED BY <2>2 DEF Probe
  <1> HIDE DEF a, b, c, d
  <1>3. LET t == <<a>> \o <<b>> \o <<c, d>>
        IN  /\ t \in Seq(StepSet) /\ Len(t) = 4
            /\ t[1] = a /\ t[2] = b /\ t[3] = c /\ t[4] = d
    BY <1>1, TwoTwo
  <1>4. LET t == <<a>> \o << >> \o <<c, d>>
        IN  t \in Seq(StepSet) /\ Len(t) = 3 /\ t[1] = a /\ t[2] = c /\ t[3] = d
    BY <1>1, OneTwo
  <1> QED BY <1>2, <1>3, <1>4 DEF a, b, c, d

LEMMA BootTour ==
    \E h : Tour(h, Plain("boot"))
  <1> DEFINE c == Plain("boot")
             t == Steps(c)
             h == [k \in 0..4 |-> IF k \in 1..3 THEN {"sb"} ELSE {}]
  <1>1. /\ t \in Seq(StepSet) /\ Len(t) = 4
        /\ t[1] = New("sb", SbBuff) /\ t[2] = New("priv", Priv)
        /\ t[3] = Put("priv", Priv) /\ t[4] = Drop("sb")
    BY ProbeIs
  <1>2. /\ "sb" \in Vars \ {"priv", "ptr"} /\ "priv" \in Vars \ {"ptr"}
        /\ "sb" \in Inner /\ SizeOf("sb") = SbBuff /\ SbBuff \in Nat \ {0} /\ Priv \in Nat \ {0}
        /\ {} \in SUBSET Vars /\ {"sb"} \in SUBSET Vars
        /\ {} \cup {"sb"} = {"sb"} /\ {"sb"} \ {"sb"} = {}
    BY SizesAre, SizesOf DEF Vars, Globals, Locals, Inner
  <1>3. Moves(t[1], {}, {"sb"})
    <2>1. Moves(New("sb", SbBuff), {}, {} \cup {"sb"})
      BY <1>2, NewInner
    <2> QED BY <1>1, <1>2, <2>1
  <1>4. Moves(t[3], {"sb"}, {"sb"})
    <2>1. Moves(Put("priv", Priv), {"sb"}, {"sb"})
      BY <1>2, PutMoves
    <2> QED BY <1>1, <2>1
  <1>5. Moves(t[4], {"sb"}, {})
    <2>1. Moves(Drop("sb"), {"sb"}, {"sb"} \ {"sb"})
      BY <1>2, DropMoves
    <2> QED BY <1>1, <1>2, <2>1
  <1>6. /\ h \in [0..4 -> SUBSET Vars]
        /\ h[0] = {} /\ h[1] = {"sb"} /\ h[2] = {"sb"} /\ h[3] = {"sb"} /\ h[4] = {}
    BY <1>2
  <1> HIDE DEF h
  <1>7. \A k \in 1..4 : Going(c, k, h[k - 1], h[k])
    <2>1. Going(c, 1, h[0], h[1]) /\ Going(c, 3, h[2], h[3]) /\ Going(c, 4, h[3], h[4])
      <3> HIDE DEF c
      <3> QED BY <1>3, <1>4, <1>5, <1>6 DEF Going
    <2>2. Going(c, 2, h[1], h[2])
      <3>1. Steps(c)[2] = New("priv", Priv)
        BY <1>1
      <3> QED BY <1>6, <3>1 DEF Going
    <2>3. \A k \in 1..4 : (k = 1 /\ k - 1 = 0) \/ (k = 2 /\ k - 1 = 1) \/ (k = 3 /\ k - 1 = 2)
                          \/ (k = 4 /\ k - 1 = 3)
      OBVIOUS
    <2> HIDE DEF c
    <2> QED BY <2>1, <2>2, <2>3
  <1> HIDE DEF c
  <1>8. Tour(h, c)
    BY <1>1, <1>6, <1>7 DEF Tour, Left
  <1> QED BY <1>8 DEF c

LEMMA RebootTour ==
    \E h : Tour(h, Plain("reboot"))
  <1> DEFINE c == Plain("reboot")
             t == Steps(c)
             h == [k \in 0..3 |-> IF k \in 1..2 THEN {"sb"} ELSE {}]
  <1>1. /\ t \in Seq(StepSet) /\ Len(t) = 3
        /\ t[1] = New("sb", SbBuff)
        /\ t[2] = Put("priv", Priv) /\ t[3] = Drop("sb")
    BY ProbeIs
  <1>2. /\ "sb" \in Vars \ {"priv", "ptr"} /\ "priv" \in Vars \ {"ptr"}
        /\ "sb" \in Inner /\ SizeOf("sb") = SbBuff /\ SbBuff \in Nat \ {0} /\ Priv \in Nat \ {0}
        /\ {} \in SUBSET Vars /\ {"sb"} \in SUBSET Vars
        /\ {} \cup {"sb"} = {"sb"} /\ {"sb"} \ {"sb"} = {}
    BY SizesAre, SizesOf DEF Vars, Globals, Locals, Inner
  <1>3. Moves(t[1], {}, {"sb"})
    <2>1. Moves(New("sb", SbBuff), {}, {} \cup {"sb"})
      BY <1>2, NewInner
    <2> QED BY <1>1, <1>2, <2>1
  <1>4. Moves(t[2], {"sb"}, {"sb"})
    <2>1. Moves(Put("priv", Priv), {"sb"}, {"sb"})
      BY <1>2, PutMoves
    <2> QED BY <1>1, <2>1
  <1>5. Moves(t[3], {"sb"}, {})
    <2>1. Moves(Drop("sb"), {"sb"}, {"sb"} \ {"sb"})
      BY <1>2, DropMoves
    <2> QED BY <1>1, <1>2, <2>1
  <1>6. /\ h \in [0..3 -> SUBSET Vars]
        /\ h[0] = {} /\ h[1] = {"sb"} /\ h[2] = {"sb"} /\ h[3] = {}
    BY <1>2
  <1> HIDE DEF h
  <1>7. \A k \in 1..3 : Going(c, k, h[k - 1], h[k])
    <2> HIDE DEF c
    <2>1. Going(c, 1, h[0], h[1]) /\ Going(c, 2, h[1], h[2]) /\ Going(c, 3, h[2], h[3])
      BY <1>3, <1>4, <1>5, <1>6 DEF Going
    <2>2. \A k \in 1..3 : (k = 1 /\ k - 1 = 0) \/ (k = 2 /\ k - 1 = 1) \/ (k = 3 /\ k - 1 = 2)
      OBVIOUS
    <2> QED BY <2>1, <2>2
  <1> HIDE DEF c
  <1>8. Tour(h, c)
    BY <1>1, <1>6, <1>7 DEF Tour, Left
  <1> QED BY <1>8 DEF c

LEMMA FreeTour == \E h : Tour(h, Plain("free"))
  <1> DEFINE c == Plain("free")
             t == Steps(c)
             h == [k \in 0..1 |-> {}]
  <1>1. t \in Seq(StepSet) /\ Len(t) = 1 /\ t[1] = Drop("ptr")
    <2>1. c[1] = "free"
      BY DEF Plain
    <2>2. t = << Drop("ptr") >>
      BY <2>1, StepsAre
    <2> DEFINE d == Drop("ptr")
    <2>3. d \in StepSet
      BY Variables DEF StepSet, Drop
    <2>4. t = << d >>
      BY <2>2
    <2> HIDE DEF d, t
    <2>5. t \in Seq(StepSet) /\ Len(t) = 1 /\ t[1] = d
      BY <2>3, <2>4
    <2> QED BY <2>5 DEF d
  <1>2. h \in [0..1 -> SUBSET Vars] /\ h[0] = {} /\ h[1] = {}
    OBVIOUS
  <1> HIDE DEF h
  <1>3. \A k \in 1..1 : Going(c, k, h[k - 1], h[k])
    <2>1. \A k \in 1..1 : k = 1 /\ k - 1 = 0
      OBVIOUS
    <2>2. Going(c, 1, h[0], h[1])
      BY <1>1, <1>2 DEF Going
    <2> HIDE DEF c
    <2> QED BY <2>1, <2>2
  <1> HIDE DEF c
  <1>4. Tour(h, c)
    BY <1>1, <1>2, <1>3 DEF Tour, Left
  <1> QED BY <1>4 DEF c

LEMMA ChainIs ==
    ASSUME NEW c \in Commands, c # None
    PROVE  Tour(Chain(c), c)
  <1>1. /\ {} \subseteq Left /\ {"ptr"} \subseteq Left /\ {"e_inode"} \subseteq Left
        /\ {"data"} \subseteq Left /\ {"data", "e_inode"} \subseteq Left
        /\ {} \in SUBSET Vars
        /\ {} \cap (Look \cup {"e_inode", "e_block", "whole"}) = {} /\ {} \cup {"e_inode"} = {"e_inode"}
        /\ "w_inode" \notin {} /\ {} \cap Inner = {}
    BY DEF Left
  <1>2. ASSUME NEW how \in {"found", "none", "root"}, NEW k \in Nat, Steps(c) = Read(how, k)
        PROVE  \E h : Tour(h, c)
    <2> DEFINE B == IF how = "found" THEN {} ELSE {} \cup {"e_inode"}
    <2>1. Path(Steps(c), {}, B) /\ Len(Steps(c)) > 0
      BY <1>1, <1>2, ReadPath
    <2>2. B \subseteq Left
      BY <1>1
    <2> HIDE DEF B
    <2> QED BY <2>1, <2>2, TourOfPath
  <1>3. \E h : Tour(h, c)
    <2>1. CASE \E name \in {"none", "boot", "reboot", "read", "free"} : c = <<name, "none", 0>>
      <3>1. c = Plain("boot") \/ c = Plain("reboot") \/ c = Plain("read") \/ c = Plain("free")
        BY <2>1 DEF None, Plain
      <3>2. CASE c = Plain("read")
        <4>1. c[1] = "read" /\ c[2] = "none" /\ c[3] = 0
          BY <3>2 DEF Plain
        <4>2. Steps(c) = Read("none", 0)
          BY <4>1, StepsAre
        <4> QED BY <1>2, <4>2
      <3> QED BY <3>1, <3>2, BootTour, RebootTour, FreeTour
    <2>2. CASE \E k \in Blocks : c = <<"read", "found", k>>
      <3>1. PICK k \in Blocks : c = <<"read", "found", k>>
        BY <2>2
      <3>2. c[1] = "read" /\ c[2] = "found" /\ c[3] = k /\ k \in Nat
        BY <3>1, SizesAre
      <3>3. Steps(c) = Read("found", k)
        BY <3>2, StepsAre
      <3> QED BY <1>2, <3>2, <3>3
    <2>3. CASE \E name \in {"load bin", "ls", "write"}, how \in Hows : c = <<name, how, 0>>
      <3>1. PICK name \in {"load bin", "ls", "write"}, how \in Hows : c = <<name, how, 0>>
        BY <2>3
      <3>2. how \in {"found", "none", "root"} /\ c[1] = name /\ c[2] = how
        BY <3>1, SizesAre
      <3>3. CASE name = "load bin"
        <4> DEFINE B == IF how = "found" THEN {"data"} ELSE {"data", "e_inode"}
        <4>1. Steps(c) = LoadBin(how, 2)
          BY <3>2, <3>3, StepsAre
        <4>2. Path(Steps(c), {}, B) /\ Len(Steps(c)) > 0
          BY <3>2, <4>1, LoadBinPath
        <4>3. B \subseteq Left
          BY <1>1
        <4> HIDE DEF B
        <4> QED BY <4>2, <4>3, TourOfPath
      <3>4. CASE name = "ls"
        <4>1. Steps(c) = List(how)
          BY <3>2, <3>4, StepsAre
        <4>2. Path(Steps(c), {}, {}) /\ Len(Steps(c)) > 0
          BY <3>2, <4>1, ListPath
        <4> QED BY <1>1, <4>2, TourOfPath
      <3>5. CASE name = "write"
        <4>1. Steps(c) = WriteFresh(how)
          BY <3>2, <3>5, StepsAre
        <4>2. Path(Steps(c), {}, {}) /\ Len(Steps(c)) > 0
          BY <3>2, <4>1, WriteFreshPath
        <4> QED BY <1>1, <4>2, TourOfPath
      <3> QED BY <3>3, <3>4, <3>5
    <2>4. CASE \E how \in Hows, over \in Over : c = <<"append", how, over>>
      <3>1. PICK how \in Hows, over \in Over : c = <<"append", how, over>>
        BY <2>4
      <3>2. how \in {"found", "none", "root"} /\ c[1] = "append" /\ c[2] = how /\ c[3] = over
        BY <3>1, SizesAre
      <3>3. Steps(c) = WriteAppend(how, over)
        BY <3>2, StepsAre
      <3>4. Path(Steps(c), {}, {}) /\ Len(Steps(c)) > 0
        BY <3>2, <3>3, WriteAppendPath
      <3> QED BY <1>1, <3>4, TourOfPath
    <2>5. CASE \E n \in Asked : c = <<"malloc", "none", n>>
      <3>1. PICK n \in Asked : c = <<"malloc", "none", n>>
        BY <2>5
      <3>2. c[1] = "malloc" /\ c[3] = n /\ n \in Nat
        BY <3>1, SizesAre
      <3>3. Steps(c) = << New("ptr", n) >>
        BY <3>2, StepsAre
      <3>4. Moves(New("ptr", n), {}, {} \cup {"ptr"}) /\ {} \cup {"ptr"} = {"ptr"}
        BY <1>1, <3>2, Variables, NewMoves DEF Anchored
      <3>5. Moves(New("ptr", n), {}, {"ptr"})
        BY <3>4
      <3>6. Path(Steps(c), {}, {"ptr"}) /\ Len(Steps(c)) > 0
        BY <3>3, <3>5, PathOne
      <3> QED BY <1>1, <3>6, TourOfPath
    <2> QED BY <2>1, <2>2, <2>3, <2>4, <2>5, CommandIs
  <1> QED BY <1>3 DEF Chain
-----------------------------------------------------------------------------
(* The invariant of the heap under its users. *)

(* Pointers point into the heap, and priv above where the superblock is    *)
(* read to at the next boot.                                               *)
Pointers ==
    /\ at \in [Vars -> 0..HeapSize]
    /\ \A v \in Vars : at[v] = 0 \/ (7 <= at[v] /\ (v # "ptr" => at[v] < HeapSize))
    /\ at["priv"] = 0 \/ (SbBuff + 14 <= at["priv"] /\ at["priv"] + Priv <= HeapSize)

Underway ==
    /\ command \in Commands /\ careless \in BOOLEAN
    /\ command # None => pc \in 1..Len(Steps(command))
    /\ command = None => pc = 1
    /\ command = Plain("boot") /\ pc <= 2 => at["priv"] = 0
    /\ command \in {Plain("boot"), Plain("reboot")} /\ pc = 1 => used = {}
    /\ command = Plain("boot") /\ pc = 2 => used = {<<3, 7 + SbBuff>>}

(* A block of the history: where it lies, and that nobody but the first    *)
(* probe takes one for priv.                                               *)
Sound(h, place, p) ==
    /\ p \in 7..HeapSize /\ h[p].n \in 0..(HeapSize - p)
    /\ h[p].of # "ptr" => h[p].n > 0
    /\ h[p].of = "priv" => p = place["priv"] /\ h[p].n = Priv

Types ==
    /\ Runs(used) /\ Pointers /\ Underway
    /\ \A p \in DOMAIN live : Sound(live, at, p)
    /\ hurt \subseteq 1..HeapSize

(* The blocks the command holds, by their variables. *)
Now == IF command = None THEN {} ELSE Chain(command)[pc - 1]

(* Booted again, what was stored of priv has become marks. *)
Early == command = Plain("reboot") /\ pc <= 2

KeptOf(h, p) == IF h[p].of = "priv" THEN Data(p, h[p].n) ELSE Whole(p, h[p].n)

Apart(h) == \A p, q \in DOMAIN h : p # q => ~Meet(KeptOf(h, p), KeptOf(h, q))

Covered(s, i) == \A b \in Nat : Within(b, i) => InRuns(b, s)

Owned(s, h) ==
    \A b \in Nat : InRuns(b, s) => \E p \in DOMAIN h : Within(b, Whole(p, h[p].n))

Stays(h, place, now, p) ==
    h[p].of \in Left \cup {"priv"} \/ (h[p].of \in now /\ place[h[p].of] = p)

HoldsAt(h, place, v) == place[v] \in DOMAIN h /\ h[place[v]].of = v

(* What holds as long as the user was careful and no store went astray:    *)
(* blocks are apart; what is stored is theirs, and what is theirs is       *)
(* stored, so that malloc finds no run in them; and a command holds what   *)
(* it will free.                                                           *)
Orderly ==
    /\ hurt = {} /\ Apart(live)
    /\ \A p \in DOMAIN live : (Early /\ live[p].of = "priv") \/ Covered(used, KeptOf(live, p))
    /\ Owned(used, live)
    /\ \A v \in Now : HoldsAt(live, at, v)
    /\ \A p \in DOMAIN live : Stays(live, at, Now, p)

Calm == ~careless /\ stray = {}

KInv == Types /\ (Calm => Orderly)

LEMMA Spaces ==
    ASSUME NEW p \in 7..HeapSize, NEW n \in 0..(HeapSize - p)
    PROVE  /\ Span(Whole(p, n)) /\ Lo(Whole(p, n)) = p - 4 /\ Hi(Whole(p, n)) = p + n
           /\ n > 0 => Span(Data(p, n))
           /\ Lo(Data(p, n)) = p /\ Hi(Data(p, n)) = p + n
           /\ p \in Nat /\ n \in Nat /\ p + n \in Nat /\ p - 4 \in Nat
  <1>1. HeapSize \in Nat
    BY SizesAssumption
  <1>2. /\ p - 4 \in 0..HeapSize /\ p + n \in 0..HeapSize /\ p \in 0..HeapSize
        /\ p - 4 < p + n /\ (n > 0 => p < p + n)
        /\ p \in Nat /\ n \in Nat /\ p + n \in Nat /\ p - 4 \in Nat
    BY <1>1
  <1>3. Span(<<p - 4, p + n>>)
    <2> DEFINE a == p - 4
               b == p + n
    <2> HIDE DEF a, b
    <2>1. a \in 0..HeapSize /\ b \in 0..HeapSize /\ a < b
      BY <1>2 DEF a, b
    <2>2. Span(<<a, b>>)
      BY <2>1, Pair
    <2> QED BY <2>2 DEF a, b
  <1>4. n > 0 => Span(<<p, p + n>>)
    <2> DEFINE b == p + n
    <2> HIDE DEF b
    <2>1. p \in 0..HeapSize /\ b \in 0..HeapSize /\ (n > 0 => p < b)
      BY <1>2 DEF b
    <2>2. n > 0 => Span(<<p, b>>)
      BY <2>1, Pair
    <2> QED BY <2>2 DEF b
  <1> QED BY <1>2, <1>3, <1>4 DEF Whole, Data, Lo, Hi

LEMMA KeptSpan ==
    ASSUME NEW h, NEW place, NEW p, Sound(h, place, p)
    PROVE  /\ Span(KeptOf(h, p)) /\ Span(Whole(p, h[p].n))
           /\ \A b \in Nat : Within(b, KeptOf(h, p)) => Within(b, Whole(p, h[p].n))
           /\ \A b \in Nat : Within(b, Whole(p, h[p].n)) <=> p - 4 <= b /\ b < p + h[p].n
           /\ h[p].of # "priv" => KeptOf(h, p) = Whole(p, h[p].n)
           /\ \A b \in Nat : Within(b, Data(p, h[p].n)) <=> p <= b /\ b < p + h[p].n
  <1> DEFINE n == h[p].n
  <1>1. p \in 7..HeapSize /\ n \in 0..(HeapSize - p) /\ (h[p].of = "priv" => n > 0)
    BY DEF Sound
  <1> HIDE DEF n
  <1>2. /\ Span(Whole(p, n)) /\ Lo(Whole(p, n)) = p - 4 /\ Hi(Whole(p, n)) = p + n
        /\ n > 0 => Span(Data(p, n))
        /\ Lo(Data(p, n)) = p /\ Hi(Data(p, n)) = p + n
        /\ p \in Nat /\ n \in Nat /\ p + n \in Nat /\ p - 4 \in Nat
    BY <1>1, Spaces
  <1>3. KeptOf(h, p) = IF h[p].of = "priv" THEN Data(p, n) ELSE Whole(p, n)
    BY DEF KeptOf, n
  <1>4. \A b \in Nat : /\ Within(b, Whole(p, n)) <=> p - 4 <= b /\ b < p + n
                       /\ Within(b, Data(p, n)) <=> p <= b /\ b < p + n
    BY <1>2 DEF Within
  <1>5. \A b \in Nat : p <= b => p - 4 <= b
    BY <1>2
  <1> QED BY <1>1, <1>2, <1>3, <1>4, <1>5 DEF n

(* The blocks the command holds after its next step. *)
After == Chain(command)[pc]

LEMMA StepIs ==
    ASSUME Types, command # None
    PROVE  /\ Program[command] = Steps(command)
           /\ Len(Steps(command)) \in Nat /\ pc \in 1..Len(Steps(command))
           /\ Step = Steps(command)[pc] /\ Step \in StepSet
           /\ Now \in SUBSET Vars /\ After \in SUBSET Vars
           /\ Going(command, pc, Now, After)
           /\ pc = Len(Steps(command)) => After \subseteq Left
  <1> DEFINE prog == Steps(command)
             h == Chain(command)
  <1>1. command \in Commands /\ pc \in 1..Len(prog)
    BY DEF Types, Underway
  <1>2. Tour(h, command)
    BY <1>1, ChainIs
  <1>3. Program[command] = prog
    BY <1>1 DEF Program
  <1> HIDE DEF h
  <1>4. /\ prog \in Seq(StepSet) /\ Len(prog) \in Nat
        /\ h \in [0..Len(prog) -> SUBSET Vars] /\ h[Len(prog)] \subseteq Left
        /\ Going(command, pc, h[pc - 1], h[pc])
    BY <1>1, <1>2 DEF Tour
  <1> HIDE DEF prog
  <1>5. pc \in 0..Len(prog) /\ pc - 1 \in 0..Len(prog)
    BY <1>1, <1>4
  <1>6. h[pc] \in SUBSET Vars /\ h[pc - 1] \in SUBSET Vars /\ prog[pc] \in StepSet
    BY <1>1, <1>4, <1>5
  <1>7. Now = h[pc - 1] /\ After = h[pc] /\ Step = prog[pc]
    BY <1>3 DEF Now, After, Step, h
  <1>8. pc = Len(prog) => h[pc] \subseteq Left
    BY <1>4
  <1> QED BY <1>1, <1>3, <1>4, <1>6, <1>7, <1>8 DEF prog

LEMMA DoneIs ==
    ASSUME Types, command # None,
           NEW pointers \in [Vars -> 0..HeapSize], Done(pointers)
    PROVE  /\ at' \in [Vars -> 0..HeapSize]
           /\ \A v \in Vars : at'[v] = pointers[v] \/ at'[v] = 0
           /\ at'["priv"] = pointers["priv"] /\ Now' \subseteq After
           /\ \A v \in Now' : at'[v] = pointers[v]
           /\ \A v \in After : v \in Left \/ v \in Now'
           /\ \/ command' = command /\ pc' = pc + 1 /\ pc' \in 1..Len(Steps(command'))
              \/ command' = None /\ pc' = 1 /\ pc = Len(Steps(command))
           /\ command' \in Commands
  <1>1. /\ Program[command] = Steps(command)
        /\ Len(Steps(command)) \in Nat /\ pc \in 1..Len(Steps(command))
        /\ (pc = Len(Steps(command)) => After \subseteq Left) /\ After \in SUBSET Vars
    BY StepIs
  <1>2. command \in Commands /\ None \in Commands /\ at \in [Vars -> 0..HeapSize]
    BY DEF Types, Underway, Pointers, Commands
  <1>3. "priv" \in Vars /\ "priv" \notin Locals
    BY Variables DEF Locals
  <1>4. CASE pc < Len(Steps(command))
    <2>1. pc' = pc + 1 /\ at' = pointers /\ command' = command
      BY <1>1, <1>4 DEF Done
    <2>2. pc + 1 \in 1..Len(Steps(command)) /\ pc' - 1 = pc
      BY <1>1, <1>4, <2>1
    <2>3. Now' = After
      BY <2>1, <2>2 DEF Now, After
    <2> QED BY <1>2, <1>3, <2>1, <2>2, <2>3
  <1>5. CASE ~(pc < Len(Steps(command)))
    <2>1. /\ pc' = 1 /\ command' = None
          /\ at' = [v \in DOMAIN at |-> IF v \in Locals THEN 0 ELSE pointers[v]]
      BY <1>1, <1>5 DEF Done
    <2>2. at' = [v \in Vars |-> IF v \in Locals THEN 0 ELSE pointers[v]]
      BY <1>2, <2>1
    <2>3. 0 \in 0..HeapSize
      BY SizesAssumption
    <2>4. at' \in [Vars -> 0..HeapSize] /\ \A v \in Vars : at'[v] = pointers[v] \/ at'[v] = 0
      BY <2>2, <2>3
    <2>5. at'["priv"] = pointers["priv"]
      BY <1>3, <2>2
    <2>6. Now' = {}
      BY <2>1 DEF Now
    <2>7. pc = Len(Steps(command)) /\ After \subseteq Left
      <3>1. pc = Len(Steps(command))
        BY <1>1, <1>5
      <3> QED BY <1>1, <3>1
    <2> QED BY <1>2, <2>1, <2>4, <2>5, <2>6, <2>7
  <1> QED BY <1>4, <1>5

(* The probes take the superblock's buffer first. *)
LEMMA ProbeSteps ==
    ASSUME Types, command \in {Plain("boot"), Plain("reboot")}
    PROVE  /\ command # None /\ Plain("boot") # Plain("reboot")
           /\ pc = 1 => Step = New("sb", SbBuff) /\ Step.op = "malloc"
           /\ pc = 2 /\ command = Plain("boot") => Step = New("priv", Priv) /\ Step.op = "malloc"
           /\ pc = 2 /\ command = Plain("reboot") => Step = Put("priv", Priv) /\ Step.op = "store"
           /\ Step.op = "malloc" => pc = 1 \/ (pc = 2 /\ command = Plain("boot"))
           /\ pc \in Nat \ {0}
  <1>1. command # None /\ Plain("boot") # Plain("reboot")
    BY DEF None, Plain
  <1>2. Step = Steps(command)[pc] /\ pc \in 1..Len(Steps(command))
    BY <1>1, StepIs
  <1> DEFINE a == New("sb", SbBuff)
             b == New("priv", Priv)
             c == Put("priv", Priv)
             d == Drop("sb")
  <1>3. a.op = "malloc" /\ b.op = "malloc" /\ c.op = "store" /\ d.op = "free"
    BY DEF New, Put, Drop
  <1>4. CASE command = Plain("boot")
    <2> DEFINE t == Steps(Plain("boot"))
    <2>1. Len(t) = 4 /\ t[1] = a /\ t[2] = b /\ t[3] = c /\ t[4] = d
      BY ProbeIs
    <2> HIDE DEF a, b, c, d
    <2>2. Step = t[pc] /\ pc \in 1..4
      BY <1>2, <1>4, <2>1
    <2>3. pc = 1 \/ pc = 2 \/ pc = 3 \/ pc = 4
      BY <2>2
    <2> HIDE DEF t
    <2> QED BY <1>1, <1>3, <1>4, <2>1, <2>2, <2>3 DEF a, b, c
  <1>5. CASE command = Plain("reboot")
    <2> DEFINE t == Steps(Plain("reboot"))
    <2>1. Len(t) = 3 /\ t[1] = a /\ t[2] = c /\ t[3] = d
      BY ProbeIs
    <2> HIDE DEF a, b, c, d
    <2>2. Step = t[pc] /\ pc \in 1..3
      BY <1>2, <1>5, <2>1
    <2>3. pc = 1 \/ pc = 2 \/ pc = 3
      BY <2>2
    <2> HIDE DEF t
    <2> QED BY <1>1, <1>3, <1>5, <2>1, <2>2, <2>3 DEF a, b, c
  <1> QED BY <1>4, <1>5

LEMMA FitIs ==
    ASSUME Runs(used), NEW n \in Nat, Fits(n) # {},
           NEW a, a = FirstFit(n), a + 3 + 4 + n <= HeapSize
    PROVE  /\ a \in Nat /\ a + (n + 10) <= HeapSize
           /\ a \in {0} \cup { Hi(i) : i \in used }
           /\ \A b \in Nat : a <= b /\ b < a + (n + 10) => ~InRuns(b, used)
           /\ a + 7 \in 7..HeapSize /\ n \in 0..(HeapSize - (a + 7))
  <1> DEFINE i == <<a, a + (n + 10)>>
  <1>1. HeapSize \in Nat /\ Word \in Nat /\ HeapSize + 3 < Word
    BY SizesAre
  <1>2. /\ a \in Nat /\ a + Need(n) <= HeapSize
        /\ a \in {0} \cup { Hi(j) : j \in used }
        /\ \A j \in used : ~Meet(<<a, a + Need(n)>>, j)
    BY FirstFitIs
  <1>3. Need(n) = n + 10
    <2>1. n + 10 \in Nat /\ n + 10 < Word
      BY <1>1, <1>2
    <2>2. \A x, w \in Nat : x < w => x % w = x
      OBVIOUS
    <2>3. (n + 10) % Word = n + 10
      BY <1>1, <2>1, <2>2
    <2>4. n + 6 + 4 = n + 10
      OBVIOUS
    <2> QED BY <2>3, <2>4 DEF Need
  <1>4. a + (n + 10) <= HeapSize /\ \A j \in used : ~Meet(i, j)
    BY <1>2, <1>3
  <1>5. a \in 0..HeapSize /\ a + (n + 10) \in 0..HeapSize /\ a < a + (n + 10)
    BY <1>1, <1>2, <1>4
  <1>6. Span(i) /\ Lo(i) = a /\ Hi(i) = a + (n + 10)
    BY <1>5, Pair
  <1> HIDE DEF i
  <1>7. ASSUME NEW b \in Nat, a <= b, b < a + (n + 10), InRuns(b, used) PROVE FALSE
    <2>1. PICK j \in used : Within(b, j)
      BY <1>7 DEF InRuns
    <2>2. Within(b, i) /\ Span(j)
      BY <1>6, <1>7 DEF Within, Runs
    <2>3. Meet(i, j)
      BY <1>6, <2>1, <2>2, Meeting
    <2> QED BY <1>4, <2>3
  <1>8. a + 7 \in 7..HeapSize /\ n \in 0..(HeapSize - (a + 7))
    BY <1>1, <1>2, <1>4
  <1> QED BY <1>2, <1>4, <1>7, <1>8

Spot == FirstFit(Step.n) + 7

(* What malloc finds, and for whom. *)
LEMMA MallocIs ==
    ASSUME Types, Malloc
    PROVE  /\ command # None /\ Step.op = "malloc"
           /\ Step.var \in Vars /\ Step.n \in Nat /\ (Step.n > 0 \/ Step.var = "ptr")
           /\ Spot \in 7..HeapSize /\ Step.n \in 0..(HeapSize - Spot)
           /\ \A b \in Nat : Spot - 7 <= b /\ b < Spot + Step.n + 3 => ~InRuns(b, used)
           /\ \/ /\ Step.var \notin Now \cup {"priv"}
                 /\ After = Now \cup {Step.var}
              \/ /\ command = Plain("boot") /\ pc = 2 /\ Step.var = "priv" /\ After = Now
                 /\ Step.n = Priv /\ Spot = SbBuff + 14 /\ at["priv"] = 0
           /\ used = {} => Spot = 7
           /\ used' = Filled(used, Whole(Spot, Step.n))
           /\ live' = [q \in DOMAIN live \cup {Spot} |->
                         IF q = Spot THEN [n |-> Step.n, of |-> Step.var] ELSE live[q]]
           /\ hurt' = (hurt \ {Spot}) \cup Others(Spot, Whole(Spot, Step.n))
           /\ Done([at EXCEPT ![Step.var] = Spot])
           /\ stray' = stray /\ careless' = careless
  <1> DEFINE n == Step.n
             a == FirstFit(n)
  <1>1. command # None /\ Step.op = "malloc" /\ Fits(n) # {} /\ a + 3 + 4 + n <= HeapSize
    BY DEF Malloc, Doing
  <1>2. Step \in StepSet /\ Going(command, pc, Now, After) /\ Step = Steps(command)[pc]
    BY <1>1, StepIs
  <1>3. Step.var \in Vars /\ n \in Nat
    BY <1>2 DEF StepSet
  <1>4. Runs(used)
    BY DEF Types
  <1>5. /\ a \in Nat /\ a + (n + 10) <= HeapSize
        /\ a \in {0} \cup { Hi(i) : i \in used }
        /\ \A b \in Nat : a <= b /\ b < a + (n + 10) => ~InRuns(b, used)
        /\ a + 7 \in 7..HeapSize /\ n \in 0..(HeapSize - (a + 7))
    BY <1>1, <1>3, <1>4, FitIs
  <1> HIDE DEF n, a
  <1>6. Spot = a + 7 /\ Spot - 7 = a /\ Spot + n + 3 = a + (n + 10) /\ a + 3 + 4 = Spot
    <2>1. Spot = a + 7
      BY DEF Spot, n, a
    <2> QED BY <1>3, <1>5, <2>1
  <1>7. used = {} => Spot = 7
    BY <1>5, <1>6
  <1>8. \/ /\ Step.var \notin Now \cup {"priv"} /\ (n > 0 \/ Step.var = "ptr")
           /\ After = Now \cup {Step.var}
        \/ /\ command = Plain("boot") /\ pc = 2 /\ Step = New("priv", Priv) /\ After = Now
    <2>1. CASE Moves(Step, Now, After)
      BY <1>1, <2>1 DEF Moves, n
    <2>2. CASE Step = Drop("ptr")
      BY <1>1, <2>2 DEF Drop
    <2> QED BY <1>2, <2>1, <2>2 DEF Going
  <1>9. ASSUME command = Plain("boot"), pc = 2, Step = New("priv", Priv)
        PROVE  Step.var = "priv" /\ n = Priv /\ n > 0 /\ at["priv"] = 0 /\ Spot = SbBuff + 14
    <2>1. Step.var = "priv" /\ n = Priv
      BY <1>9 DEF New, n
    <2>2. n \in Nat \ {0} /\ SbBuff \in Nat \ {0}
      BY <2>1, SizesAre
    <2>3. used = {<<3, 7 + SbBuff>>} /\ at["priv"] = 0
      BY <1>9 DEF Types, Underway
    <2>4. a = 0 \/ a = 7 + SbBuff
      BY <1>5, <2>3 DEF Hi
    <2>5. a # 0
      <3>1. Within(3, <<3, 7 + SbBuff>>)
        BY <2>2 DEF Within, Lo, Hi
      <3>2. InRuns(3, used)
        BY <2>3, <3>1 DEF InRuns
      <3>3. 3 \in Nat /\ ~(a <= 3 /\ 3 < a + (n + 10))
        BY <1>5, <3>2
      <3> QED BY <2>2, <3>3
    <2>6. Spot = SbBuff + 14
      BY <1>6, <2>2, <2>4, <2>5
    <2> QED BY <2>1, <2>2, <2>3, <2>6
  <1>10. \A b \in Nat : Spot - 7 <= b /\ b < Spot + n + 3 => ~InRuns(b, used)
    BY <1>5, <1>6
  <1>11. /\ used' = Filled(used, Whole(Spot, n))
         /\ live' = [q \in DOMAIN live \cup {Spot} |->
                       IF q = Spot THEN [n |-> n, of |-> Step.var] ELSE live[q]]
         /\ hurt' = (hurt \ {Spot}) \cup Others(Spot, Whole(Spot, n))
         /\ Done([at EXCEPT ![Step.var] = Spot])
         /\ stray' = stray /\ careless' = careless
    <2>1. /\ used' = Filled(used, Whole(a + 3 + 4, n))
          /\ live' = [q \in DOMAIN live \cup {a + 3 + 4} |->
                        IF q = a + 3 + 4 THEN [n |-> n, of |-> Step.var] ELSE live[q]]
          /\ hurt' = (hurt \ {a + 3 + 4}) \cup Others(a + 3 + 4, Whole(a + 3 + 4, n))
          /\ Done([at EXCEPT ![Step.var] = a + 3 + 4])
          /\ stray' = stray /\ careless' = careless
      BY DEF Malloc, n, a
    <2> QED BY <1>6, <2>1
  <1> QED BY <1>1, <1>3, <1>5, <1>6, <1>7, <1>8, <1>9, <1>10, <1>11 DEF n

LEMMA FilledNothing ==
    ASSUME NEW a \in Nat, NEW b \in Nat
    PROVE  Filled({}, <<a, b>>) = {<<a, b>>}
  <1> DEFINE i == <<a, b>>
             touching == { j \in {} : Lo(j) <= Hi(i) /\ Lo(i) <= Hi(j) }
             all == touching \cup {i}
             lo == CHOOSE c \in { Lo(j) : j \in all } : \A j \in all : c <= Lo(j)
             hi == CHOOSE c \in { Hi(j) : j \in all } : \A j \in all : Hi(j) <= c
  <1>1. Lo(i) = a /\ Hi(i) = b
    BY DEF Lo, Hi
  <1>2. touching = {} /\ all = {i}
    OBVIOUS
  <1>3. Filled({}, i) = ({} \ touching) \cup {<<lo, hi>>}
    BY DEF Filled
  <1> HIDE DEF i, touching, all
  <1>4. { Lo(j) : j \in all } = {a} /\ { Hi(j) : j \in all } = {b}
    BY <1>1, <1>2
  <1>5. \A j \in all : a <= Lo(j) /\ Hi(j) <= b
    BY <1>1, <1>2
  <1>6. lo = a /\ hi = b
    BY <1>4, <1>5
  <1> HIDE DEF lo, hi
  <1> QED BY <1>2, <1>3, <1>6 DEF i

LEMMA MallocTypes ==
    ASSUME Types, Malloc
    PROVE  Types'
  <1> DEFINE v == Step.var
             n == Step.n
             place == [at EXCEPT ![v] = Spot]
  <1>1. /\ command # None /\ Step.op = "malloc"
        /\ v \in Vars /\ n \in Nat /\ (n > 0 \/ v = "ptr")
        /\ Spot \in 7..HeapSize /\ n \in 0..(HeapSize - Spot)
        /\ \/ v # "priv"
           \/ v = "priv" /\ n = Priv /\ Spot = SbBuff + 14 /\ at["priv"] = 0
        /\ used = {} => Spot = 7
        /\ used' = Filled(used, Whole(Spot, n))
        /\ live' = [q \in DOMAIN live \cup {Spot} |->
                      IF q = Spot THEN [n |-> n, of |-> v] ELSE live[q]]
        /\ hurt' = (hurt \ {Spot}) \cup Others(Spot, Whole(Spot, n))
        /\ Done(place) /\ careless' = careless
    BY MallocIs
  <1>2. HeapSize \in Nat /\ SbBuff \in Nat \ {0} /\ Priv \in Nat \ {0} /\ "priv" \in Vars
    BY SizesAre, Variables
  <1>3. Runs(used) /\ Pointers /\ Underway /\ hurt \subseteq 1..HeapSize
        /\ \A p \in DOMAIN live : Sound(live, at, p)
    BY DEF Types
  <1>4. at \in [Vars -> 0..HeapSize]
    BY <1>3 DEF Pointers
  <1>0. Step = New("sb", SbBuff) => v = "sb" /\ n = SbBuff
    BY DEF New
  <1> HIDE DEF v, n
  <1>5. /\ place \in [Vars -> 0..HeapSize]
        /\ place[v] = Spot /\ \A u \in Vars : u # v => place[u] = at[u]
    BY <1>1, <1>2, <1>4
  <1> HIDE DEF place
  <1>6. /\ at' \in [Vars -> 0..HeapSize]
        /\ \A u \in Vars : at'[u] = place[u] \/ at'[u] = 0
        /\ at'["priv"] = place["priv"]
        /\ \/ command' = command /\ pc' = pc + 1 /\ pc' \in 1..Len(Steps(command'))
           \/ command' = None /\ pc' = 1
        /\ command' \in Commands
    BY <1>1, <1>5, DoneIs
  <1>7. Runs(used)'
    <2>1. Span(Whole(Spot, n))
      BY <1>1, Spaces
    <2>2. Runs(Filled(used, Whole(Spot, n)))
      BY <1>3, <2>1, FilledIs
    <2> QED BY <1>1, <2>2
  <1>8. v # "ptr" => Spot < HeapSize
    BY <1>1, <1>2
  <1>9. Pointers'
    <2>1. \A u \in Vars : at'[u] = 0 \/ (7 <= at'[u] /\ (u # "ptr" => at'[u] < HeapSize))
      <3> TAKE u \in Vars
      <3>1. CASE at'[u] = 0
        BY <3>1
      <3>2. CASE at'[u] = place[u] /\ u = v
        BY <1>1, <1>5, <1>8, <3>2
      <3>3. CASE at'[u] = place[u] /\ u # v
        BY <1>3, <1>5, <3>3 DEF Pointers
      <3> QED BY <1>6, <3>1, <3>2, <3>3
    <2>2. at'["priv"] = 0 \/ (SbBuff + 14 <= at'["priv"] /\ at'["priv"] + Priv <= HeapSize)
      <3>1. CASE v # "priv"
        BY <1>2, <1>3, <1>5, <1>6, <3>1 DEF Pointers
      <3>2. CASE v = "priv"
        <4>1. at'["priv"] = Spot /\ n = Priv /\ Spot = SbBuff + 14
          BY <1>1, <1>5, <1>6, <3>2
        <4>2. SbBuff + 14 <= Spot /\ Spot + n <= HeapSize
          BY <1>1, <1>2, <4>1
        <4> QED BY <4>1, <4>2
      <3> QED BY <3>1, <3>2
    <2> QED BY <1>6, <2>1, <2>2 DEF Pointers
  <1>10. ASSUME NEW q \in DOMAIN live' PROVE Sound(live', at', q)
    <2>1. CASE q = Spot
      <3>1. live'[q] = [n |-> n, of |-> v]
        BY <1>1, <2>1
      <3>2. live'[q].n = n /\ live'[q].of = v
        BY <3>1
      <3>3. v = "priv" => Spot = at'["priv"] /\ n = Priv
        BY <1>1, <1>5, <1>6
      <3>4. v # "ptr" => n > 0
        BY <1>1
      <3> QED BY <1>1, <2>1, <3>2, <3>3, <3>4 DEF Sound
    <2>2. CASE q # Spot
      <3>1. q \in DOMAIN live /\ live'[q] = live[q]
        BY <1>1, <2>2
      <3>2. Sound(live, at, q)
        BY <1>3, <3>1
      <3>3. live[q].of = "priv" => v # "priv"
        <4>1. live[q].of = "priv" => q = at["priv"] /\ q \in 7..HeapSize
          BY <3>2 DEF Sound
        <4>2. v = "priv" => at["priv"] = 0
          BY <1>1
        <4>3. 0 \notin 7..HeapSize
          OBVIOUS
        <4> QED BY <4>1, <4>2, <4>3
      <3>4. v # "priv" => at'["priv"] = at["priv"]
        BY <1>2, <1>5, <1>6
      <3> QED BY <3>1, <3>2, <3>3, <3>4 DEF Sound
    <2> QED BY <2>1, <2>2
  <1>11. hurt' \subseteq 1..HeapSize
    <2>1. Others(Spot, Whole(Spot, n)) \subseteq DOMAIN live
      BY DEF Others
    <2>2. DOMAIN live \subseteq 1..HeapSize
      <3>1. \A q \in DOMAIN live : q \in 7..HeapSize
        BY <1>3 DEF Sound
      <3>2. 7..HeapSize \subseteq 1..HeapSize
        OBVIOUS
      <3> QED BY <3>1, <3>2
    <2> QED BY <1>1, <1>3, <2>1, <2>2
  <1>12. Underway'
    <2>1. pc \in 1..Len(Steps(command)) /\ pc \in Nat \ {0}
      BY <1>1, StepIs
    <2>2. None # Plain("boot") /\ None # Plain("reboot")
      BY DEF None, Plain
    <2>3. command' \in {Plain("boot"), Plain("reboot")} => command' = command /\ pc' = pc + 1 /\ pc' # 1
      BY <1>6, <2>1, <2>2
    <2>4. ASSUME command' = Plain("boot"), pc' <= 2
          PROVE  at'["priv"] = 0 /\ (pc' = 2 => used' = {<<3, 7 + SbBuff>>})
      <3>1. command = Plain("boot") /\ pc = 1 /\ pc' = 2
        BY <2>1, <2>3, <2>4
      <3>2. v = "sb" /\ n = SbBuff
        BY <1>0, <3>1, ProbeSteps
      <3>3. used = {} /\ at["priv"] = 0
        BY <1>3, <3>1 DEF Underway
      <3>4. Spot = 7 /\ at'["priv"] = 0
        BY <1>1, <1>2, <1>5, <1>6, <3>2, <3>3
      <3>5. Whole(7, SbBuff) = <<3, 7 + SbBuff>>
        BY <1>2 DEF Whole
      <3>6. Filled({}, <<3, 7 + SbBuff>>) = {<<3, 7 + SbBuff>>}
        BY <1>2, FilledNothing
      <3>7. used' = Filled({}, Whole(7, SbBuff))
        BY <1>1, <3>2, <3>3, <3>4
      <3> QED BY <3>4, <3>5, <3>6, <3>7
    <2>5. pc' = 2 => pc' <= 2
      OBVIOUS
    <2> QED BY <1>1, <1>3, <1>6, <2>2, <2>3, <2>4, <2>5 DEF Underway
  <1> QED BY <1>7, <1>9, <1>10, <1>11, <1>12 DEF Types

LEMMA MallocFresh ==
    ASSUME Types, Orderly, Malloc
    PROVE  \A q \in DOMAIN live :
               q # Spot /\ ~Meet(Whole(Spot, Step.n), KeptOf(live, q))
  <1> DEFINE n == Step.n
  <1>1. /\ command # None /\ Step.op = "malloc" /\ n \in Nat
        /\ Spot \in 7..HeapSize /\ n \in 0..(HeapSize - Spot)
        /\ \A b \in Nat : Spot - 7 <= b /\ b < Spot + n + 3 => ~InRuns(b, used)
        /\ used = {} => Spot = 7
    BY MallocIs
  <1>0. Step = New("sb", SbBuff) => n = SbBuff
    BY DEF New
  <1> HIDE DEF n
  <1>2. SUFFICES ASSUME NEW q \in DOMAIN live
                 PROVE  q # Spot /\ ~Meet(Whole(Spot, n), KeptOf(live, q))
    BY DEF n
  <1>3. Sound(live, at, q)
    BY DEF Types
  <1> DEFINE m == live[q].n
  <1>4. /\ Span(KeptOf(live, q)) /\ Span(Whole(q, m))
        /\ \A b \in Nat : Within(b, Whole(q, m)) <=> q - 4 <= b /\ b < q + m
        /\ live[q].of # "priv" => KeptOf(live, q) = Whole(q, m)
        /\ \A b \in Nat : Within(b, Data(q, m)) <=> q <= b /\ b < q + m
    BY <1>3, KeptSpan
  <1>5. live[q].of = "priv" => KeptOf(live, q) = Data(q, m) /\ m > 0 /\ m = Priv /\ q = at["priv"]
    BY <1>3, SizesAre DEF KeptOf, Sound
  <1>6. q \in 7..HeapSize /\ m \in Nat
    BY <1>3 DEF Sound
  <1> HIDE DEF m
  <1>7. /\ Span(Whole(Spot, n)) /\ Lo(Whole(Spot, n)) = Spot - 4
        /\ Hi(Whole(Spot, n)) = Spot + n
    BY <1>1, Spaces
  <1>8. CASE Covered(used, KeptOf(live, q))
    <2>1. ~Meet(Whole(Spot, n), KeptOf(live, q))
      <3>1. SUFFICES ASSUME NEW b \in Nat, Within(b, Whole(Spot, n)), Within(b, KeptOf(live, q))
                     PROVE  FALSE
        BY <1>4, <1>7, Meeting
      <3>2. InRuns(b, used)
        BY <1>8, <3>1 DEF Covered
      <3>3. Spot - 4 <= b /\ b < Spot + n
        BY <1>7, <3>1 DEF Within
      <3>4. Spot - 7 <= b /\ b < Spot + n + 3
        BY <1>1, <3>3
      <3> QED BY <1>1, <3>2, <3>4
    <2>2. q # Spot
      <3>1. SUFFICES ASSUME q = Spot PROVE FALSE
        OBVIOUS
      <3>2. PICK b \in {q, q - 4} : Within(b, KeptOf(live, q)) /\ b \in Nat
        <4>1. CASE live[q].of = "priv"
          <5>1. Within(q, Data(q, m)) /\ q \in Nat
            BY <1>4, <1>5, <1>6, <4>1
          <5> QED BY <1>5, <4>1, <5>1
        <4>2. CASE live[q].of # "priv"
          <5>1. q - 4 \in Nat /\ q - 4 < q + m
            BY <1>6
          <5>2. Within(q - 4, Whole(q, m))
            BY <1>4, <5>1
          <5> QED BY <1>4, <4>2, <5>1, <5>2
        <4> QED BY <4>1, <4>2
      <3>3. InRuns(b, used)
        BY <1>8, <3>2 DEF Covered
      <3>4. Spot - 7 <= b /\ b < Spot + n + 3
        BY <1>1, <1>6, <3>1, <3>2
      <3> QED BY <1>1, <3>2, <3>3, <3>4
    <2> QED BY <2>1, <2>2
  <1>9. CASE Early /\ live[q].of = "priv"
    <2>1. pc = 1 /\ n = SbBuff /\ command = Plain("reboot")
      BY <1>0, <1>1, <1>9, ProbeSteps DEF Early
    <2>2. used = {} /\ Spot = 7
      BY <1>1, <2>1 DEF Types, Underway
    <2>3. SbBuff + 14 <= q
      <3>1. q # 0 /\ q = at["priv"]
        BY <1>5, <1>6, <1>9
      <3> QED BY <3>1 DEF Types, Pointers
    <2>4. q # Spot
      BY <1>6, <2>2, <2>3, SizesAre
    <2>5. ~Meet(Whole(Spot, n), KeptOf(live, q))
      <3>1. SUFFICES ASSUME NEW b \in Nat, Within(b, Whole(Spot, n)), Within(b, KeptOf(live, q))
                     PROVE  FALSE
        BY <1>4, <1>7, Meeting
      <3>2. b < Spot + n
        BY <1>7, <3>1 DEF Within
      <3>3. q <= b
        BY <1>4, <1>5, <1>9, <3>1
      <3>4. SbBuff \in Nat /\ b < 7 + SbBuff
        BY <2>1, <2>2, <3>2, SizesAre
      <3> QED BY <1>6, <2>3, <3>3, <3>4
    <2> QED BY <2>4, <2>5
  <1> QED BY <1>8, <1>9 DEF Orderly

LEMMA Apartness ==
    ASSUME NEW i, NEW j, NEW k, Span(i), Span(j), Span(k),
           \A b \in Nat : Within(b, i) => Within(b, k), ~Meet(k, j)
    PROVE  ~Meet(i, j) /\ ~Meet(j, i)
  BY Meeting

LEMMA MallocOrderly ==
    ASSUME Types, Orderly, Malloc
    PROVE  Orderly'
  <1> DEFINE v == Step.var
             n == Step.n
             place == [at EXCEPT ![v] = Spot]
             block == Whole(Spot, n)
  <1>1. /\ command # None /\ Step.op = "malloc"
        /\ v \in Vars /\ Spot \in 7..HeapSize /\ n \in 0..(HeapSize - Spot)
        /\ \/ v \notin Now \cup {"priv"} /\ After = Now \cup {v}
           \/ v = "priv" /\ After = Now
        /\ used' = Filled(used, block)
        /\ live' = [q \in DOMAIN live \cup {Spot} |->
                      IF q = Spot THEN [n |-> n, of |-> v] ELSE live[q]]
        /\ hurt' = (hurt \ {Spot}) \cup Others(Spot, block)
        /\ Done(place)
    BY MallocIs
  <1>2. \A q \in DOMAIN live : q # Spot /\ ~Meet(block, KeptOf(live, q))
    BY MallocFresh
  <1>3. /\ Runs(used) /\ at \in [Vars -> 0..HeapSize] /\ HeapSize \in Nat
        /\ \A p \in DOMAIN live : Sound(live, at, p)
    BY SizesAre DEF Types, Pointers
  <1>4. /\ hurt = {} /\ Apart(live) /\ Owned(used, live)
        /\ \A p \in DOMAIN live : (Early /\ live[p].of = "priv") \/ Covered(used, KeptOf(live, p))
        /\ \A u \in Now : HoldsAt(live, at, u)
        /\ \A p \in DOMAIN live : Stays(live, at, Now, p)
    BY DEF Orderly
  <1>5. Types'
    BY MallocTypes
  <1>00. Others(Spot, block) = {}
    BY <1>2 DEF Others, Kept, KeptOf
  <1> HIDE DEF v, n, block
  <1>6. place \in [Vars -> 0..HeapSize]
        /\ place[v] = Spot /\ \A u \in Vars : u # v => place[u] = at[u]
    BY <1>1, <1>3
  <1> HIDE DEF place
  <1>7. /\ Now' \subseteq After /\ \A u \in Now' : at'[u] = place[u]
        /\ \A u \in After : u \in Left \/ u \in Now'
        /\ \/ command' = command /\ pc' = pc + 1
           \/ command' = None /\ pc = Len(Steps(command))
    BY <1>1, <1>6, DoneIs
  <1>8. DOMAIN live' = DOMAIN live \cup {Spot}
        /\ live'[Spot].n = n /\ live'[Spot].of = v
        /\ \A q \in DOMAIN live : live'[q] = live[q] /\ KeptOf(live', q) = KeptOf(live, q)
    BY <1>1, <1>2 DEF KeptOf
  <1>9. \A q \in DOMAIN live' : Sound(live', at', q)
    BY <1>5 DEF Types
  <1>10. /\ Span(KeptOf(live', Spot)) /\ Span(block) /\ block = Whole(Spot, live'[Spot].n)
         /\ \A b \in Nat : Within(b, KeptOf(live', Spot)) => Within(b, block)
    <2>1. Sound(live', at', Spot)
      BY <1>8, <1>9
    <2>2. block = Whole(Spot, live'[Spot].n)
      BY <1>8 DEF block
    <2> QED BY <2>1, <2>2, KeptSpan
  <1>11. \A q \in DOMAIN live : Span(KeptOf(live, q))
    BY <1>3, KeptSpan
  <1>12. hurt' = {}
    BY <1>1, <1>4, <1>00
  <1>13. \A b \in Nat : InRuns(b, used') <=> InRuns(b, used) \/ Within(b, block)
    BY <1>1, <1>3, <1>10, FilledIs
  <1>14. Apart(live')
    <2> SUFFICES ASSUME NEW p \in DOMAIN live', NEW q \in DOMAIN live', p # q
                 PROVE  ~Meet(KeptOf(live', p), KeptOf(live', q))
      BY DEF Apart
    <2>1. CASE p \in DOMAIN live /\ q \in DOMAIN live
      BY <1>4, <1>8, <2>1 DEF Apart
    <2>2. \A r \in DOMAIN live : ~Meet(KeptOf(live', Spot), KeptOf(live', r))
                              /\ ~Meet(KeptOf(live', r), KeptOf(live', Spot))
      <3> TAKE r \in DOMAIN live
      <3>1. ~Meet(block, KeptOf(live, r)) /\ Span(KeptOf(live, r))
        BY <1>2, <1>11
      <3>2. ~Meet(KeptOf(live', Spot), KeptOf(live, r)) /\ ~Meet(KeptOf(live, r), KeptOf(live', Spot))
        BY <1>10, <3>1, Apartness
      <3> QED BY <1>8, <3>2
    <2> QED BY <1>8, <2>1, <2>2
  <1>15. ASSUME NEW p \in DOMAIN live'
         PROVE  (Early' /\ live'[p].of = "priv") \/ Covered(used', KeptOf(live', p))
    <2>1. CASE p = Spot
      BY <1>10, <1>13, <2>1 DEF Covered
    <2>2. CASE p # Spot
      <3>1. p \in DOMAIN live /\ live'[p] = live[p] /\ KeptOf(live', p) = KeptOf(live, p)
        BY <1>8, <2>2
      <3>2. CASE Covered(used, KeptOf(live, p))
        BY <1>13, <3>1, <3>2 DEF Covered
      <3>3. CASE Early /\ live[p].of = "priv"
        <4>1. command = Plain("reboot") /\ pc = 1
          BY <1>1, <3>3, ProbeSteps DEF Early
        <4>2. Len(Steps(command)) = 3
          BY <4>1, ProbeIs
        <4>3. command' = command /\ pc' = 2
          BY <1>7, <4>1, <4>2
        <4>4. Early'
          BY <4>1, <4>3 DEF Early
        <4> QED BY <3>1, <3>3, <4>4
      <3> QED BY <1>4, <3>1, <3>2, <3>3
    <2> QED BY <2>1, <2>2
  <1>16. Owned(used', live')
    <2> SUFFICES ASSUME NEW b \in Nat, InRuns(b, used')
                 PROVE  \E p \in DOMAIN live' : Within(b, Whole(p, live'[p].n))
      BY DEF Owned
    <2>1. CASE Within(b, block)
      BY <1>8, <1>10, <2>1
    <2>2. CASE InRuns(b, used)
      <3>1. PICK p \in DOMAIN live : Within(b, Whole(p, live[p].n))
        BY <1>4, <2>2 DEF Owned
      <3> QED BY <1>8, <3>1
    <2> QED BY <1>13, <2>1, <2>2
  <1>17. Now \in SUBSET Vars
    BY <1>1, StepIs
  <1>18. ASSUME NEW u \in Now' PROVE HoldsAt(live', at', u)
    <2>1. at'[u] = place[u] /\ (u = v \/ u \in Now)
      BY <1>1, <1>7
    <2>2. CASE u = v
      BY <1>6, <1>8, <2>1, <2>2 DEF HoldsAt
    <2>3. CASE u # v
      <3>1. u \in Now /\ u \in Vars /\ at'[u] = at[u]
        BY <1>6, <1>17, <2>1, <2>3
      <3>2. at[u] \in DOMAIN live /\ live[at[u]].of = u
        BY <1>4, <3>1 DEF HoldsAt
      <3> QED BY <1>8, <3>1, <3>2 DEF HoldsAt
    <2> QED BY <2>2, <2>3
  <1>19. ASSUME NEW p \in DOMAIN live' PROVE Stays(live', at', Now', p)
    <2>1. CASE p = Spot
      <3>1. CASE v = "priv"
        BY <1>8, <2>1, <3>1 DEF Stays
      <3>2. CASE v # "priv"
        <4>1. v \in Left \/ (v \in Now' /\ at'[v] = Spot)
          BY <1>1, <1>6, <1>7, <3>2
        <4> QED BY <1>8, <2>1, <4>1 DEF Stays
      <3> QED BY <3>1, <3>2
    <2>2. CASE p # Spot
      <3>1. p \in DOMAIN live /\ live'[p] = live[p]
        BY <1>8, <2>2
      <3> DEFINE u == live[p].of
      <3>2. u \in Left \cup {"priv"} \/ (u \in Now /\ at[u] = p)
        BY <1>4, <3>1 DEF Stays
      <3> HIDE DEF u
      <3>3. CASE u \in Left \cup {"priv"}
        BY <3>1, <3>3 DEF Stays, u
      <3>4. CASE u \notin Left \cup {"priv"}
        <4>1. u \in Now /\ at[u] = p /\ u \in After /\ u # v /\ u \in Vars
          BY <1>1, <1>17, <3>2, <3>4
        <4>2. u \in Now' /\ at'[u] = p
          BY <1>6, <1>7, <3>4, <4>1
        <4> QED BY <3>1, <4>2 DEF Stays, u
      <3> QED BY <3>3, <3>4
    <2> QED BY <2>1, <2>2
  <1> QED BY <1>12, <1>14, <1>15, <1>16, <1>18, <1>19 DEF Orderly

(* Where a store goes: over no block but its own, unless it is stray. *)
LEMMA StoreIs ==
    ASSUME Types, Store
    PROVE  /\ command # None /\ Step.op = "store" /\ After = Now /\ Done(at)
           /\ live' = live /\ careless' = careless
           /\ LET p == at[Step.var]
                  n == IF p + Step.n < HeapSize THEN Step.n ELSE HeapSize - p
                  own == IF Holds(Step.var) THEN p ELSE 0
              IN  \/ p = 0 /\ used' = used /\ hurt' = hurt /\ stray' = stray
                  \/ /\ p \in 7..HeapSize /\ n \in 0..(HeapSize - p) /\ n > 0
                     /\ used' = Filled(used, Data(p, n))
                     /\ hurt' = hurt \cup Others(own, Data(p, n))
                     /\ \/ own = p /\ Holds(Step.var) /\ n <= live[p].n /\ stray' = stray
                        \/ stray' = stray \cup {p}
  <1> DEFINE v == Step.var
             m == Step.n
             p == at[v]
             n == IF p + m < HeapSize THEN m ELSE HeapSize - p
             own == IF Holds(v) THEN p ELSE 0
  <1>1. command # None /\ Step.op = "store" /\ Done(at) /\ live' = live /\ careless' = careless
    BY DEF Store, Doing
  <1>2. Step \in StepSet /\ Going(command, pc, Now, After) /\ Step = Steps(command)[pc]
    BY <1>1, StepIs
  <1>3. After = Now /\ m > 0 /\ v # "ptr"
    <2>1. CASE Moves(Step, Now, After)
      BY <1>1, <2>1 DEF Moves
    <2>2. CASE Step = Drop("ptr")
      BY <1>1, <2>2 DEF Drop
    <2>3. CASE Step = New("priv", Priv)
      BY <1>1, <2>3 DEF New
    <2> QED BY <1>2, <2>1, <2>2, <2>3 DEF Going
  <1>4. v \in Vars /\ m \in Nat
    BY <1>2 DEF StepSet
  <1>5. IF p = 0 THEN UNCHANGED <<used, hurt, stray>>
        ELSE /\ used' = Filled(used, Data(p, n))
             /\ hurt' = hurt \cup Others(own, Data(p, n))
             /\ stray' = IF own # 0 /\ n <= live[p].n THEN stray ELSE stray \cup {p}
    BY DEF Store
  <1>6. p = 0 \/ (7 <= p /\ p < HeapSize /\ p \in 0..HeapSize)
    BY <1>3, <1>4 DEF Types, Pointers
  <1>7. HeapSize \in Nat
    BY SizesAre
  <1>8. own # 0 => own = p /\ Holds(v)
    OBVIOUS
  <1> HIDE DEF v, m, p, own
  <1>9. p # 0 => p \in 7..HeapSize /\ n \in 0..(HeapSize - p) /\ n > 0
    BY <1>3, <1>4, <1>6, <1>7
  <1> HIDE DEF n
  <1>10. \/ p = 0 /\ used' = used /\ hurt' = hurt /\ stray' = stray
         \/ /\ p \in 7..HeapSize /\ n \in 0..(HeapSize - p) /\ n > 0
            /\ used' = Filled(used, Data(p, n))
            /\ hurt' = hurt \cup Others(own, Data(p, n))
            /\ \/ own = p /\ Holds(v) /\ n <= live[p].n /\ stray' = stray
               \/ stray' = stray \cup {p}
    <2>1. CASE p = 0
      BY <1>5, <2>1
    <2>2. CASE p # 0
      BY <1>5, <1>8, <1>9, <2>2
    <2> QED BY <2>1, <2>2
  <1> QED BY <1>1, <1>3, <1>10 DEF v, m, p, n, own

LEMMA StoreTypes ==
    ASSUME Types, Store
    PROVE  Types'
  <1> DEFINE v == Step.var
             p == at[v]
             n == IF p + Step.n < HeapSize THEN Step.n ELSE HeapSize - p
             own == IF Holds(v) THEN p ELSE 0
  <1>1. /\ command # None /\ Step.op = "store" /\ Done(at)
        /\ live' = live /\ careless' = careless
        /\ \/ p = 0 /\ used' = used /\ hurt' = hurt
           \/ /\ p \in 7..HeapSize /\ n \in 0..(HeapSize - p) /\ n > 0
              /\ used' = Filled(used, Data(p, n))
              /\ hurt' = hurt \cup Others(own, Data(p, n))
    BY StoreIs
  <1>2. Runs(used) /\ Pointers /\ Underway /\ hurt \subseteq 1..HeapSize
        /\ \A q \in DOMAIN live : Sound(live, at, q)
    BY DEF Types
  <1>3. at \in [Vars -> 0..HeapSize]
    BY <1>2 DEF Pointers
  <1>4. Others(own, Data(p, n)) \subseteq DOMAIN live
    BY DEF Others
  <1> HIDE DEF v, p, n, own
  <1>5. /\ at' \in [Vars -> 0..HeapSize]
        /\ \A u \in Vars : at'[u] = at[u] \/ at'[u] = 0
        /\ at'["priv"] = at["priv"]
        /\ \/ command' = command /\ pc' = pc + 1 /\ pc' \in 1..Len(Steps(command'))
           \/ command' = None /\ pc' = 1
        /\ command' \in Commands
    BY <1>1, <1>3, DoneIs
  <1>6. Runs(used')
    <2>1. ASSUME p \in 7..HeapSize, n \in 0..(HeapSize - p), n > 0
          PROVE  Runs(Filled(used, Data(p, n)))
      <3>1. Span(Data(p, n))
        BY <2>1, Spaces
      <3> QED BY <1>2, <3>1, FilledIs
    <2> QED BY <1>1, <1>2, <2>1
  <1>7. Pointers'
    BY <1>2, <1>5 DEF Pointers
  <1>8. \A q \in DOMAIN live' : Sound(live', at', q)
    BY <1>1, <1>2, <1>5 DEF Sound
  <1>9. hurt' \subseteq 1..HeapSize
    <2>1. DOMAIN live \subseteq 1..HeapSize
      <3>1. \A q \in DOMAIN live : q \in 7..HeapSize
        BY <1>2 DEF Sound
      <3>2. 7..HeapSize \subseteq 1..HeapSize
        OBVIOUS
      <3> QED BY <3>1, <3>2
    <2> QED BY <1>1, <1>2, <1>4, <2>1
  <1>10. Underway'
    <2>1. None # Plain("boot") /\ None # Plain("reboot")
      BY DEF None, Plain
    <2>2. pc \in Nat \ {0}
      BY <1>1, StepIs
    <2>3. command' \in {Plain("boot"), Plain("reboot")} => command' = command /\ pc' = pc + 1 /\ pc' # 1
      BY <1>5, <2>1, <2>2
    <2>4. command' = Plain("boot") => ~(pc' <= 2) /\ pc' # 2
      <3> SUFFICES ASSUME command' = Plain("boot") PROVE ~(pc' <= 2) /\ pc' # 2
        OBVIOUS
      <3>1. command = Plain("boot") /\ pc' = pc + 1
        BY <2>3
      <3>2. pc # 1
        BY <1>1, <3>1, ProbeSteps
      <3> QED BY <2>2, <3>1, <3>2
    <2> QED BY <1>1, <1>2, <1>5, <2>1, <2>3, <2>4 DEF Underway
  <1> QED BY <1>6, <1>7, <1>8, <1>9, <1>10 DEF Types

LEMMA StoreOrderly ==
    ASSUME Types, Calm, Orderly, Store, Calm'
    PROVE  Orderly'
  <1> DEFINE v == Step.var
             p == at[v]
             n == IF p + Step.n < HeapSize THEN Step.n ELSE HeapSize - p
             own == IF Holds(v) THEN p ELSE 0
             data == Data(p, n)
  <1>1. /\ command # None /\ Step.op = "store" /\ After = Now /\ Done(at) /\ live' = live
        /\ \/ p = 0 /\ used' = used /\ hurt' = hurt
           \/ /\ p \in 7..HeapSize /\ n \in 0..(HeapSize - p) /\ n > 0
              /\ used' = Filled(used, data) /\ hurt' = hurt \cup Others(p, data)
              /\ p \in DOMAIN live /\ live[p].of = v /\ n <= live[p].n
    BY StoreIs DEF Calm, Holds
  <1>2. /\ Runs(used) /\ at \in [Vars -> 0..HeapSize] /\ HeapSize \in Nat
        /\ \A q \in DOMAIN live : Sound(live, at, q)
    BY SizesAre DEF Types, Pointers
  <1>3. /\ hurt = {} /\ Apart(live) /\ Owned(used, live)
        /\ \A q \in DOMAIN live : (Early /\ live[q].of = "priv") \/ Covered(used, KeptOf(live, q))
        /\ \A u \in Now : HoldsAt(live, at, u)
        /\ \A q \in DOMAIN live : Stays(live, at, Now, q)
    BY DEF Orderly
  <1>4. Step = Put("priv", Priv) => v = "priv" /\ Step.n = Priv
    BY DEF Put
  <1>5. n = IF p + Step.n < HeapSize THEN Step.n ELSE HeapSize - p
    OBVIOUS
  <1>6. p = at[v]
    OBVIOUS
  <1>7. \A q : q \in Others(p, data) => q \in DOMAIN live /\ q # p /\ Meet(data, KeptOf(live, q))
    BY DEF Others, Kept, KeptOf
  <1>8. data = Data(p, n)
    OBVIOUS
  <1> HIDE DEF v, p, n, own, data
  <1>9. /\ Now' \subseteq Now /\ \A u \in Now' : at'[u] = at[u]
        /\ \A u \in Now : u \in Left \/ u \in Now'
    BY <1>1, <1>2, DoneIs
  <1>10. ASSUME p # 0
         PROVE  /\ Span(data)
                /\ \A b \in Nat : InRuns(b, used') <=> InRuns(b, used) \/ Within(b, data)
                /\ \A b \in Nat : Within(b, data) => Within(b, KeptOf(live, p))
                /\ Span(KeptOf(live, p))
    <2>1. /\ p \in 7..HeapSize /\ n \in 0..(HeapSize - p) /\ n > 0
          /\ used' = Filled(used, data) /\ p \in DOMAIN live /\ n <= live[p].n
      BY <1>1, <1>10
    <2>2. Span(data) /\ Lo(data) = p /\ Hi(data) = p + n /\ p \in Nat /\ n \in Nat
      BY <1>8, <2>1, Spaces
    <2>3. Sound(live, at, p)
      BY <1>2, <2>1
    <2> DEFINE m == live[p].n
    <2>4. m \in Nat /\ n <= m
      BY <2>1, <2>3 DEF Sound
    <2>5. /\ Span(KeptOf(live, p))
          /\ \A b \in Nat : Within(b, Whole(p, m)) <=> p - 4 <= b /\ b < p + m
          /\ live[p].of # "priv" => KeptOf(live, p) = Whole(p, m)
          /\ \A b \in Nat : Within(b, Data(p, m)) <=> p <= b /\ b < p + m
      BY <2>3, KeptSpan
    <2>6. live[p].of = "priv" => KeptOf(live, p) = Data(p, m)
      BY DEF KeptOf
    <2> HIDE DEF m
    <2>7. \A b \in Nat : Within(b, data) => p <= b /\ p - 4 <= b /\ b < p + m
      <3> TAKE b \in Nat
      <3>0. HAVE Within(b, data)
      <3>1. p <= b /\ b < p + n
        BY <2>2, <3>0 DEF Within
      <3> QED BY <2>2, <2>4, <3>1
    <2>8. \A b \in Nat : Within(b, data) => Within(b, KeptOf(live, p))
      BY <2>5, <2>6, <2>7
    <2>9. \A b \in Nat : InRuns(b, used') <=> InRuns(b, used) \/ Within(b, data)
      BY <1>2, <2>1, <2>2, FilledIs
    <2> QED BY <2>2, <2>5, <2>8, <2>9
  <1>11. \A q \in DOMAIN live : Span(KeptOf(live, q))
    BY <1>2, KeptSpan
  <1>12. hurt' = {}
    <2>1. CASE p = 0
      BY <1>1, <1>3, <2>1
    <2>2. CASE p # 0
      <3>1. hurt' = Others(p, data) /\ p \in DOMAIN live
        BY <1>1, <1>3, <2>2
      <3>2. ASSUME NEW q \in Others(p, data) PROVE FALSE
        <4>1. q \in DOMAIN live /\ q # p /\ Meet(data, KeptOf(live, q)) /\ Span(KeptOf(live, q))
          BY <1>7, <1>11, <3>2
        <4>2. ~Meet(KeptOf(live, p), KeptOf(live, q))
          BY <1>3, <3>1, <4>1 DEF Apart
        <4>3. ~Meet(data, KeptOf(live, q))
          BY <1>10, <2>2, <4>1, <4>2, Apartness
        <4> QED BY <4>1, <4>3
      <3> QED BY <3>1, <3>2
    <2> QED BY <2>1, <2>2
  <1>13. \A b \in Nat : InRuns(b, used) => InRuns(b, used')
    <2>1. CASE p = 0
      BY <1>1, <2>1
    <2>2. CASE p # 0
      BY <1>10, <2>2
    <2> QED BY <2>1, <2>2
  <1>14. ASSUME NEW q \in DOMAIN live'
         PROVE  (Early' /\ live'[q].of = "priv") \/ Covered(used', KeptOf(live', q))
    <2>1. q \in DOMAIN live /\ live' = live /\ Sound(live, at, q)
      BY <1>1, <1>2
    <2>2. CASE Covered(used, KeptOf(live, q))
      BY <1>13, <2>1, <2>2 DEF Covered
    <2>3. CASE Early /\ live[q].of = "priv"
      <3>1. pc \in Nat \ {0} /\ pc <= 2 /\ pc # 1 /\ command = Plain("reboot")
        BY <1>1, <2>3, ProbeSteps DEF Early
      <3>2. Step = Put("priv", Priv)
        <4>1. pc = 2
          BY <3>1
        <4> QED BY <3>1, <4>1, ProbeSteps
      <3>3. v = "priv" /\ Step.n = Priv /\ q = p /\ live[q].n = Priv /\ q \in 7..HeapSize
        BY <1>4, <1>6, <2>1, <2>3, <3>2 DEF Sound
      <3>4. p # 0 /\ p + Priv <= HeapSize
        <4>1. at["priv"] = 0 \/ at["priv"] + Priv <= HeapSize
          BY DEF Types, Pointers
        <4> QED BY <1>6, <3>3, <4>1
      <3>5. n = Priv
        BY <1>2, <1>5, <3>3, <3>4, SizesAre
      <3>6. KeptOf(live, q) = data
        BY <1>8, <2>3, <3>3, <3>5 DEF KeptOf
      <3>7. Covered(used', KeptOf(live, q))
        BY <1>10, <3>4, <3>6 DEF Covered
      <3> QED BY <2>1, <3>7
    <2> QED BY <1>3, <2>1, <2>2, <2>3
  <1>15. Owned(used', live')
    <2> SUFFICES ASSUME NEW b \in Nat, InRuns(b, used')
                 PROVE  \E q \in DOMAIN live : Within(b, Whole(q, live[q].n))
      BY <1>1 DEF Owned
    <2>1. CASE InRuns(b, used)
      BY <1>3, <2>1 DEF Owned
    <2>2. CASE ~InRuns(b, used)
      <3>1. p # 0
        BY <1>1, <2>2
      <3>2. Within(b, KeptOf(live, p)) /\ p \in DOMAIN live /\ Sound(live, at, p)
        BY <1>1, <1>2, <1>10, <2>2, <3>1
      <3>3. Within(b, Whole(p, live[p].n))
        BY <3>2, KeptSpan
      <3> QED BY <3>2, <3>3
    <2> QED BY <2>1, <2>2
  <1>16. Apart(live')
    BY <1>1, <1>3
  <1>17. \A u \in Now' : HoldsAt(live', at', u)
    BY <1>1, <1>3, <1>9 DEF HoldsAt
  <1>18. \A q \in DOMAIN live' : Stays(live', at', Now', q)
    BY <1>1, <1>3, <1>9 DEF Stays
  <1> QED BY <1>12, <1>14, <1>15, <1>16, <1>17, <1>18 DEF Orderly

(* What a free step frees is held, or the user's own free is careless. *)
LEMMA DropIs ==
    ASSUME Types, command # None, Step.op = "free"
    PROVE  /\ Step.var \in Vars \ {"priv"} /\ After = Now \ {Step.var}
           /\ \/ Step.var \in Now
              \/ command = Plain("free") /\ Step.var = "ptr"
  <1>1. Step \in StepSet /\ Going(command, pc, Now, After) /\ Step = Steps(command)[pc]
    BY StepIs
  <1>2. Step.var \in Vars /\ "ptr" # "priv"
    BY <1>1 DEF StepSet
  <1>3. CASE Moves(Step, Now, After)
    BY <1>2, <1>3 DEF Moves
  <1>4. CASE command = Plain("free") /\ Step = Drop("ptr") /\ Now = {} /\ After = {}
    <2>1. Step.var = "ptr"
      BY <1>4 DEF Drop
    <2> QED BY <1>2, <1>4, <2>1
  <1>5. CASE Step = New("priv", Priv)
    BY <1>5 DEF New
  <1> QED BY <1>1, <1>3, <1>4, <1>5 DEF Going

LEMMA FreeTypes ==
    ASSUME Types, Free \/ FreeAgain
    PROVE  Types'
  <1> DEFINE p == at[Step.var]
  <1>1. command # None /\ Step.op = "free" /\ Done(at)
    BY DEF Free, FreeAgain, Doing
  <1>2. Runs(used) /\ Pointers /\ Underway /\ hurt \subseteq 1..HeapSize
        /\ \A q \in DOMAIN live : Sound(live, at, q)
    BY DEF Types
  <1>3. at \in [Vars -> 0..HeapSize] /\ HeapSize \in Nat
    BY <1>2, SizesAre DEF Pointers
  <1>4. /\ live' = [q \in DOMAIN live \ {p} |-> live[q]]
        /\ \E i : used' = Marked(used, i) /\ Span(i)
        /\ hurt' \subseteq hurt \cup DOMAIN live /\ careless' \in BOOLEAN
    <2>1. CASE Free
      <3>1. /\ live' = [q \in DOMAIN live \ {p} |-> live[q]] /\ hurt' = hurt
            /\ used' = Marked(used, Whole(p, live[p].n)) /\ careless' = careless
            /\ p \in DOMAIN live
        BY <2>1 DEF Free, Holds
      <3>2. Sound(live, at, p)
        BY <1>2, <3>1
      <3> HIDE DEF p
      <3>3. Span(Whole(p, live[p].n))
        BY <3>2, KeptSpan
      <3> QED BY <1>2, <3>1, <3>3 DEF Underway
    <2>2. CASE FreeAgain
      <3> DEFINE rest == <<p - 4, HeapSize>>
      <3>1. /\ live' = [q \in DOMAIN live \ {p} |-> live[q]]
            /\ hurt' = (hurt \cup Others(p, rest)) \ {p}
            /\ used' = Marked(used, rest) /\ p # 0
            /\ careless' = (careless \/ NotHeld)
        BY <2>2 DEF FreeAgain, HeaderGone
      <3>2. Others(p, rest) \subseteq DOMAIN live
        BY DEF Others
      <3>3. Step.var \in Vars
        BY <1>1, DropIs
      <3>4. p \in 0..HeapSize /\ 7 <= p
        BY <1>2, <1>3, <3>1, <3>3 DEF Pointers
      <3> HIDE DEF p
      <3>5. Span(rest)
        <4> DEFINE a == p - 4
        <4>1. a \in 0..HeapSize /\ HeapSize \in 0..HeapSize /\ a < HeapSize
          BY <1>3, <3>4
        <4> HIDE DEF a
        <4>2. Span(<<a, HeapSize>>)
          BY <4>1, Pair
        <4> QED BY <4>2 DEF a
      <3>6. careless' \in BOOLEAN
        BY <1>2, <3>1 DEF Underway, NotHeld
      <3> QED BY <3>1, <3>2, <3>5, <3>6
    <2> QED BY <2>1, <2>2
  <1> HIDE DEF p
  <1>5. /\ at' \in [Vars -> 0..HeapSize]
        /\ \A u \in Vars : at'[u] = at[u] \/ at'[u] = 0
        /\ at'["priv"] = at["priv"]
        /\ \/ command' = command /\ pc' = pc + 1 /\ pc' \in 1..Len(Steps(command'))
           \/ command' = None /\ pc' = 1
        /\ command' \in Commands
    BY <1>1, <1>3, DoneIs
  <1>6. Runs(used')
    BY <1>2, <1>4, MarkedIs
  <1>7. Pointers'
    BY <1>2, <1>5 DEF Pointers
  <1>8. \A q \in DOMAIN live' : Sound(live', at', q)
    BY <1>2, <1>4, <1>5 DEF Sound
  <1>9. hurt' \subseteq 1..HeapSize
    <2>1. DOMAIN live \subseteq 1..HeapSize
      <3>1. \A q \in DOMAIN live : q \in 7..HeapSize
        BY <1>2 DEF Sound
      <3>2. 7..HeapSize \subseteq 1..HeapSize
        OBVIOUS
      <3> QED BY <3>1, <3>2
    <2> QED BY <1>2, <1>4, <2>1
  <1>10. Underway'
    <2>1. None # Plain("boot") /\ None # Plain("reboot")
      BY DEF None, Plain
    <2>2. pc \in Nat \ {0}
      BY <1>1, StepIs
    <2>3. command' \in {Plain("boot"), Plain("reboot")} => command' = command /\ pc' = pc + 1 /\ pc' # 1
      BY <1>5, <2>1, <2>2
    <2>4. command' = Plain("boot") => ~(pc' <= 2) /\ pc' # 2
      <3> SUFFICES ASSUME command' = Plain("boot") PROVE ~(pc' <= 2) /\ pc' # 2
        OBVIOUS
      <3>1. command = Plain("boot") /\ pc' = pc + 1
        BY <2>3
      <3>2. pc # 1
        BY <1>1, <3>1, ProbeSteps
      <3> QED BY <2>2, <3>1, <3>2
    <2>5. careless' \in BOOLEAN
      BY <1>4
    <2>6. command' # None => pc' \in 1..Len(Steps(command'))
      BY <1>5
    <2>7. command' = None => pc' = 1
      BY <1>1, <1>5
    <2> QED BY <1>5, <2>3, <2>4, <2>5, <2>6, <2>7 DEF Underway
  <1> QED BY <1>6, <1>7, <1>8, <1>9, <1>10 DEF Types

LEMMA FreeOrderly ==
    ASSUME Types, Orderly, Free
    PROVE  Orderly'
  <1> DEFINE v == Step.var
             p == at[v]
             block == Whole(p, live[p].n)
  <1>1. /\ command # None /\ Step.op = "free" /\ Done(at)
        /\ p \in DOMAIN live /\ live[p].of = v
        /\ live' = [q \in DOMAIN live \ {p} |-> live[q]] /\ hurt' = hurt
        /\ used' = Marked(used, block)
    BY DEF Free, Doing, Holds
  <1>2. /\ Runs(used) /\ at \in [Vars -> 0..HeapSize] /\ HeapSize \in Nat
        /\ \A q \in DOMAIN live : Sound(live, at, q)
    BY SizesAre DEF Types, Pointers
  <1>3. /\ hurt = {} /\ Apart(live) /\ Owned(used, live)
        /\ \A q \in DOMAIN live : (Early /\ live[q].of = "priv") \/ Covered(used, KeptOf(live, q))
        /\ \A u \in Now : HoldsAt(live, at, u)
        /\ \A q \in DOMAIN live : Stays(live, at, Now, q)
    BY DEF Orderly
  <1>4. v # "priv" /\ After = Now \ {v}
    BY <1>1, DropIs
  <1>5. p = at[v] /\ block = Whole(p, live[p].n)
    OBVIOUS
  <1> HIDE DEF v, p, block
  <1>6. /\ Now' \subseteq After /\ \A u \in Now' : at'[u] = at[u]
        /\ \A u \in After : u \in Left \/ u \in Now'
    BY <1>1, <1>2, DoneIs
  <1>7. Span(block) /\ KeptOf(live, p) = block
    <2>1. Sound(live, at, p)
      BY <1>1, <1>2
    <2> QED BY <1>1, <1>4, <1>5, <2>1, KeptSpan
  <1>8. /\ DOMAIN live' = DOMAIN live \ {p}
        /\ \A q \in DOMAIN live' : /\ q \in DOMAIN live /\ q # p /\ live'[q] = live[q]
                                   /\ KeptOf(live', q) = KeptOf(live, q)
    BY <1>1 DEF KeptOf
  <1>9. \A b \in Nat : InRuns(b, used') <=> InRuns(b, used) /\ ~Within(b, block)
    BY <1>1, <1>2, <1>7, MarkedIs
  <1>10. ~Early
    <2>1. pc \in Nat \ {0}
      BY <1>1, StepIs
    <2>2. SUFFICES ASSUME command = Plain("reboot"), pc <= 2 PROVE FALSE
      BY DEF Early
    <2>3. pc = 1 \/ pc = 2
      BY <2>1, <2>2
    <2> QED BY <1>1, <2>2, <2>3, ProbeSteps
  <1>11. ASSUME NEW q \in DOMAIN live' PROVE Covered(used', KeptOf(live', q))
    <2>1. q \in DOMAIN live /\ q # p /\ KeptOf(live', q) = KeptOf(live, q)
      BY <1>8
    <2>2. Covered(used, KeptOf(live, q)) /\ ~Meet(block, KeptOf(live, q)) /\ Span(KeptOf(live, q))
      <3>1. Span(KeptOf(live, q))
        BY <1>2, <2>1, KeptSpan
      <3> QED BY <1>1, <1>3, <1>7, <1>10, <2>1, <3>1 DEF Apart
    <2>3. \A b \in Nat : Within(b, KeptOf(live, q)) => ~Within(b, block)
      BY <1>7, <2>2, Meeting
    <2> QED BY <1>9, <2>1, <2>2, <2>3 DEF Covered
  <1>12. Owned(used', live')
    <2> SUFFICES ASSUME NEW b \in Nat, InRuns(b, used')
                 PROVE  \E q \in DOMAIN live' : Within(b, Whole(q, live'[q].n))
      BY DEF Owned
    <2>1. InRuns(b, used) /\ ~Within(b, block)
      BY <1>9
    <2>2. PICK q \in DOMAIN live : Within(b, Whole(q, live[q].n))
      BY <1>3, <2>1 DEF Owned
    <2>3. q # p
      BY <1>5, <2>1, <2>2
    <2> QED BY <1>8, <2>2, <2>3
  <1>13. Apart(live')
    BY <1>3, <1>8 DEF Apart
  <1>14. ASSUME NEW u \in Now' PROVE HoldsAt(live', at', u)
    <2>1. u \in Now /\ u # v /\ at'[u] = at[u]
      BY <1>4, <1>6
    <2>2. at[u] \in DOMAIN live /\ live[at[u]].of = u
      BY <1>3, <2>1 DEF HoldsAt
    <2>3. at[u] # p
      BY <1>1, <2>1, <2>2
    <2>4. at[u] \in DOMAIN live' /\ live'[at[u]] = live[at[u]]
      BY <1>8, <2>2, <2>3
    <2> QED BY <2>1, <2>2, <2>4 DEF HoldsAt
  <1>15. ASSUME NEW q \in DOMAIN live' PROVE Stays(live', at', Now', q)
    <2>1. q \in DOMAIN live /\ q # p /\ live'[q] = live[q]
      BY <1>8
    <2> DEFINE u == live[q].of
    <2>2. u \in Left \cup {"priv"} \/ (u \in Now /\ at[u] = q)
      BY <1>3, <2>1 DEF Stays
    <2> HIDE DEF u
    <2>3. CASE u \in Left \cup {"priv"}
      BY <2>1, <2>3 DEF Stays, u
    <2>4. CASE u \notin Left \cup {"priv"}
      <3>1. u # v
        BY <1>5, <2>1, <2>2, <2>4
      <3>2. u \in Now' /\ at'[u] = q
        BY <1>4, <1>6, <2>2, <2>4, <3>1
      <3> QED BY <2>1, <3>2 DEF Stays, u
    <2> QED BY <2>3, <2>4
  <1>16. hurt' = {}
    BY <1>1, <1>3
  <1> QED BY <1>11, <1>12, <1>13, <1>14, <1>15, <1>16 DEF Orderly

(* A command frees what it holds: only the user's own free can go wrong. *)
LEMMA NeverAgain ==
    ASSUME Types, Calm, Orderly, FreeAgain \/ FreeAstray
    PROVE  careless'
  <1>1. /\ command # None /\ Step.op = "free" /\ careless' = (careless \/ NotHeld)
        /\ ~Holds(Step.var) \/ at[Step.var] \in hurt
    BY DEF FreeAgain, FreeAstray, Doing
  <1>2. hurt = {} /\ \A v \in Now : HoldsAt(live, at, v)
    BY DEF Orderly
  <1>3. ~HoldsAt(live, at, Step.var)
    BY <1>1, <1>2 DEF HoldsAt, Holds
  <1>4. command = Plain("free") /\ Step.var = "ptr"
    BY <1>1, <1>2, <1>3, DropIs
  <1>5. NotHeld
    BY <1>3, <1>4 DEF NotHeld, Holds, HoldsAt
  <1> QED BY <1>1, <1>5

(* A command begins with nothing held. *)
LEMMA NowAtStart ==
    ASSUME NEW c \in Commands, c # None
    PROVE  Chain(c)[1 - 1] = {} /\ 1 \in 1..Len(Steps(c))
  <1> DEFINE h == Chain(c)
  <1>1. Tour(h, c)
    BY ChainIs
  <1> HIDE DEF h
  <1>2. Len(Steps(c)) \in Nat \ {0} /\ h[0] = {}
    BY <1>1 DEF Tour
  <1>3. 1 - 1 = 0 /\ 1 \in 1..Len(Steps(c))
    BY <1>2
  <1> QED BY <1>2, <1>3 DEF h

LEMMA BeginKInv ==
    ASSUME KInv,
           NEW names \in SUBSET {"read", "load bin", "ls", "write", "append", "malloc", "free"},
           Begin(names)
    PROVE  KInv'
  <1>1. /\ command = None /\ command' \in Commands /\ command'[1] \in names
        /\ used' = used /\ at' = at /\ pc' = pc /\ live' = live /\ hurt' = hurt
        /\ stray' = stray /\ careless' = careless
    BY DEF Begin, Prompt
  <1>2. command' # None /\ command' # Plain("boot") /\ command' # Plain("reboot")
    <2>1. None[1] = "none" /\ Plain("boot")[1] = "boot" /\ Plain("reboot")[1] = "reboot"
      BY DEF None, Plain
    <2>2. "none" \notin names /\ "boot" \notin names /\ "reboot" \notin names
      OBVIOUS
    <2> QED BY <1>1, <2>1, <2>2
  <1>3. Types /\ pc = 1
    BY <1>1 DEF KInv, Types, Underway
  <1>4. pc' = 1 /\ 1 \in 1..Len(Steps(command')) /\ Chain(command')[1 - 1] = {}
    <2> DEFINE c == command'
    <2>1. c \in Commands /\ c # None
      BY <1>1, <1>2
    <2> HIDE DEF c
    <2>2. Chain(c)[1 - 1] = {} /\ 1 \in 1..Len(Steps(c))
      BY <2>1, NowAtStart
    <2> QED BY <1>1, <1>3, <2>2 DEF c
  <1>5. Now' = {} /\ Now = {}
    BY <1>1, <1>2, <1>4 DEF Now
  <1>6. Types'
    <2>1. Runs(used') /\ Pointers' /\ hurt' \subseteq 1..HeapSize
          /\ \A p \in DOMAIN live' : Sound(live', at', p)
      BY <1>1, <1>3 DEF Types, Pointers
    <2>2. Underway'
      BY <1>1, <1>2, <1>3, <1>4 DEF Types, Underway
    <2> QED BY <2>1, <2>2 DEF Types
  <1>7. ASSUME Calm' PROVE Orderly'
    <2>1. Orderly
      BY <1>1, <1>7 DEF KInv, Calm
    <2>2. ~Early
      BY <1>1 DEF Early, None, Plain
    <2>3. /\ hurt' = {} /\ Apart(live') /\ Owned(used', live')
          /\ \A p \in DOMAIN live' : Covered(used', KeptOf(live', p))
      BY <1>1, <2>1, <2>2 DEF Orderly
    <2>4. \A p \in DOMAIN live' : Stays(live', at', Now', p)
      BY <1>1, <1>5, <2>1 DEF Orderly
    <2>5. \A v \in Now' : HoldsAt(live', at', v)
      BY <1>5
    <2> QED BY <2>3, <2>4, <2>5 DEF Orderly
  <1> QED BY <1>6, <1>7 DEF KInv

(* The steps after which the kernel is lost. *)
LEMMA AstrayKInv ==
    ASSUME KInv, UNCHANGED <<used, at, command, pc, live, hurt, stray>>,
           careless' \in BOOLEAN, careless => careless'
    PROVE  KInv'
  <1>1. /\ used' = used /\ at' = at /\ command' = command /\ pc' = pc /\ live' = live
        /\ hurt' = hurt /\ stray' = stray
    OBVIOUS
  <1>2. Types'
    BY <1>1 DEF KInv, Types, Pointers, Underway
  <1>3. ASSUME Calm' PROVE Orderly'
    <2>1. Orderly
      BY <1>1, <1>3 DEF KInv, Calm
    <2>2. Now' = Now /\ Early' = Early
      BY <1>1 DEF Now, Early
    <2> QED BY <1>1, <2>1, <2>2 DEF Orderly
  <1> QED BY <1>2, <1>3 DEF KInv

LEMMA CheapKInv ==
    ASSUME KInv, Cheap
    PROVE  KInv'
  <1>1. /\ command = None /\ command' = command /\ pc' = pc /\ at' = at
        /\ used' = {} /\ careless' = TRUE /\ hurt' = DOMAIN live'
        /\ live' = [p \in DOMAIN live \cap {at["priv"], at["ptr"]} |-> live[p]]
    BY DEF Cheap, Prompt
  <1>2. Pointers /\ Underway /\ \A p \in DOMAIN live : Sound(live, at, p)
    BY DEF KInv, Types
  <1>3. Runs(used')
    BY <1>1 DEF Runs
  <1>4. Pointers' /\ Underway'
    <2>1. None # Plain("boot") /\ None # Plain("reboot")
      BY DEF None, Plain
    <2> QED BY <1>1, <1>2, <2>1 DEF Pointers, Underway
  <1>5. \A p \in DOMAIN live' : Sound(live', at', p)
    BY <1>1, <1>2 DEF Sound
  <1>6. hurt' \subseteq 1..HeapSize
    <2>1. \A p \in DOMAIN live' : p \in 7..HeapSize
      BY <1>5 DEF Sound
    <2>2. 7..HeapSize \subseteq 1..HeapSize
      OBVIOUS
    <2> QED BY <1>1, <2>1, <2>2
  <1>7. ~Calm'
    BY <1>1 DEF Calm
  <1> QED BY <1>3, <1>4, <1>5, <1>6, <1>7 DEF KInv, Types

LEMMA RebootKInv ==
    ASSUME KInv, Reboot
    PROVE  KInv'
  <1> DEFINE p == at["priv"]
  <1>1. /\ command = None /\ pc' = pc /\ at' = at
        /\ used' = {} /\ careless' = FALSE /\ hurt' = {}
        /\ live' = [q \in {p} \ {0} |-> [n |-> Priv, of |-> "priv"]]
        /\ command' = Plain(IF p = 0 THEN "boot" ELSE "reboot")
    BY DEF Reboot, Prompt
  <1>2. Pointers /\ pc = 1
    BY <1>1 DEF KInv, Types, Underway
  <1>3. Plain("boot") \in Commands /\ Plain("reboot") \in Commands
        /\ None # Plain("boot") /\ None # Plain("reboot")
        /\ Plain("boot") # Plain("reboot")
    <2>1. Plain("boot") \in Commands /\ Plain("reboot") \in Commands
      <3> DEFINE plain == { Plain(name) : name \in {"boot", "reboot", "read", "free"} }
      <3>1. Plain("boot") \in plain /\ Plain("reboot") \in plain
        OBVIOUS
      <3> HIDE DEF plain
      <3>2. plain \subseteq Commands
        BY DEF Commands, plain
      <3> QED BY <3>1, <3>2
    <2> QED BY <2>1 DEF None, Plain
  <1>4. /\ p # 0 => command' = Plain("reboot")
        /\ p = 0 => command' = Plain("boot")
        /\ command' \in Commands /\ command' # None
    BY <1>1, <1>3
  <1>5. HeapSize \in Nat /\ Priv \in Nat \ {0} /\ SbBuff \in Nat /\ "priv" \in Vars
    BY SizesAre, Variables
  <1>6. p = 0 \/ (p \in 7..HeapSize /\ Priv \in 0..(HeapSize - p) /\ Priv > 0)
    <2>1. p \in 0..HeapSize /\ (p = 0 \/ (SbBuff + 14 <= p /\ p + Priv <= HeapSize))
      BY <1>2, <1>5 DEF Pointers
    <2> HIDE DEF p
    <2> QED BY <1>5, <2>1
  <1>7. p = at["priv"]
    OBVIOUS
  <1> HIDE DEF p
  <1>8. \A q \in DOMAIN live' : q = p /\ p # 0 /\ live'[q].n = Priv /\ live'[q].of = "priv"
    BY <1>1
  <1>9. Now' = {} /\ pc' \in 1..Len(Steps(command')) /\ pc' = 1
    <2> DEFINE c == command'
    <2>1. c \in Commands /\ c # None
      BY <1>4
    <2> HIDE DEF c
    <2>2. Chain(c)[1 - 1] = {} /\ 1 \in 1..Len(Steps(c))
      BY <2>1, NowAtStart
    <2> QED BY <1>1, <1>2, <2>2 DEF c, Now
  <1>10. Types'
    <2>1. Runs(used')
      BY <1>1 DEF Runs
    <2>2. Pointers'
      BY <1>1, <1>2 DEF Pointers
    <2>3. Underway'
      <3>1. command' = Plain("boot") => at'["priv"] = 0
        BY <1>1, <1>3, <1>4, <1>7
      <3>2. pc' # 2
        BY <1>9
      <3> QED BY <1>1, <1>4, <1>9, <3>1, <3>2 DEF Underway
    <2>4. \A q \in DOMAIN live' : Sound(live', at', q)
      BY <1>1, <1>6, <1>7, <1>8 DEF Sound
    <2> QED BY <1>1, <2>1, <2>2, <2>3, <2>4 DEF Types
  <1>11. Orderly'
    <2>1. Apart(live')
      BY <1>8 DEF Apart
    <2>2. \A q \in DOMAIN live' : Early' /\ live'[q].of = "priv"
      BY <1>4, <1>8, <1>9 DEF Early
    <2>3. Owned(used', live')
      BY <1>1 DEF Owned, InRuns
    <2>4. \A q \in DOMAIN live' : Stays(live', at', Now', q)
      BY <1>8 DEF Stays
    <2> QED BY <1>1, <1>9, <2>1, <2>2, <2>3, <2>4 DEF Orderly
  <1> QED BY <1>10, <1>11 DEF KInv

LEMMA InitKInv ==
    ASSUME Init
    PROVE  KInv
  <1>1. /\ used = {} /\ at = [v \in Vars |-> 0] /\ command = Plain("boot") /\ pc = 1
        /\ DOMAIN live = {} /\ hurt = {} /\ careless = FALSE
    BY DEF Init, Vars
  <1>2. command \in Commands /\ command # None /\ command # Plain("reboot")
    <2> DEFINE plain == { Plain(name) : name \in {"boot", "reboot", "read", "free"} }
    <2>1. Plain("boot") \in plain
      OBVIOUS
    <2> HIDE DEF plain
    <2>2. plain \subseteq Commands
      BY DEF Commands, plain
    <2>3. None # Plain("boot") /\ Plain("boot") # Plain("reboot")
      BY DEF None, Plain
    <2> QED BY <1>1, <2>1, <2>2, <2>3
  <1>3. Now = {} /\ pc \in 1..Len(Steps(command))
    <2>1. Chain(command)[1 - 1] = {} /\ 1 \in 1..Len(Steps(command))
      BY <1>2, NowAtStart
    <2> QED BY <1>1, <2>1 DEF Now
  <1>4. Pointers
    <2>1. 0 \in 0..HeapSize /\ "priv" \in Vars
      BY SizesAre, Variables
    <2> QED BY <1>1, <2>1 DEF Pointers
  <1>5. Underway
    <2>1. at["priv"] = 0
      BY <1>1, Variables
    <2>2. pc # 2
      BY <1>1
    <2> QED BY <1>1, <1>2, <1>3, <2>1, <2>2 DEF Underway
  <1>6. Types
    BY <1>1, <1>4, <1>5 DEF Types, Runs
  <1>7. Orderly
    BY <1>1, <1>3 DEF Orderly, Apart, Owned, InRuns
  <1> QED BY <1>6, <1>7 DEF KInv

LEMMA NextKInv ==
    ASSUME KInv, [Next]_vars
    PROVE  KInv'
  <1>1. Types /\ (Calm => Orderly) /\ careless \in BOOLEAN
    BY DEF KInv, Types, Underway
  <1>2. CASE Malloc
    <2>1. stray' = stray /\ careless' = careless
      BY <1>1, <1>2, MallocIs
    <2>2. Types'
      BY <1>1, <1>2, MallocTypes
    <2>3. ASSUME Calm' PROVE Orderly'
      <3>1. Calm
        BY <2>1, <2>3 DEF Calm
      <3> QED BY <1>1, <1>2, <3>1, MallocOrderly
    <2> QED BY <2>2, <2>3 DEF KInv
  <1>3. CASE MallocAstray
    <2>1. /\ UNCHANGED <<used, at, command, pc, live, hurt, stray>>
          /\ careless' = (careless \/ Step.n + 10 >= Word)
      BY <1>3 DEF MallocAstray
    <2> DEFINE wraps == Step.n + 10 >= Word
    <2>2. wraps \in BOOLEAN
      OBVIOUS
    <2> HIDE DEF wraps
    <2>3. careless' \in BOOLEAN /\ (careless => careless')
      BY <1>1, <2>1, <2>2 DEF wraps
    <2> QED BY <2>1, <2>3, AstrayKInv
  <1>4. CASE Store
    <2>1. Types'
      BY <1>1, <1>4, StoreTypes
    <2>2. ASSUME Calm' PROVE Orderly'
      <3>1. careless' = careless
        BY <1>1, <1>4, StoreIs
      <3>2. stray' = {} => stray = {}
        BY <1>1, <1>4, StoreIs
      <3>3. Calm
        BY <2>2, <3>1, <3>2 DEF Calm
      <3> QED BY <1>1, <1>4, <2>2, <3>3, StoreOrderly
    <2> QED BY <2>1, <2>2 DEF KInv
  <1>5. CASE Free
    <2>1. Types' /\ stray' = stray /\ careless' = careless
      BY <1>1, <1>5, FreeTypes DEF Free
    <2>2. ASSUME Calm' PROVE Orderly'
      <3>1. Calm
        BY <2>1, <2>2 DEF Calm
      <3> QED BY <1>1, <1>5, <3>1, FreeOrderly
    <2> QED BY <2>1, <2>2 DEF KInv
  <1>6. CASE FreeAgain
    <2>1. Types' /\ stray' = stray /\ careless' = (careless \/ NotHeld)
      BY <1>1, <1>6, FreeTypes DEF FreeAgain
    <2>2. ~Calm'
      <3>1. Calm => careless'
        BY <1>1, <1>6, NeverAgain
      <3> QED BY <2>1, <3>1 DEF Calm
    <2> QED BY <2>1, <2>2 DEF KInv
  <1>7. CASE FreeAstray
    <2>1. /\ UNCHANGED <<used, at, command, pc, live, hurt, stray>>
          /\ careless' = (careless \/ NotHeld)
      BY <1>7 DEF FreeAstray
    <2>2. careless' \in BOOLEAN /\ (careless => careless')
      BY <1>1, <2>1 DEF NotHeld
    <2> QED BY <2>1, <2>2, AstrayKInv
  <1>8. CASE FileSystem
    <2>1. Begin({"read", "load bin", "ls", "write", "append"})
      BY <1>8 DEF FileSystem
    <2> QED BY <2>1, BeginKInv
  <1>9. CASE FileSystemAstray
    <2>1. UNCHANGED <<used, at, command, pc, live, hurt, stray, careless>>
      BY <1>9 DEF FileSystemAstray
    <2> QED BY <1>1, <2>1, AstrayKInv
  <1>10. CASE Console
    <2>1. Begin({"malloc", "free"})
      BY <1>10 DEF Console
    <2> QED BY <2>1, BeginKInv
  <1>11. CASE Cheap
    BY <1>11, CheapKInv
  <1>12. CASE Reboot
    BY <1>12, RebootKInv
  <1>13. CASE UNCHANGED vars
    <2>1. UNCHANGED <<used, at, command, pc, live, hurt, stray, careless>>
      BY <1>13 DEF vars
    <2> QED BY <1>1, <2>1, AstrayKInv
  <1> QED BY <1>2, <1>3, <1>4, <1>5, <1>6, <1>7, <1>8, <1>9, <1>10, <1>11, <1>12, <1>13 DEF Next

-----------------------------------------------------------------------------
(* The private data, whatever has gone astray.  The first probe puts it    *)
(* above the superblock's buffer, and what is allocated later lies wholly  *)
(* below or above it.  The blocks below hold no more than they are taken   *)
(* for, and a store past the end of one hits the marks that keep it apart  *)
(* from the next.  What is stored through root_buff or into read's buffer  *)
(* goes further, but these lie above.                                      *)
PrivAt == SbBuff + 14
Top == PrivAt + Priv

Reach(h, q) == q + h[q].n

Low(h) == { q \in DOMAIN h : q < PrivAt }

(* Where pointers and stored bytes are at all times.                       *)
Fixed ==
    /\ at["priv"] = PrivAt \/ (at["priv"] = 0 /\ command = Plain("boot") /\ pc <= 2)
    /\ \A v \in Vars : at[v] \in {0, 7} \/ at[v] >= 12
    /\ \A v \in {"root_buff", "whole"} : at[v] = 0 \/ at[v] >= Top + 7
    /\ \A b \in Nat : InRuns(b, used) => b >= 3 /\ (b = 3 => InRuns(4, used))

Parted(h) ==
    /\ \A q \in DOMAIN h : q # PrivAt => Reach(h, q) + 3 <= PrivAt \/ Top + 7 <= q
    /\ \A q, r \in Low(h) : q < r => Reach(h, q) + 3 <= r - 4

Stored(s, h) == \A q \in Low(h) : Covered(s, Whole(q, h[q].n))

(* What the command holds is above, or it is below and as it was taken.    *)
Usable(h, place, now) ==
    \A v \in now :
        \/ place[v] >= Top + 7
        \/ /\ place[v] < PrivAt /\ HoldsAt(h, place, v)
           /\ v # "ptr" => h[place[v]].n = SizeOf(v)

Known(h, place, now) ==
    \A q \in Low(h) : h[q].of \in Left \/ (h[q].of \in now /\ place[h[q].of] = q)

(* Something that stays keeps a block of the file system from address 7.   *)
Fast(s, h, b) ==
    InRuns(b, s) /\ \A q \in Low(h) : h[q].of \in Inner => ~Within(b, Whole(q, h[q].n))

Holdfast(s, h, now) == Anchored(now) => \E b \in 0..(SbBuff + 9) : Fast(s, h, b)

Lower ==
    /\ Parted(live) /\ Stored(used, live)
    /\ Early \/ at["priv"] = 0 \/ Covered(used, Data(PrivAt, Priv))
    /\ \A q \in hurt : q > PrivAt
    /\ Usable(live, at, Now) /\ Known(live, at, Now) /\ Holdfast(used, live, Now)
    /\ at["priv"] # 0 => Holds("priv")

(* The user has emptied the heap, or freed what is not his.                *)
Gone == command[1] \in {"none", "malloc", "free"} /\ careless /\ ~PrivWhole

LInv == KInv /\ Fixed /\ (Lower \/ Gone)

LEMMA Places ==
    /\ PrivAt = SbBuff + 14 /\ Top = PrivAt + Priv
    /\ Block \in Nat /\ Block >= 1024 /\ Priv \in Nat \ {0} /\ PrivAt \in Nat /\ Top \in Nat
    /\ SbBuff \in Nat /\ SbBuff <= Block /\ Inode \in Nat /\ Inode <= SbBuff
    /\ FileBuff \in Nat /\ Block + 4 < FileBuff /\ HeapSize \in Nat
  <1>1. /\ Block \in Nat /\ Block >= 1024 /\ FileBuff \in Nat /\ Block + 4 < FileBuff
        /\ HeapSize \in Nat
    BY SizesAssumption
  <1>2. Priv \in Nat \ {0} /\ Inode \in Nat
    BY SizesAre
  <1>3. SbBuff \in Nat /\ SbBuff <= Block /\ Inode <= SbBuff
    BY <1>1 DEF Inode, SbBuff
  <1> QED BY <1>1, <1>2, <1>3 DEF PrivAt, Top

LEMMA ReachIs ==
    ASSUME NEW h, NEW place, NEW q, Sound(h, place, q)
    PROVE  /\ Reach(h, q) \in Nat /\ q \in Nat /\ q >= 7 /\ q <= Reach(h, q) /\ q - 4 \in Nat
           /\ Span(Whole(q, h[q].n)) /\ Span(KeptOf(h, q)) /\ Reach(h, q) <= HeapSize
           /\ \A b \in Nat : Within(b, Whole(q, h[q].n)) <=> q - 4 <= b /\ b < Reach(h, q)
           /\ \A b \in Nat : Within(b, KeptOf(h, q)) => Within(b, Whole(q, h[q].n))
  <1> DEFINE n == h[q].n
  <1>1. q \in 7..HeapSize /\ n \in 0..(HeapSize - q)
    BY DEF Sound
  <1>2. /\ Span(KeptOf(h, q)) /\ Span(Whole(q, n))
        /\ \A b \in Nat : Within(b, Whole(q, n)) <=> q - 4 <= b /\ b < q + n
        /\ \A b \in Nat : Within(b, KeptOf(h, q)) => Within(b, Whole(q, n))
    BY KeptSpan
  <1>3. Reach(h, q) = q + n
    BY DEF Reach
  <1> HIDE DEF n
  <1>4. /\ q + n \in Nat /\ q \in Nat /\ q >= 7 /\ q <= q + n /\ q - 4 \in Nat
        /\ q + n <= HeapSize
    BY <1>1, Places
  <1> QED BY <1>2, <1>3, <1>4 DEF n

(* Where the private data is. *)
LEMMA PrivIs ==
    ASSUME Types, Fixed, Lower, at["priv"] # 0
    PROVE  /\ at["priv"] = PrivAt /\ PrivAt \in DOMAIN live /\ live[PrivAt].of = "priv"
           /\ live[PrivAt].n = Priv /\ PrivAt \in 7..HeapSize /\ Priv \in 0..(HeapSize - PrivAt)
           /\ KeptOf(live, PrivAt) = Data(PrivAt, Priv) /\ Span(Data(PrivAt, Priv))
           /\ \A b \in Nat : Within(b, Data(PrivAt, Priv)) <=> PrivAt <= b /\ b < Top
  <1>1. at["priv"] = PrivAt
    BY DEF Fixed
  <1>2. PrivAt \in DOMAIN live /\ live[PrivAt].of = "priv"
    BY <1>1 DEF Lower, Holds
  <1>3. Sound(live, at, PrivAt)
    BY <1>2 DEF Types
  <1>4. live[PrivAt].n = Priv
    BY <1>2, <1>3 DEF Sound
  <1>5. PrivAt \in 7..HeapSize /\ Priv \in 0..(HeapSize - PrivAt)
    BY <1>3, <1>4 DEF Sound
  <1>6. KeptOf(live, PrivAt) = Data(PrivAt, Priv)
    BY <1>2, <1>4 DEF KeptOf
  <1>7. Span(Data(PrivAt, Priv)) /\ \A b \in Nat : Within(b, Data(PrivAt, Priv)) <=> PrivAt <= b /\ b < PrivAt + Priv
    BY <1>2, <1>3, <1>4, <1>6, KeptSpan
  <1> QED BY <1>1, <1>2, <1>4, <1>5, <1>6, <1>7, Places

(* A store hits what lies above, unless it meets one of the others. *)
LEMMA OthersAbove ==
    ASSUME Types, NEW p, NEW i, Span(i),
           \A q \in DOMAIN live \ {p} : q <= PrivAt =>
               \A b \in Nat : ~(Within(b, i) /\ Within(b, KeptOf(live, q)))
    PROVE  \A q \in Others(p, i) : q > PrivAt
  <1> SUFFICES ASSUME NEW q \in Others(p, i), ~(q > PrivAt) PROVE FALSE
    OBVIOUS
  <1>1. q \in DOMAIN live \ {p} /\ Meet(i, KeptOf(live, q))
    BY DEF Others, Kept, KeptOf
  <1>2. Sound(live, at, q)
    BY <1>1 DEF Types
  <1>3. Span(KeptOf(live, q)) /\ q \in Nat
    BY <1>2, ReachIs
  <1>4. q <= PrivAt
    BY <1>3, Places
  <1>5. \E b \in Nat : Within(b, i) /\ Within(b, KeptOf(live, q))
    BY <1>1, <1>3, Meeting
  <1> QED BY <1>1, <1>4, <1>5

(* What a command does, tamely. *)
LEMMA TameIs ==
    ASSUME Types, command # None
    PROVE  /\ Step.op = "malloc" =>
                  TameMalloc(Step, Now) \/ (command = Plain("boot") /\ pc = 2 /\ Step.var = "priv")
           /\ Step.op = "store" => TameStore(Step, Now) /\ Step.var # "ptr"
           /\ Step.op = "free" =>
                  TameFree(Step, Now) \/ (command = Plain("free") /\ Step.var = "ptr" /\ Now = {})
  <1>1. Going(command, pc, Now, After) /\ Step = Steps(command)[pc]
    BY StepIs
  <1>2. CASE Moves(Step, Now, After)
    BY <1>2 DEF Moves, Tame
  <1>3. CASE command = Plain("boot") /\ pc = 2 /\ Step = New("priv", Priv)
    BY <1>3 DEF New
  <1>4. CASE command = Plain("free") /\ Step = Drop("ptr") /\ Now = {}
    BY <1>4 DEF Drop
  <1> QED BY <1>1, <1>2, <1>3, <1>4 DEF Going

(* The console's own commands. *)
LEMMA ConsoleStep ==
    ASSUME Types, command[1] \in {"none", "malloc", "free"}, command # None
    PROVE  /\ Step.var = "ptr" /\ Step.op \in {"malloc", "free"}
           /\ command # Plain("boot") /\ command # Plain("reboot")
  <1>1. /\ Step = Steps(command)[pc] /\ pc \in 1..Len(Steps(command))
        /\ command \in Commands
    BY StepIs DEF Types, Underway
  <1>2. command # Plain("boot") /\ command # Plain("reboot")
    <2>1. Plain("boot")[1] = "boot" /\ Plain("reboot")[1] = "reboot"
      BY DEF Plain
    <2> QED BY <2>1
  <1>3. command[1] # "none"
    <2> DEFINE c == command
    <2>1. c \in Commands /\ c # None
      BY <1>1
    <2> HIDE DEF c
    <2>2. \/ \E name \in {"none", "boot", "reboot", "read", "free"} : c = <<name, "none", 0>>
          \/ \E k \in Blocks : c = <<"read", "found", k>>
          \/ \E name \in {"load bin", "ls", "write"}, how \in Hows : c = <<name, how, 0>>
          \/ \E how \in Hows, over \in Over : c = <<"append", how, over>>
          \/ \E n \in Asked : c = <<"malloc", "none", n>>
      BY <2>1, CommandIs
    <2>3. ASSUME c[1] = "none" PROVE c = <<"none", "none", 0>>
      <3>1. \A x, y, z : c = <<x, y, z>> => x = "none"
        BY <2>3
      <3>2. "none" \notin {"read", "load bin", "ls", "write", "append", "malloc"}
        OBVIOUS
      <3>3. \E name \in {"none", "boot", "reboot", "read", "free"} : c = <<name, "none", 0>>
        BY <2>2, <3>1, <3>2
      <3> QED BY <3>1, <3>3
    <2>4. c[1] # "none"
      BY <2>1, <2>3 DEF None, Plain
    <2> QED BY <2>4 DEF c
  <1>4. \/ Steps(command) = << New("ptr", command[3]) >>
        \/ Steps(command) = << Drop("ptr") >>
    BY <1>3, StepsAre
  <1>5. ASSUME NEW s, Steps(command) = <<s>> PROVE Step = s
    <2>1. pc \in 1..Len(<<s>>)
      BY <1>1, <1>5
    <2>2. pc = 1
      BY <2>1
    <2> QED BY <1>1, <1>5, <2>2
  <1>6. Step = New("ptr", command[3]) \/ Step = Drop("ptr")
    BY <1>4, <1>5
  <1> QED BY <1>2, <1>6 DEF New, Drop

(* malloc takes the first run that is long enough. *)
LEMMA FirstFitLeast ==
    ASSUME Runs(used), NEW n \in Nat, NEW c \in Fits(n)
    PROVE  FirstFit(n) <= c
  <1> DEFINE fits == Fits(n)
  <1>1. fits \in SUBSET Nat
    <2>1. \A i \in used : Hi(i) \in Nat
      BY Ends DEF Runs
    <2> QED BY <2>1 DEF Fits
  <1>2. c \in fits
    OBVIOUS
  <1>3. FirstFit(n) = CHOOSE a \in fits : \A b \in fits : a <= b
    BY DEF FirstFit
  <1> HIDE DEF fits
  <1>4. PICK a \in fits : \A b \in fits : a <= b
    BY <1>1, <1>2, LeastNat
  <1> QED BY <1>2, <1>3, <1>4

(* Blocks that do not begin at address 7 begin at 12 or above, and         *)
(* something is stored where they would have begun at 7.                   *)
LEMMA SpotIs ==
    ASSUME Types, Fixed, Malloc
    PROVE  /\ Spot = 7 \/ Spot >= 12
           /\ Spot # 7 => \E b \in 0..(Step.n + 9) : InRuns(b, used)
  <1> DEFINE n == Step.n
             a == FirstFit(n)
  <1>1. /\ Fits(n) # {} /\ n \in Nat /\ Runs(used) /\ Spot = a + 7
        /\ a + 3 + 4 + n <= HeapSize
    BY MallocIs DEF Malloc, Types, Spot
  <1>2. /\ a \in Nat /\ a \in {0} \cup { Hi(i) : i \in used } /\ a + (n + 10) <= HeapSize
        /\ \A b \in Nat : a <= b /\ b < a + (n + 10) => ~InRuns(b, used)
    <2> HIDE DEF n
    <2> DEFINE d == FirstFit(n)
    <2>1. d = FirstFit(n) /\ d + 3 + 4 + n <= HeapSize
      BY <1>1
    <2> HIDE DEF d
    <2>2. /\ d \in Nat /\ d \in {0} \cup { Hi(i) : i \in used } /\ d + (n + 10) <= HeapSize
          /\ \A b \in Nat : d <= b /\ b < d + (n + 10) => ~InRuns(b, used)
      BY <1>1, <2>1, FitIs
    <2> QED BY <2>2 DEF d
  <1>3. a + Need(n) <= HeapSize
    BY <1>1, FirstFitIs
  <1>4. Need(n) = n + 10
    <2>1. HeapSize \in Nat /\ Word \in Nat /\ HeapSize + 3 < Word
      BY SizesAre
    <2> HIDE DEF a
    <2>2. n + 10 \in Nat /\ n + 10 < Word
      BY <1>1, <1>2, <2>1
    <2>3. \A x, w \in Nat : x < w => x % w = x
      OBVIOUS
    <2>4. (n + 10) % Word = n + 10
      BY <2>1, <2>2, <2>3
    <2>5. n + 6 + 4 = n + 10
      BY <1>1
    <2> QED BY <2>4, <2>5 DEF Need
  <1>5. \A c \in Fits(n) : a <= c
    BY <1>1, FirstFitLeast
  <1> HIDE DEF a, n
  <1>6. ASSUME a # 0 PROVE a >= 5
    <2>1. PICK i \in used : a = Hi(i)
      BY <1>2, <1>6
    <2>2. Span(i)
      BY <1>1 DEF Runs
    <2>3. Lo(i) \in Nat /\ Lo(i) < a
      BY <2>1, <2>2, Ends
    <2>4. a - 1 \in Nat /\ Within(a - 1, i)
      BY <1>2, <2>1, <2>3 DEF Within
    <2>5. InRuns(a - 1, used)
      BY <2>4 DEF InRuns
    <2>6. a - 1 >= 3 /\ (a - 1 = 3 => InRuns(4, used))
      BY <2>4, <2>5 DEF Fixed
    <2>7. 4 \in Nat /\ ~(a = 4 /\ InRuns(4, used))
      BY <1>1, <1>2
    <2> QED BY <1>2, <2>6, <2>7
  <1>7. ASSUME a # 0 PROVE \E b \in 0..(n + 9) : InRuns(b, used)
    <2>1. 0 \notin Fits(n)
      BY <1>2, <1>5, <1>7
    <2>2. 0 + Need(n) <= HeapSize /\ 0 + Need(n) = n + 10
      BY <1>1, <1>2, <1>4, SizesAre
    <2>3. PICK i \in used : Meet(<<0, 0 + Need(n)>>, i)
      BY <2>1, <2>2 DEF Fits
    <2> DEFINE e == n + 10
    <2>4. e \in 0..HeapSize /\ 0 \in 0..HeapSize /\ 0 < e
      BY <1>1, <2>2, SizesAre
    <2>5. Meet(<<0, e>>, i) /\ Span(i)
      BY <1>1, <2>2, <2>3 DEF Runs
    <2>6. e = n + 10
      OBVIOUS
    <2> HIDE DEF e
    <2>7. Span(<<0, e>>) /\ Lo(<<0, e>>) = 0 /\ Hi(<<0, e>>) = e
      BY <2>4, Pair
    <2>8. PICK b \in Nat : Within(b, <<0, e>>) /\ Within(b, i)
      BY <2>5, <2>7, Meeting
    <2>9. InRuns(b, used) /\ b < e
      BY <2>7, <2>8 DEF InRuns, Within
    <2>10. b \in 0..(n + 9)
      BY <1>1, <2>6, <2>9
    <2> QED BY <2>9, <2>10
  <1> QED BY <1>1, <1>2, <1>6, <1>7 DEF n

(* Where blocks find room: clear of the private data and of what is below. *)
LEMMA RoomBelow ==
    ASSUME Types, Lower, Malloc
    PROVE  \A q \in Low(live) :
               Reach(live, q) <= Spot - 7 \/ Spot + Step.n + 3 <= q - 4
  <1> DEFINE n == Step.n
             s == Spot
             end == Spot + Step.n + 3
  <1>1. /\ n \in Nat /\ s \in 7..HeapSize
        /\ \A b \in Nat : s - 7 <= b /\ b < end => ~InRuns(b, used)
    BY MallocIs
  <1>3. s \in Nat /\ s >= 7 /\ end \in Nat /\ end = s + n + 3
    BY <1>1
  <1> HIDE DEF n, s, end
  <1>7. ASSUME NEW q \in Low(live) PROVE Reach(live, q) <= s - 7 \/ end <= q - 4
    <2>1. Sound(live, at, q) /\ Covered(used, Whole(q, live[q].n))
      BY <1>7 DEF Types, Lower, Stored, Low
    <2> DEFINE r == Reach(live, q)
    <2>2. /\ r \in Nat /\ q \in Nat /\ q >= 7 /\ q <= r
          /\ \A b \in Nat : Within(b, Whole(q, live[q].n)) <=> q - 4 <= b /\ b < r
      BY <2>1, ReachIs
    <2> HIDE DEF r
    <2>3. \A b \in Nat : q - 4 <= b /\ b < r => InRuns(b, used)
      BY <2>1, <2>2 DEF Covered
    <2>4. ASSUME ~(r <= s - 7), ~(end <= q - 4) PROVE FALSE
      <3>1. CASE s - 7 <= q - 4
        <4>1. q - 4 \in Nat /\ q - 4 < end /\ q - 4 < r
          BY <1>3, <2>2, <2>4
        <4>2. InRuns(q - 4, used) /\ ~InRuns(q - 4, used)
          BY <1>1, <2>3, <3>1, <4>1
        <4> QED BY <4>2
      <3>2. CASE ~(s - 7 <= q - 4)
        <4>1. s - 7 \in Nat /\ s - 7 < r /\ q - 4 <= s - 7 /\ s - 7 < end
          BY <1>1, <1>3, <2>2, <2>4, <3>2
        <4>2. InRuns(s - 7, used) /\ ~InRuns(s - 7, used)
          BY <1>1, <2>3, <4>1
        <4> QED BY <4>2
      <3> QED BY <3>1, <3>2
    <2> QED BY <2>4 DEF r
  <1> QED BY <1>7 DEF s, end

LEMMA RoomIs ==
    ASSUME Types, Fixed, Lower, Malloc, Step.var # "priv"
    PROVE  /\ Spot + Step.n + 3 <= PrivAt \/ Top + 7 <= Spot
           /\ \A q \in Low(live) : Reach(live, q) <= Spot - 7 \/ Spot + Step.n + 3 <= q - 4
           /\ at["priv"] = 0 => command = Plain("boot") /\ pc = 1 /\ Spot = 7 /\ Step.n = SbBuff
           /\ Early => pc = 1
  <1> DEFINE n == Step.n
             s == Spot
             end == Spot + Step.n + 3
  <1>1. /\ command # None /\ Step.op = "malloc" /\ n \in Nat
        /\ s \in 7..HeapSize
        /\ \A b \in Nat : s - 7 <= b /\ b < end => ~InRuns(b, used)
        /\ used = {} => s = 7
    BY MallocIs
  <1>2. ASSUME command \in {Plain("boot"), Plain("reboot")}
        PROVE  \/ pc = 1 /\ n = SbBuff /\ s = 7
               \/ command = Plain("boot") /\ pc = 2 /\ Step.var = "priv"
    <2>1. pc = 1 => Step = New("sb", SbBuff)
      BY <1>2, ProbeSteps
    <2>2. pc = 2 /\ command = Plain("boot") => Step = New("priv", Priv)
      BY <1>2, ProbeSteps
    <2>3. pc = 1 \/ (pc = 2 /\ command = Plain("boot"))
      BY <1>1, <1>2, ProbeSteps
    <2>4. pc = 1 => n = SbBuff
      BY <2>1 DEF New
    <2>5. pc = 1 => used = {}
      BY <1>2 DEF Types, Underway
    <2>6. pc = 2 /\ command = Plain("boot") => Step.var = "priv"
      BY <2>2 DEF New
    <2> QED BY <1>1, <2>3, <2>4, <2>5, <2>6
  <1>3. s \in Nat /\ s >= 7 /\ end \in Nat /\ end = s + n + 3
    BY <1>1
  <1>4. at["priv"] = 0 => command = Plain("boot") /\ pc = 1 /\ s = 7 /\ n = SbBuff
    <2>1. PrivAt # 0
      BY Places
    <2>2. at["priv"] = 0 => command = Plain("boot")
      BY <2>1 DEF Fixed
    <2> QED BY <1>2, <2>2
  <1>5. Early => pc = 1 /\ s = 7 /\ n = SbBuff
    BY <1>2, Places DEF Early, Plain
  <1> HIDE DEF n, s, end
  <1>6. end <= PrivAt \/ Top + 7 <= s
    <2>1. CASE at["priv"] = 0 \/ Early
      BY <1>3, <1>4, <1>5, <2>1, Places
    <2>2. CASE at["priv"] # 0 /\ ~Early
      <3>1. Covered(used, Data(PrivAt, Priv))
        BY <2>2 DEF Lower
      <3>2. \A b \in Nat : PrivAt <= b /\ b < Top => InRuns(b, used)
        BY <2>2, <3>1, PrivIs DEF Covered
      <3>3. ASSUME ~(end <= PrivAt), ~(Top + 7 <= s) PROVE FALSE
        <4>1. CASE s - 7 <= PrivAt
          <5>1. ~InRuns(PrivAt, used)
            BY <1>1, <1>3, <3>3, <4>1, Places
          <5> QED BY <3>2, <5>1, Places
        <4>2. CASE ~(s - 7 <= PrivAt)
          <5>1. s - 7 \in Nat /\ s - 7 < Top /\ PrivAt <= s - 7 /\ s - 7 < end
            BY <1>1, <1>3, <3>3, <4>2, Places
          <5>2. InRuns(s - 7, used) /\ ~InRuns(s - 7, used)
            BY <1>1, <3>2, <5>1
          <5> QED BY <5>2
        <4> QED BY <4>1, <4>2
      <3> QED BY <3>3
    <2> QED BY <2>1, <2>2
  <1>7. \A q \in Low(live) : Reach(live, q) <= s - 7 \/ end <= q - 4
    BY RoomBelow DEF s, end
  <1> QED BY <1>4, <1>5, <1>6, <1>7 DEF n, s, end

LEMMA MallocFixed ==
    ASSUME Types, Fixed, Malloc, Step.var \in {"root_buff", "whole"} => Spot >= Top + 7
    PROVE  Fixed'
  <1> DEFINE v == Step.var
             n == Step.n
             s == Spot
             place == [at EXCEPT ![v] = s]
  <1>1. /\ command # None /\ v \in Vars /\ s \in 7..HeapSize /\ n \in 0..(HeapSize - s)
        /\ \/ v # "priv"
           \/ v = "priv" /\ s = PrivAt
        /\ used' = Filled(used, Whole(s, n)) /\ Done(place) /\ Step.op = "malloc"
    BY MallocIs DEF PrivAt
  <1>2. s = 7 \/ s >= 12
    BY SpotIs
  <1>3. Runs(used) /\ at \in [Vars -> 0..HeapSize] /\ "priv" \in Vars
    BY Variables DEF Types, Pointers
  <1>4. v \in {"root_buff", "whole"} => s >= Top + 7
    OBVIOUS
  <1>5. /\ command = Plain("boot") /\ pc = 1 => v = "sb"
        /\ command = Plain("boot") /\ pc = 2 => v = "priv"
        /\ command = Plain("boot") => pc = 1 \/ pc = 2
    BY <1>1, ProbeSteps DEF New
  <1>6. \A u \in Vars : place[u] = IF u = v THEN s ELSE at[u]
    BY <1>3
  <1>7. place \in [Vars -> 0..HeapSize]
    BY <1>1, <1>3, Places
  <1> HIDE DEF v, n, s, place
  <1>8. /\ \A u \in Vars : at'[u] = place[u] \/ at'[u] = 0
        /\ at'["priv"] = place["priv"]
        /\ \/ command' = command /\ pc' = pc + 1
           \/ command' = None /\ pc = Len(Steps(command))
    BY <1>1, <1>7, DoneIs
  <1>9. at'["priv"] = PrivAt \/ (at'["priv"] = 0 /\ command' = Plain("boot") /\ pc' <= 2)
    <2>1. CASE v = "priv"
      BY <1>1, <1>6, <1>8, <2>1
    <2>2. CASE v # "priv"
      <3>1. at'["priv"] = at["priv"]
        BY <1>3, <1>6, <1>8, <2>2
      <3>2. CASE at["priv"] = PrivAt
        BY <3>1, <3>2
      <3>3. CASE at["priv"] = 0 /\ command = Plain("boot")
        <4>1. pc = 1
          BY <1>5, <2>2, <3>3
        <4>2. Len(Steps(command)) = 4
          BY <3>3, ProbeIs
        <4>3. command' = command /\ pc' = 2
          BY <1>8, <4>1, <4>2
        <4> QED BY <3>1, <3>3, <4>3
      <3> QED BY <3>2, <3>3 DEF Fixed
    <2> QED BY <2>1, <2>2
  <1>10. \A u \in Vars : at'[u] \in {0, 7} \/ at'[u] >= 12
    BY <1>2, <1>6, <1>8 DEF Fixed
  <1>11. \A u \in {"root_buff", "whole"} : at'[u] = 0 \/ at'[u] >= Top + 7
    <2> TAKE u \in {"root_buff", "whole"}
    <2>1. u \in Vars
      BY Variables
    <2>2. at'[u] = 0 \/ at'[u] = at[u] \/ (u = v /\ at'[u] = s)
      BY <1>6, <1>8, <2>1
    <2>3. at[u] = 0 \/ at[u] >= Top + 7
      BY DEF Fixed
    <2> QED BY <1>4, <2>2, <2>3
  <1>12. ASSUME NEW b \in Nat, InRuns(b, used') PROVE b >= 3 /\ (b = 3 => InRuns(4, used'))
    <2>1. /\ Span(Whole(s, n)) /\ Lo(Whole(s, n)) = s - 4 /\ Hi(Whole(s, n)) = s + n
          /\ s \in Nat /\ n \in Nat /\ s + n \in Nat /\ s - 4 \in Nat
      BY <1>1, Spaces
    <2>2. \A c \in Nat : InRuns(c, used') <=> InRuns(c, used) \/ (s - 4 <= c /\ c < s + n)
      BY <1>1, <1>3, <2>1, FilledIs DEF Within
    <2>3. CASE InRuns(b, used)
      <3>1. b >= 3 /\ (b = 3 => InRuns(4, used))
        BY <1>12, <2>3 DEF Fixed
      <3> QED BY <2>2, <3>1
    <2>4. CASE s - 4 <= b /\ b < s + n
      <3>1. b >= 3 /\ (b = 3 => s = 7)
        BY <1>2, <1>12, <2>1, <2>4
      <3>2. s = 7 => s - 4 <= 4 /\ 4 < s + n
        BY <2>1
      <3> QED BY <2>2, <3>1, <3>2
    <2> QED BY <1>12, <2>2, <2>3, <2>4
  <1> QED BY <1>9, <1>10, <1>11, <1>12 DEF Fixed

(* The steps that take nothing. *)
LEMMA DoneFixed ==
    ASSUME Types, Fixed, command # None, Step.op # "malloc", Done(at),
           \A b \in Nat : InRuns(b, used') => b >= 3 /\ (b = 3 => InRuns(4, used'))
    PROVE  Fixed' /\ at["priv"] = PrivAt /\ at["priv"] # 0
  <1>1. at \in [Vars -> 0..HeapSize]
    BY DEF Types, Pointers
  <1>2. at["priv"] = PrivAt
    <2>1. command = Plain("boot") => pc \in Nat \ {0} /\ pc # 1 /\ pc # 2
      BY ProbeSteps
    <2>2. ~(command = Plain("boot") /\ pc <= 2)
      BY <2>1
    <2> QED BY <2>2 DEF Fixed
  <1>3. /\ \A u \in Vars : at'[u] = at[u] \/ at'[u] = 0
        /\ at'["priv"] = at["priv"]
    BY <1>1, DoneIs
  <1>4. {"root_buff", "whole"} \subseteq Vars
    BY Variables
  <1>5. \A v \in Vars : at'[v] \in {0, 7} \/ at'[v] >= 12
    BY <1>3 DEF Fixed
  <1>6. \A v \in {"root_buff", "whole"} : at'[v] = 0 \/ at'[v] >= Top + 7
    BY <1>3, <1>4 DEF Fixed
  <1>7. PrivAt # 0
    BY Places
  <1> QED BY <1>2, <1>3, <1>5, <1>6, <1>7 DEF Fixed

LEMMA StoreFixed ==
    ASSUME Types, Fixed, Store
    PROVE  Fixed' /\ at["priv"] = PrivAt /\ at["priv"] # 0
  <1> DEFINE p == at[Step.var]
             n == IF p + Step.n < HeapSize THEN Step.n ELSE HeapSize - p
  <1>1. /\ command # None /\ Step.op = "store" /\ Done(at)
        /\ \/ used' = used
           \/ /\ p \in 7..HeapSize /\ n \in 0..(HeapSize - p) /\ n > 0
              /\ used' = Filled(used, Data(p, n))
    BY StoreIs
  <1>2. Runs(used)
    BY DEF Types
  <1> HIDE DEF p, n
  <1>3. ASSUME NEW b \in Nat, InRuns(b, used') PROVE b >= 3 /\ (b = 3 => InRuns(4, used'))
    <2>1. CASE used' = used
      BY <1>3, <2>1 DEF Fixed
    <2>2. CASE /\ p \in 7..HeapSize /\ n \in 0..(HeapSize - p) /\ n > 0
               /\ used' = Filled(used, Data(p, n))
      <3>1. Span(Data(p, n)) /\ Lo(Data(p, n)) = p /\ p \in Nat
        BY <2>2, Spaces
      <3>2. \A c \in Nat : InRuns(c, used') <=> InRuns(c, used) \/ Within(c, Data(p, n))
        BY <1>2, <2>2, <3>1, FilledIs
      <3>3. CASE InRuns(b, used)
        <4>1. b >= 3 /\ (b = 3 => InRuns(4, used))
          BY <1>3, <3>3 DEF Fixed
        <4> QED BY <3>2, <4>1
      <3>4. CASE Within(b, Data(p, n))
        <4>1. p <= b /\ p >= 7
          BY <2>2, <3>1, <3>4 DEF Within
        <4> QED BY <1>3, <3>1, <4>1
      <3> QED BY <1>3, <3>2, <3>3, <3>4
    <2> QED BY <1>1, <2>1, <2>2
  <1> QED BY <1>1, <1>3, DoneFixed

LEMMA FreeFixed ==
    ASSUME Types, Fixed, Free \/ FreeAgain
    PROVE  /\ Fixed' /\ at["priv"] = PrivAt /\ at["priv"] # 0
           /\ \A b \in Nat : InRuns(b, used') => InRuns(b, used)
           /\ \A b \in Nat : InRuns(b, used) /\ b < at[Step.var] - 4 => InRuns(b, used')
           /\ at[Step.var] \in 7..HeapSize
  <1> DEFINE p == at[Step.var]
  <1>1. command # None /\ Step.op = "free" /\ Done(at)
    BY DEF Free, FreeAgain, Doing
  <1>2. Step.var \in Vars /\ Runs(used) /\ at \in [Vars -> 0..HeapSize]
    BY <1>1, DropIs DEF Types, Pointers
  <1>3. p # 0
    <2>1. CASE Free
      <3>1. p \in DOMAIN live
        BY <2>1 DEF Free, Holds
      <3>2. Sound(live, at, p)
        BY <3>1 DEF Types
      <3> HIDE DEF p
      <3> QED BY <3>2, ReachIs
    <2>2. CASE FreeAgain
      BY <2>2 DEF FreeAgain, HeaderGone
    <2> QED BY <2>1, <2>2
  <1>4. p \in 7..HeapSize /\ (p = 7 \/ p >= 12)
    <2>1. p \in {0, 7} \/ p >= 12
      BY <1>2 DEF Fixed
    <2>2. p \in 0..HeapSize
      BY <1>2
    <2> HIDE DEF p
    <2> QED BY <1>3, <2>1, <2>2
  <1>5. \E e : /\ used' = Marked(used, <<p - 4, e>>) /\ Span(<<p - 4, e>>)
               /\ Lo(<<p - 4, e>>) = p - 4 /\ Hi(<<p - 4, e>>) = e /\ e \in Nat /\ e >= p
    <2>1. CASE Free
      <3>1. used' = Marked(used, Whole(p, live[p].n)) /\ p \in DOMAIN live
        BY <2>1 DEF Free, Holds
      <3> DEFINE n == live[p].n
      <3>2. Sound(live, at, p)
        BY <3>1 DEF Types
      <3>3. p \in 7..HeapSize /\ n \in 0..(HeapSize - p)
        BY <3>2 DEF Sound
      <3> HIDE DEF p, n
      <3>4. /\ Span(Whole(p, n)) /\ Lo(Whole(p, n)) = p - 4 /\ Hi(Whole(p, n)) = p + n
            /\ p + n \in Nat /\ Whole(p, n) = <<p - 4, p + n>>
        BY <3>3, Spaces DEF Whole
      <3>5. p + n >= p
        BY <3>3
      <3> QED BY <3>1, <3>4, <3>5 DEF n
    <2>2. CASE FreeAgain
      <3>1. used' = Marked(used, <<p - 4, HeapSize>>)
        BY <2>2 DEF FreeAgain
      <3> DEFINE a == p - 4
      <3>2. a \in 0..HeapSize /\ HeapSize \in 0..HeapSize /\ a < HeapSize /\ HeapSize >= p
        BY <1>4, Places
      <3>3. used' = Marked(used, <<a, HeapSize>>)
        BY <3>1
      <3> HIDE DEF a
      <3>4. Span(<<a, HeapSize>>) /\ Lo(<<a, HeapSize>>) = a /\ Hi(<<a, HeapSize>>) = HeapSize
        BY <3>2, Pair
      <3> QED BY <3>2, <3>3, <3>4, Places DEF a
    <2> QED BY <2>1, <2>2
  <1> HIDE DEF p
  <1>6. PICK e : /\ used' = Marked(used, <<p - 4, e>>) /\ Span(<<p - 4, e>>)
                 /\ Lo(<<p - 4, e>>) = p - 4 /\ Hi(<<p - 4, e>>) = e /\ e \in Nat /\ e >= p
    BY <1>5
  <1>7. \A b \in Nat : InRuns(b, used') <=> InRuns(b, used) /\ ~(p - 4 <= b /\ b < e)
    BY <1>2, <1>6, MarkedIs DEF Within
  <1>8. ASSUME NEW b \in Nat, InRuns(b, used') PROVE b >= 3 /\ (b = 3 => InRuns(4, used'))
    <2>1. InRuns(b, used) /\ ~(p - 4 <= b /\ b < e)
      BY <1>7, <1>8
    <2>2. b >= 3 /\ (b = 3 => InRuns(4, used))
      BY <2>1 DEF Fixed
    <2>3. b = 3 => p >= 12
      BY <1>4, <1>6, <2>1
    <2>4. p >= 12 => ~(p - 4 <= 4 /\ 4 < e)
      BY <1>4
    <2> QED BY <1>7, <2>2, <2>3, <2>4
  <1>9. \A b \in Nat : InRuns(b, used) /\ b < p - 4 => InRuns(b, used')
    <2> TAKE b \in Nat
    <2>1. b < p - 4 => ~(p - 4 <= b)
      BY <1>4
    <2> QED BY <1>7, <2>1
  <1>10. Fixed' /\ at["priv"] = PrivAt /\ at["priv"] # 0
    BY <1>1, <1>8, DoneFixed
  <1> QED BY <1>4, <1>7, <1>9, <1>10 DEF p

(* What stays true of the blocks when a step ends a command or goes on. *)
LEMMA DoneKnown ==
    ASSUME Types, command # None,
           NEW pointers \in [Vars -> 0..HeapSize], Done(pointers), NEW h,
           Usable(h, pointers, After), Known(h, pointers, After)
    PROVE  /\ Usable(h, at', Now') /\ Known(h, at', Now')
           /\ Anchored(Now') => Anchored(After)
           /\ at'["priv"] = pointers["priv"]
  <1>1. /\ Now' \subseteq After /\ \A v \in Now' : at'[v] = pointers[v]
        /\ \A v \in After : v \in Left \/ v \in Now'
        /\ at'["priv"] = pointers["priv"]
    BY DoneIs
  <1>2. Usable(h, at', Now')
    <2> DEFINE place == at'
               now == Now'
    <2>1. SUFFICES ASSUME NEW v \in now
          PROVE  \/ place[v] >= Top + 7
                 \/ /\ place[v] < PrivAt /\ HoldsAt(h, place, v)
                    /\ v # "ptr" => h[place[v]].n = SizeOf(v)
      BY DEF Usable
    <2>2. v \in After /\ place[v] = pointers[v]
      BY <1>1
    <2> HIDE DEF place, now
    <2>3. HoldsAt(h, place, v) <=> HoldsAt(h, pointers, v)
      BY <2>2 DEF HoldsAt
    <2> QED BY <2>2, <2>3 DEF Usable
  <1>3. Known(h, at', Now')
    <2> DEFINE place == at'
               now == Now'
    <2>1. SUFFICES ASSUME NEW q \in Low(h), h[q].of \notin Left
          PROVE  h[q].of \in now /\ place[h[q].of] = q
      BY DEF Known
    <2> DEFINE u == h[q].of
    <2>2. u \in After /\ pointers[u] = q /\ u \notin Left
      BY <2>1 DEF Known
    <2> HIDE DEF u
    <2>3. u \in now /\ place[u] = pointers[u]
      BY <1>1, <2>2
    <2> QED BY <2>2, <2>3 DEF u
  <1>4. Anchored(Now') => Anchored(After)
    BY <1>1 DEF Anchored
  <1> QED BY <1>1, <1>2, <1>3, <1>4

(* malloc for anything but the private data. *)
LEMMA MallocLower ==
    ASSUME Types, Fixed, Lower, Malloc, Step.var # "priv"
    PROVE  Fixed' /\ Lower'
  <1> DEFINE v == Step.var
             n == Step.n
             s == Spot
             place == [at EXCEPT ![v] = s]
             end == s + n + 3
  <1>1. /\ command # None /\ Step.op = "malloc"
        /\ v \in Vars /\ s \in 7..HeapSize /\ n \in 0..(HeapSize - s) /\ n \in Nat
        /\ n > 0 \/ v = "ptr"
        /\ \A b \in Nat : s - 7 <= b /\ b < end => ~InRuns(b, used)
        /\ v # "priv" /\ v \notin Now /\ After = Now \cup {v}
        /\ used' = Filled(used, Whole(s, n))
        /\ live' = [q \in DOMAIN live \cup {s} |->
                      IF q = s THEN [n |-> n, of |-> v] ELSE live[q]]
        /\ hurt' = (hurt \ {s}) \cup Others(s, Whole(s, n))
        /\ Done(place)
    BY MallocIs
  <1>2. /\ end <= PrivAt \/ Top + 7 <= s
        /\ \A q \in Low(live) : Reach(live, q) <= s - 7 \/ end <= q - 4
        /\ at["priv"] = 0 => command = Plain("boot") /\ pc = 1 /\ s = 7 /\ n = SbBuff
        /\ Early => pc = 1
    BY RoomIs
  <1>3. TameMalloc(Step, Now)
    BY <1>1, TameIs
  <1>4. v # "ptr" => n = SizeOf(v)
    BY <1>3 DEF TameMalloc
  <1>5. /\ v = "root_buff" => Anchored(Now)
        /\ Anchored(Now \cup {v}) =>
               Anchored(Now) \/ (v \in {"w_inode", "e_inode"} /\ Now \cap Inner = {})
    BY <1>3 DEF TameMalloc
  <1>6. /\ s = 7 \/ s >= 12
        /\ s # 7 => \E b \in 0..(n + 9) : InRuns(b, used)
    BY SpotIs
  <1>7. /\ Runs(used) /\ at \in [Vars -> 0..HeapSize] /\ "priv" \in Vars
        /\ \A q \in DOMAIN live : Sound(live, at, q)
    BY Variables DEF Types, Pointers
  <1>8. Now \in SUBSET Vars
    BY <1>1, StepIs
  <1>9. v \in {"root_buff", "whole"} => s >= Top + 7
    <2> HIDE DEF v, n, s
    <2>1. s \in Nat /\ s >= 7 /\ n \in Nat
      BY <1>1
    <2>2. CASE v = "root_buff"
      <3>1. n = Block
        BY <1>4, <2>2 DEF SizeOf
      <3>2. Anchored(Now)
        BY <1>5, <2>2
      <3>3. PICK b \in 0..(SbBuff + 9) : InRuns(b, used)
        BY <3>2 DEF Lower, Holdfast, Fast
      <3>4. s # 7
        <4>1. ~(s = 7 /\ s - 7 <= b /\ b < end)
          BY <1>1, <3>3
        <4> QED BY <2>1, <3>1, <3>3, <4>1, Places
      <3>5. s >= 12
        BY <1>6, <3>4
      <3> QED BY <1>2, <2>1, <3>1, <3>5, Places
    <2>3. CASE v = "whole"
      <3>1. n = FileBuff
        BY <1>4, <2>3 DEF SizeOf
      <3> QED BY <1>2, <2>1, <3>1, Places
    <2> QED BY <2>2, <2>3
  <1>10. Fixed'
    BY <1>9, MallocFixed
  <1>11. /\ place \in [Vars -> 0..HeapSize]
         /\ place[v] = s /\ \A u \in Vars : u # v => place[u] = at[u]
    BY <1>1, <1>7, Places
  <1> HIDE DEF v, n, s, place, end
  <1>12. /\ s \in Nat /\ s >= 7 /\ n \in Nat /\ s + n \in Nat /\ end = s + n + 3
         /\ s - 4 \in Nat /\ s + n <= HeapSize
    BY <1>1, Places DEF end
  <1>13. s # PrivAt /\ s \notin Low(live)
    <2>1. s # PrivAt
      BY <1>2, <1>12, Places
    <2>2. ASSUME s \in Low(live) PROVE FALSE
      <3>1. Sound(live, at, s)
        BY <1>7, <2>2 DEF Low
      <3>2. Reach(live, s) \in Nat /\ s <= Reach(live, s)
        BY <3>1, ReachIs
      <3>3. Reach(live, s) <= s - 7 \/ end <= s - 4
        BY <1>2, <2>2
      <3> QED BY <1>12, <3>2, <3>3
    <2> QED BY <2>1, <2>2
  <1>14. DOMAIN live' = DOMAIN live \cup {s}
         /\ live'[s].n = n /\ live'[s].of = v
         /\ \A q \in DOMAIN live : q # s => live'[q] = live[q]
    BY <1>1
  <1>15. /\ \A q \in Low(live) : q \in Low(live') /\ live'[q] = live[q] /\ Reach(live', q) = Reach(live, q)
         /\ \A q \in Low(live') : q = s \/ q \in Low(live)
         /\ Reach(live', s) = s + n
    BY <1>13, <1>14 DEF Low, Reach
  <1>16. Span(Whole(s, n)) /\ Lo(Whole(s, n)) = s - 4 /\ Hi(Whole(s, n)) = s + n
    BY <1>1, Spaces
  <1>17. \A b \in Nat : Within(b, Whole(s, n)) <=> s - 4 <= b /\ b < s + n
    BY <1>16 DEF Within
  <1>18. \A b \in Nat : InRuns(b, used') <=> InRuns(b, used) \/ (s - 4 <= b /\ b < s + n)
    BY <1>1, <1>7, <1>16, <1>17, FilledIs
  <1>19. \A q \in Low(live) : q \in Nat /\ Reach(live, q) \in Nat /\ q <= Reach(live, q)
    BY <1>7, ReachIs DEF Low
  <1>20. Parted(live')
    <2>1. ASSUME NEW q \in DOMAIN live', q # PrivAt
          PROVE  Reach(live', q) + 3 <= PrivAt \/ Top + 7 <= q
      <3>1. CASE q = s
        BY <1>2, <1>12, <1>15, <3>1
      <3>2. CASE q # s
        <4>1. q \in DOMAIN live /\ Reach(live', q) = Reach(live, q)
          BY <1>14, <3>2 DEF Reach
        <4> QED BY <2>1, <4>1 DEF Lower, Parted
      <3> QED BY <3>1, <3>2
    <2>2. ASSUME NEW q \in Low(live'), NEW r \in Low(live'), q < r
          PROVE  Reach(live', q) + 3 <= r - 4
      <3>1. CASE q \in Low(live) /\ r \in Low(live)
        BY <1>15, <2>2, <3>1 DEF Lower, Parted
      <3>2. CASE q = s /\ r \in Low(live)
        <4>1. Reach(live, r) <= s - 7 \/ end <= r - 4
          BY <1>2, <3>2
        <4>2. r \in Nat /\ Reach(live, r) \in Nat /\ r <= Reach(live, r)
          BY <1>19, <3>2
        <4> DEFINE z == Reach(live, r)
        <4> HIDE DEF z
        <4>3. r \in Nat /\ z \in Nat /\ r <= z /\ (z <= s - 7 \/ end <= r - 4)
          BY <4>1, <4>2 DEF z
        <4>4. end <= r - 4
          BY <1>12, <2>2, <3>2, <4>3
        <4> QED BY <1>12, <1>15, <3>2, <4>4
      <3>3. CASE q \in Low(live) /\ r = s
        <4> DEFINE z == Reach(live, q)
        <4>1. q \in Nat /\ z \in Nat /\ q <= z /\ (z <= s - 7 \/ end <= q - 4) /\ Reach(live', q) = z
          BY <1>2, <1>15, <1>19, <3>3
        <4> HIDE DEF z
        <4>2. z <= s - 7
          BY <1>12, <2>2, <3>3, <4>1
        <4> QED BY <1>12, <3>3, <4>1, <4>2
      <3>4. CASE q = s /\ r = s
        BY <1>12, <2>2, <3>4
      <3> QED BY <1>15, <3>1, <3>2, <3>3, <3>4
    <2> QED BY <2>1, <2>2 DEF Parted
  <1>21. Stored(used', live')
    <2> SUFFICES ASSUME NEW q \in Low(live'), NEW b \in Nat, Within(b, Whole(q, live'[q].n))
                 PROVE  InRuns(b, used')
      BY DEF Stored, Covered
    <2>1. CASE q = s
      BY <1>14, <1>17, <1>18, <2>1
    <2>2. CASE q \in Low(live)
      <3>1. Within(b, Whole(q, live[q].n))
        BY <1>15, <2>2
      <3> QED BY <1>18, <2>2, <3>1 DEF Lower, Stored, Covered
    <2> QED BY <1>15, <2>1, <2>2
  <1>22. Usable(live', place, After)
    <2> SUFFICES ASSUME NEW u \in After
        PROVE  \/ place[u] >= Top + 7
               \/ /\ place[u] < PrivAt /\ HoldsAt(live', place, u)
                  /\ u # "ptr" => live'[place[u]].n = SizeOf(u)
      BY DEF Usable
    <2>1. CASE u = v
      <3>1. place[u] = s /\ HoldsAt(live', place, u)
        BY <1>11, <1>14, <2>1 DEF HoldsAt
      <3>2. s >= Top + 7 \/ s < PrivAt
        BY <1>2, <1>12, Places
      <3> QED BY <1>4, <1>14, <2>1, <3>1, <3>2
    <2>2. CASE u # v
      <3>1. u \in Now /\ u \in Vars /\ place[u] = at[u]
        BY <1>1, <1>8, <1>11, <2>2
      <3>2. \/ at[u] >= Top + 7
            \/ /\ at[u] < PrivAt /\ at[u] \in DOMAIN live /\ live[at[u]].of = u
               /\ u # "ptr" => live[at[u]].n = SizeOf(u)
        BY <3>1 DEF Lower, Usable, HoldsAt
      <3>3. at[u] < PrivAt /\ at[u] \in DOMAIN live => at[u] \in Low(live)
        BY DEF Low
      <3>4. at[u] \in Low(live) => live'[at[u]] = live[at[u]] /\ at[u] \in DOMAIN live'
        BY <1>15 DEF Low
      <3> QED BY <3>1, <3>2, <3>3, <3>4 DEF HoldsAt
    <2> QED BY <2>1, <2>2
  <1>23. Known(live', place, After)
    <2> SUFFICES ASSUME NEW q \in Low(live'), live'[q].of \notin Left
                 PROVE  live'[q].of \in After /\ place[live'[q].of] = q
      BY DEF Known
    <2>1. CASE q = s
      BY <1>1, <1>11, <1>14, <2>1
    <2>2. CASE q \in Low(live)
      <3> DEFINE u == live[q].of
      <3>1. live'[q].of = u /\ u \in Now /\ at[u] = q
        BY <1>15, <2>2 DEF Lower, Known
      <3> HIDE DEF u
      <3>2. u \in After /\ place[u] = at[u]
        BY <1>1, <1>8, <1>11, <3>1
      <3> QED BY <3>1, <3>2
    <2> QED BY <1>15, <2>1, <2>2
  <1>24. /\ Usable(live', at', Now') /\ Known(live', at', Now')
         /\ Anchored(Now') => Anchored(After)
         /\ at'["priv"] = place["priv"]
    BY <1>1, <1>11, <1>22, <1>23, DoneKnown
  <1>25. at'["priv"] = at["priv"]
    BY <1>1, <1>7, <1>11, <1>24
  <1>26. Early' \/ at'["priv"] = 0 \/ Covered(used', Data(PrivAt, Priv))
    <2>1. CASE Early
      <3>1. command = Plain("reboot") /\ pc = 1
        BY <1>2, <2>1 DEF Early
      <3>2. Len(Steps(command)) = 3
        BY <3>1, ProbeIs
      <3>3. \/ command' = command /\ pc' = pc + 1
            \/ command' = None /\ pc = Len(Steps(command))
        BY <1>1, <1>11, DoneIs
      <3>4. command' = command /\ pc' = 2
        BY <3>1, <3>2, <3>3
      <3> QED BY <3>1, <3>4 DEF Early
    <2>2. CASE Covered(used, Data(PrivAt, Priv))
      BY <1>18, <2>2 DEF Covered
    <2> QED BY <1>25, <2>1, <2>2 DEF Lower
  <1>27. \A q \in hurt' : q > PrivAt
    <2>1. \A q \in hurt : q > PrivAt
      BY DEF Lower
    <2>2. ASSUME NEW q \in DOMAIN live \ {s}, q <= PrivAt, NEW b \in Nat,
                 Within(b, Whole(s, n)), Within(b, KeptOf(live, q))
          PROVE  FALSE
      <3>1. s - 4 <= b /\ b < s + n
        BY <1>17, <2>2
      <3>2. Sound(live, at, q)
        BY <1>7, <2>2
      <3> DEFINE z == Reach(live, q)
      <3>3. z \in Nat /\ q \in Nat /\ q - 4 <= b /\ b < z
        BY <2>2, <3>2, ReachIs
      <3>4. CASE q \in Low(live)
        <4>1. z <= s - 7 \/ end <= q - 4
          BY <1>2, <3>4
        <4> HIDE DEF z
        <4> QED BY <1>12, <3>1, <3>3, <4>1
      <3>5. CASE q \notin Low(live)
        <4>1. q = PrivAt
          BY <2>2, <3>3, <3>5, Places DEF Low
        <4>2. CASE at["priv"] = 0
          <5>1. s = 7 /\ n = SbBuff
            BY <1>2, <4>2
          <5> QED BY <3>1, <3>3, <4>1, <5>1, Places
        <4>3. CASE at["priv"] # 0
          <5>1. PrivAt <= b /\ b < Top
            BY <2>2, <4>1, <4>3, PrivIs
          <5> QED BY <1>2, <1>12, <3>1, <5>1, Places
        <4> QED BY <4>2, <4>3
      <3> QED BY <3>4, <3>5
    <2>3. \A q \in Others(s, Whole(s, n)) : q > PrivAt
      BY <1>16, <2>2, OthersAbove
    <2> QED BY <1>1, <2>1, <2>3
  <1>28. Holdfast(used', live', Now')
    <2> SUFFICES ASSUME Anchored(Now') PROVE \E b \in 0..(SbBuff + 9) : Fast(used', live', b)
      BY DEF Holdfast
    <2>1. Anchored(Now) \/ (v \in {"w_inode", "e_inode"} /\ Now \cap Inner = {})
      BY <1>1, <1>5, <1>24
    <2>2. CASE Anchored(Now)
      <3>1. PICK b \in 0..(SbBuff + 9) : Fast(used, live, b)
        BY <2>2 DEF Lower, Holdfast
      <3>2. b \in Nat /\ InRuns(b, used)
        BY <3>1, Places DEF Fast
      <3>3. ~(s - 4 <= b /\ b < s + n)
        <4>1. ~(s - 7 <= b /\ b < end)
          BY <1>1, <3>2
        <4> QED BY <1>12, <3>2, <4>1
      <3>4. \A q \in Low(live') : live'[q].of \in Inner => ~Within(b, Whole(q, live'[q].n))
        <4> TAKE q \in Low(live')
        <4>1. CASE q = s
          BY <1>14, <1>17, <3>2, <3>3, <4>1
        <4>2. CASE q \in Low(live)
          BY <1>15, <3>1, <4>2 DEF Fast
        <4> QED BY <1>15, <4>1, <4>2
      <3>5. Fast(used', live', b)
        BY <1>18, <3>2, <3>4 DEF Fast
      <3> QED BY <3>1, <3>5
    <2>3. CASE v \in {"w_inode", "e_inode"} /\ Now \cap Inner = {}
      <3>1. n = Inode /\ n > 0
        BY <1>1, <1>4, <2>3 DEF SizeOf
      <3>2. \A q \in Low(live') : live'[q].of \notin Inner
        <4> TAKE q \in Low(live')
        <4>1. CASE q = s
          BY <1>14, <2>3, <4>1 DEF Inner
        <4>2. CASE q \in Low(live)
          <5>1. live'[q] = live[q] /\ (live[q].of \in Left \/ live[q].of \in Now)
            BY <1>15, <4>2 DEF Lower, Known
          <5>2. Left \cap Inner = {}
            BY DEF Left, Inner
          <5> QED BY <2>3, <5>1, <5>2
        <4> QED BY <1>15, <4>1, <4>2
      <3>3. PICK b \in 0..(SbBuff + 9) : InRuns(b, used')
        <4>1. CASE s = 7
          <5>1. 3 \in 0..(SbBuff + 9) /\ s - 4 <= 3 /\ 3 < s + n
            BY <1>12, <4>1, Places
          <5>2. InRuns(3, used')
            BY <1>18, <5>1
          <5> QED BY <5>1, <5>2
        <4>2. CASE s # 7
          <5>1. PICK b \in 0..(n + 9) : InRuns(b, used)
            BY <1>6, <4>2
          <5>2. b \in 0..(SbBuff + 9) /\ b \in Nat
            BY <3>1, <5>1, Places
          <5> QED BY <1>18, <5>1, <5>2
        <4> QED BY <4>1, <4>2
      <3>4. Fast(used', live', b)
        BY <3>2, <3>3 DEF Fast
      <3> QED BY <3>3, <3>4
    <2> QED BY <2>1, <2>2, <2>3
  <1>29. at'["priv"] # 0 => at'["priv"] \in DOMAIN live' /\ live'[at'["priv"]].of = "priv"
    <2>1. at["priv"] # 0 => at["priv"] = PrivAt /\ PrivAt \in DOMAIN live /\ live[PrivAt].of = "priv"
      BY PrivIs
    <2> QED BY <1>13, <1>14, <1>25, <2>1
  <1> QED BY <1>10, <1>20, <1>21, <1>24, <1>26, <1>27, <1>28, <1>29 DEF Lower, Holds

(* malloc for the private data, of the first probe. *)
LEMMA MallocPriv ==
    ASSUME Types, Fixed, Lower, Malloc, Step.var = "priv"
    PROVE  Fixed' /\ Lower'
  <1> DEFINE n == Step.n
             s == Spot
             place == [at EXCEPT !["priv"] = s]
  <1>1. /\ command # None /\ Step.op = "malloc" /\ "priv" \in Vars
        /\ s \in 7..HeapSize /\ n \in 0..(HeapSize - s) /\ n \in Nat
        /\ s = PrivAt /\ n = Priv /\ After = Now
        /\ used' = Filled(used, Whole(s, n))
        /\ live' = [q \in DOMAIN live \cup {s} |->
                      IF q = s THEN [n |-> n, of |-> "priv"] ELSE live[q]]
        /\ hurt' = (hurt \ {s}) \cup Others(s, Whole(s, n))
        /\ Done(place)
    BY MallocIs DEF PrivAt
  <1>2. \A q \in Low(live) : Reach(live, q) <= s - 7 \/ s + n + 3 <= q - 4
    BY RoomBelow
  <1>3. Fixed'
    BY MallocFixed
  <1>4. "priv" \notin Now
    <2>1. Going(command, pc, Now, After) /\ Steps(command)[pc] = Step
      BY <1>1, StepIs
    <2>2. ~Moves(Step, Now, After)
      BY <1>1 DEF Moves
    <2>3. Now = {"sb"} \/ Now = {}
      BY <2>1, <2>2 DEF Going
    <2> QED BY <2>3
  <1>5. /\ Runs(used) /\ at \in [Vars -> 0..HeapSize]
        /\ \A q \in DOMAIN live : Sound(live, at, q)
        /\ Now \in SUBSET Vars
    BY <1>1, StepIs DEF Types, Pointers
  <1>6. /\ place \in [Vars -> 0..HeapSize]
        /\ place["priv"] = s /\ \A u \in Vars : u # "priv" => place[u] = at[u]
    BY <1>1, <1>5, Places
  <1> HIDE DEF n, s, place
  <1>7. /\ s \in Nat /\ s >= 7 /\ n \in Nat /\ s + n \in Nat /\ s - 4 \in Nat /\ s + n = Top
    BY <1>1, Places
  <1>8. DOMAIN live' = DOMAIN live \cup {s}
        /\ live'[s].of = "priv"
        /\ \A q \in DOMAIN live : q # s => live'[q] = live[q]
    BY <1>1
  <1>9. /\ \A q \in Low(live) : q \in Low(live') /\ live'[q] = live[q] /\ Reach(live', q) = Reach(live, q)
        /\ \A q \in Low(live') : q \in Low(live)
    BY <1>1, <1>7, <1>8 DEF Low, Reach
  <1>10. Span(Whole(s, n)) /\ Lo(Whole(s, n)) = s - 4 /\ Hi(Whole(s, n)) = s + n
    BY <1>1, Spaces
  <1>11. \A b \in Nat : InRuns(b, used') <=> InRuns(b, used) \/ (s - 4 <= b /\ b < s + n)
    BY <1>1, <1>5, <1>10, FilledIs DEF Within
  <1>12. \A b \in Nat : Within(b, Whole(s, n)) <=> s - 4 <= b /\ b < s + n
    BY <1>10 DEF Within
  <1>13. Parted(live')
    <2>1. ASSUME NEW q \in DOMAIN live', q # PrivAt
          PROVE  Reach(live', q) + 3 <= PrivAt \/ Top + 7 <= q
      <3>1. q \in DOMAIN live /\ Reach(live', q) = Reach(live, q)
        BY <1>1, <1>8, <2>1 DEF Reach
      <3> QED BY <2>1, <3>1 DEF Lower, Parted
    <2>2. ASSUME NEW q \in Low(live'), NEW r \in Low(live'), q < r
          PROVE  Reach(live', q) + 3 <= r - 4
      BY <1>9, <2>2 DEF Lower, Parted
    <2> QED BY <2>1, <2>2 DEF Parted
  <1>14. Stored(used', live')
    <2> SUFFICES ASSUME NEW q \in Low(live'), NEW b \in Nat, Within(b, Whole(q, live'[q].n))
                 PROVE  InRuns(b, used')
      BY DEF Stored, Covered
    <2>1. q \in Low(live) /\ Within(b, Whole(q, live[q].n))
      BY <1>9
    <2> QED BY <1>11, <2>1 DEF Lower, Stored, Covered
  <1>15. Usable(live', place, After)
    <2> SUFFICES ASSUME NEW u \in After
        PROVE  \/ place[u] >= Top + 7
               \/ /\ place[u] < PrivAt /\ HoldsAt(live', place, u)
                  /\ u # "ptr" => live'[place[u]].n = SizeOf(u)
      BY DEF Usable
    <2>1. u \in Now /\ u \in Vars /\ place[u] = at[u]
      BY <1>1, <1>4, <1>5, <1>6
    <2>2. \/ at[u] >= Top + 7
          \/ /\ at[u] < PrivAt /\ at[u] \in DOMAIN live /\ live[at[u]].of = u
             /\ u # "ptr" => live[at[u]].n = SizeOf(u)
      BY <2>1 DEF Lower, Usable, HoldsAt
    <2>3. at[u] < PrivAt /\ at[u] \in DOMAIN live => at[u] \in Low(live)
      BY DEF Low
    <2>4. at[u] \in Low(live) => live'[at[u]] = live[at[u]] /\ at[u] \in DOMAIN live'
      BY <1>9 DEF Low
    <2> QED BY <2>1, <2>2, <2>3, <2>4 DEF HoldsAt
  <1>16. Known(live', place, After)
    <2> SUFFICES ASSUME NEW q \in Low(live'), live'[q].of \notin Left
                 PROVE  live'[q].of \in After /\ place[live'[q].of] = q
      BY DEF Known
    <2> DEFINE u == live[q].of
    <2>1. q \in Low(live) /\ live'[q].of = u /\ u \in Now /\ at[u] = q
      BY <1>9 DEF Lower, Known
    <2> HIDE DEF u
    <2>2. u \in After /\ place[u] = at[u]
      BY <1>1, <1>4, <1>5, <1>6, <2>1
    <2> QED BY <2>1, <2>2
  <1>17. /\ Usable(live', at', Now') /\ Known(live', at', Now')
         /\ Anchored(Now') => Anchored(After)
         /\ at'["priv"] = place["priv"]
    BY <1>1, <1>6, <1>15, <1>16, DoneKnown
  <1>18. Covered(used', Data(PrivAt, Priv))
    <2>1. s \in 7..HeapSize /\ n \in 0..(HeapSize - s) /\ n > 0
      BY <1>1, Places
    <2>2. Lo(Data(s, n)) = s /\ Hi(Data(s, n)) = s + n
      BY <2>1, Spaces
    <2>3. ASSUME NEW b \in Nat, Within(b, Data(s, n)) PROVE InRuns(b, used')
      <3>1. s <= b /\ b < s + n
        BY <2>2, <2>3 DEF Within
      <3>2. s - 4 <= b
        BY <1>7, <3>1
      <3> QED BY <1>11, <3>1, <3>2
    <2> QED BY <1>1, <2>3 DEF Covered
  <1>19. \A q \in hurt' : q > PrivAt
    <2>1. \A q \in hurt : q > PrivAt
      BY DEF Lower
    <2>2. ASSUME NEW q \in DOMAIN live \ {s}, q <= PrivAt, NEW b \in Nat,
                 Within(b, Whole(s, n)), Within(b, KeptOf(live, q))
          PROVE  FALSE
      <3>1. s - 4 <= b /\ b < s + n
        BY <1>12, <2>2
      <3>2. Sound(live, at, q)
        BY <1>5, <2>2
      <3> DEFINE z == Reach(live, q)
      <3>3. z \in Nat /\ q \in Nat /\ q - 4 <= b /\ b < z
        BY <2>2, <3>2, ReachIs
      <3>4. q \in Low(live)
        BY <1>1, <2>2, <3>3, Places DEF Low
      <3>5. z <= s - 7 \/ s + n + 3 <= q - 4
        BY <1>2, <3>4
      <3> HIDE DEF z
      <3> QED BY <1>7, <3>1, <3>3, <3>5
    <2>3. \A q \in Others(s, Whole(s, n)) : q > PrivAt
      BY <1>10, <2>2, OthersAbove
    <2> QED BY <1>1, <2>1, <2>3
  <1>20. Holdfast(used', live', Now')
    <2> SUFFICES ASSUME Anchored(Now') PROVE \E b \in 0..(SbBuff + 9) : Fast(used', live', b)
      BY DEF Holdfast
    <2>1. Anchored(Now)
      BY <1>1, <1>17
    <2>2. PICK b \in 0..(SbBuff + 9) : Fast(used, live, b)
      BY <2>1 DEF Lower, Holdfast
    <2>3. b \in Nat
      BY <2>2, Places
    <2>4. Fast(used', live', b)
      BY <1>9, <1>11, <2>2, <2>3 DEF Fast
    <2> QED BY <2>2, <2>4
  <1>21. at'["priv"] \in DOMAIN live' /\ live'[at'["priv"]].of = "priv"
    BY <1>6, <1>8, <1>17
  <1> QED BY <1>3, <1>13, <1>14, <1>17, <1>18, <1>19, <1>20, <1>21 DEF Lower, Holds

(* The private data has gone, and the user's malloc does not bring it back. *)
LEMMA MallocGone ==
    ASSUME Types, Fixed, Gone, Malloc
    PROVE  Fixed' /\ Gone'
  <1> DEFINE n == Step.n
             s == Spot
             place == [at EXCEPT !["ptr"] = s]
  <1>1. /\ command # None /\ s \in 7..HeapSize
        /\ Done([at EXCEPT ![Step.var] = s])
        /\ live' = [q \in DOMAIN live \cup {s} |->
                      IF q = s THEN [n |-> n, of |-> Step.var] ELSE live[q]]
        /\ hurt' = (hurt \ {s}) \cup Others(s, Whole(s, n))
        /\ careless' = careless
    BY MallocIs
  <1>2. /\ Step.var = "ptr"
        /\ command # Plain("boot") /\ command # Plain("reboot")
    BY <1>1, ConsoleStep DEF Gone
  <1>3. Fixed'
    BY <1>2, MallocFixed
  <1>4. at \in [Vars -> 0..HeapSize] /\ "priv" \in Vars
    BY Variables DEF Types, Pointers
  <1>5. place \in [Vars -> 0..HeapSize] /\ place["priv"] = at["priv"] /\ Done(place)
    <2>1. Done(place)
      BY <1>1, <1>2
    <2> HIDE DEF s
    <2>2. s \in 0..HeapSize
      BY <1>1, Places
    <2> QED BY <1>4, <2>1, <2>2
  <1>6. at'["priv"] = at["priv"] /\ command' \in {command, None}
    BY <1>1, <1>5, DoneIs
  <1>7. ~PrivWhole'
    <2> HIDE DEF n, s
    <2>1. CASE at["priv"] = s
      BY <1>1, <1>2, <1>6, <2>1 DEF PrivWhole, Holds
    <2>2. CASE at["priv"] # s
      BY <1>1, <1>6, <2>2 DEF Gone, PrivWhole, Holds
    <2> QED BY <2>1, <2>2
  <1>8. None[1] = "none"
    BY DEF None, Plain
  <1> QED BY <1>1, <1>3, <1>6, <1>7, <1>8 DEF Gone

(* Where stores go: above the private data, to it, or into a block below   *)
(* and at most one byte past its end.                                      *)
LEMMA StoreGoes ==
    ASSUME Types, Fixed, Lower, Store,
           NEW p, p = at[Step.var],
           NEW n, n = IF p + Step.n < HeapSize THEN Step.n ELSE HeapSize - p,
           NEW own, own = IF Holds(Step.var) THEN p ELSE 0,
           p \in 7..HeapSize, n \in 0..(HeapSize - p)
    PROVE  /\ \/ p >= Top + 7
              \/ p = PrivAt /\ own = p /\ n = Priv
              \/ p \in Low(live) /\ own = p /\ p + n <= Reach(live, p) + 1
           /\ Early => p = PrivAt /\ n = Priv
  <1> DEFINE v == Step.var
             m == Step.n
  <1>1. command # None /\ Step.op = "store" /\ at["priv"] = PrivAt /\ at["priv"] # 0
    BY StoreIs, StoreFixed
  <1>2. TameStore(Step, Now) /\ v # "ptr"
    BY <1>1, TameIs
  <1>3. Step \in StepSet
    BY <1>1, StepIs
  <1>4. m \in Nat /\ p = at[v]
    BY <1>3 DEF StepSet
  <1>5. /\ PrivAt \in DOMAIN live /\ live[PrivAt].of = "priv"
        /\ PrivAt \in 7..HeapSize /\ Priv \in 0..(HeapSize - PrivAt)
    BY <1>1, PrivIs
  <1>6. v \in {"root_buff", "whole"} \/ (v = "priv" /\ m = Priv) \/ (v \in Now /\ m <= SizeOf(v) + 1)
    BY <1>2 DEF TameStore
  <1>7. n = IF p + m < HeapSize THEN m ELSE HeapSize - p
    OBVIOUS
  <1>8. own = IF Holds(v) THEN p ELSE 0
    OBVIOUS
  <1>9. Early => v = "priv"
    <2>1. Early => pc = 1 \/ pc = 2
      BY ProbeSteps DEF Early
    <2>2. Early => pc = 2
      BY <1>1, <2>1, ProbeSteps DEF Early
    <2>3. Early => Step = Put("priv", Priv)
      BY <2>2, ProbeSteps DEF Early
    <2> QED BY <2>3 DEF Put
  <1> HIDE DEF v, m
  <1>10. CASE v \in {"root_buff", "whole"}
    <2>1. p = 0 \/ p >= Top + 7
      BY <1>4, <1>10 DEF Fixed
    <2>2. p # 0
      OBVIOUS
    <2> QED BY <1>9, <1>10, <2>1, <2>2
  <1>11. CASE v = "priv" /\ m = Priv
    <2>1. p = PrivAt
      BY <1>1, <1>4, <1>11
    <2>2. n = Priv
      BY <1>5, <1>7, <1>11, <2>1, Places
    <2>3. Holds("priv")
      BY <1>1, <1>5 DEF Holds
    <2> QED BY <1>8, <1>11, <2>1, <2>2, <2>3
  <1>12. CASE v \in Now /\ m <= SizeOf(v) + 1 /\ v # "priv"
    <2>1. \/ p >= Top + 7
          \/ /\ p < PrivAt /\ p \in DOMAIN live /\ live[p].of = v
             /\ live[p].n = SizeOf(v)
      BY <1>2, <1>4, <1>12 DEF Lower, Usable, HoldsAt, v
    <2>2. CASE p < PrivAt /\ p \in DOMAIN live /\ live[p].of = v /\ live[p].n = SizeOf(v)
      <3>1. p \in Low(live) /\ Holds(v) /\ Reach(live, p) = p + SizeOf(v)
        BY <1>4, <2>2 DEF Low, Holds, Reach
      <3>2. SizeOf(v) \in Nat
        <4>1. Sound(live, at, p)
          BY <2>2 DEF Types
        <4>2. live[p].n \in 0..(HeapSize - p)
          BY <4>1 DEF Sound
        <4> QED BY <2>2, <4>2
      <3>3. n <= m
        BY <1>4, <1>7, Places
      <3> DEFINE z == SizeOf(v)
      <3>4. z \in Nat /\ m <= z + 1 /\ Reach(live, p) = p + z
        BY <1>12, <3>1, <3>2
      <3> HIDE DEF z
      <3>5. p + n <= Reach(live, p) + 1
        BY <1>4, <3>3, <3>4
      <3> QED BY <1>8, <1>9, <1>12, <3>1, <3>5
    <2> QED BY <1>9, <1>12, <2>1, <2>2
  <1>13. "priv" \notin Now
    <2> SUFFICES ASSUME "priv" \in Now PROVE FALSE
      OBVIOUS
    <2>1. PrivAt >= Top + 7 \/ PrivAt < PrivAt
      BY <1>1 DEF Lower, Usable
    <2> QED BY <2>1, Places
  <1> QED BY <1>6, <1>10, <1>11, <1>12, <1>13

LEMMA StoreLower ==
    ASSUME Types, Fixed, Lower, Store
    PROVE  Fixed' /\ Lower'
  <1> DEFINE p == at[Step.var]
             n == IF p + Step.n < HeapSize THEN Step.n ELSE HeapSize - p
             own == IF Holds(Step.var) THEN p ELSE 0
  <1>1. /\ command # None /\ Step.op = "store" /\ After = Now /\ Done(at) /\ live' = live
        /\ \/ p = 0 /\ used' = used /\ hurt' = hurt
           \/ /\ p \in 7..HeapSize /\ n \in 0..(HeapSize - p) /\ n > 0
              /\ used' = Filled(used, Data(p, n))
              /\ hurt' = hurt \cup Others(own, Data(p, n))
    BY StoreIs
  <1>2. Fixed' /\ at["priv"] = PrivAt /\ at["priv"] # 0
    BY StoreFixed
  <1>3. p \in 7..HeapSize /\ n \in 0..(HeapSize - p) =>
            /\ \/ p >= Top + 7
               \/ p = PrivAt /\ own = p /\ n = Priv
               \/ p \in Low(live) /\ own = p /\ p + n <= Reach(live, p) + 1
            /\ Early => p = PrivAt /\ n = Priv
    BY StoreGoes
  <1>4. /\ Runs(used) /\ at \in [Vars -> 0..HeapSize]
        /\ \A q \in DOMAIN live : Sound(live, at, q)
    BY DEF Types, Pointers
  <1>0. Early => p = PrivAt
    <2>1. Early => pc = 1 \/ pc = 2
      BY ProbeSteps DEF Early
    <2>2. Early => pc = 2
      BY <1>1, <2>1, ProbeSteps DEF Early
    <2>3. Early => Step = Put("priv", Priv)
      BY <2>2, ProbeSteps DEF Early
    <2> QED BY <1>2, <2>3 DEF Put
  <1> HIDE DEF p, n, own
  <1>5. /\ Usable(live, at', Now') /\ Known(live, at', Now')
        /\ Anchored(Now') => Anchored(Now)
        /\ at'["priv"] = at["priv"]
    <2>1. Usable(live, at, After) /\ Known(live, at, After)
      BY <1>1 DEF Lower
    <2> QED BY <1>1, <1>4, <2>1, DoneKnown
  <1> DEFINE Good == /\ \A q \in hurt' : q > PrivAt
                     /\ Stored(used', live) /\ Covered(used', Data(PrivAt, Priv))
                     /\ \A b \in Nat : Fast(used, live, b) => Fast(used', live, b)
  <1>6. ASSUME p # 0 PROVE Good
    <2>1. /\ p \in 7..HeapSize /\ n \in 0..(HeapSize - p) /\ n > 0
          /\ used' = Filled(used, Data(p, n))
          /\ hurt' = hurt \cup Others(own, Data(p, n))
      BY <1>1, <1>6
    <2>2. /\ Span(Data(p, n)) /\ Lo(Data(p, n)) = p /\ Hi(Data(p, n)) = p + n
          /\ p \in Nat /\ n \in Nat
      BY <2>1, Spaces
    <2>3. \A b \in Nat : Within(b, Data(p, n)) <=> p <= b /\ b < p + n
      BY <2>2 DEF Within
    <2>4. \A b \in Nat : InRuns(b, used') <=> InRuns(b, used) \/ Within(b, Data(p, n))
      BY <1>4, <2>1, <2>2, FilledIs
    <2>5. ASSUME NEW q \in DOMAIN live \ {own}, q <= PrivAt, NEW b \in Nat,
                 Within(b, Data(p, n)), Within(b, KeptOf(live, q))
          PROVE  FALSE
      <3>1. p <= b /\ b < p + n
        BY <2>3, <2>5
      <3>2. Sound(live, at, q)
        BY <1>4, <2>5
      <3> DEFINE z == Reach(live, q)
      <3>3. z \in Nat /\ q \in Nat /\ q - 4 <= b /\ b < z /\ q <= z
        BY <2>5, <3>2, ReachIs
      <3>4. q = PrivAt => PrivAt <= b /\ b < Top
        BY <1>2, <2>5, PrivIs
      <3>5. q # PrivAt => q \in Low(live) /\ z + 3 <= PrivAt
        <4>1. q # PrivAt => q < PrivAt
          BY <2>5, <3>3, Places
        <4>2. q # PrivAt => z + 3 <= PrivAt \/ Top + 7 <= q
          BY <2>5 DEF Lower, Parted
        <4> QED BY <3>3, <4>1, <4>2, Places DEF Low
      <3> HIDE DEF z
      <3>6. CASE p >= Top + 7
        BY <2>2, <3>1, <3>3, <3>4, <3>5, <3>6, Places
      <3>7. CASE p = PrivAt /\ own = p
        BY <2>2, <2>5, <3>1, <3>3, <3>5, <3>7, Places
      <3>8. CASE p \in Low(live) /\ own = p /\ p + n <= Reach(live, p) + 1
        <4> DEFINE y == Reach(live, p)
        <4>1. Sound(live, at, p)
          BY <1>4, <3>8 DEF Low
        <4>2. y \in Nat /\ p <= y
          BY <4>1, ReachIs
        <4>3. y + 3 <= PrivAt
          <5>1. p \in DOMAIN live /\ p < PrivAt
            BY <3>8 DEF Low
          <5>2. p # PrivAt
            BY <2>2, <5>1, Places
          <5>3. y + 3 <= PrivAt \/ Top + 7 <= p
            BY <5>1, <5>2 DEF Lower, Parted
          <5> QED BY <2>2, <5>1, <5>3, Places
        <4>4. q \in Low(live) /\ q < p => z + 3 <= p - 4
          BY <3>8 DEF Lower, Parted, z
        <4>5. q \in Low(live) /\ p < q => y + 3 <= q - 4
          BY <3>8 DEF Lower, Parted
        <4>6. p + n <= y + 1
          BY <3>8
        <4> HIDE DEF y
        <4>7. CASE q = PrivAt
          BY <2>2, <3>1, <3>4, <4>2, <4>3, <4>6, <4>7, Places
        <4>8. CASE q # PrivAt
          <5>1. q # p /\ q \in Low(live)
            BY <2>5, <3>5, <3>8, <4>8
          <5>2. q < p \/ p < q
            BY <2>2, <3>3, <5>1
          <5> QED BY <2>2, <3>1, <3>3, <4>2, <4>4, <4>5, <4>6, <5>1, <5>2
        <4> QED BY <4>7, <4>8
      <3> QED BY <1>3, <2>1, <3>6, <3>7, <3>8
    <2>6. \A q \in Others(own, Data(p, n)) : q > PrivAt
      BY <2>2, <2>5, OthersAbove
    <2>7. \A q \in hurt' : q > PrivAt
      BY <2>1, <2>6 DEF Lower
    <2>8. Stored(used', live)
      BY <2>4 DEF Lower, Stored, Covered
    <2>9. Covered(used', Data(PrivAt, Priv))
      <3>1. CASE Early
        BY <1>3, <2>1, <2>4, <3>1 DEF Covered
      <3>2. CASE ~Early
        <4>1. Covered(used, Data(PrivAt, Priv))
          BY <1>2, <3>2 DEF Lower
        <4> QED BY <2>4, <4>1 DEF Covered
      <3> QED BY <3>1, <3>2
    <2>10. \A b \in Nat : Fast(used, live, b) => Fast(used', live, b)
      BY <2>4 DEF Fast
    <2> QED BY <2>7, <2>8, <2>9, <2>10
  <1>7. ASSUME p = 0 PROVE Good
    <2>1. used' = used /\ hurt' = hurt
      BY <1>1, <1>7
    <2>2. ~Early
      BY <1>0, <1>7, Places
    <2>3. Covered(used', Data(PrivAt, Priv))
      BY <1>2, <2>1, <2>2 DEF Lower
    <2> QED BY <2>1, <2>3 DEF Lower
  <1>8. Good
    BY <1>6, <1>7
  <1>9. Holdfast(used', live, Now')
    <2> SUFFICES ASSUME Anchored(Now') PROVE \E b \in 0..(SbBuff + 9) : Fast(used', live, b)
      BY DEF Holdfast
    <2>1. PICK b \in 0..(SbBuff + 9) : Fast(used, live, b)
      BY <1>5 DEF Lower, Holdfast
    <2>2. b \in Nat
      BY <2>1, Places
    <2> QED BY <1>8, <2>1, <2>2
  <1>10. Holds("priv")'
    BY <1>1, <1>2, <1>5 DEF Lower, Holds
  <1> QED BY <1>1, <1>2, <1>5, <1>8, <1>9, <1>10 DEF Lower

(* What is freed is above the private data or a block below. *)
LEMMA DropLower ==
    ASSUME Types, Fixed, Lower, command # None, Step.op = "free", Done(at),
           NEW p, p = at[Step.var], p \in 7..HeapSize,
           live' = [q \in DOMAIN live \ {p} |-> live[q]],
           NEW e \in Nat,
           \A b \in Nat : InRuns(b, used') <=> InRuns(b, used) /\ ~(p - 4 <= b /\ b < e),
           \/ p >= Top + 4
           \/ p \in Low(live) /\ e = Reach(live, p) /\ live[p].of = Step.var,
           \A q \in hurt' : q > PrivAt,
           at["priv"] = PrivAt, at["priv"] # 0
    PROVE  Lower'
  <1> DEFINE v == Step.var
  <1>1. /\ v \in Vars /\ After = Now \ {v}
    BY DropIs
  <1>2. /\ at \in [Vars -> 0..HeapSize] /\ Now \in SUBSET Vars
        /\ \A q \in DOMAIN live : Sound(live, at, q)
    BY StepIs DEF Types, Pointers
  <1>3. TameFree(Step, Now) \/ Now = {}
    BY TameIs
  <1>4. v \in Inner \cup {"root_buff"} \/ ~Anchored(After)
    BY <1>1, <1>3 DEF TameFree, Anchored
  <1>5. ~Early
    <2>1. Early => pc = 1 \/ pc = 2
      BY ProbeSteps DEF Early
    <2> QED BY <2>1, ProbeSteps DEF Early
  <1>6. p = at[v]
    OBVIOUS
  <1>7. \/ p >= Top + 4
        \/ p \in Low(live) /\ e = Reach(live, p) /\ live[p].of = v
    OBVIOUS
  <1> HIDE DEF v
  <1>8. p \in Nat /\ p >= 7 /\ p - 4 \in Nat
    OBVIOUS
  <1>9. p # PrivAt
    BY <1>7, <1>8, Places DEF Low
  <1>10. /\ DOMAIN live' = DOMAIN live \ {p} /\ \A q \in DOMAIN live' : live'[q] = live[q]
         /\ \A q \in DOMAIN live' : Reach(live', q) = Reach(live, q)
    BY DEF Reach
  <1>11. \A q \in Low(live') : q \in Low(live) /\ q # p /\ live'[q] = live[q]
    BY <1>10 DEF Low
  <1>12. Parted(live')
    <2>1. ASSUME NEW q \in DOMAIN live', q # PrivAt
          PROVE  Reach(live', q) + 3 <= PrivAt \/ Top + 7 <= q
      BY <1>10, <2>1 DEF Lower, Parted
    <2>2. ASSUME NEW q \in Low(live'), NEW r \in Low(live'), q < r
          PROVE  Reach(live', q) + 3 <= r - 4
      <3>1. q \in Low(live) /\ r \in Low(live) /\ Reach(live', q) = Reach(live, q)
        BY <1>10, <1>11, <2>2 DEF Low
      <3> QED BY <2>2, <3>1 DEF Lower, Parted
    <2> QED BY <2>1, <2>2 DEF Parted
  <1>13. \A q \in Low(live) : /\ Reach(live, q) \in Nat /\ q \in Nat /\ q <= Reach(live, q)
                              /\ Reach(live, q) + 3 <= PrivAt
                              /\ \A b \in Nat : Within(b, Whole(q, live[q].n)) <=>
                                                    q - 4 <= b /\ b < Reach(live, q)
    <2> TAKE q \in Low(live)
    <2>1. q \in DOMAIN live /\ q < PrivAt /\ Sound(live, at, q)
      BY <1>2 DEF Low
    <2>2. /\ Reach(live, q) \in Nat /\ q \in Nat /\ q <= Reach(live, q)
          /\ \A b \in Nat : Within(b, Whole(q, live[q].n)) <=> q - 4 <= b /\ b < Reach(live, q)
      BY <2>1, ReachIs
    <2>3. q # PrivAt
      BY <2>1, <2>2, Places
    <2>4. Reach(live, q) + 3 <= PrivAt \/ Top + 7 <= q
      BY <2>1, <2>3 DEF Lower, Parted
    <2> QED BY <2>1, <2>2, <2>4, Places
  <1>14. Stored(used', live')
    <2> SUFFICES ASSUME NEW q \in Low(live'), NEW b \in Nat, Within(b, Whole(q, live'[q].n))
                 PROVE  InRuns(b, used')
      BY DEF Stored, Covered
    <2>1. q \in Low(live) /\ q # p /\ Within(b, Whole(q, live[q].n))
      BY <1>11
    <2>2. InRuns(b, used)
      BY <2>1 DEF Lower, Stored, Covered
    <2> DEFINE z == Reach(live, q)
    <2>3. z \in Nat /\ q \in Nat /\ q <= z /\ z + 3 <= PrivAt /\ q - 4 <= b /\ b < z
      BY <1>13, <2>1
    <2>4. p \in Low(live) /\ q < p => z + 3 <= p - 4
      BY <2>1 DEF Lower, Parted
    <2>5. p \in Low(live) /\ p < q => Reach(live, p) + 3 <= q - 4
      BY <2>1 DEF Lower, Parted
    <2> HIDE DEF z
    <2>6. ~(p - 4 <= b /\ b < e)
      <3>1. CASE p >= Top + 4
        BY <1>8, <2>3, <3>1, Places
      <3>2. CASE p \in Low(live) /\ e = Reach(live, p)
        <4>1. q < p \/ p < q
          BY <1>8, <2>1, <2>3
        <4>2. p < q => e + 3 <= q - 4
          BY <2>5, <3>2
        <4> QED BY <1>8, <2>3, <2>4, <3>2, <4>1, <4>2
      <3> QED BY <1>7, <3>1, <3>2
    <2> QED BY <2>2, <2>6
  <1>15. Covered(used', Data(PrivAt, Priv))
    <2> SUFFICES ASSUME NEW b \in Nat, Within(b, Data(PrivAt, Priv)) PROVE InRuns(b, used')
      BY DEF Covered
    <2>1. PrivAt <= b /\ b < Top
      BY PrivIs
    <2>2. InRuns(b, used)
      BY <1>5 DEF Lower, Covered
    <2>3. ~(p - 4 <= b /\ b < e)
      <3>1. CASE p >= Top + 4
        BY <1>8, <2>1, <3>1, Places
      <3>2. CASE p \in Low(live) /\ e = Reach(live, p)
        <4>1. e + 3 <= PrivAt
          BY <1>13, <3>2
        <4> QED BY <2>1, <4>1, Places
      <3> QED BY <1>7, <3>1, <3>2
    <2> QED BY <2>2, <2>3
  <1>16. Usable(live', at, After)
    <2> SUFFICES ASSUME NEW u \in After
        PROVE  \/ at[u] >= Top + 7
               \/ /\ at[u] < PrivAt /\ HoldsAt(live', at, u)
                  /\ u # "ptr" => live'[at[u]].n = SizeOf(u)
      BY DEF Usable
    <2>1. u \in Now /\ u # v
      BY <1>1
    <2>2. \/ at[u] >= Top + 7
          \/ /\ at[u] < PrivAt /\ at[u] \in DOMAIN live /\ live[at[u]].of = u
             /\ u # "ptr" => live[at[u]].n = SizeOf(u)
      BY <2>1 DEF Lower, Usable, HoldsAt
    <2>3. ASSUME at[u] < PrivAt, at[u] \in DOMAIN live, live[at[u]].of = u PROVE at[u] # p
      <3>1. CASE p >= Top + 4
        BY <1>8, <2>3, <3>1, Places
      <3>2. CASE live[p].of = v
        BY <2>1, <2>3, <3>2
      <3> QED BY <1>7, <3>1, <3>2
    <2> QED BY <1>10, <2>2, <2>3 DEF HoldsAt
  <1>17. Known(live', at, After)
    <2> SUFFICES ASSUME NEW q \in Low(live'), live'[q].of \notin Left
                 PROVE  live'[q].of \in After /\ at[live'[q].of] = q
      BY DEF Known
    <2> DEFINE u == live[q].of
    <2>1. q # p /\ live'[q].of = u /\ u \in Now /\ at[u] = q
      BY <1>11 DEF Lower, Known
    <2> HIDE DEF u
    <2> QED BY <1>1, <1>6, <2>1
  <1>18. /\ Usable(live', at', Now') /\ Known(live', at', Now')
         /\ Anchored(Now') => Anchored(After)
         /\ at'["priv"] = at["priv"]
    BY <1>2, <1>16, <1>17, DoneKnown
  <1>19. Holdfast(used', live', Now')
    <2> SUFFICES ASSUME Anchored(Now') PROVE \E b \in 0..(SbBuff + 9) : Fast(used', live', b)
      BY DEF Holdfast
    <2>1. Anchored(After) /\ Anchored(Now) /\ v \in Inner \cup {"root_buff"}
      BY <1>1, <1>4, <1>18 DEF Anchored
    <2>2. PICK b \in 0..(SbBuff + 9) : Fast(used, live, b)
      BY <2>1 DEF Lower, Holdfast
    <2>3. b \in Nat /\ b < PrivAt
      BY <2>2, Places
    <2>4. ~(p - 4 <= b /\ b < e)
      <3>1. CASE p >= Top + 4
        BY <1>8, <2>3, <3>1, Places
      <3>2. CASE p \in Low(live) /\ e = Reach(live, p) /\ live[p].of = v
        <4>1. v # "root_buff"
          <5>1. v = "root_buff" => p = 0 \/ p >= Top + 7
            BY <1>6 DEF Fixed
          <5>2. p < PrivAt
            BY <3>2 DEF Low
          <5> QED BY <1>8, <5>1, <5>2, Places
        <4>2. ~Within(b, Whole(p, live[p].n))
          BY <2>1, <2>2, <3>2, <4>1 DEF Fast
        <4> QED BY <1>13, <2>3, <3>2, <4>2
      <3> QED BY <1>7, <3>1, <3>2
    <2>5. InRuns(b, used') /\ \A q \in Low(live') : live'[q].of \in Inner => ~Within(b, Whole(q, live'[q].n))
      BY <1>11, <2>2, <2>3, <2>4 DEF Fast
    <2>6. Fast(used', live', b)
      BY <2>5 DEF Fast
    <2> QED BY <2>2, <2>6
  <1>20. at'["priv"] \in DOMAIN live' /\ live'[at'["priv"]].of = "priv"
    BY <1>9, <1>10, <1>18, PrivIs
  <1> QED BY <1>12, <1>14, <1>15, <1>18, <1>19, <1>20 DEF Lower, Holds

LEMMA ClearIs ==
    ASSUME Types, NEW p \in 7..HeapSize, NEW e \in Nat, p <= e, e <= HeapSize,
           used' = Marked(used, <<p - 4, e>>)
    PROVE  /\ \A b \in Nat : InRuns(b, used') <=> InRuns(b, used) /\ ~(p - 4 <= b /\ b < e)
           /\ Span(<<p - 4, e>>) /\ Lo(<<p - 4, e>>) = p - 4 /\ Hi(<<p - 4, e>>) = e
  <1> DEFINE a == p - 4
  <1>1. a \in 0..HeapSize /\ e \in 0..HeapSize /\ a < e
    BY Places
  <1>2. used' = Marked(used, <<a, e>>) /\ Runs(used)
    BY DEF Types
  <1> HIDE DEF a
  <1>3. Span(<<a, e>>) /\ Lo(<<a, e>>) = a /\ Hi(<<a, e>>) = e
    BY <1>1, Pair
  <1>4. \A b \in Nat : InRuns(b, used') <=> InRuns(b, used) /\ ~(a <= b /\ b < e)
    BY <1>2, <1>3, MarkedIs DEF Within
  <1> QED BY <1>3, <1>4 DEF a

LEMMA FreeLower ==
    ASSUME Types, Fixed, Lower, Free
    PROVE  Fixed' /\ Lower'
  <1> DEFINE p == at[Step.var]
             e == Reach(live, p)
  <1>1. /\ command # None /\ Step.op = "free" /\ Done(at) /\ hurt' = hurt
        /\ p \in DOMAIN live /\ live[p].of = Step.var
        /\ used' = Marked(used, Whole(p, live[p].n))
        /\ live' = [q \in DOMAIN live \ {p} |-> live[q]]
    BY DEF Free, Doing, Holds
  <1>2. Fixed' /\ at["priv"] = PrivAt /\ at["priv"] # 0 /\ p \in 7..HeapSize
    BY FreeFixed
  <1>3. Sound(live, at, p) /\ Step.var # "priv"
    BY <1>1, DropIs DEF Types
  <1>4. Whole(p, live[p].n) = <<p - 4, e>>
    BY DEF Whole, Reach
  <1>5. p = at[Step.var]
    OBVIOUS
  <1> HIDE DEF p
  <1>6. e \in Nat /\ p \in Nat /\ p <= e /\ e <= HeapSize
    BY <1>3, ReachIs
  <1>7. p # PrivAt
    BY <1>1, <1>2, <1>3, PrivIs
  <1>8. e + 3 <= PrivAt \/ Top + 7 <= p
    BY <1>1, <1>7 DEF Lower, Parted
  <1>9. e = Reach(live, p)
    OBVIOUS
  <1>10. \A b \in Nat : InRuns(b, used') <=> InRuns(b, used) /\ ~(p - 4 <= b /\ b < e)
    <2> HIDE DEF e
    <2> QED BY <1>1, <1>2, <1>4, <1>6, ClearIs
  <1> HIDE DEF e
  <1>11. \/ p >= Top + 4
         \/ p \in Low(live) /\ e = Reach(live, p) /\ live[p].of = Step.var
    BY <1>1, <1>6, <1>8, <1>9, Places DEF Low
  <1>12. \A q \in hurt' : q > PrivAt
    BY <1>1 DEF Lower
  <1>13. Lower'
    BY <1>1, <1>2, <1>5, <1>6, <1>10, <1>11, <1>12, DropLower
  <1> QED BY <1>2, <1>13

(* A second free: of what a command lost above the private data, or of     *)
(* what the user does not hold.                                            *)
LEMMA FreeAgainLower ==
    ASSUME Types, Fixed, Lower, FreeAgain
    PROVE  Fixed' /\ (Lower' \/ Gone')
  <1> DEFINE v == Step.var
             p == at[v]
             rest == <<p - 4, HeapSize>>
  <1>1. /\ command # None /\ Step.op = "free" /\ Done(at)
        /\ ~Holds(v) \/ p \in hurt
        /\ used' = Marked(used, rest)
        /\ live' = [q \in DOMAIN live \ {p} |-> live[q]]
        /\ hurt' = (hurt \cup Others(p, rest)) \ {p}
        /\ careless' = (careless \/ NotHeld)
    BY DEF FreeAgain, Doing
  <1>2. Fixed' /\ at["priv"] = PrivAt /\ at["priv"] # 0 /\ p \in 7..HeapSize
    BY FreeFixed
  <1>3. \/ v \in Now
        \/ command = Plain("free") /\ v = "ptr"
    BY <1>1, DropIs
  <1>4. /\ PrivAt \in DOMAIN live /\ live[PrivAt].of = "priv"
        /\ KeptOf(live, PrivAt) = Data(PrivAt, Priv) /\ Span(Data(PrivAt, Priv))
        /\ \A b \in Nat : Within(b, Data(PrivAt, Priv)) <=> PrivAt <= b /\ b < Top
        /\ PrivAt \in 7..HeapSize /\ Priv \in 0..(HeapSize - PrivAt)
    BY <1>2, PrivIs
  <1>5. \A q \in DOMAIN live : Sound(live, at, q)
    BY DEF Types
  <1>6. p = at[v] /\ v = Step.var
    OBVIOUS
  <1> HIDE DEF v, p
  <1>7. /\ \A b \in Nat : InRuns(b, used') <=> InRuns(b, used) /\ ~(p - 4 <= b /\ b < HeapSize)
        /\ Span(rest) /\ Lo(rest) = p - 4 /\ Hi(rest) = HeapSize
    BY <1>1, <1>2, ClearIs, Places
  <1> HIDE DEF rest
  <1>8. p \in Nat /\ p >= 7 /\ p <= HeapSize
    BY <1>2
  <1>9. ASSUME p >= Top + 4 PROVE Lower'
    <2>1. ASSUME NEW q \in DOMAIN live \ {p}, q <= PrivAt, NEW b \in Nat,
                 Within(b, rest), Within(b, KeptOf(live, q))
          PROVE  FALSE
      <3>1. p - 4 <= b
        BY <1>7, <2>1 DEF Within
      <3>2. CASE q = PrivAt
        BY <1>4, <1>8, <1>9, <2>1, <3>1, <3>2, Places
      <3>3. CASE q # PrivAt
        <4> DEFINE z == Reach(live, q)
        <4>1. z \in Nat /\ q \in Nat /\ b < z /\ q <= z
          BY <1>5, <2>1, ReachIs
        <4>2. z + 3 <= PrivAt \/ Top + 7 <= q
          BY <2>1, <3>3 DEF Lower, Parted
        <4> HIDE DEF z
        <4> QED BY <1>8, <1>9, <2>1, <3>1, <4>1, <4>2, Places
      <3> QED BY <3>2, <3>3
    <2>2. \A q \in Others(p, rest) : q > PrivAt
      BY <1>7, <2>1, OthersAbove
    <2>3. \A q \in hurt' : q > PrivAt
      BY <1>1, <2>2 DEF Lower
    <2>4. HeapSize \in Nat
      BY Places
    <2> QED BY <1>1, <1>2, <1>6, <1>7, <1>9, <2>3, <2>4, DropLower
  <1>10. ASSUME v \in Now PROVE p >= Top + 4
    <2>1. p >= Top + 7 \/ (p < PrivAt /\ HoldsAt(live, at, v))
      BY <1>6, <1>10 DEF Lower, Usable
    <2>2. ~(p < PrivAt /\ HoldsAt(live, at, v))
      <3>1. HoldsAt(live, at, v) => p \in hurt
        BY <1>1 DEF HoldsAt, Holds
      <3>2. p \in hurt => p > PrivAt
        BY DEF Lower
      <3> QED BY <1>8, <3>1, <3>2, Places
    <2> QED BY <1>8, <2>1, <2>2, Places
  <1>11. ASSUME ~(p >= Top + 4) PROVE Gone'
    <2>1. command = Plain("free") /\ v = "ptr"
      BY <1>3, <1>10, <1>11
    <2>2. ~Holds(v)
      <3> SUFFICES ASSUME Holds(v) PROVE FALSE
        OBVIOUS
      <3>1. p \in DOMAIN live /\ p \in hurt
        BY <1>1, <1>6 DEF Holds
      <3>2. p > PrivAt
        BY <3>1 DEF Lower
      <3>3. p # PrivAt
        BY <1>8, <3>2, Places
      <3> DEFINE z == Reach(live, p)
      <3>4. z + 3 <= PrivAt \/ Top + 7 <= p
        BY <3>1, <3>3 DEF Lower, Parted
      <3>5. z \in Nat /\ p <= z
        BY <1>5, <3>1, ReachIs
      <3> HIDE DEF z
      <3> QED BY <1>8, <1>11, <3>2, <3>4, <3>5, Places
    <2>3. careless'
      BY <1>1, <2>1, <2>2 DEF NotHeld
    <2>4. at'["priv"] = PrivAt /\ command' \in {command, None}
      BY <1>1, <1>2, DoneIs DEF Types, Pointers
    <2>5. ~PrivWhole'
      <3>1. CASE p = PrivAt
        BY <1>1, <2>4, <3>1 DEF PrivWhole, Holds
      <3>2. CASE p # PrivAt
        <4>1. p - 4 < Top
          BY <1>8, <1>11, Places
        <4>2. Hi(Data(PrivAt, Priv)) = Top /\ Lo(Data(PrivAt, Priv)) = PrivAt
          BY Places DEF Data, Hi, Lo
        <4>3. PrivAt < HeapSize
          BY <1>4, Places
        <4>4. Meet(rest, Data(PrivAt, Priv))
          BY <1>7, <4>1, <4>2, <4>3 DEF Meet
        <4>5. PrivAt \in Others(p, rest)
          BY <1>4, <3>2, <4>4 DEF Others, Kept, KeptOf
        <4>6. PrivAt \in hurt'
          BY <1>1, <3>2, <4>5
        <4> QED BY <2>4, <4>6 DEF PrivWhole
      <3> QED BY <3>1, <3>2
    <2>6. Plain("free")[1] = "free" /\ None[1] = "none"
      BY DEF None, Plain
    <2> QED BY <2>1, <2>3, <2>4, <2>5, <2>6 DEF Gone
  <1> QED BY <1>2, <1>9, <1>11

LEMMA FreeGone ==
    ASSUME Types, Fixed, Gone, Free \/ FreeAgain
    PROVE  Fixed' /\ Gone'
  <1> DEFINE p == at[Step.var]
  <1>1. /\ command # None /\ Done(at)
        /\ live' = [q \in DOMAIN live \ {p} |-> live[q]]
        /\ \A q \in hurt : q # p => q \in hurt'
        /\ careless => careless'
    <2>1. CASE Free
      BY <2>1 DEF Free, Doing
    <2>2. CASE FreeAgain
      <3>1. /\ command # None /\ Done(at)
            /\ live' = [q \in DOMAIN live \ {p} |-> live[q]]
            /\ hurt' = (hurt \cup Others(p, <<p - 4, HeapSize>>)) \ {p}
            /\ careless' = (careless \/ NotHeld)
        BY <2>2 DEF FreeAgain, Doing
      <3> HIDE DEF p
      <3> QED BY <3>1
    <2> QED BY <2>1, <2>2
  <1>2. Fixed'
    BY FreeFixed
  <1>3. at'["priv"] = at["priv"] /\ command' \in {command, None}
    BY <1>1, DoneIs DEF Types, Pointers
  <1> HIDE DEF p
  <1>4. ~PrivWhole'
    <2>1. CASE at["priv"] = p
      BY <1>1, <1>3, <2>1 DEF PrivWhole, Holds
    <2>2. CASE at["priv"] # p
      BY <1>1, <1>3, <2>2 DEF Gone, PrivWhole, Holds
    <2> QED BY <2>1, <2>2
  <1>5. None[1] = "none"
    BY DEF None, Plain
  <1> QED BY <1>1, <1>2, <1>3, <1>4, <1>5 DEF Gone

LEMMA BeginLower ==
    ASSUME Types, Fixed, Lower \/ Gone,
           NEW names \in SUBSET {"read", "load bin", "ls", "write", "append", "malloc", "free"},
           Begin(names), Gone => names \subseteq {"malloc", "free"}
    PROVE  Fixed' /\ (Lower' \/ Gone')
  <1>1. /\ command = None /\ command' \in Commands /\ command'[1] \in names
        /\ used' = used /\ at' = at /\ pc' = pc /\ live' = live /\ hurt' = hurt
        /\ careless' = careless
    BY DEF Begin, Prompt
  <1>2. /\ command # Plain("boot") /\ command # Plain("reboot")
        /\ command' # Plain("reboot") /\ command' # None
    <2>1. /\ None[1] = "none" /\ Plain("boot")[1] = "boot" /\ Plain("reboot")[1] = "reboot"
      BY DEF None, Plain
    <2>2. "none" \notin names /\ "reboot" \notin names
      OBVIOUS
    <2> QED BY <1>1, <2>1, <2>2
  <1>3. at["priv"] = PrivAt
    BY <1>2 DEF Fixed
  <1>4. Fixed'
    BY <1>1, <1>3 DEF Fixed
  <1>5. Now = {} /\ Now' = {}
    <2> DEFINE c == command'
    <2>1. c \in Commands /\ c # None
      BY <1>1, <1>2
    <2> HIDE DEF c
    <2>2. Chain(c)[1 - 1] = {}
      BY <2>1, NowAtStart
    <2>3. pc' = 1
      BY <1>1 DEF Types, Underway
    <2> QED BY <1>1, <1>2, <2>2, <2>3 DEF Now, c
  <1>6. CASE Lower
    <2>1. ~Early /\ ~Early'
      BY <1>2 DEF Early
    <2>2. Known(live', at', Now')
      BY <1>1, <1>5, <1>6 DEF Lower, Known
    <2>3. Usable(live', at', Now') /\ Holdfast(used', live', Now')
      BY <1>5 DEF Usable, Holdfast, Anchored
    <2> QED BY <1>1, <1>4, <1>6, <2>1, <2>2, <2>3 DEF Lower, Holds
  <1>7. CASE Gone
    BY <1>1, <1>4, <1>7 DEF Gone, PrivWhole, Holds
  <1> QED BY <1>6, <1>7

LEMMA AstrayLower ==
    ASSUME Fixed, Lower \/ Gone, UNCHANGED <<used, at, command, pc, live, hurt>>,
           careless => careless'
    PROVE  Fixed' /\ (Lower' \/ Gone')
  <1>1. /\ used' = used /\ at' = at /\ command' = command /\ pc' = pc /\ live' = live
        /\ hurt' = hurt
    OBVIOUS
  <1>2. Now' = Now /\ Early' = Early
    BY <1>1 DEF Now, Early
  <1>3. Fixed'
    BY <1>1 DEF Fixed
  <1>4. Lower => Lower'
    BY <1>1, <1>2 DEF Lower, Holds
  <1>5. Gone => Gone'
    BY <1>1 DEF Gone, PrivWhole, Holds
  <1> QED BY <1>3, <1>4, <1>5

LEMMA CheapGone ==
    ASSUME Types, Fixed, Cheap
    PROVE  Fixed' /\ Gone'
  <1>1. /\ command = None /\ command' = command /\ pc' = pc /\ at' = at
        /\ used' = {} /\ careless' = TRUE /\ hurt' = DOMAIN live'
    BY DEF Cheap, Prompt
  <1>2. Fixed'
    BY <1>1 DEF Fixed, InRuns
  <1>3. ~PrivWhole'
    BY <1>1 DEF PrivWhole, Holds
  <1>4. command'[1] = "none"
    BY <1>1 DEF None, Plain
  <1> QED BY <1>1, <1>2, <1>3, <1>4 DEF Gone

LEMMA RebootLower ==
    ASSUME Types, Fixed, Reboot
    PROVE  Fixed' /\ Lower'
  <1>1. /\ command = None /\ pc' = pc /\ at' = at /\ used' = {} /\ hurt' = {}
        /\ live' = [q \in {at["priv"]} \ {0} |-> [n |-> Priv, of |-> "priv"]]
        /\ command' = Plain(IF at["priv"] = 0 THEN "boot" ELSE "reboot")
    BY DEF Reboot, Prompt
  <1>2. pc = 1 /\ PrivAt # 0 /\ at["priv"] = PrivAt
    <2>1. None # Plain("boot")
      BY DEF None, Plain
    <2> QED BY <1>1, <2>1, Places DEF Types, Underway, Fixed
  <1>3. command' = Plain("reboot")
    BY <1>1, <1>2
  <1>4. /\ DOMAIN live' = {PrivAt} /\ live'[PrivAt].of = "priv"
    BY <1>1, <1>2
  <1>5. Fixed'
    BY <1>1, <1>2 DEF Fixed, InRuns
  <1>6. Early'
    BY <1>1, <1>2, <1>3 DEF Early
  <1>7. Now' = {}
    <2> DEFINE c == command'
    <2>1. c \in Commands /\ c # None
      <3>1. Plain("reboot") \in Commands
        <4> DEFINE plain == { Plain(name) : name \in {"boot", "reboot", "read", "free"} }
        <4>1. Plain("reboot") \in plain
          OBVIOUS
        <4> HIDE DEF plain
        <4>2. plain \subseteq Commands
          BY DEF Commands, plain
        <4> QED BY <4>1, <4>2
      <3>2. None # Plain("reboot")
        BY DEF None, Plain
      <3> QED BY <1>3, <3>1, <3>2
    <2> HIDE DEF c
    <2>2. Chain(c)[1 - 1] = {}
      BY <2>1, NowAtStart
    <2>3. pc' = 1
      BY <1>1, <1>2
    <2> QED BY <2>1, <2>2, <2>3 DEF Now, c
  <1>8. Low(live') = {}
    BY <1>4, Places DEF Low
  <1>9. Parted(live') /\ Stored(used', live') /\ Known(live', at', Now')
    BY <1>4, <1>8 DEF Parted, Stored, Known
  <1>10. Usable(live', at', Now') /\ Holdfast(used', live', Now')
    BY <1>7 DEF Usable, Holdfast, Anchored
  <1> QED BY <1>1, <1>2, <1>4, <1>5, <1>6, <1>9, <1>10 DEF Lower, Holds

LEMMA InitLower == Init => Fixed /\ Lower
  <1> SUFFICES ASSUME Init PROVE Fixed /\ Lower
    OBVIOUS
  <1>1. /\ used = {} /\ at = [v \in Vars |-> 0] /\ command = Plain("boot") /\ pc = 1
        /\ live = << >> /\ hurt = {}
    BY DEF Init, Vars
  <1>2. "priv" \in Vars /\ \A v \in {"root_buff", "whole"} : v \in Vars
    BY Variables
  <1>3. DOMAIN live = {}
    BY <1>1
  <1>4. Fixed
    BY <1>1, <1>2 DEF Fixed, InRuns
  <1>5. Now = {}
    <2> DEFINE c == Plain("boot")
    <2>1. c \in Commands /\ c # None
      <3> DEFINE plain == { Plain(name) : name \in {"boot", "reboot", "read", "free"} }
      <3>1. c \in plain
        OBVIOUS
      <3> HIDE DEF plain, c
      <3>2. plain \subseteq Commands
        BY DEF Commands, plain
      <3>3. c # None
        BY DEF None, Plain, c
      <3> QED BY <3>1, <3>2, <3>3
    <2>2. command = c
      BY <1>1
    <2> HIDE DEF c
    <2>3. Chain(c)[1 - 1] = {}
      BY <2>1, NowAtStart
    <2> QED BY <1>1, <2>1, <2>2, <2>3 DEF Now
  <1>6. Low(live) = {}
    BY <1>3 DEF Low
  <1>7. Parted(live) /\ Stored(used, live) /\ Known(live, at, Now)
    BY <1>3, <1>6 DEF Parted, Stored, Known
  <1>8. Usable(live, at, Now) /\ Holdfast(used, live, Now)
    BY <1>5 DEF Usable, Holdfast, Anchored
  <1> QED BY <1>1, <1>2, <1>4, <1>7, <1>8 DEF Lower

LEMMA NextLower ==
    ASSUME Types, Fixed, Lower \/ Gone, [Next]_vars
    PROVE  Fixed' /\ (Lower' \/ Gone')
  <1>1. careless \in BOOLEAN
    BY DEF Types, Underway
  <1>2. CASE Malloc
    BY <1>2, MallocLower, MallocPriv, MallocGone
  <1>3. CASE MallocAstray
    <2>1. /\ UNCHANGED <<used, at, command, pc, live, hurt>>
          /\ careless' = (careless \/ Step.n + 10 >= Word)
      BY <1>3 DEF MallocAstray
    <2> DEFINE wraps == Step.n + 10 >= Word
    <2>2. wraps \in BOOLEAN
      OBVIOUS
    <2> HIDE DEF wraps
    <2>3. careless => careless'
      BY <1>1, <2>1, <2>2 DEF wraps
    <2> QED BY <2>1, <2>3, AstrayLower
  <1>4. CASE Store
    <2>1. ~Gone
      <3> SUFFICES ASSUME Gone PROVE FALSE
        OBVIOUS
      <3>1. command # None /\ Step.op = "store"
        BY <1>4 DEF Store, Doing
      <3>2. Step.op \in {"malloc", "free"}
        BY <3>1, ConsoleStep DEF Gone
      <3> QED BY <3>1, <3>2
    <2> QED BY <1>4, <2>1, StoreLower
  <1>5. CASE Free
    BY <1>5, FreeLower, FreeGone
  <1>6. CASE FreeAgain
    BY <1>6, FreeAgainLower, FreeGone
  <1>7. CASE FreeAstray
    <2>1. /\ UNCHANGED <<used, at, command, pc, live, hurt>>
          /\ careless' = (careless \/ NotHeld)
      BY <1>7 DEF FreeAstray
    <2>2. careless => careless'
      BY <1>1, <2>1 DEF NotHeld
    <2> QED BY <2>1, <2>2, AstrayLower
  <1>8. CASE FileSystem
    <2>1. Begin({"read", "load bin", "ls", "write", "append"}) /\ PrivWhole
      BY <1>8 DEF FileSystem
    <2>2. ~Gone
      BY <2>1 DEF Gone
    <2> QED BY <2>1, <2>2, BeginLower
  <1>9. CASE FileSystemAstray
    <2>1. UNCHANGED <<used, at, command, pc, live, hurt>> /\ careless' = careless
      BY <1>9 DEF FileSystemAstray
    <2> QED BY <2>1, AstrayLower
  <1>10. CASE Console
    <2>1. Begin({"malloc", "free"})
      BY <1>10 DEF Console
    <2> QED BY <2>1, BeginLower
  <1>11. CASE Cheap
    BY <1>11, CheapGone
  <1>12. CASE Reboot
    BY <1>12, RebootLower
  <1>13. CASE UNCHANGED vars
    <2>1. UNCHANGED <<used, at, command, pc, live, hurt>> /\ careless' = careless
      BY <1>13 DEF vars
    <2> QED BY <2>1, AstrayLower
  <1> QED BY <1>2, <1>3, <1>4, <1>5, <1>6, <1>7, <1>8, <1>9, <1>10, <1>11, <1>12, <1>13 DEF Next

(* The heap under all its users, for every block size, every set of        *)
(* commands and every bound: runs and blocks lie in the heap, and as long  *)
(* as the user was careful and every store went into its own block, no     *)
(* malloc and no free has touched a block in use.                          *)
THEOREM HeapUnderUsersSound ==
    Spec => []HeapSound
<1>1. Init => KInv
  BY InitKInv
<1>2. KInv /\ [Next]_vars => KInv'
  BY NextKInv
<1>3. KInv => HeapSound
  <2> SUFFICES ASSUME KInv PROVE HeapSound
    OBVIOUS
  <2>1. Runs(used) /\ at \in [Vars -> 0..HeapSize] /\ hurt \subseteq 1..HeapSize
        /\ \A p \in DOMAIN live : Sound(live, at, p)
    BY DEF KInv, Types, Pointers
  <2>2. \A i \in used : 0 <= Lo(i) /\ Lo(i) < Hi(i) /\ Hi(i) <= HeapSize
    <3> TAKE i \in used
    <3>1. Span(i)
      BY <2>1 DEF Runs
    <3>2. Lo(i) \in 0..HeapSize /\ Hi(i) \in 0..HeapSize /\ Lo(i) < Hi(i)
      BY <3>1, Ends
    <3> QED BY <3>2
  <2>3. \A i, j \in used : i # j => Hi(i) < Lo(j) \/ Hi(j) < Lo(i)
    BY <2>1 DEF Runs
  <2>4. /\ \A p \in DOMAIN live : live[p].n \in 0..(HeapSize - p)
        /\ DOMAIN live \subseteq 1..HeapSize
    <3>1. \A p \in DOMAIN live : p \in 7..HeapSize /\ live[p].n \in 0..(HeapSize - p)
      BY <2>1 DEF Sound
    <3>2. 7..HeapSize \subseteq 1..HeapSize
      OBVIOUS
    <3> QED BY <3>1, <3>2
  <2>5. \A v \in DOMAIN at : at[v] \in 0..HeapSize
    BY <2>1
  <2>6. TypeOK
    BY <2>1, <2>2, <2>3, <2>4, <2>5 DEF TypeOK
  <2>7. ~careless /\ stray = {} => hurt = {}
    BY DEF KInv, Calm, Orderly
  <2> QED BY <2>6, <2>7 DEF HeapSound
<1> QED
  BY <1>1, <1>2, <1>3, PTL DEF Spec

(* And nothing of the heap is lost: at the prompt every block in use is    *)
(* the private data, one of the user's, what load bin read or the inode of *)
(* a failed look-up, and everything that is not free is theirs.            *)
THEOREM HeapUnderUsersKeeps ==
    Spec => []NothingLost
<1>1. Init => KInv
  BY InitKInv
<1>2. KInv /\ [Next]_vars => KInv'
  BY NextKInv
<1>3. KInv => NothingLost
  <2> DEFINE names == {"priv", "ptr", "e_inode", "data"}
  <2> SUFFICES ASSUME KInv, Prompt, ~careless, stray = {}
               PROVE  /\ DOMAIN live = UNION { Held(v) : v \in names }
                      /\ \A i \in used : \A a \in {Lo(i)} \cup { q + live[q].n : q \in DOMAIN live } :
                             Lo(i) <= a /\ a < Hi(i) =>
                                 \E q \in DOMAIN live : Meet(<<a, a + 1>>, Whole(q, live[q].n))
    BY DEF NothingLost
  <2>1. Types /\ Orderly /\ command = None
    BY DEF KInv, Calm, Prompt
  <2>2. Now = {}
    BY <2>1 DEF Now
  <2>3. \A p \in DOMAIN live : live[p].of \in names
    BY <2>1, <2>2 DEF Orderly, Stays, Left
  <2> HIDE DEF names
  <2>4. DOMAIN live = UNION { Held(v) : v \in names }
    BY <2>3 DEF Held
  <2>5. ASSUME NEW i \in used, NEW a \in {Lo(i)} \cup { q + live[q].n : q \in DOMAIN live },
               Lo(i) <= a, a < Hi(i)
        PROVE  \E q \in DOMAIN live : Meet(<<a, a + 1>>, Whole(q, live[q].n))
    <3>1. Span(i) /\ Lo(i) \in Nat /\ Hi(i) \in Nat /\ Hi(i) \in 0..HeapSize
      <4>1. Span(i)
        BY <2>1 DEF Types, Runs
      <4> QED BY <4>1, Ends
    <3>2. \A q \in DOMAIN live : /\ q + live[q].n \in Nat /\ Span(Whole(q, live[q].n))
      <4> TAKE q \in DOMAIN live
      <4>1. Sound(live, at, q)
        BY <2>1 DEF Types
      <4>2. q \in 7..HeapSize /\ live[q].n \in 0..(HeapSize - q)
        BY <4>1 DEF Sound
      <4> QED BY <4>1, <4>2, KeptSpan
    <3>3. a \in Nat
      BY <2>5, <3>1, <3>2
    <3>4. Within(a, i)
      BY <2>5 DEF Within
    <3>5. InRuns(a, used)
      BY <3>4 DEF InRuns
    <3>6. PICK q \in DOMAIN live : Within(a, Whole(q, live[q].n))
      BY <2>1, <3>3, <3>5 DEF Orderly, Owned
    <3>7. Span(<<a, a + 1>>) /\ Within(a, <<a, a + 1>>)
      <4> DEFINE b == a + 1
      <4>1. a \in 0..HeapSize /\ b \in 0..HeapSize /\ a < b
        BY <2>5, <3>1, <3>3, SizesAre
      <4>2. b = a + 1
        OBVIOUS
      <4> HIDE DEF b
      <4>3. Span(<<a, b>>) /\ Lo(<<a, b>>) = a /\ Hi(<<a, b>>) = b
        BY <4>1, Pair
      <4>4. Within(a, <<a, b>>)
        BY <4>1, <4>3 DEF Within
      <4> QED BY <4>3, <4>4 DEF b
    <3>8. Meet(<<a, a + 1>>, Whole(q, live[q].n))
      BY <3>2, <3>3, <3>6, <3>7, Meeting
    <3> QED BY <3>8
  <2> QED BY <2>4, <2>5
<1> QED
  BY <1>1, <1>2, <1>3, PTL DEF Spec

(* Whatever commands ran, whatever the user allocated and wherever stores  *)
(* have gone: as long as he has not freed what he does not hold nor        *)
(* emptied the heap, every command begins with the file system's private   *)
(* data in use and with nothing else written into it.                      *)
THEOREM PrivateDataKept ==
    Spec => []PrivKept
<1>1. Init => LInv
  BY InitKInv, InitLower DEF LInv
<1>2. LInv /\ [Next]_vars => LInv'
  BY NextKInv, NextLower DEF LInv, KInv
<1>3. LInv => PrivKept
  <2> SUFFICES ASSUME LInv, ~careless, Prompt PROVE PrivWhole
    BY DEF PrivKept
  <2>1. Fixed /\ Lower /\ command = None
    BY DEF LInv, Gone, Prompt
  <2>2. at["priv"] = PrivAt /\ PrivAt # 0 /\ PrivAt \in Nat
    <3>1. None # Plain("boot")
      BY DEF None, Plain
    <3> QED BY <2>1, <3>1, Places DEF Fixed
  <2>3. Holds("priv")
    BY <2>1, <2>2 DEF Lower
  <2>4. PrivAt \notin hurt
    BY <2>1, <2>2 DEF Lower
  <2> QED BY <2>2, <2>3, <2>4 DEF PrivWhole
<1> QED
  BY <1>1, <1>2, <1>3, PTL DEF Spec
=============================================================================
