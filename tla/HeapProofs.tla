----------------------------- MODULE HeapProofs -----------------------------
(***************************************************************************)
(* The heap of module Heap is correct for every heap size below 2^24,      *)
(* every set of sizes and every contents without four '$' in a row.        *)
(*                                                                         *)
(* Disjointness is not inductive alone.  malloc finds its run by looking   *)
(* at bytes, so the proof must know which bytes of a live block can be     *)
(* marks: the top byte of a header never is, because a size is below 2^24, *)
(* and no four bytes of data in a row are.  So a run that malloc accepts   *)
(* ends below a block's header or begins in its last three bytes, and the  *)
(* padding of three bytes at both ends keeps the new block off it.         *)
(***************************************************************************)
EXTENDS Heap, TLAPS

(* No block's data has Pad + 1 marks in a row. *)
QuietData ==
    \A p \in DOMAIN live : \A x \in p..(p + live[p] - 1) :
        x + Pad <= p + live[p] - 1 => \E k \in x..(x + Pad) : heap[k] # Mark

(* The inductive invariant. *)
IInv == TypeOK /\ HeaderIntact /\ Disjoint /\ QuietData
-----------------------------------------------------------------------------
(* The four header bytes are bytes, and the top one of a size below 2^24   *)
(* is zero: the header of a block ends in a byte that is no mark.          *)
LEMMA HeaderBytes ==
    ASSUME NEW n \in Nat, n < 16777216
    PROVE  /\ \A k \in 1..HdrLen : Header(n)[k] \in Byte
           /\ Header(n)[HdrLen] # Mark
<1>1. /\ n % 256 \in Byte
      /\ (n \div 256) % 256 \in Byte
      /\ (n \div 65536) % 256 \in Byte
      /\ (n \div 16777216) % 256 = 0
  BY DEF Byte
<1>2. \A k \in 1..4 : k = 1 \/ k = 2 \/ k = 3 \/ k = 4
  OBVIOUS
<1> QED
  BY <1>1, <1>2 DEF Header, HdrLen, Byte, Mark

(* What free reads back from a header is the size malloc wrote into it.    *)
LEMMA HeaderDecodes ==
    ASSUME NEW n \in Nat, n < 16777216
    PROVE  Header(n)[1] + 256 * Header(n)[2] + 65536 * Header(n)[3]
             + 16777216 * Header(n)[4] = n
<1>1. (n % 256) + 256 * ((n \div 256) % 256) + 65536 * ((n \div 65536) % 256)
        + 16777216 * ((n \div 16777216) % 256) = n
  OBVIOUS
<1> QED
  BY <1>1 DEF Header

(* The sizes clients ask for do not wrap around in malloc.                 *)
LEMMA NeedIs ==
    ASSUME NEW s \in Sizes
    PROVE  s \in Nat /\ Need(s) = s + 10
  BY HeapAssumption DEF Need, HdrLen

(* The block malloc carves out of a run of marks lies in the heap and has  *)
(* no byte in common with a live block.                                    *)
LEMMA RunMissesBlocks ==
    ASSUME IInv, NEW a \in Addr, NEW s \in Nat, Run(a, s + 10)
    PROVE  /\ DataOf(a) + s <= HeapSize
           /\ \A p \in DOMAIN live :
                Footprint(DataOf(a), s) \cap Footprint(p, live[p]) = {}
<1>1. /\ a \in Nat /\ a + s + 10 <= HeapSize /\ HeapSize \in Nat
      /\ HeapSize < 16777216
      /\ \A i \in a..(a + s + 9) : heap[i] = Mark
  BY HeapAssumption DEF Run, Addr
<1>2. SUFFICES ASSUME NEW p \in DOMAIN live, NEW x \in Int,
                      x \in (a + 3)..(a + s + 6), x \in (p - 4)..(p + live[p] - 1)
               PROVE  FALSE
  BY <1>1 DEF DataOf, Footprint, Pad, HdrLen, IInv, TypeOK
<1>3. /\ p \in Nat /\ live[p] \in Nat /\ live[p] < 16777216 /\ p + live[p] <= HeapSize
      /\ p >= 4
  BY <1>1 DEF IInv, TypeOK, HdrLen
<1>4. heap[p - 1] # Mark
  <2>1. heap[p - HdrLen + HdrLen - 1] = Header(live[p])[HdrLen]
    BY DEF IInv, HeaderIntact, HdrLen
  <2> QED
    BY <2>1, <1>3, HeaderBytes DEF HdrLen
<1>5. p <= a
  <2>1. p - 1 \notin a..(a + s + 9)
    BY <1>1, <1>4
  <2> QED
    BY <2>1, <1>1, <1>2, <1>3
<1>6. PICK k \in (x - 3)..x : heap[k] # Mark
  BY <1>1, <1>2, <1>3, <1>5 DEF IInv, QuietData, Pad
<1> QED
  BY <1>1, <1>2, <1>6

(* So its pointer is the pointer of no live block.                         *)
LEMMA PointerIsNew ==
    ASSUME IInv, NEW a \in Addr, NEW s \in Nat, Run(a, s + 10)
    PROVE  DataOf(a) \notin DOMAIN live
<1>1. DataOf(a) \in Nat
  BY HeapAssumption DEF DataOf, Pad, HdrLen, Addr
<1>2. ASSUME DataOf(a) \in DOMAIN live PROVE FALSE
  <2>1. /\ live[DataOf(a)] \in Nat
        /\ Footprint(DataOf(a), s) \cap Footprint(DataOf(a), live[DataOf(a)]) = {}
    BY <1>2, RunMissesBlocks DEF IInv, TypeOK
  <2>2. /\ DataOf(a) - 4 \in Footprint(DataOf(a), s)
        /\ DataOf(a) - 4 \in Footprint(DataOf(a), live[DataOf(a)])
    BY <1>1, <2>1 DEF Footprint, HdrLen
  <2> QED
    BY <2>1, <2>2
<1> QED
  BY <1>2
-----------------------------------------------------------------------------
(* mm_init leaves no block.                                                *)
LEMMA InitIInv == Init => IInv /\ NoResidue
<1> SUFFICES ASSUME Init PROVE IInv /\ NoResidue
  OBVIOUS
<1>1. DOMAIN live = {}
  BY DEF Init
<1>2. /\ heap \in [Addr -> Byte] /\ scanning \in BOOLEAN
      /\ \A i \in Addr : heap[i] = Mark
  <2>1. Mark \in Byte
    BY DEF Mark, Byte
  <2>2. heap = [i \in Addr |-> Mark] /\ scanning = FALSE
    BY DEF Init
  <2> QED
    BY <2>1, <2>2
<1> QED
  BY <1>1, <1>2 DEF IInv, TypeOK, HeaderIntact, Disjoint, QuietData, NoResidue

(* malloc changes no byte of a live block and adds one that is well formed.*)
LEMMA MallocIInv ==
    ASSUME IInv, NEW s \in Sizes, Malloc(s)
    PROVE  IInv'
<1>1. PICK a \in Addr : /\ FirstFit(a, Need(s))
                        /\ heap' = Carved(DataOf(a), s)
                        /\ live' = [p \in DOMAIN live \cup {DataOf(a)} |->
                                       IF p = DataOf(a) THEN s ELSE live[p]]
  BY DEF Malloc
<1> DEFINE new == DataOf(a)
<1>2. /\ s \in Nat /\ Run(a, s + 10) /\ new = a + 7 /\ a \in Nat
      /\ HeapSize \in Nat /\ HeapSize < 16777216
  BY <1>1, NeedIs, HeapAssumption DEF FirstFit, DataOf, Pad, HdrLen, Addr
<1>3. /\ new + s <= HeapSize
      /\ \A p \in DOMAIN live : Footprint(new, s) \cap Footprint(p, live[p]) = {}
  BY <1>2, RunMissesBlocks
<1>4. ASSUME NEW p \in DOMAIN live
      PROVE  /\ p \in Nat /\ live[p] \in Nat /\ HdrLen <= p /\ p + live[p] <= HeapSize
             /\ p # new
             /\ p \in DOMAIN live' /\ live'[p] = live[p]
             /\ \A i \in Footprint(p, live[p]) : heap'[i] = heap[i]
  <2>1. p \in Nat /\ live[p] \in Nat /\ HdrLen <= p /\ p + live[p] <= HeapSize
    BY DEF IInv, TypeOK
  <2>2. p # new
    BY <1>2, PointerIsNew
  <2>3. ASSUME NEW i \in Footprint(p, live[p])
        PROVE  heap'[i] = heap[i]
    <3>1. i \in Addr /\ i \notin Footprint(new, s)
      BY <1>3, <2>1, <1>2 DEF Footprint, Addr, HdrLen
    <3> QED
      BY <3>1, <1>1, <1>2 DEF Carved, Footprint, HdrLen
  <2> QED
    BY <1>1, <2>1, <2>2, <2>3
<1>5. /\ new \in DOMAIN live' /\ live'[new] = s
      /\ DOMAIN live' = DOMAIN live \cup {new}
  BY <1>1
<1>6. TypeOK'
  <2>1. ASSUME NEW i \in Addr PROVE heap'[i] \in Byte
    <3>1. heap[i] \in Byte
      BY DEF IInv, TypeOK
    <3>2. CASE i \in (new - 4)..(new - 1)
      <4>1. i - (new - 4) + 1 \in 1..4 /\ i \notin new..(new + s - 1)
        BY <1>2, <3>2
      <4>2. heap'[i] = Header(s)[i - (new - 4) + 1]
        BY <1>1, <3>2, <4>1 DEF Carved, HdrLen
      <4>3. s < 16777216
        BY <1>2, <1>3
      <4> QED
        BY <4>1, <4>2, <4>3, <1>2, HeaderBytes DEF HdrLen
    <3>3. CASE i \notin (new - 4)..(new - 1)
      <4>1. heap'[i] = 0 \/ heap'[i] = heap[i]
        BY <1>1, <3>3 DEF Carved, HdrLen
      <4> QED
        BY <4>1, <3>1 DEF Byte
    <3> QED
      BY <3>2, <3>3
  <2>2. heap' \in [Addr -> Byte]
    BY <2>1, <1>1 DEF Carved
  <2>3. \A p \in DOMAIN live' : /\ p \in Nat /\ live'[p] \in Nat
                                /\ HdrLen <= p /\ p + live'[p] <= HeapSize
    BY <1>2, <1>3, <1>4, <1>5 DEF HdrLen
  <2> QED
    BY <2>2, <2>3 DEF TypeOK, Malloc, IInv
<1>7. HeaderIntact'
  <2>1. ASSUME NEW p \in DOMAIN live, NEW k \in 1..HdrLen
        PROVE  heap'[p - HdrLen + k - 1] = Header(live'[p])[k]
    <3>1. p - HdrLen + k - 1 \in Footprint(p, live[p])
      BY <1>4 DEF Footprint, HdrLen
    <3> QED
      BY <3>1, <1>4 DEF IInv, HeaderIntact
  <2>2. ASSUME NEW k \in 1..HdrLen
        PROVE  heap'[new - HdrLen + k - 1] = Header(s)[k]
    <3> DEFINE i == new - HdrLen + k - 1
    <3>1. /\ i \in Addr /\ i \in (new - HdrLen)..(new - 1) /\ i \notin new..(new + s - 1)
          /\ i - (new - HdrLen) + 1 = k
      BY <1>2, <1>3 DEF Addr, HdrLen
    <3> HIDE DEF i
    <3> QED
      BY <3>1, <1>1 DEF Carved, i
  <2> QED
    BY <2>1, <2>2, <1>5 DEF HeaderIntact
<1>8. Disjoint'
  <2>1. ASSUME NEW p \in DOMAIN live', NEW q \in DOMAIN live', p # q
        PROVE  Footprint(p, live'[p]) \cap Footprint(q, live'[q]) = {}
    <3>1. CASE p \in DOMAIN live /\ q \in DOMAIN live
      BY <2>1, <3>1, <1>4 DEF IInv, Disjoint
    <3>2. CASE p = new /\ q \in DOMAIN live
      BY <3>2, <1>3, <1>4, <1>5
    <3>3. CASE q = new /\ p \in DOMAIN live
      BY <3>3, <1>3, <1>4, <1>5
    <3> QED
      BY <2>1, <3>1, <3>2, <3>3, <1>5
  <2>2. \A p, n : Footprint(p, n)' = Footprint(p, n)
    BY DEF Footprint
  <2> QED
    BY <2>1 DEF Disjoint, Footprint
<1>9. QuietData'
  <2>1. ASSUME NEW p \in DOMAIN live', NEW x \in p..(p + live'[p] - 1),
               x + Pad <= p + live'[p] - 1
        PROVE  \E k \in x..(x + Pad) : heap'[k] # Mark
    <3>1. CASE p \in DOMAIN live
      <4>1. PICK k \in x..(x + Pad) : heap[k] # Mark
        BY <2>1, <3>1, <1>4 DEF IInv, QuietData
      <4>2. k \in Footprint(p, live[p])
        BY <2>1, <3>1, <4>1, <1>4 DEF Footprint, Pad, HdrLen
      <4> QED
        BY <4>1, <4>2, <3>1, <1>4
    <3>2. CASE p = new
      <4>1. x \in Addr /\ x \in new..(new + s - 1)
        BY <3>2, <2>1, <1>2, <1>3, <1>5 DEF Addr
      <4>2. heap'[x] = 0
        BY <4>1, <1>1 DEF Carved
      <4>3. x \in x..(x + Pad)
        BY <4>1, <1>2 DEF Pad, Addr
      <4> QED
        BY <4>2, <4>3 DEF Mark
    <3> QED
      BY <3>1, <3>2, <1>5
  <2> QED
    BY <2>1 DEF QuietData
<1> QED
  BY <1>6, <1>7, <1>8, <1>9 DEF IInv

(* free finds the size that was asked for, so it changes no byte of        *)
(* another block.                                                          *)
LEMMA FreeIs ==
    ASSUME IInv, NEW p \in DOMAIN live, Free(p)
    PROVE  /\ heap' = [i \in Addr |-> IF i \in Footprint(p, live[p])
                                      THEN Mark ELSE heap[i]]
           /\ DOMAIN live' = DOMAIN live \ {p}
           /\ \A q \in DOMAIN live \ {p} :
                /\ live'[q] = live[q]
                /\ \A i \in Footprint(q, live[q]) : heap'[i] = heap[i]
<1>1. /\ p \in Nat /\ live[p] \in Nat /\ live[p] < 16777216
      /\ HdrLen <= p /\ p + live[p] <= HeapSize
  BY HeapAssumption DEF IInv, TypeOK, HdrLen
<1>2. SizeAt(p - HdrLen) = live[p]
  <2>1. \A k \in 1..HdrLen : heap[p - HdrLen + k - 1] = Header(live[p])[k]
    BY DEF IInv, HeaderIntact
  <2>2. /\ heap[p - HdrLen] = Header(live[p])[1]
        /\ heap[p - HdrLen + 1] = Header(live[p])[2]
        /\ heap[p - HdrLen + 2] = Header(live[p])[3]
        /\ heap[p - HdrLen + 3] = Header(live[p])[4]
    BY <2>1, <1>1 DEF HdrLen
  <2> QED
    BY <2>2, <1>1, HeaderDecodes DEF SizeAt
<1>3. heap' = [i \in Addr |-> IF i \in Footprint(p, live[p]) THEN Mark ELSE heap[i]]
  BY <1>2 DEF Free, Freed
<1>4. live' = [q \in DOMAIN live \ {p} |-> live[q]]
  BY DEF Free
<1>5. ASSUME NEW q \in DOMAIN live \ {p}, NEW i \in Footprint(q, live[q])
      PROVE  heap'[i] = heap[i]
  <2>1. i \notin Footprint(p, live[p])
    BY <1>5 DEF IInv, Disjoint
  <2>2. i \in Addr
    BY <1>5, HeapAssumption DEF IInv, TypeOK, Footprint, Addr, HdrLen
  <2> QED
    BY <1>3, <2>1, <2>2
<1> QED
  BY <1>3, <1>4, <1>5

LEMMA FreeIInv ==
    ASSUME IInv, NEW p \in DOMAIN live, Free(p)
    PROVE  IInv'
<1>1. DOMAIN live' = DOMAIN live \ {p}
  BY FreeIs
<1>2. ASSUME NEW q \in DOMAIN live'
      PROVE  /\ q \in DOMAIN live /\ live'[q] = live[q]
             /\ q \in Nat /\ live[q] \in Nat /\ HdrLen <= q /\ q + live[q] <= HeapSize
             /\ \A i \in Footprint(q, live[q]) : heap'[i] = heap[i]
  BY <1>1, <1>2, FreeIs DEF IInv, TypeOK
<1>3. TypeOK'
  <2>1. heap' \in [Addr -> Byte]
    <3>1. heap \in [Addr -> Byte] /\ Mark \in Byte
      BY DEF IInv, TypeOK, Mark, Byte
    <3> QED
      BY <3>1, FreeIs
  <2> QED
    BY <2>1, <1>2 DEF TypeOK, IInv, Free
<1>4. HeaderIntact'
  <2>1. ASSUME NEW q \in DOMAIN live', NEW k \in 1..HdrLen
        PROVE  heap'[q - HdrLen + k - 1] = Header(live'[q])[k]
    <3>1. q - HdrLen + k - 1 \in Footprint(q, live[q])
      BY <1>2 DEF Footprint, HdrLen
    <3> QED
      BY <3>1, <1>2 DEF IInv, HeaderIntact
  <2> QED
    BY <2>1 DEF HeaderIntact
<1>5. Disjoint'
  BY <1>2 DEF IInv, Disjoint, Footprint
<1>6. QuietData'
  <2>1. ASSUME NEW q \in DOMAIN live', NEW x \in q..(q + live'[q] - 1),
               x + Pad <= q + live'[q] - 1
        PROVE  \E k \in x..(x + Pad) : heap'[k] # Mark
    <3>1. PICK k \in x..(x + Pad) : heap[k] # Mark
      BY <2>1, <1>2 DEF IInv, QuietData
    <3>2. k \in Footprint(q, live[q])
      BY <2>1, <3>1, <1>2 DEF Footprint, Pad, HdrLen
    <3> QED
      BY <3>1, <3>2, <1>2
  <2> QED
    BY <2>1 DEF QuietData
<1> QED
  BY <1>3, <1>4, <1>5, <1>6 DEF IInv

(* A client's write stays inside the data of its own block.                *)
LEMMA WriteIs ==
    ASSUME IInv, NEW p \in DOMAIN live, NEW d \in QuietImages, Write(p, d)
    PROVE  /\ live' = live
           /\ DOMAIN d = 0..(live[p] - 1)
           /\ \A i \in Addr : i \notin p..(p + live[p] - 1) => heap'[i] = heap[i]
           /\ \A i \in p..(p + live[p] - 1) : heap'[i] = d[i - p]
           /\ \A q \in DOMAIN live \ {p} : \A i \in Footprint(q, live[q]) :
                heap'[i] = heap[i]
<1>1. /\ live' = live /\ DOMAIN d = 0..(live[p] - 1)
      /\ heap' = [i \in Addr |-> IF i \in p..(p + live[p] - 1) THEN d[i - p] ELSE heap[i]]
  BY DEF Write
<1>2. \A i \in p..(p + live[p] - 1) : i \in Addr /\ i \in Footprint(p, live[p])
  BY HeapAssumption DEF IInv, TypeOK, Addr, Footprint, HdrLen
<1>3. ASSUME NEW q \in DOMAIN live \ {p}, NEW i \in Footprint(q, live[q])
      PROVE  heap'[i] = heap[i]
  <2>1. i \notin Footprint(p, live[p])
    BY <1>3 DEF IInv, Disjoint
  <2>2. i \in Addr
    BY <1>3, HeapAssumption DEF IInv, TypeOK, Footprint, Addr, HdrLen
  <2> QED
    BY <1>1, <1>2, <2>1, <2>2
<1> QED
  BY <1>1, <1>2, <1>3

LEMMA WriteIInv ==
    ASSUME IInv, NEW p \in DOMAIN live, NEW d \in QuietImages, Write(p, d)
    PROVE  IInv'
<1>1. /\ p \in Nat /\ live[p] \in Nat /\ live' = live
      /\ HdrLen <= p /\ p + live[p] <= HeapSize /\ DOMAIN d = 0..(live[p] - 1)
  BY WriteIs DEF IInv, TypeOK
<1>2. TypeOK'
  <2>1. ASSUME NEW i \in Addr PROVE heap'[i] \in Byte
    <3>1. CASE i \in p..(p + live[p] - 1)
      <4>1. heap'[i] = d[i - p] /\ i - p \in DOMAIN d
        BY <3>1, <1>1, WriteIs
      <4> QED
        BY <4>1, HeapAssumption DEF QuietImages
    <3>2. CASE i \notin p..(p + live[p] - 1)
      BY <3>2, WriteIs DEF IInv, TypeOK
    <3> QED
      BY <3>1, <3>2
  <2>2. heap' \in [Addr -> Byte]
    BY <2>1 DEF Write
  <2> QED
    BY <2>2, <1>1 DEF TypeOK, IInv, Write
<1>3. HeaderIntact'
  <2>1. ASSUME NEW q \in DOMAIN live, NEW k \in 1..HdrLen
        PROVE  heap'[q - HdrLen + k - 1] = Header(live[q])[k]
    <3> DEFINE i == q - HdrLen + k - 1
    <3>1. heap[i] = Header(live[q])[k]
      BY DEF IInv, HeaderIntact
    <3>2. i \in Footprint(q, live[q]) /\ i \in Addr /\ i < q
      BY HeapAssumption DEF IInv, TypeOK, Footprint, Addr, HdrLen
    <3>3. q = p => i \notin p..(p + live[p] - 1)
      BY <3>2, <1>1
    <3> HIDE DEF i
    <3>4. heap'[i] = heap[i]
      BY <3>2, <3>3, WriteIs
    <3> QED
      BY <3>1, <3>4 DEF i
  <2> QED
    BY <2>1, <1>1 DEF HeaderIntact
<1>4. Disjoint'
  BY <1>1 DEF IInv, Disjoint, Footprint
<1>5. QuietData'
  <2>1. ASSUME NEW q \in DOMAIN live, NEW x \in q..(q + live[q] - 1),
               x + Pad <= q + live[q] - 1
        PROVE  \E k \in x..(x + Pad) : heap'[k] # Mark
    <3>1. CASE q = p
      <4>1. x - p \in DOMAIN d /\ (x - p) + Pad \in DOMAIN d
        BY <2>1, <3>1, <1>1 DEF Pad
      <4>2. PICK j \in (x - p)..((x - p) + Pad) : d[j] # Mark
        BY <4>1 DEF QuietImages, Quiet
      <4>3. /\ p + j \in x..(x + Pad) /\ p + j \in p..(p + live[p] - 1)
            /\ (p + j) - p = j
        BY <4>2, <2>1, <3>1, <1>1 DEF Pad
      <4>4. heap'[p + j] = d[j]
        BY <4>3, WriteIs
      <4> QED
        BY <4>2, <4>3, <4>4
    <3>2. CASE q # p
      <4>1. PICK k \in x..(x + Pad) : heap[k] # Mark
        BY <2>1 DEF IInv, QuietData
      <4>2. k \in Footprint(q, live[q])
        BY <2>1, <4>1 DEF IInv, TypeOK, Footprint, Pad, HdrLen
      <4> QED
        BY <4>1, <4>2, <3>2, WriteIs
    <3> QED
      BY <3>1, <3>2
  <2> QED
    BY <2>1, <1>1 DEF QuietData
<1> QED
  BY <1>2, <1>3, <1>4, <1>5 DEF IInv

LEMMA NextIInv == IInv /\ [Next]_vars => IInv'
<1> SUFFICES ASSUME IInv, [Next]_vars PROVE IInv'
  OBVIOUS
<1>1. ASSUME NEW s \in Sizes, Malloc(s) PROVE IInv'
  BY <1>1, MallocIInv
<1>2. ASSUME NEW s \in Sizes, MallocRunsOff(s) PROVE IInv'
  BY <1>2 DEF MallocRunsOff, IInv, TypeOK, HeaderIntact, Disjoint, QuietData, Footprint
<1>3. ASSUME NEW p \in DOMAIN live, Free(p) PROVE IInv'
  BY <1>3, FreeIInv
<1>4. ASSUME NEW p \in DOMAIN live, NEW d \in QuietImages, Write(p, d) PROVE IInv'
  BY <1>4, WriteIInv
<1>5. CASE UNCHANGED vars
  BY <1>5 DEF vars, IInv, TypeOK, HeaderIntact, Disjoint, QuietData, Footprint
<1> QED
  BY <1>1, <1>2, <1>3, <1>4, <1>5 DEF Next

(* The bytes of the heap stay bytes and every block, with its header, lies *)
(* between heap_begin and heap_end.                                        *)
THEOREM TypeCorrect == Spec => []TypeOK
<1>1. Init => IInv
  BY InitIInv
<1>2. IInv => TypeOK
  BY DEF IInv
<1> QED
  BY <1>1, <1>2, NextIInv, PTL DEF Spec

(* malloc never hands out a byte, of header or data, of a block that is    *)
(* still held.                                                             *)
THEOREM BlocksDisjoint == Spec => []Disjoint
<1>1. Init => IInv
  BY InitIInv
<1>2. IInv => Disjoint
  BY DEF IInv
<1> QED
  BY <1>1, <1>2, NextIInv, PTL DEF Spec

(* Below every pointer a client holds stands the size it asked for.        *)
THEOREM HeadersIntact == Spec => []HeaderIntact
<1>1. Init => IInv
  BY InitIInv
<1>2. IInv => HeaderIntact
  BY DEF IInv
<1> QED
  BY <1>1, <1>2, NextIInv, PTL DEF Spec

-----------------------------------------------------------------------------
(* malloc takes marks only inside its own block, free puts marks over the  *)
(* whole of one and writes stay inside one.                                *)
LEMMA NextNoResidue == IInv /\ NoResidue /\ [Next]_vars => NoResidue'
<1> SUFFICES ASSUME IInv, NoResidue, [Next]_vars,
                    NEW i \in Addr,
                    \A p \in DOMAIN live' : i \notin Footprint(p, live'[p])
             PROVE  heap'[i] = Mark
  BY DEF NoResidue, Footprint
<1>1. ASSUME NEW s \in Sizes, Malloc(s) PROVE heap'[i] = Mark
  <2>1. PICK a \in Addr : /\ heap' = Carved(DataOf(a), s)
                          /\ live' = [p \in DOMAIN live \cup {DataOf(a)} |->
                                       IF p = DataOf(a) THEN s ELSE live[p]]
                          /\ Run(a, s + 10)
    BY <1>1, NeedIs DEF Malloc, FirstFit
  <2>2. i \notin Footprint(DataOf(a), s)
    BY <2>1
  <2>3. heap'[i] = heap[i]
    <3>1. s \in Nat /\ DataOf(a) \in Nat
      BY NeedIs DEF DataOf, Pad, HdrLen, Addr
    <3> QED
      BY <2>1, <2>2, <3>1 DEF Carved, Footprint, HdrLen, Addr
  <2>4. DataOf(a) \notin DOMAIN live
    BY <2>1, NeedIs, PointerIsNew
  <2>5. \A p \in DOMAIN live : i \notin Footprint(p, live[p])
    BY <2>1, <2>4
  <2> QED
    BY <2>3, <2>5 DEF NoResidue
<1>2. ASSUME NEW s \in Sizes, MallocRunsOff(s) PROVE heap'[i] = Mark
  BY <1>2 DEF MallocRunsOff, NoResidue
<1>3. ASSUME NEW p \in DOMAIN live, Free(p) PROVE heap'[i] = Mark
  BY <1>3, FreeIs DEF NoResidue
<1>4. ASSUME NEW p \in DOMAIN live, NEW d \in QuietImages, Write(p, d)
      PROVE  heap'[i] = Mark
  <2>1. \A q \in DOMAIN live : i \notin Footprint(q, live[q])
    BY <1>4, WriteIs
  <2>2. i \notin p..(p + live[p] - 1)
    BY <2>1 DEF Footprint, HdrLen, IInv, TypeOK
  <2> QED
    BY <1>4, <2>1, <2>2, WriteIs DEF NoResidue
<1>5. CASE UNCHANGED vars
  BY <1>5 DEF vars, NoResidue
<1> QED
  BY <1>1, <1>2, <1>3, <1>4, <1>5 DEF Next

(* Every byte that is in no block is a mark: nothing that was freed stays  *)
(* lost to later calls.                                                    *)
THEOREM ResidueFree == Spec => []NoResidue
<1>1. Init => IInv /\ NoResidue
  BY InitIInv
<1>2. IInv /\ NoResidue /\ [Next]_vars => (IInv /\ NoResidue)'
  BY NextIInv, NextNoResidue
<1> QED
  BY <1>1, <1>2, PTL DEF Spec
-----------------------------------------------------------------------------
(* The refinement: the bytes of each live block, read off the heap.        *)
Image == [p \in DOMAIN live |-> [i \in 0..(live[p] - 1) |-> heap[p + i]]]

LEMMA InitAbstract == Init => Abstract!Init
<1> SUFFICES ASSUME Init PROVE Abstract!Init
  OBVIOUS
<1>1. DOMAIN live = {}
  BY DEF Init
<1> QED
  BY <1>1 DEF Abstract!Init

(* A malloc that returns is an allocation of zeros beside all the others.  *)
LEMMA MallocAbstract ==
    ASSUME IInv, NEW s \in Sizes, Malloc(s)
    PROVE  Abstract!Alloc
<1>1. PICK a \in Addr : /\ heap' = Carved(DataOf(a), s)
                        /\ live' = [p \in DOMAIN live \cup {DataOf(a)} |->
                                       IF p = DataOf(a) THEN s ELSE live[p]]
                        /\ Run(a, s + 10)
  BY NeedIs DEF Malloc, FirstFit
<1> DEFINE new == DataOf(a)
<1>2. /\ s \in Nat /\ new \in Nat /\ new >= 4 /\ HeapSize \in Nat /\ new + s <= HeapSize
      /\ \A p \in DOMAIN live :
            /\ p \in Nat /\ live[p] \in Nat /\ 4 <= p /\ p + live[p] <= HeapSize
            /\ Footprint(new, s) \cap Footprint(p, live[p]) = {}
  BY <1>1, NeedIs, RunMissesBlocks, HeapAssumption
  DEF IInv, TypeOK, DataOf, Pad, HdrLen, Addr
<1>3. new \notin DOMAIN live
  BY <1>1, <1>2, PointerIsNew
<1>4. \A q \in DOMAIN live : \A i \in 0..(live[q] - 1) : heap'[q + i] = heap[q + i]
  <2>0. ASSUME NEW j \in Addr, j \notin Footprint(new, s) PROVE heap'[j] = heap[j]
    BY <2>0, <1>1, <1>2 DEF Carved, Footprint, HdrLen, Addr
  <2>1. ASSUME NEW q \in DOMAIN live, NEW i \in 0..(live[q] - 1)
        PROVE  heap'[q + i] = heap[q + i]
    <3>1. q + i \in Addr /\ q + i \in Footprint(q, live[q])
      BY <1>2 DEF Addr, Footprint, HdrLen
    <3>2. q + i \notin Footprint(new, s)
      BY <3>1, <1>2
    <3> QED
      BY <2>0, <3>1, <3>2
  <2> QED
    BY <2>1
<1>5. \A i \in 0..(s - 1) : heap'[new + i] = 0
  <2>1. ASSUME NEW i \in 0..(s - 1) PROVE heap'[new + i] = 0
    <3>1. new + i \in Addr /\ new + i \in new..(new + s - 1)
      BY <1>2 DEF Addr
    <3> QED
      BY <3>1, <1>1 DEF Carved
  <2> QED
    BY <2>1
<1>6. Image' = [q \in DOMAIN Image \cup {new} |->
                   IF q = new THEN [i \in 0..(s - 1) |-> 0] ELSE Image[q]]
  BY <1>1, <1>3, <1>4, <1>5 DEF Image
<1>7. \A q \in DOMAIN Image : { q + i : i \in DOMAIN Image[q] } \cap (new..(new + s - 1)) = {}
  <2>1. ASSUME NEW q \in DOMAIN live, NEW i \in 0..(live[q] - 1),
               q + i \in new..(new + s - 1)
        PROVE  FALSE
    <3>1. q + i \in Footprint(q, live[q]) /\ q + i \in Footprint(new, s)
      BY <2>1, <1>2 DEF Footprint, HdrLen
    <3> QED
      BY <3>1, <1>2
  <2> QED
    BY <2>1 DEF Image
<1>8. /\ new \in 0..HeapSize /\ s \in 0..(HeapSize - new) /\ new \notin DOMAIN Image
      /\ DOMAIN Image' = DOMAIN Image \cup {new}
  BY <1>2, <1>3, <1>6 DEF Image
<1> QED
  BY <1>6, <1>7, <1>8 DEF Image, Abstract!Alloc, Abstract!Extent

(* A free releases its block and leaves the data of the others.            *)
LEMMA FreeAbstract ==
    ASSUME IInv, NEW p \in DOMAIN live, Free(p)
    PROVE  Abstract!Release
<1>1. ASSUME NEW q \in DOMAIN live \ {p}, NEW i \in 0..(live[q] - 1)
      PROVE  heap'[q + i] = heap[q + i]
  <2>1. q + i \in Footprint(q, live[q])
    BY DEF IInv, TypeOK, Footprint, HdrLen
  <2> QED
    BY <2>1, FreeIs
<1>2. live' = [q \in DOMAIN live \ {p} |-> live[q]]
  BY DEF Free
<1>3. Image' = [q \in DOMAIN Image \ {p} |-> Image[q]]
  BY <1>1, <1>2 DEF Image
<1>4. p \in DOMAIN Image
  BY DEF Image
<1> QED
  BY <1>3, <1>4 DEF Image, Abstract!Release

(* A client's write changes the bytes of its own block.                    *)
LEMMA WriteAbstract ==
    ASSUME IInv, NEW p \in DOMAIN live, NEW d \in QuietImages, Write(p, d)
    PROVE  Abstract!Store
<1>1. /\ live' = live /\ p \in Nat /\ live[p] \in Nat
      /\ DOMAIN d = 0..(live[p] - 1)
  BY WriteIs DEF IInv, TypeOK
<1>2. ASSUME NEW q \in DOMAIN live \ {p}, NEW i \in 0..(live[q] - 1)
      PROVE  heap'[q + i] = heap[q + i]
  <2>1. q + i \in Footprint(q, live[q])
    BY DEF IInv, TypeOK, Footprint, HdrLen
  <2> QED
    BY <2>1, WriteIs
<1>3. ASSUME NEW i \in 0..(live[p] - 1)
      PROVE  heap'[p + i] \in Byte
  <2>1. p + i \in p..(p + live[p] - 1) /\ (p + i) - p = i
    BY <1>1
  <2>2. heap'[p + i] = d[i]
    BY <2>1, WriteIs
  <2> QED
    BY <2>2, <1>1, HeapAssumption DEF QuietImages
<1>4. p \in DOMAIN Image /\ DOMAIN Image' = DOMAIN Image
  BY <1>1 DEF Image
<1>5. Image'[p] \in [DOMAIN Image[p] -> Byte]
  BY <1>1, <1>3 DEF Image
<1>6. Image' = [Image EXCEPT ![p] = Image'[p]]
  BY <1>1, <1>2 DEF Image
<1> QED
  BY <1>4, <1>5, <1>6 DEF Image, Abstract!Store

LEMMA NextAbstract == IInv /\ [Next]_vars => [Abstract!Next]_Image
<1> SUFFICES ASSUME IInv, [Next]_vars PROVE Abstract!Next \/ UNCHANGED Image
  OBVIOUS
<1>1. ASSUME NEW s \in Sizes, Malloc(s) PROVE Abstract!Next
  BY <1>1, MallocAbstract DEF Abstract!Next
<1>2. ASSUME NEW s \in Sizes, MallocRunsOff(s) PROVE UNCHANGED Image
  BY <1>2 DEF MallocRunsOff, Image
<1>3. ASSUME NEW p \in DOMAIN live, Free(p) PROVE Abstract!Next
  BY <1>3, FreeAbstract DEF Abstract!Next
<1>4. ASSUME NEW p \in DOMAIN live, NEW d \in QuietImages, Write(p, d)
      PROVE  Abstract!Next
  BY <1>4, WriteAbstract DEF Abstract!Next
<1>5. CASE UNCHANGED vars
  BY <1>5 DEF vars, Image
<1> QED
  BY <1>1, <1>2, <1>3, <1>4, <1>5 DEF Next

(* The heap implements the abstract block store: whatever its clients      *)
(* allocate, fill and free, each block reads as zeros when it is new and   *)
(* afterwards as its own holder last wrote it.                             *)
THEOREM HeapImplementsStore == Spec => ImplementsStore
<1>1. Init => IInv /\ Abstract!Init
  BY InitIInv, InitAbstract
<1> QED
  BY <1>1, NextIInv, NextAbstract, PTL DEF Spec, ImplementsStore, Abstract!Spec, Image
=============================================================================
