-------------------------------- MODULE Heap --------------------------------
(***************************************************************************)
(* The kernel heap of kernel/arch/i386/malloc.c.                           *)
(*                                                                         *)
(* The heap keeps no list of its blocks.  Memory is free where it holds    *)
(* the byte '$': malloc looks for the first run of marks that is long      *)
(* enough, steps three bytes into it, writes the size as a 4-byte          *)
(* little-endian header and zeroes the data; free reads the size back from *)
(* the four bytes below the pointer and writes marks over header and data. *)
(* Everything the heap knows is therefore in bytes its clients can write.  *)
(*                                                                         *)
(* Addresses are offsets from heap_begin.                                  *)
(***************************************************************************)
EXTENDS Integers

CONSTANTS
    HeapSize,   \* HEAP_SIZE
    Word,       \* size_t arithmetic is modulo Word (2^32 in the build)
    Sizes,      \* the sizes clients ask for
    Images      \* the contents clients copy into their blocks

Pad    == 3         \* ptr += 3
HdrLen == 4         \* sizeof(size_t)
Mark   == 36        \* '$'
Byte   == 0..255
Addr   == 0..(HeapSize - 1)

ASSUME HeapAssumption ==
    /\ HeapSize \in Nat /\ HeapSize < 16777216
    /\ Word \in Nat /\ Sizes \subseteq Nat
    /\ \A s \in Sizes : s + 10 < Word
    /\ \A d \in Images : \A i \in DOMAIN d : d[i] \in Byte

VARIABLES
    heap,       \* the bytes of the heap
    live,       \* history: pointer -> size, of the blocks clients hold
    scanning    \* a malloc has run off the end of the heap and never returned

vars == <<heap, live, scanning>>
-----------------------------------------------------------------------------
(* The bytes of a size_t, lowest first, and the size_t read at address a.  *)
Header(s) == << s % 256, (s \div 256) % 256,
                (s \div 65536) % 256, (s \div 16777216) % 256 >>

SizeAt(a) == heap[a] + 256 * heap[a + 1] + 65536 * heap[a + 2]
                + 16777216 * heap[a + 3]

(* Variant: room for the header, none for the padding. *)
NeedUnpadded(s) == (s + HdrLen) % Word

(* The length of the run of marks malloc looks for. *)
Need(s) == (s + 6 + HdrLen) % Word

Run(a, n) == /\ a + n <= HeapSize
             /\ \A i \in a..(a + n - 1) : heap[i] = Mark

FirstFit(a, n) == Run(a, n) /\ \A c \in 0..(a - 1) : ~Run(c, n)

(* Variant: the header right at the start of the run. *)
DataOfUnpadded(a) == a + HdrLen

(* The pointer malloc returns for a run that begins at a. *)
DataOf(a) == a + Pad + HdrLen

(* Header and data of the block at p. *)
Footprint(p, n) == (p - HdrLen)..(p + n - 1)

(* Variant: malloc without the memset. *)
CarvedUnzeroed(p, n) ==
    [i \in Addr |-> IF i \in (p - HdrLen)..(p - 1)
                    THEN Header(n)[i - (p - HdrLen) + 1] ELSE heap[i]]

(* memcpy of the header below p, then memset of n data bytes to zero. *)
Carved(p, n) ==
    [i \in Addr |-> IF i \in p..(p + n - 1) THEN 0
                    ELSE IF i \in (p - HdrLen)..(p - 1)
                         THEN Header(n)[i - (p - HdrLen) + 1]
                         ELSE heap[i]]

(* Variant: the length without the header's own four bytes. *)
FreedShort(p) ==
    [i \in Addr |-> IF i \in Footprint(p, SizeAt(p - HdrLen) - HdrLen)
                    THEN Mark ELSE heap[i]]

(* memset to '$' of the header and of as many bytes as it says. *)
Freed(p) ==
    [i \in Addr |-> IF i \in Footprint(p, SizeAt(p - HdrLen))
                    THEN Mark ELSE heap[i]]
-----------------------------------------------------------------------------
(* mm_init: the whole heap is marks. *)
Init ==
    /\ heap = [i \in Addr |-> Mark]
    /\ live = [p \in {} |-> 0]
    /\ scanning = FALSE

Malloc(s) ==
    /\ ~scanning
    /\ \E a \in Addr :
        /\ FirstFit(a, Need(s))
        /\ heap' = Carved(DataOf(a), s)
        /\ live' = [p \in DOMAIN live \cup {DataOf(a)} |->
                       IF p = DataOf(a) THEN s ELSE live[p]]
    /\ UNCHANGED scanning

(* No run is long enough: the scan does not stop at heap_end. *)
MallocRunsOff(s) ==
    /\ ~scanning
    /\ \A a \in Addr : ~Run(a, Need(s))
    /\ scanning' = TRUE
    /\ UNCHANGED <<heap, live>>

Free(p) ==
    /\ ~scanning
    /\ heap' = Freed(p)
    /\ live' = [q \in DOMAIN live \ {p} |-> live[q]]
    /\ UNCHANGED scanning

(* A client fills the block it holds at p. *)
Write(p, d) ==
    /\ ~scanning
    /\ DOMAIN d = 0..(live[p] - 1)
    /\ heap' = [i \in Addr |-> IF i \in p..(p + live[p] - 1)
                               THEN d[i - p] ELSE heap[i]]
    /\ UNCHANGED <<live, scanning>>
-----------------------------------------------------------------------------
(* The discipline the code needs of its clients and nowhere checks: they   *)
(* free what they hold, once, stay inside their blocks, and never store    *)
(* four '$' in a row.                                                      *)
Quiet(d) ==
    \A j \in DOMAIN d : j + Pad \in DOMAIN d => \E k \in j..(j + Pad) : d[k] # Mark

QuietImages == { d \in Images : Quiet(d) }

Next ==
    \/ \E s \in Sizes : Malloc(s) \/ MallocRunsOff(s)
    \/ \E p \in DOMAIN live : Free(p)
    \/ \E p \in DOMAIN live, d \in QuietImages : Write(p, d)

Spec == Init /\ [][Next]_vars
-----------------------------------------------------------------------------
(* Types; in particular every block lies in the heap, its header included. *)
TypeOK ==
    /\ heap \in [Addr -> Byte]
    /\ scanning \in BOOLEAN
    /\ \A p \in DOMAIN live :
        /\ p \in Nat /\ live[p] \in Nat
        /\ HdrLen <= p /\ p + live[p] <= HeapSize

(* No two blocks share a byte, headers included: what malloc takes for     *)
(* free memory never belongs to anybody.                                   *)
Disjoint ==
    \A p, q \in DOMAIN live :
        p # q => Footprint(p, live[p]) \cap Footprint(q, live[q]) = {}

(* The size free will read below each pointer is the size that was asked   *)
(* for, so free releases exactly the block.                                *)
HeaderIntact ==
    \A p \in DOMAIN live, k \in 1..HdrLen :
        heap[p - HdrLen + k - 1] = Header(live[p])[k]

(* Every byte outside the blocks is a mark again: neither malloc nor free  *)
(* leaves residue behind that would be lost to later scans.                *)
NoResidue ==
    \A i \in Addr :
        (\A p \in DOMAIN live : i \notin Footprint(p, live[p])) => heap[i] = Mark

(* The heap implements the abstract store. *)
Abstract == INSTANCE BlockStore WITH
            ArenaSize <- HeapSize,
            blocks <- [p \in DOMAIN live |-> [i \in 0..(live[p] - 1) |-> heap[p + i]]]

ImplementsStore == Abstract!Spec
=============================================================================
