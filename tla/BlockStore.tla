----------------------------- MODULE BlockStore -----------------------------
(***************************************************************************)
(* What the kernel's heap promises its clients, with none of its layout:   *)
(* a set of blocks, each found by the address malloc returned, whose data  *)
(* areas never overlap.  A fresh block reads as zeros, only its owner      *)
(* changes its bytes, and releasing one block leaves the others alone.     *)
(***************************************************************************)
EXTENDS Integers

CONSTANTS
    ArenaSize,   \* bytes of memory the blocks are carved from
    Byte         \* the values of one byte

VARIABLE blocks  \* address of a block's data -> its bytes, indexed from 0

(* The addresses of the data bytes of block p. *)
Extent(p) == { p + i : i \in DOMAIN blocks[p] }

Init == blocks = [p \in {} |-> << >>]

(* malloc: any place that overlaps no block will do. *)
Alloc ==
    \E p \in 0..ArenaSize :
        /\ p \notin DOMAIN blocks
        /\ DOMAIN blocks' = DOMAIN blocks \cup {p}
        /\ \E n \in 0..(ArenaSize - p) :
            /\ \A q \in DOMAIN blocks : Extent(q) \cap (p..(p + n - 1)) = {}
            /\ blocks' = [q \in DOMAIN blocks \cup {p} |->
                             IF q = p THEN [i \in 0..(n - 1) |-> 0] ELSE blocks[q]]

(* The owner of a block changes its bytes and nobody else's. *)
Store ==
    /\ DOMAIN blocks' = DOMAIN blocks
    /\ \E p \in DOMAIN blocks :
        /\ blocks'[p] \in [DOMAIN blocks[p] -> Byte]
        /\ blocks' = [blocks EXCEPT ![p] = blocks'[p]]

(* free: the block disappears, the others keep their bytes. *)
Release ==
    \E p \in DOMAIN blocks :
        blocks' = [q \in DOMAIN blocks \ {p} |-> blocks[q]]

Next == Alloc \/ Store \/ Release

Spec == Init /\ [][Next]_blocks
=============================================================================
