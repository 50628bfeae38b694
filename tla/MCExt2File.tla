----------------------------- MODULE MCExt2File -----------------------------
(* A disk of nine or ten 4-byte blocks, the first four the file system's.  *)
(* "a" has one byte in block 4, "b" and "c" are empty, "d" is the          *)
(* directory, and "e", where there is one, fills its two direct blocks.    *)
EXTENDS Ext2File

Tiny == [size |-> 1, dbp |-> [k \in Slot |-> IF k = 0 THEN 4 ELSE 0]]
Empty == [size |-> 0, dbp |-> [k \in Slot |-> 0]]
Directory == [size |-> 4, dbp |-> [k \in Slot |-> IF k = 0 THEN 3 ELSE 0]]
Full == [size |-> 8, dbp |-> [k \in Slot |-> 5 + k]]

(* What looks like an inode and points into the file system's blocks. *)
Loose == [size |-> 1, dbp |-> [k \in Slot |-> 2]]
LooseRecords == { Loose }

Inodes == [n \in Name |-> CASE n = "a" -> Tiny [] n = "d" -> Directory
                            [] n = "e" -> Full [] OTHER -> Empty]

OneGroup == [g \in {0} |-> 4]
FewFree == [g \in {0} |-> 2]

Bytes(n) == [k \in 0..(n - 1) |-> 1 + (k % 3)]

PairBuffers == { Bytes(2) }

ThreeBytes == { [k \in 0..2 |-> 1] }

LongBuffers == { Bytes(2), Bytes(5) }
=============================================================================
