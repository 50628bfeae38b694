------------------------------- MODULE MCHeap -------------------------------
(* A heap of a few dozen bytes with the build's own byte values.           *)
EXTENDS Heap

(* Four bytes with as many marks, at either end, as a careful client may   *)
(* store, and without any.                                                 *)
ShortImages == { [i \in 0..3 |-> IF i \in m THEN Mark ELSE 1] :
                    m \in {{}, 0..2, 1..3, {0, 2, 3}} }

(* A 36-byte block has a '$' in its own header. *)
LongImages == { [i \in 0..35 |-> IF i \in m THEN Mark ELSE 1] : m \in {{}, 33..35} }

EdgeImages == LongImages \cup { [i \in 0..3 |-> IF i \in m THEN Mark ELSE 1] :
                                    m \in {0..2, 1..3} }
=============================================================================
