------------------------------ MODULE MCTtyLine -----------------------------
(* A buffer of six in rows of six: the fourth character reaches the margin. *)
EXTENDS TtyLine

Table == [c \in {"a", "A"} |-> "A"]
=============================================================================
