-------------------------------- MODULE MCPs2 -------------------------------
(* Codes of the keys 'a', left and right shift.                            *)
EXTENDS Ps2

Shifts == {30, 42, 54}
=============================================================================
