------------------------------ MODULE MCVgaTerm -----------------------------
(* Five rows of two columns, two of them on the display: enough to wrap,   *)
(* to scroll the virtual screen and to page back past its first row.       *)
EXTENDS VgaTerm

Strings == { <<"x", NL>>, <<"y", "x", "y">>, <<BS, Space, BS>> }
ClearedLine == <<"x", CR, NL>>
=============================================================================
