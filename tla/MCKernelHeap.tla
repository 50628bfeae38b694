---------------------------- MODULE MCKernelHeap ----------------------------
(* The build's sizes, with a size_t of so many values that one size the    *)
(* console can ask for wraps round.                                        *)
EXTENDS KernelHeap

(* Many failures with nothing else going on, and a little of everything.   *)
TwoBounds == { [fails |-> 7, loads |-> 1, mallocs |-> 0, strays |-> 0],
               [fails |-> 1, loads |-> 1, mallocs |-> 1, strays |-> 1] }
=============================================================================
