------------------------------ MODULE MCQueue ------------------------------
(* A ring of four cells and three element values: every fill level at every *)
(* position of the ring.                                                    *)
EXTENDS Queue

MCElem == 0 .. 2
=============================================================================
