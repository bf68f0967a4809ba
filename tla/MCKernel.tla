------------------------------ MODULE MCKernel ------------------------------
(***************************************************************************)
(* Instances of Kernel for TLC.                                            *)
(***************************************************************************)
EXTENDS KernelRefinement

\* One priority below the range and one above: Create clamps them to the idle
\* task's priority and to one above the first task's.
Clamped == {-1, 1, 9}

\* Messages and reply buffers as long as what they meet (Lens = {1}), and longer:
\* each message is cut, each reply leaves part of its buffer alone.
UnitLens == {[msg |-> 1, reply |-> 1]}
LongLens == {[msg |-> 2, reply |-> 2]}
=============================================================================
