------------------------------ MODULE MCTimer ------------------------------
(* A low half of three bits and a tick of three counts.  The count runs past  *)
(* two carries, so that clocks start before, across and after one.           *)
EXTENDS Timer
=============================================================================
