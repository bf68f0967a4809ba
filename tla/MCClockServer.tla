--------------------------- MODULE MCClockServer ---------------------------
(* Two clients and a clock of three bits: ticks wrap at 8, the arguments    *)
(* reach the largest i32 of that width, and there is a chunk per client.     *)
EXTENDS ClockServer

MCArguments == {-1, 0, 3}
=============================================================================
