-------------------------------- MODULE MCK3 --------------------------------
(***************************************************************************)
(* The program with its four clients: one above, one at and two below the  *)
(* servers' priority, as in the code, with shorter delays, two of which    *)
(* end together, and fewer of them.                                        *)
(***************************************************************************)
EXTENDS K3

K3Calls == {"Create", "MyTid", "MyParentTid", "Yield", "Exit", "Send", "Receive",
            "Reply", "AwaitEvent"}
UnitLens == {[msg |-> 1, reply |-> 1]}
Priorities == <<4, 3, 2, 1>>
Delays == <<1, 2, 3, 3>>
Nums == <<2, 1, 1, 1>>
=============================================================================
