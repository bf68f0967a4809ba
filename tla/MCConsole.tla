----------------------------- MODULE MCConsole -----------------------------
(* Three tasks that print two characters each with a FIFO of four, and one   *)
(* task alone that prints every i32 and some u32 of six bits, an empty and a *)
(* long string, a character, a percent sign and a hexadecimal number.        *)
EXTENDS Console

MCTexts == [t \in Printers |-> <<UpperA, Zero>>]

Blank == [k |-> "plain", v |-> Space]
Item(k, v) == [k |-> k, v |-> v]
MCFormats ==
  {<<Item("d", a), Blank, Item("u", b)>> : a \in i32, b \in {0, 9, 63}}
  \cup {<<Item("s", s), Blank, Item("c", UpperA), Item("%", 37), Blank, Item("p", b)>> :
          s \in {<<>>, <<66, 67, 68, 69, 70, 71, 72>>}, b \in {0, 15, 62}}
=============================================================================
