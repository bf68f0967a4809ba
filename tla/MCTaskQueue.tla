---------------------------- MODULE MCTaskQueue ----------------------------
(* Two priority queues, as the event queues, with tasks of two priorities,  *)
(* and a plain list (jobq), over one pool of three nodes: the kernel gives  *)
(* jobq a pool of its own, and sharing one only allows more behaviours.     *)
EXTENDS TaskQueue

CONSTANTS t1, t2, t3

MCPriority == (t1 :> 0) @@ (t2 :> 0) @@ (t3 :> 1)
=============================================================================
