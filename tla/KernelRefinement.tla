-------------------------- MODULE KernelRefinement --------------------------
(***************************************************************************)
(* The kernel implements MessagePassing: the mailbox of a task is its      *)
(* queue of sender tids, each standing for the message its Send left in    *)
(* that sender's registers.                                                *)
(***************************************************************************)
EXTENDS Kernel

Phase == [t \in Tid |->
  CASE state[t] = "INITIALIZED" -> "none"
    [] state[t] = "WATISEND" -> "sending"
    [] state[t] = "WAITRECEIVE" -> "receiving"
    [] state[t] = "WATIREPLY" -> "awaiting"
    [] OTHER -> "free"]

Mailbox == [r \in Tid |-> [i \in 1 .. Len(senders[r]) |->
  LET s == senders[r][i] IN
    [from |-> s, msg |-> args[s].msg, len |-> args[s].msg_len]]]

Room == [t \in Tid |->
  CASE state[t] \in {"WATISEND", "WATIREPLY"} -> args[t].reply_len
    [] state[t] = "WAITRECEIVE" -> args[t].msg_len
    [] OTHER -> 0]

Promise == INSTANCE MessagePassing WITH
  phase <- Phase, mailbox <- Mailbox, room <- Room, got <- buffer

\* The kernel's handlers, with any interleaving of interrupts and context
\* switches, behave towards programs as MessagePassing: no message is lost,
\* duplicated, reordered, mixed up or changed while its sender waits
\* (sys_send, sys_receive, sys_reply).
ImplementsMessagePassing == Promise!MSpec
=============================================================================
