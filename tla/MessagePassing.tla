--------------------------- MODULE MessagePassing ---------------------------
(***************************************************************************)
(* What Send, Receive and Reply promise to programs, with no scheduler, no *)
(* registers and no queues of tids: a message exists from the moment its   *)
(* Send is made, waits in the receiver's mailbox in the order of the       *)
(* Sends, is handed over once, and its sender stays blocked until exactly  *)
(* one reply.  A receiver that stops takes its mailbox with it and leaves  *)
(* its senders blocked: that is what the kernel does.                      *)
(***************************************************************************)
EXTENDS Integers, Sequences

CONSTANTS Tid, Payload, NoPayload, SendLens, Lens, NoTask

VARIABLES
  phase,    \* "none", "free", "sending", "receiving" or "awaiting" (a reply)
  mailbox,  \* messages sent to a task and not yet received
  room,     \* length of the buffer a blocked task waits to have filled
  got       \* what a task's last call delivered to it, until its next call

mvars == <<phase, mailbox, room, got>>

Nothing == [from |-> NoTask, msg |-> NoPayload, len |-> 0]
Shorter(a, b) == IF a < b THEN a ELSE b
Fitted(m, size) == [m EXCEPT !.len = Shorter(@, size)]

MInit ==
  /\ phase \in [Tid -> {"none", "free"}]
  /\ mailbox = [t \in Tid |-> <<>>]
  /\ room = [t \in Tid |-> 0]
  /\ got = [t \in Tid |-> Nothing]

\* A call that passes no message: only what the last call left is consumed.
\* It may start a task.
OtherCall(t) ==
  /\ phase[t] = "free"
  /\ got' = [got EXCEPT ![t] = Nothing]
  /\ \/ UNCHANGED phase
     \/ \E n \in Tid : phase[n] = "none" /\ phase' = [phase EXCEPT ![n] = "free"]
  /\ UNCHANGED <<mailbox, room>>

Stop(t) ==
  /\ phase[t] = "free"
  /\ phase' = [phase EXCEPT ![t] = "none"]
  /\ mailbox' = [mailbox EXCEPT ![t] = <<>>]
  /\ got' = [got EXCEPT ![t] = Nothing]
  /\ UNCHANGED room

Send(s, r) ==
  \E m \in Payload, ln \in SendLens :
    LET message == [from |-> s, msg |-> m, len |-> ln.msg] IN
    /\ phase[s] = "free" /\ phase[r] # "none"
    /\ IF phase[r] = "receiving"
       THEN /\ phase' = [phase EXCEPT ![s] = "awaiting", ![r] = "free"]
            /\ got' = [got EXCEPT ![s] = Nothing, ![r] = Fitted(message, room[r])]
            /\ room' = [room EXCEPT ![s] = ln.reply, ![r] = 0]
            /\ UNCHANGED mailbox
       ELSE /\ phase' = [phase EXCEPT ![s] = "sending"]
            /\ mailbox' = [mailbox EXCEPT ![r] = Append(@, message)]
            /\ got' = [got EXCEPT ![s] = Nothing]
            /\ room' = [room EXCEPT ![s] = ln.reply]

Receive(r) ==
  \E size \in Lens :
    /\ phase[r] = "free"
    /\ IF mailbox[r] = <<>>
       THEN /\ phase' = [phase EXCEPT ![r] = "receiving"]
            /\ room' = [room EXCEPT ![r] = size]
            /\ got' = [got EXCEPT ![r] = Nothing]
            /\ UNCHANGED mailbox
       ELSE /\ phase' = [phase EXCEPT ![Head(mailbox[r]).from] = "awaiting"]
            /\ mailbox' = [mailbox EXCEPT ![r] = Tail(@)]
            /\ got' = [got EXCEPT ![r] = Fitted(Head(mailbox[r]), size)]
            /\ UNCHANGED room

Reply(r, s) ==
  \E m \in Payload, l \in Lens :
    /\ phase[r] = "free" /\ phase[s] = "awaiting"
    /\ phase' = [phase EXCEPT ![s] = "free"]
    /\ got' = [got EXCEPT ![r] = Nothing,
                          ![s] = [from |-> NoTask, msg |-> m, len |-> Shorter(l, room[s])]]
    /\ room' = [room EXCEPT ![s] = 0]
    /\ UNCHANGED mailbox

MNext ==
  \E t \in Tid :
    \/ OtherCall(t) \/ Stop(t) \/ Receive(t)
    \/ \E u \in Tid : Send(t, u) \/ Reply(t, u)

MSpec == MInit /\ [][MNext]_mvars
=============================================================================
