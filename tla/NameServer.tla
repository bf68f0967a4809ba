----------------------------- MODULE NameServer -----------------------------
(***************************************************************************)
(* The name server (name_server.c), the hash table it keeps names in       *)
(* (hash_table.c), and the clients' RegisterAs and WhoIs.                  *)
(*                                                                         *)
(* The table has no keys: a name stands for its slot, and names with the   *)
(* same hash share one.  Clients find the server through the static        *)
(* name_server_tid, which is 0 until the server has run; a client that     *)
(* reads it earlier sends to task 0, the first user task, which takes the  *)
(* message for one of its own or has exited.  A step is a system call with *)
(* the local code around it, and steps of tasks interleave.                *)
(***************************************************************************)
EXTENDS Integers, Sequences, FiniteSets

CONSTANTS
  Clients,      \* tids of the tasks that call RegisterAs and WhoIs
  ServerTid,
  Names,
  Slot          \* Slot[n] is hash_table_djb2(n) % HASH_TABLE_MAX_SIZE

FirstTid == 0
NotFound == -1
Slots == {Slot[n] : n \in Names}
Tids == Clients \cup {ServerTid, FirstTid}

ASSUME TidAssumption ==
  /\ Clients \subseteq Nat /\ ServerTid \in Nat
  /\ FirstTid \notin Clients \cup {ServerTid} /\ ServerTid \notin Clients
ASSUME NameAssumption == Names # {}

VARIABLES
  name_server_tid,
  used, data,           \* the hash table
  server, tid, msg,     \* where the server is and the message it handles
  senders,              \* clients waiting in its sender queue
  state,                \* of each client
  target,               \* the tid it read from name_server_tid
  buffer,               \* the message in its memory
  ret,                  \* what its last call returned
  registered,           \* history: the registrations the server has handled
  answers,              \* history: the tids it has answered WhoIs with
  known                 \* history: whether a client's last call was a WhoIs
                        \* sent to the server for a name registered before

tableVars == <<used, data>>
serverVars == <<name_server_tid, server, tid, msg>>
vars == <<tableVars, serverVars, senders, state, target, buffer, ret,
          registered, answers, known>>

NameServerMsg == [action : {"none", "REGISTER_AS", "WHO_IS"}, name : Names, tid : Tids \cup {NotFound}]
NoMsg == [action |-> "none", name |-> CHOOSE n \in Names : TRUE, tid |-> NotFound]

TypeOK ==
  /\ name_server_tid \in {FirstTid, ServerTid}
  /\ used \in [Slots -> BOOLEAN] /\ data \in [Slots -> Tids]
  /\ server \in {"start", "receive", "handle"}
  /\ tid \in Tids /\ msg \in NameServerMsg
  /\ senders \in Seq(Clients)
  /\ state \in [Clients -> {"ready", "sending", "WATISEND", "WATIREPLY", "stray", "replied"}]
  /\ target \in [Clients -> {FirstTid, ServerTid}]
  /\ buffer \in [Clients -> NameServerMsg]
  /\ ret \in [Clients -> Tids \cup {NotFound}]
  /\ registered \subseteq Names \X Clients /\ answers \subseteq Names \X Clients
  /\ known \in [Clients -> BOOLEAN]

\* hash_table_init clears `used'; a value is not read before it is written.
Init ==
  /\ name_server_tid = FirstTid
  /\ used = [s \in Slots |-> FALSE]
  /\ data = [s \in Slots |-> FirstTid]
  /\ server = "start" /\ tid = FirstTid /\ msg = NoMsg
  /\ senders = <<>>
  /\ state = [c \in Clients |-> "ready"]
  /\ target = [c \in Clients |-> FirstTid]
  /\ buffer = [c \in Clients |-> NoMsg]
  /\ ret = [c \in Clients |-> 0]
  /\ registered = {} /\ answers = {} /\ known = [c \in Clients |-> FALSE]

-----------------------------------------------------------------------------
(* hash_table.c                                                            *)

\* Faulty variant: a later registration replaces the first.
hash_table_add_over(key, value) ==
  /\ used' = [used EXCEPT ![Slot[key]] = TRUE]
  /\ data' = [data EXCEPT ![Slot[key]] = value]

\* The first to take a slot keeps it; later ones are dropped.
hash_table_add(key, value) ==
  IF used[Slot[key]] THEN UNCHANGED <<used, data>>
  ELSE /\ used' = [used EXCEPT ![Slot[key]] = TRUE]
       /\ data' = [data EXCEPT ![Slot[key]] = value]

\* Faulty variant: a slot counts as used while it is free.
hash_table_has_not(key) == ~used[Slot[key]]

hash_table_has(key) == used[Slot[key]]

\* Faulty variant: the slot is taken without a value.
hash_table_get_zero(key) == 0

hash_table_get(key) == IF used[Slot[key]] THEN data[Slot[key]] ELSE 0

-----------------------------------------------------------------------------
(* name_server                                                             *)

name_server_start ==
  /\ server = "start"
  /\ name_server_tid' = ServerTid
  /\ server' = "receive"
  /\ UNCHANGED <<tableVars, tid, msg, senders, state, target, buffer, ret,
                 registered, answers, known>>

\* Faulty variant: the newest sender is served first.
name_server_receive_newest ==
  /\ server = "receive" /\ senders # <<>>
  /\ tid' = senders[Len(senders)] /\ senders' = SubSeq(senders, 1, Len(senders) - 1)
  /\ msg' = buffer[tid']
  /\ state' = [state EXCEPT ![tid'] = "WATIREPLY"]
  /\ server' = "handle"
  /\ UNCHANGED <<tableVars, name_server_tid, target, buffer, ret, registered, answers, known>>

\* Receive takes the message of the oldest sender.
name_server_receive ==
  /\ server = "receive" /\ senders # <<>>
  /\ tid' = Head(senders) /\ senders' = Tail(senders)
  /\ msg' = buffer[tid']
  /\ state' = [state EXCEPT ![tid'] = "WATIREPLY"]
  /\ server' = "handle"
  /\ UNCHANGED <<tableVars, name_server_tid, target, buffer, ret, registered, answers, known>>

\* Reply, and back to Receive, which overwrites tid and msg.
Reply(m) ==
  /\ buffer' = [buffer EXCEPT ![tid] = m]
  /\ state' = [state EXCEPT ![tid] = "replied"]
  /\ server' = "receive" /\ tid' = FirstTid /\ msg' = NoMsg
  /\ UNCHANGED <<name_server_tid, senders, target, ret, known>>

\* The value stored is the sender's tid, not the one in the message; nobody
\* looks whether it was stored.
name_server_REGISTER_AS ==
  /\ server = "handle" /\ msg.action = "REGISTER_AS"
  /\ hash_table_add(msg.name, tid)
  /\ Reply(msg)
  /\ registered' = registered \cup {<<msg.name, tid>>}
  /\ UNCHANGED answers

name_server_WHO_IS ==
  LET answer == IF hash_table_has(msg.name) THEN hash_table_get(msg.name) ELSE NotFound
  IN
  /\ server = "handle" /\ msg.action = "WHO_IS"
  /\ Reply([msg EXCEPT !.tid = answer])
  /\ answers' = answers \cup ({<<msg.name, answer>>} \ {<<msg.name, NotFound>>})
  /\ UNCHANGED <<tableVars, registered>>

Server == \/ name_server_start \/ name_server_receive
          \/ name_server_REGISTER_AS \/ name_server_WHO_IS

-----------------------------------------------------------------------------
(* RegisterAs and WhoIs                                                    *)

\* The message is made (MyTid), and name_server_tid is read.
Call(c, a) ==
  /\ state[c] = "ready"
  /\ target' = [target EXCEPT ![c] = name_server_tid]
  /\ \E n \in Names :
       /\ buffer' = [buffer EXCEPT ![c] = [action |-> a, name |-> n, tid |-> c]]
       /\ known' = [known EXCEPT ![c] = /\ a = "WHO_IS" /\ target'[c] = ServerTid
                                        /\ \E t \in Clients : <<n, t>> \in registered]
  /\ ret' = [ret EXCEPT ![c] = 0]
  /\ state' = [state EXCEPT ![c] = "sending"]
  /\ UNCHANGED <<tableVars, serverVars, senders, registered, answers>>

RegisterAs(c) == Call(c, "REGISTER_AS")

WhoIs(c) == Call(c, "WHO_IS")

\* The Send: to the server, or astray to task 0.
Send(c) ==
  /\ state[c] = "sending"
  /\ IF target[c] = ServerTid
     THEN /\ senders' = Append(senders, c)
          /\ state' = [state EXCEPT ![c] = "WATISEND"]
     ELSE /\ UNCHANGED senders
          /\ state' = [state EXCEPT ![c] = "stray"]
  /\ UNCHANGED <<tableVars, serverVars, target, buffer, ret, registered, answers, known>>

\* The call returns r; its locals are gone.
Leave(c, r) ==
  /\ state' = [state EXCEPT ![c] = "ready"]
  /\ ret' = [ret EXCEPT ![c] = r]
  /\ buffer' = [buffer EXCEPT ![c] = NoMsg]
  /\ target' = [target EXCEPT ![c] = FirstTid]
  /\ UNCHANGED <<tableVars, serverVars, senders, registered, answers, known>>

\* Task 0 has exited: the Send fails, and so does the call.
StraySend(c) == state[c] = "stray" /\ Leave(c, -1)

\* Task 0 answers what it takes for one of its own messages: the bytes of its
\* reply are read as a tid.
StrayReply(c) ==
  /\ state[c] = "stray"
  /\ state' = [state EXCEPT ![c] = "replied"]
  /\ \E t \in Tids : buffer' = [buffer EXCEPT ![c].tid = t]
  /\ UNCHANGED <<tableVars, serverVars, senders, target, ret, registered, answers, known>>

\* RegisterAs returns 0 whatever the server did; WhoIs the tid of the reply.
Return(c) ==
  /\ state[c] = "replied"
  /\ Leave(c, IF buffer[c].action = "WHO_IS" THEN buffer[c].tid ELSE 0)

Client(c) == \/ RegisterAs(c) \/ WhoIs(c) \/ Send(c)
             \/ StraySend(c) \/ StrayReply(c) \/ Return(c)

Next == Server \/ \E c \in Clients : Client(c)

Spec == Init /\ [][Next]_vars

\* The server runs when it can, and a client finishes the call it has made;
\* nothing is assumed of task 0.
FairSpec == /\ Spec
            /\ WF_vars(Server)
            /\ \A c \in Clients : WF_vars(Send(c)) /\ WF_vars(Return(c))

-----------------------------------------------------------------------------
\* The server answers WhoIs only with a task that has registered a name of the
\* same slot; with a task that registered this very name, if no other name of
\* the slot has been registered.  All tasks that ask for a name, at any time, are
\* told the same task, however many have registered it since.
AnswersHonest ==
  /\ \A a \in answers :
       \E r \in registered :
         /\ r[2] = a[2] /\ Slot[r[1]] = Slot[a[1]]
         /\ (\A q \in registered : Slot[q[1]] = Slot[a[1]] => q[1] = a[1]) => r[1] = a[1]
  /\ \A a, b \in answers : a[1] = b[1] => a[2] = b[2]

\* WhoIs, called when the name has been registered and sent to the server,
\* returns the tid of a task.
RegisteredIsFound ==
  \A c \in Clients : state[c] = "ready" /\ known[c] => ret[c] \in Clients

\* A call that is sent to the server returns.
CallsReturn ==
  \A c \in Clients :
    (state[c] = "sending" /\ target[c] = ServerTid) ~> state[c] = "ready"
=============================================================================
