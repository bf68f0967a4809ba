-------------------------- MODULE NameServerProofs --------------------------
(***************************************************************************)
(* Theorems about NameServer, for any tasks, any names and any hash.       *)
(***************************************************************************)
EXTENDS NameServer, SequenceTheorems, TLAPS

-----------------------------------------------------------------------------
(* The inductive invariant.                                                *)

\* The sender queue holds clients that wait in it, each once.
SendersWait ==
  /\ \A i \in 1 .. Len(senders) : state[senders[i]] = "WATISEND"
  /\ \A i, j \in 1 .. Len(senders) : senders[i] = senders[j] => i = j

\* The server handles the message of the one client that waits for a reply.
OneInHand ==
  /\ server = "handle" => /\ tid \in Clients /\ state[tid] = "WATIREPLY"
                          /\ msg = buffer[tid]
  /\ \A c \in Clients : state[c] = "WATIREPLY" => server = "handle" /\ tid = c

\* A slot is used from the first registration of one of its names on, and
\* holds the task that made it.
TableKept ==
  /\ \A s \in Slots : used[s] => \E r \in registered : Slot[r[1]] = s /\ r[2] = data[s]
  /\ \A r \in registered : used[Slot[r[1]]]

\* What was answered is what the table still holds.
AnswersKept ==
  \A a \in answers : used[Slot[a[1]]] /\ a[2] = data[Slot[a[1]]]

\* A WhoIs for a registered name: what it asks for, what it is told, what it
\* returns.
KnownKept ==
  \A c \in Clients : known[c] =>
    /\ state[c] # "stray"
    /\ state[c] = "sending" => target[c] = ServerTid
    /\ state[c] \in {"sending", "WATISEND", "WATIREPLY"} =>
         buffer[c].action = "WHO_IS" /\ \E t \in Clients : <<buffer[c].name, t>> \in registered
    /\ state[c] = "replied" => buffer[c].action = "WHO_IS" /\ buffer[c].tid \in Clients
    /\ state[c] = "ready" => ret[c] \in Clients

NameInvariant ==
  TypeOK /\ SendersWait /\ OneInHand /\ TableKept /\ AnswersKept /\ KnownKept

-----------------------------------------------------------------------------
(* Type correctness.                                                       *)

LEMMA Typed ==
  /\ NoMsg \in NameServerMsg
  /\ \A m \in NameServerMsg : m.name \in Names /\ m.tid \in Tids \cup {NotFound}
  /\ \A m \in NameServerMsg, t \in Tids \cup {NotFound} :
       /\ [m EXCEPT !.tid = t] \in NameServerMsg
       /\ [m EXCEPT !.tid = t].tid = t /\ [m EXCEPT !.tid = t].action = m.action
  /\ \A a \in {"REGISTER_AS", "WHO_IS"}, n \in Names, t \in Tids :
       LET m == [action |-> a, name |-> n, tid |-> t] IN
       m \in NameServerMsg /\ m.action = a /\ m.name = n /\ m.tid = t
  /\ Clients \subseteq Tids /\ FirstTid \in Tids /\ ServerTid \in Tids /\ NotFound \notin Tids
  /\ 0 \in Tids /\ FirstTid # ServerTid /\ FirstTid \notin Clients
  /\ \A n \in Names : Slot[n] \in Slots
<1>1. (CHOOSE n \in Names : TRUE) \in Names
  BY NameAssumption
<1>2. NotFound \notin Tids
  BY TidAssumption DEF Tids, NotFound, FirstTid
<1>3. 0 = FirstTid /\ Clients \subseteq Tids /\ FirstTid \in Tids /\ ServerTid \in Tids
      /\ FirstTid # ServerTid /\ FirstTid \notin Clients
  BY TidAssumption DEF Tids, FirstTid
<1> HIDE DEF NotFound, FirstTid, Tids
<1>4. NoMsg \in NameServerMsg
  BY <1>1 DEF NoMsg, NameServerMsg
<1>5. ASSUME NEW m \in NameServerMsg
      PROVE  /\ m.name \in Names /\ m.tid \in Tids \cup {NotFound}
             /\ \A t \in Tids \cup {NotFound} :
                  /\ [m EXCEPT !.tid = t] \in NameServerMsg
                  /\ [m EXCEPT !.tid = t].tid = t /\ [m EXCEPT !.tid = t].action = m.action
  BY DEF NameServerMsg
<1>6. ASSUME NEW a \in {"REGISTER_AS", "WHO_IS"}, NEW n \in Names, NEW t \in Tids
      PROVE  LET m == [action |-> a, name |-> n, tid |-> t] IN
             m \in NameServerMsg /\ m.action = a /\ m.name = n /\ m.tid = t
  BY DEF NameServerMsg
<1>7. \A n \in Names : Slot[n] \in Slots
  BY DEF Slots
<1>8. QED
  BY <1>2, <1>3, <1>4, <1>5, <1>6, <1>7

\* The state a step leaves a client in.
LEMMA StateTyped ==
  ASSUME TypeOK
  PROVE  \A c \in Clients : \A v \in {"ready", "sending", "WATISEND", "WATIREPLY", "stray", "replied"} :
           [state EXCEPT ![c] = v] \in
             [Clients -> {"ready", "sending", "WATISEND", "WATIREPLY", "stray", "replied"}]
BY DEF TypeOK

\* What the server tells: the task in the slot, which registered, or NotFound.
LEMMA AnswerIs ==
  ASSUME NameInvariant, server = "handle", NEW answer,
         answer = IF hash_table_has(msg.name) THEN hash_table_get(msg.name) ELSE NotFound
  PROVE  /\ Slot[msg.name] \in Slots /\ msg.name \in Names /\ msg \in NameServerMsg
         /\ used[Slot[msg.name]] => answer = data[Slot[msg.name]] /\ answer \in Clients
         /\ ~used[Slot[msg.name]] => answer = NotFound
         /\ answer \in Tids \cup {NotFound}
<1>1. Slot[msg.name] \in Slots /\ msg.name \in Names /\ msg \in NameServerMsg
  BY Typed DEF NameInvariant, TypeOK
<1>2. used[Slot[msg.name]] => data[Slot[msg.name]] \in Clients
  BY <1>1 DEF NameInvariant, TableKept, TypeOK
<1>3. QED
  BY <1>1, <1>2, Typed DEF hash_table_has, hash_table_get

LEMMA ReplyTyped ==
  ASSUME TypeOK, NEW m \in NameServerMsg, tid \in Clients, Reply(m)
  PROVE  /\ buffer' \in [Clients -> NameServerMsg]
         /\ state' \in [Clients -> {"ready", "sending", "WATISEND", "WATIREPLY", "stray", "replied"}]
         /\ server' = "receive" /\ tid' \in Tids /\ msg' \in NameServerMsg
         /\ UNCHANGED <<name_server_tid, senders, target, ret, known>>
BY Typed, StateTyped DEF Reply, TypeOK

LEMMA NextTyped == NameInvariant /\ [Next]_vars => TypeOK'
<1> SUFFICES ASSUME NameInvariant, [Next]_vars PROVE TypeOK'
  OBVIOUS
<1>0. TypeOK /\ (server = "handle" => tid \in Clients /\ msg \in NameServerMsg /\ msg.name \in Names)
  BY Typed DEF NameInvariant, OneInHand, TypeOK
<1>1. CASE UNCHANGED vars
  BY <1>0, <1>1 DEF vars, tableVars, serverVars, TypeOK
<1>2. CASE name_server_start
  BY <1>0, <1>2 DEF name_server_start, tableVars, TypeOK
<1>3. CASE name_server_receive
  <2>1. Head(senders) \in Clients /\ Tail(senders) \in Seq(Clients)
    BY <1>0, <1>3, HeadTailProperties DEF name_server_receive, TypeOK
  <2>2. buffer[Head(senders)] \in NameServerMsg /\ Head(senders) \in Tids
    BY <1>0, <2>1, Typed DEF TypeOK
  <2>3. state' = [state EXCEPT ![Head(senders)] = "WATIREPLY"]
    BY <1>3 DEF name_server_receive
  <2>4. QED
    BY <1>0, <1>3, <2>1, <2>2, <2>3, StateTyped DEF name_server_receive, tableVars, TypeOK
<1>4. CASE name_server_REGISTER_AS
  <2>1. tid \in Clients /\ tid \in Tids /\ Reply(msg) /\ Slot[msg.name] \in Slots
    BY <1>0, <1>4, Typed DEF name_server_REGISTER_AS
  <2>2. /\ hash_table_add(msg.name, tid)
        /\ registered' = registered \cup {<<msg.name, tid>>} /\ answers' = answers
    BY <1>4 DEF name_server_REGISTER_AS
  <2>3. used' \in [Slots -> BOOLEAN] /\ data' \in [Slots -> Tids]
    BY <1>0, <2>1, <2>2 DEF hash_table_add, TypeOK
  <2>4. registered' \subseteq Names \X Clients
    BY <1>0, <1>4, <2>1, <2>2 DEF name_server_REGISTER_AS, TypeOK
  <2>5. QED
    BY <1>0, <1>4, <2>1, <2>2, <2>3, <2>4, ReplyTyped DEF name_server_REGISTER_AS, TypeOK
<1>5. CASE name_server_WHO_IS
  <2>1. PICK answer : answer = IF hash_table_has(msg.name) THEN hash_table_get(msg.name) ELSE NotFound
    OBVIOUS
  <2>2. /\ server = "handle" /\ Reply([msg EXCEPT !.tid = answer])
        /\ answers' = answers \cup ({<<msg.name, answer>>} \ {<<msg.name, NotFound>>})
        /\ UNCHANGED <<used, data, registered>>
    BY <1>5, <2>1 DEF name_server_WHO_IS, tableVars
  <2>3. answer \in Clients \cup {NotFound} /\ answer \in Tids \cup {NotFound}
    BY <2>1, <2>2, AnswerIs
  <2>4. [msg EXCEPT !.tid = answer] \in NameServerMsg
    BY <1>0, <2>2, <2>3, Typed
  <2>5. answers' \subseteq Names \X Clients
    BY <1>0, <2>2, <2>3 DEF TypeOK
  <2>6. QED
    BY <1>0, <2>2, <2>4, <2>5, ReplyTyped DEF TypeOK
<1>6. ASSUME NEW c \in Clients, NEW a \in {"REGISTER_AS", "WHO_IS"}, Call(c, a) PROVE TypeOK'
  <2>1. PICK n \in Names :
          /\ buffer' = [buffer EXCEPT ![c] = [action |-> a, name |-> n, tid |-> c]]
          /\ \E v \in BOOLEAN : known' = [known EXCEPT ![c] = v]
    BY <1>6 DEF Call
  <2>2. buffer' \in [Clients -> NameServerMsg] /\ known' \in [Clients -> BOOLEAN]
    BY <1>0, <2>1, Typed DEF TypeOK
  <2>3. /\ target' = [target EXCEPT ![c] = name_server_tid] /\ ret' = [ret EXCEPT ![c] = 0]
        /\ state' = [state EXCEPT ![c] = "sending"]
        /\ UNCHANGED <<used, data, name_server_tid, server, tid, msg, senders, registered, answers>>
    BY <1>6 DEF Call, tableVars, serverVars
  <2>4. /\ target' \in [Clients -> {FirstTid, ServerTid}] /\ ret' \in [Clients -> Tids \cup {NotFound}]
        /\ state' \in [Clients -> {"ready", "sending", "WATISEND", "WATIREPLY", "stray", "replied"}]
    BY <1>0, <2>3, Typed, StateTyped DEF TypeOK
  <2>5. QED
    BY <1>0, <2>2, <2>3, <2>4 DEF TypeOK
<1>7. ASSUME NEW c \in Clients, Send(c) PROVE TypeOK'
  <2>1. Append(senders, c) \in Seq(Clients)
    BY <1>0, AppendProperties DEF TypeOK
  <2>2. senders' \in Seq(Clients)
    BY <1>0, <1>7, <2>1 DEF Send, TypeOK
  <2>3. state' \in [Clients -> {"ready", "sending", "WATISEND", "WATIREPLY", "stray", "replied"}]
    BY <1>0, <1>7, StateTyped DEF Send
  <2>4. QED
    BY <1>0, <1>7, <2>2, <2>3 DEF Send, tableVars, serverVars, TypeOK
<1>8. ASSUME NEW c \in Clients, NEW r \in Tids \cup {NotFound}, Leave(c, r) PROVE TypeOK'
  BY <1>0, <1>8, Typed, StateTyped DEF Leave, tableVars, serverVars, TypeOK
<1>9. ASSUME NEW c \in Clients, StrayReply(c) PROVE TypeOK'
  <2>1. PICK t \in Tids : buffer' = [buffer EXCEPT ![c] = [buffer[c] EXCEPT !.tid = t]]
    BY <1>9 DEF StrayReply
  <2>2. [buffer[c] EXCEPT !.tid = t] \in NameServerMsg
    BY <1>0, Typed DEF TypeOK
  <2>3. buffer' \in [Clients -> NameServerMsg]
    BY <1>0, <2>1, <2>2 DEF TypeOK
  <2>4. QED
    BY <1>0, <1>9, <2>3, StateTyped DEF StrayReply, tableVars, serverVars, TypeOK
<1>10. ASSUME NEW c \in Clients, Client(c) PROVE TypeOK'
  <2>1. CASE StraySend(c)
    BY <1>8, <2>1 DEF StraySend, NotFound
  <2>2. CASE Return(c)
    <3>1. buffer[c].tid \in Tids \cup {NotFound} /\ 0 \in Tids \cup {NotFound}
      BY <1>0, Typed DEF TypeOK
    <3>2. QED
      BY <1>8, <2>2, <3>1 DEF Return
  <2>3. QED
    BY <1>6, <1>7, <1>9, <1>10, <2>1, <2>2 DEF Client, RegisterAs, WhoIs
<1>11. QED
  BY <1>1, <1>2, <1>3, <1>4, <1>5, <1>10 DEF Next, Server

-----------------------------------------------------------------------------
(* NameInvariant is inductive.                                             *)

LEMMA InitNames == Init => NameInvariant
<1> SUFFICES ASSUME Init PROVE NameInvariant
  OBVIOUS
<1>1. TypeOK
  BY Typed DEF Init, TypeOK
<1>2. Len(senders) = 0 /\ \A c \in Clients : state[c] = "ready" /\ ~known[c]
  BY DEF Init
<1>3. QED
  BY <1>1, <1>2
     DEF Init, NameInvariant, SendersWait, OneInHand, TableKept, AnswersKept, KnownKept

\* The server's Receive, and the client's Send, keep the sender queue.
LEMMA ReceiveKeeps ==
  ASSUME NameInvariant, TypeOK', name_server_receive
  PROVE  NameInvariant'
<1>0. /\ senders \in Seq(Clients) /\ senders # <<>> /\ Len(senders) \in Nat \ {0}
      /\ \A i \in 1 .. Len(senders) : senders[i] \in Clients /\ state[senders[i]] = "WATISEND"
      /\ \A i, j \in 1 .. Len(senders) : senders[i] = senders[j] => i = j
  <2>1. senders \in Seq(Clients) /\ senders # <<>>
    BY DEF name_server_receive, NameInvariant, TypeOK
  <2>2. Len(senders) \in Nat \ {0} /\ \A i \in 1 .. Len(senders) : senders[i] \in Clients
    BY <2>1, EmptySeq, ElementOfSeq
  <2>3. QED
    BY <2>1, <2>2 DEF NameInvariant, SendersWait
<1>1. PICK t \in Clients : t = senders[1] /\ t = Head(senders) /\ state[t] = "WATISEND"
  BY <1>0, HeadTailProperties
<1>2. /\ server = "receive" /\ server' = "handle" /\ tid' = t /\ msg' = buffer[t]
      /\ senders' = Tail(senders)
      /\ \A u \in Clients : state'[u] = IF u = t THEN "WATIREPLY" ELSE state[u]
      /\ UNCHANGED <<used, data, target, buffer, ret, registered, answers, known>>
  BY <1>1 DEF name_server_receive, tableVars, NameInvariant, TypeOK
<1>3. SendersWait'
  <2>1. Len(senders') = Len(senders) - 1 /\ \A i \in 1 .. Len(senders) - 1 : senders'[i] = senders[i + 1]
    BY <1>0, <1>2, HeadTailProperties
  <2>2. \A i \in 1 .. Len(senders) - 1 : i + 1 \in 1 .. Len(senders) /\ i + 1 # 1
    BY <1>0
  <2>3. ASSUME NEW i \in 1 .. Len(senders') PROVE state'[senders'[i]] = "WATISEND"
    <3>1. senders'[i] = senders[i + 1] /\ i + 1 \in 1 .. Len(senders) /\ i + 1 # 1 /\ 1 \in 1 .. Len(senders)
      BY <1>0, <2>1, <2>2
    <3>2. senders[i + 1] # t
      BY <1>0, <1>1, <3>1
    <3>3. QED
      BY <1>0, <1>2, <3>1, <3>2
  <2>4. ASSUME NEW i \in 1 .. Len(senders'), NEW j \in 1 .. Len(senders'), senders'[i] = senders'[j]
        PROVE  i = j
    <3>1. senders[i + 1] = senders[j + 1] /\ i + 1 \in 1 .. Len(senders) /\ j + 1 \in 1 .. Len(senders)
      BY <2>1, <2>2, <2>4
    <3>2. i + 1 = j + 1
      BY <1>0, <3>1
    <3>3. QED
      BY <3>2
  <2>5. QED
    BY <2>3, <2>4 DEF SendersWait
<1>4. OneInHand'
  BY <1>1, <1>2 DEF NameInvariant, OneInHand
<1>5. TableKept' /\ AnswersKept'
  BY <1>2 DEF NameInvariant, TableKept, AnswersKept
<1>6. KnownKept'
  BY <1>1, <1>2 DEF NameInvariant, KnownKept
<1>7. QED
  BY <1>3, <1>4, <1>5, <1>6 DEF NameInvariant

LEMMA SendKeeps ==
  ASSUME NameInvariant, TypeOK', NEW c \in Clients, Send(c)
  PROVE  NameInvariant'
<1>1. /\ state[c] = "sending"
      /\ UNCHANGED <<used, data, server, tid, msg, target, buffer, ret, registered, answers, known>>
      /\ \A u \in Clients : u # c => state'[u] = state[u]
      /\ IF target[c] = ServerTid THEN senders' = Append(senders, c) /\ state'[c] = "WATISEND"
         ELSE senders' = senders /\ state'[c] = "stray"
  BY DEF Send, tableVars, serverVars, NameInvariant, TypeOK
<1>2. /\ senders \in Seq(Clients) /\ Len(senders) \in Nat
      /\ \A i \in 1 .. Len(senders) : senders[i] \in Clients /\ state[senders[i]] = "WATISEND"
      /\ \A i \in 1 .. Len(senders) : senders[i] # c
      /\ \A i, j \in 1 .. Len(senders) : senders[i] = senders[j] => i = j
  <2>1. senders \in Seq(Clients)
    BY DEF NameInvariant, TypeOK
  <2>2. Len(senders) \in Nat /\ \A i \in 1 .. Len(senders) : senders[i] \in Clients
    BY <2>1, LenProperties, ElementOfSeq
  <2>3. QED
    BY <1>1, <2>1, <2>2 DEF NameInvariant, SendersWait
<1>3. SendersWait'
  <2>1. CASE target[c] = ServerTid
    <3>1. /\ Len(senders') = Len(senders) + 1 /\ senders'[Len(senders) + 1] = c
          /\ \A i \in 1 .. Len(senders) : senders'[i] = senders[i]
      BY <1>1, <1>2, <2>1, AppendProperties
    <3>2. \A i \in 1 .. Len(senders') : i \in 1 .. Len(senders) \/ i = Len(senders) + 1
      BY <1>2, <3>1
    <3>3. ASSUME NEW i \in 1 .. Len(senders') PROVE state'[senders'[i]] = "WATISEND"
      BY <1>1, <1>2, <2>1, <3>1, <3>2
    <3>4. ASSUME NEW i \in 1 .. Len(senders'), NEW j \in 1 .. Len(senders'), senders'[i] = senders'[j]
          PROVE  i = j
      BY <1>2, <3>1, <3>2, <3>4
    <3>5. QED
      BY <3>3, <3>4 DEF SendersWait
  <2>2. CASE target[c] # ServerTid
    BY <1>1, <1>2, <2>2 DEF SendersWait
  <2>3. QED
    BY <2>1, <2>2
<1>4. OneInHand'
  BY <1>1 DEF NameInvariant, OneInHand
<1>5. TableKept' /\ AnswersKept'
  BY <1>1 DEF NameInvariant, TableKept, AnswersKept
<1>6. KnownKept'
  BY <1>1 DEF NameInvariant, KnownKept
<1>7. QED
  BY <1>3, <1>4, <1>5, <1>6 DEF NameInvariant

\* A step of a client that touches neither the server nor its queue.
LEMMA ClientLocal ==
  ASSUME NameInvariant, NEW c \in Clients, state[c] \notin {"WATISEND", "WATIREPLY"},
         state'[c] \notin {"WATISEND", "WATIREPLY"},
         \A u \in Clients : u # c => /\ state'[u] = state[u] /\ buffer'[u] = buffer[u]
                                     /\ known'[u] = known[u] /\ ret'[u] = ret[u]
                                     /\ target'[u] = target[u],
         UNCHANGED <<used, data, server, tid, msg, senders, registered, answers>>
  PROVE  /\ SendersWait' /\ OneInHand' /\ TableKept' /\ AnswersKept'
         /\ \A u \in Clients : u # c /\ known'[u] =>
              /\ state'[u] # "stray"
              /\ state'[u] = "sending" => target'[u] = ServerTid
              /\ state'[u] \in {"sending", "WATISEND", "WATIREPLY"} =>
                   buffer'[u].action = "WHO_IS" /\ \E t \in Clients : <<buffer'[u].name, t>> \in registered'
              /\ state'[u] = "replied" => buffer'[u].action = "WHO_IS" /\ buffer'[u].tid \in Clients
              /\ state'[u] = "ready" => ret'[u] \in Clients
<1>1. SendersWait'
  <2>1. \A i \in 1 .. Len(senders) : senders[i] \in Clients
    BY ElementOfSeq DEF NameInvariant, TypeOK
  <2>2. QED
    BY <2>1 DEF NameInvariant, SendersWait
<1>2. OneInHand'
  BY DEF NameInvariant, OneInHand
<1>3. TableKept' /\ AnswersKept'
  BY DEF NameInvariant, TableKept, AnswersKept
<1>4. ASSUME NEW u \in Clients, u # c, known'[u]
      PROVE  /\ state'[u] # "stray"
             /\ state'[u] = "sending" => target'[u] = ServerTid
             /\ state'[u] \in {"sending", "WATISEND", "WATIREPLY"} =>
                  buffer'[u].action = "WHO_IS" /\ \E t \in Clients : <<buffer'[u].name, t>> \in registered'
             /\ state'[u] = "replied" => buffer'[u].action = "WHO_IS" /\ buffer'[u].tid \in Clients
             /\ state'[u] = "ready" => ret'[u] \in Clients
  BY <1>4 DEF NameInvariant, KnownKept
<1>5. QED
  BY <1>1, <1>2, <1>3, <1>4

LEMMA CallKeeps ==
  ASSUME NameInvariant, TypeOK', NEW c \in Clients, NEW a \in {"REGISTER_AS", "WHO_IS"}, Call(c, a)
  PROVE  NameInvariant'
<1>1. PICK n \in Names :
        /\ buffer' = [buffer EXCEPT ![c] = [action |-> a, name |-> n, tid |-> c]]
        /\ known' = [known EXCEPT ![c] = /\ a = "WHO_IS" /\ target'[c] = ServerTid
                                         /\ \E t \in Clients : <<n, t>> \in registered]
  BY DEF Call
<1>2. /\ state[c] = "ready" /\ state'[c] = "sending"
      /\ \A u \in Clients : u # c => /\ state'[u] = state[u] /\ buffer'[u] = buffer[u]
                                     /\ known'[u] = known[u] /\ ret'[u] = ret[u]
                                     /\ target'[u] = target[u]
      /\ UNCHANGED <<used, data, server, tid, msg, senders, registered, answers>>
  BY <1>1 DEF Call, tableVars, serverVars, NameInvariant, TypeOK
<1>3. buffer'[c].action = a /\ buffer'[c].name = n
  BY <1>1 DEF NameInvariant, TypeOK
<1>4. known'[c] => /\ a = "WHO_IS" /\ target'[c] = ServerTid
                   /\ \E t \in Clients : <<n, t>> \in registered
  BY <1>1 DEF NameInvariant, TypeOK
<1>5. KnownKept'
  BY <1>2, <1>3, <1>4, ClientLocal DEF KnownKept
<1>6. QED
  BY <1>2, <1>5, ClientLocal DEF NameInvariant

LEMMA LeaveKeeps ==
  ASSUME NameInvariant, TypeOK', NEW c \in Clients, StraySend(c) \/ StrayReply(c) \/ Return(c)
  PROVE  NameInvariant'
<1>1. /\ state[c] \in {"stray", "replied"} /\ state'[c] \in {"ready", "replied"}
      /\ \A u \in Clients : u # c => /\ state'[u] = state[u] /\ buffer'[u] = buffer[u]
                                     /\ known'[u] = known[u] /\ ret'[u] = ret[u]
                                     /\ target'[u] = target[u]
      /\ UNCHANGED <<used, data, server, tid, msg, senders, registered, answers>>
      /\ known'[c] = known[c]
      /\ state[c] = "replied" => /\ state'[c] = "ready"
                                 /\ buffer[c].action = "WHO_IS" => ret'[c] = buffer[c].tid
  BY DEF StraySend, StrayReply, Return, Leave, tableVars, serverVars, NameInvariant, TypeOK
<1>2. known[c] => /\ state[c] = "replied" /\ buffer[c].action = "WHO_IS"
                  /\ buffer[c].tid \in Clients
  BY <1>1 DEF NameInvariant, KnownKept
<1>3. known'[c] => state'[c] = "ready" /\ ret'[c] \in Clients
  BY <1>1, <1>2
<1>4. KnownKept'
  BY <1>1, <1>3, ClientLocal DEF KnownKept
<1>5. QED
  BY <1>1, <1>4, ClientLocal DEF NameInvariant

\* A message is answered.
LEMMA AnsweredKeeps ==
  ASSUME NameInvariant, server = "handle", NEW m, Reply(m)
  PROVE  /\ SendersWait' /\ OneInHand'
         /\ tid \in Clients /\ buffer'[tid] = m /\ state'[tid] = "replied"
         /\ \A u \in Clients : u # tid => state'[u] = state[u] /\ buffer'[u] = buffer[u]
         /\ UNCHANGED <<target, ret, known>>
<1>1. /\ tid \in Clients /\ state[tid] = "WATIREPLY"
      /\ \A u \in Clients : state[u] = "WATIREPLY" => u = tid
  BY DEF NameInvariant, OneInHand
<1>2. /\ server' = "receive" /\ senders' = senders /\ state'[tid] = "replied"
      /\ \A u \in Clients : u # tid => state'[u] = state[u] /\ buffer'[u] = buffer[u]
      /\ buffer'[tid] = m /\ UNCHANGED <<target, ret, known>>
  BY <1>1 DEF Reply, NameInvariant, TypeOK
<1>3. \A u \in Clients : u # tid => state'[u] # "WATIREPLY"
  BY <1>1, <1>2
<1>4. SendersWait'
  <2>1. \A i \in 1 .. Len(senders) : senders[i] \in Clients /\ senders[i] # tid
    BY <1>1, ElementOfSeq DEF NameInvariant, TypeOK, SendersWait
  <2>2. QED
    BY <1>2, <2>1 DEF NameInvariant, SendersWait
<1>5. OneInHand'
  BY <1>1, <1>2, <1>3 DEF OneInHand
<1>6. QED
  BY <1>1, <1>2, <1>4, <1>5

\* The first task to register a name of a slot keeps it.
LEMMA RegisterKeeps ==
  ASSUME NameInvariant, TypeOK', name_server_REGISTER_AS
  PROVE  NameInvariant'
<1>1. /\ server = "handle" /\ Reply(msg) /\ hash_table_add(msg.name, tid) /\ answers' = answers
      /\ registered' = registered \cup {<<msg.name, tid>>} /\ msg.action = "REGISTER_AS"
  BY DEF name_server_REGISTER_AS
<1>2. /\ SendersWait' /\ OneInHand' /\ tid \in Clients /\ buffer'[tid] = msg
      /\ state'[tid] = "replied" /\ UNCHANGED <<target, ret, known>>
      /\ \A u \in Clients : u # tid => state'[u] = state[u] /\ buffer'[u] = buffer[u]
  BY <1>1, AnsweredKeeps
<1>3. PICK s \in Slots : s = Slot[msg.name]
  BY Typed DEF NameInvariant, TypeOK
<1>4. /\ \A z \in Slots : z # s => used'[z] = used[z] /\ data'[z] = data[z]
      /\ used[s] => data'[s] = data[s]
      /\ ~used[s] => data'[s] = tid
      /\ used'[s]
  BY <1>1, <1>3 DEF hash_table_add, NameInvariant, TypeOK
<1>5. /\ \A r \in registered : Slot[r[1]] \in Slots
      /\ \A a \in answers : Slot[a[1]] \in Slots
  BY Typed DEF NameInvariant, TypeOK
<1>6. TableKept'
  <2>1. ASSUME NEW z \in Slots, used'[z]
        PROVE  \E r \in registered' : Slot[r[1]] = z /\ r[2] = data'[z]
    <3>1. CASE z = s /\ ~used[s]
      <4>1. <<msg.name, tid>> \in registered'
        BY <1>1
      <4>2. QED
        BY <1>3, <1>4, <3>1, <4>1
    <3>2. CASE used[z]
      <4>1. PICK r \in registered : Slot[r[1]] = z /\ r[2] = data[z]
        BY <3>2 DEF NameInvariant, TableKept
      <4>2. data'[z] = data[z] /\ r \in registered'
        BY <1>1, <1>4, <3>2
      <4>3. QED
        BY <4>1, <4>2
    <3>3. QED
      BY <1>4, <2>1, <3>1, <3>2
  <2>2. \A r \in registered' : used'[Slot[r[1]]]
    <3>1. \A r \in registered : used'[Slot[r[1]]]
      BY <1>4, <1>5 DEF NameInvariant, TableKept
    <3>2. QED
      BY <1>1, <1>3, <1>4, <3>1
  <2>3. QED
    BY <2>1, <2>2 DEF TableKept
<1>7. AnswersKept'
  BY <1>1, <1>4, <1>5 DEF NameInvariant, AnswersKept
<1>8. KnownKept'
  <2>1. PICK c \in Clients : c = tid
    BY <1>2
  <2>2. ~known[c]
    BY <1>1, <2>1 DEF NameInvariant, OneInHand, KnownKept
  <2>3. QED
    BY <1>1, <1>2, <2>1, <2>2 DEF NameInvariant, KnownKept
<1>9. QED
  BY <1>2, <1>6, <1>7, <1>8 DEF NameInvariant

\* WhoIs is answered with what the slot holds.
LEMMA WhoIsKeeps ==
  ASSUME NameInvariant, TypeOK', name_server_WHO_IS
  PROVE  NameInvariant'
<1>1. PICK answer : answer = IF hash_table_has(msg.name) THEN hash_table_get(msg.name) ELSE NotFound
  OBVIOUS
<1>2. /\ server = "handle" /\ Reply([msg EXCEPT !.tid = answer]) /\ msg.action = "WHO_IS"
      /\ answers' = answers \cup ({<<msg.name, answer>>} \ {<<msg.name, NotFound>>})
      /\ UNCHANGED <<used, data, registered>>
  BY <1>1 DEF name_server_WHO_IS, tableVars
<1>3. /\ Slot[msg.name] \in Slots /\ msg.name \in Names /\ msg \in NameServerMsg
      /\ used[Slot[msg.name]] => answer = data[Slot[msg.name]] /\ answer \in Clients
      /\ ~used[Slot[msg.name]] => answer = NotFound
      /\ answer \in Tids \cup {NotFound}
  BY <1>1, <1>2, AnswerIs
<1>4. /\ SendersWait' /\ OneInHand' /\ tid \in Clients /\ buffer'[tid] = [msg EXCEPT !.tid = answer]
      /\ state'[tid] = "replied" /\ UNCHANGED <<target, ret, known>>
      /\ \A u \in Clients : u # tid => state'[u] = state[u] /\ buffer'[u] = buffer[u]
  BY <1>2, AnsweredKeeps
<1>5. TableKept'
  BY <1>2 DEF NameInvariant, TableKept
<1>6. AnswersKept'
  <2>1. ASSUME NEW a \in answers', a \notin answers
        PROVE  used[Slot[a[1]]] /\ a[2] = data[Slot[a[1]]]
    <3>1. a = <<msg.name, answer>> /\ answer # NotFound
      BY <1>2, <2>1
    <3>2. QED
      BY <1>3, <3>1
  <2>2. QED
    BY <1>2, <2>1 DEF NameInvariant, AnswersKept
<1>7. KnownKept'
  <2>1. PICK c \in Clients : c = tid
    BY <1>4
  <2>2. buffer'[c].action = "WHO_IS" /\ buffer'[c].tid = answer
    <3>1. /\ [msg EXCEPT !.tid = answer].action = msg.action
          /\ [msg EXCEPT !.tid = answer].tid = answer
      BY <1>3 DEF NameServerMsg
    <3>2. buffer'[c] = [msg EXCEPT !.tid = answer]
      BY <1>4, <2>1
    <3>3. QED
      BY <1>2, <3>1, <3>2
  <2>3. known[c] => answer \in Clients
    <3>1. msg = buffer[c] /\ state[c] = "WATIREPLY"
      BY <1>2, <2>1 DEF NameInvariant, OneInHand
    <3>2. ASSUME known[c] PROVE \E t \in Clients : <<msg.name, t>> \in registered
      BY <3>1, <3>2 DEF NameInvariant, KnownKept
    <3>3. \A t \in Clients : <<msg.name, t>> \in registered => used[Slot[msg.name]]
      BY DEF NameInvariant, TableKept
    <3>4. QED
      BY <1>3, <3>2, <3>3
  <2>4. QED
    BY <1>2, <1>4, <2>1, <2>2, <2>3 DEF NameInvariant, KnownKept
<1>8. QED
  BY <1>4, <1>5, <1>6, <1>7 DEF NameInvariant

LEMMA NextNames == NameInvariant /\ [Next]_vars => NameInvariant'
<1> SUFFICES ASSUME NameInvariant, [Next]_vars PROVE NameInvariant'
  OBVIOUS
<1>1. TypeOK'
  BY NextTyped
<1>2. CASE UNCHANGED vars
  BY <1>1, <1>2 DEF vars, tableVars, serverVars, NameInvariant, SendersWait, OneInHand,
     TableKept, AnswersKept, KnownKept
<1>3. CASE name_server_start
  BY <1>1, <1>3 DEF name_server_start, tableVars, NameInvariant, SendersWait, OneInHand,
     TableKept, AnswersKept, KnownKept
<1>4. ASSUME NEW c \in Clients, Client(c) PROVE NameInvariant'
  BY <1>1, <1>4, CallKeeps, SendKeeps, LeaveKeeps DEF Client, RegisterAs, WhoIs
<1>5. QED
  BY <1>1, <1>2, <1>3, <1>4, ReceiveKeeps, RegisterKeeps, WhoIsKeeps DEF Next, Server

LEMMA NamesInvariant == Spec => []NameInvariant
BY InitNames, NextNames, PTL DEF Spec

-----------------------------------------------------------------------------
\* Whatever names collide and whoever registers when, WhoIs is answered only
\* with a task that registered a name of the slot, and every time with the same.
THEOREM NamesHonest == Spec => []AnswersHonest
<1>1. ASSUME NameInvariant PROVE AnswersHonest
  <2>1. ASSUME NEW a \in answers
        PROVE  \E r \in registered :
                 /\ r[2] = a[2] /\ Slot[r[1]] = Slot[a[1]]
                 /\ (\A q \in registered : Slot[q[1]] = Slot[a[1]] => q[1] = a[1]) => r[1] = a[1]
    <3>1. Slot[a[1]] \in Slots /\ used[Slot[a[1]]] /\ a[2] = data[Slot[a[1]]]
      BY <1>1, Typed DEF NameInvariant, TypeOK, AnswersKept
    <3>2. PICK r \in registered : Slot[r[1]] = Slot[a[1]] /\ r[2] = data[Slot[a[1]]]
      BY <1>1, <3>1 DEF NameInvariant, TableKept
    <3>3. QED
      BY <3>1, <3>2
  <2>2. ASSUME NEW a \in answers, NEW b \in answers, a[1] = b[1] PROVE a[2] = b[2]
    BY <1>1, <2>2 DEF NameInvariant, AnswersKept
  <2>3. QED
    BY <2>1, <2>2 DEF AnswersHonest
<1>2. QED
  BY <1>1, NamesInvariant, PTL

\* A WhoIs sent to the server for a name that is registered finds a task,
\* whatever other calls the server handles in between.
THEOREM NamesFound == Spec => []RegisteredIsFound
<1>1. NameInvariant => RegisteredIsFound
  BY DEF NameInvariant, KnownKept, RegisteredIsFound
<1>2. QED
  BY <1>1, NamesInvariant, PTL
=============================================================================
