-------------------------- MODULE RpsServerProofs --------------------------
(***************************************************************************)
(* Proofs about the rock-paper-scissors server, for any number of players, *)
(* of rounds (at least one) and of chunks (at least three).                *)
(*                                                                         *)
(* The two players of a pair run at their own speed: one may have read its *)
(* answer and sent its next move before the server has answered the other. *)
(* What stays equal is the number of rounds decided (Decided), because one *)
(* step of the server decides a round for both.  From it follow that no    *)
(* player quits while the other still has a round to play, that the move   *)
(* found in the table is one of the same round, and that the results agree.*)
(***************************************************************************)
EXTENDS RpsServer, FiniteSetTheorems, SequenceTheorems, TLAPS

-----------------------------------------------------------------------------
(* The inductive invariant.                                                *)

Members(s) == {s[i] : i \in DOMAIN s}

\* The handler still has to reply to p; p waits to be paired.
Answering(p) == \E a \in Members(out) : a.to = p
Queued(p) == p \in Members(signup_queue)

\* p has sent a move that is not decided, because the server has not received
\* it or because the opponent's is missing.
Pending(p) ==
  /\ msg[p].action = "PLAY"
  /\ state[p] = "WATISEND" \/ (state[p] = "WATIREPLY" /\ ~Answering(p))

\* The rounds of p that are decided.
Decided(p) == IF Pending(p) THEN round[p] - 1 ELSE round[p]

\* p has been told, or is about to be told, that it plays against q.
Partner(p, q) ==
  \/ reply[p].opponent = q
  \/ \E a \in Members(out) : a.to = p /\ a.answer.opponent = q

Unpaired(p) ==
  \/ state[p] = "start"
  \/ msg[p].action = "SIGNUP" /\ state[p] = "WATISEND"
  \/ Queued(p)

Verdict(m, n) ==
  CASE <<m, n>> \in Beats -> "WON" [] <<n, m>> \in Beats -> "LOST" [] OTHER -> "TIE"

\* p has a result of its last move, or the handler is about to give it one.
Reported(p) == msg[p].action = "PLAY" /\ (state[p] = "replied" \/ Answering(p))
Result(p, r) ==
  \/ state[p] = "replied" /\ reply[p].play_result = r
  \/ \E a \in Members(out) : a.to = p /\ a.answer.play_result = r

\* The sender queue holds the players that wait to be received, once.
SendersKept ==
  /\ \A i, j \in DOMAIN senders : senders[i] = senders[j] => i = j
  /\ \A p \in Players : state[p] = "WATISEND" <=> p \in Members(senders)

\* The handler's own state between two messages.
HandlerKept ==
  /\ server \in {"receive", "reply"} /\ (server = "receive" <=> out = <<>>)
  /\ server = "receive" => over = {} /\ held = 0
  /\ Len(signup_queue) <= 1
  /\ \A i, j \in DOMAIN out : out[i].to = out[j].to => i = j
  /\ \A a \in Members(out) : a.answer.opponent \in Players

\* How a player's state, its message and what the server expects go together.
StageKept(p) ==
  /\ msg[p].action = "none" <=> state[p] = "start"
  /\ state[p] = "exited" => msg[p].action = "QUIT"
  /\ msg[p].action \in {"PLAY", "QUIT"} =>
       msg[p].opponent = reply[p].opponent /\ reply[p].opponent \in Players
  /\ Answering(p) => state[p] = "WATIREPLY"
  /\ Queued(p) <=> state[p] = "WATIREPLY" /\ msg[p].action = "SIGNUP" /\ ~Answering(p)
  /\ state[p] = "WATIREPLY" /\ msg[p].action = "QUIT" => Answering(p)
MoveKept(p) ==
  /\ msg[p].action \in {"none", "SIGNUP"} => round[p] = 0
  /\ msg[p].action = "PLAY" => round[p] > 0 /\ msg[p].play_action \in Moves
  /\ msg[p].action = "QUIT" => round[p] = ROUNDS
StagesKept == \A p \in Players : StageKept(p) /\ MoveKept(p)

\* What the server's table holds of a player, unless its move is about to be
\* forgotten.
Entry(p) ==
  IF \/ msg[p].action = "none"
     \/ msg[p].action = "SIGNUP" /\ state[p] = "WATISEND"
     \/ msg[p].action = "QUIT" /\ state[p] # "WATISEND"
  THEN ABSENT
  ELSE IF Pending(p) /\ state[p] = "WATIREPLY" THEN msg[p].play_action ELSE UNKNOWN
TableKept == \A p \in Players : p \notin over => play_actions[p] = Entry(p)

\* Whose moves are about to be forgotten: both players of the round being
\* answered, neither of which the server has heard of since.
OverKept ==
  \A p \in Players :
    /\ p \in over => /\ msg[p].action \in {"PLAY", "QUIT"}
                     /\ msg[p].action = "QUIT" => state[p] = "WATISEND"
                     /\ state[p] = "WATIREPLY" => Answering(p)
    /\ Answering(p) /\ msg[p].action = "PLAY" => p \in over /\ reply[p].opponent \in over

\* Partners are paired one to one and have the same rounds decided.
PartnersKept ==
  \A p, q \in Players : Partner(p, q) =>
    /\ p # q /\ Partner(q, p)
    /\ \A r \in Players : Partner(p, r) => r = q
    /\ Decided(p) = Decided(q)

PairedKept ==
  \A p \in Players : Unpaired(p) <=> \A q \in Players : ~Partner(p, q)

VerdictsKept ==
  \A p, q \in Players :
    Partner(p, q) /\ Reported(p) /\ Reported(q) =>
      Result(p, Verdict(msg[p].play_action, msg[q].play_action))

RpsInvariant ==
  /\ TypeOK /\ SendersKept /\ HandlerKept /\ StagesKept /\ TableKept /\ OverKept
  /\ PartnersKept /\ PairedKept /\ VerdictsKept /\ ChunksAccounted

-----------------------------------------------------------------------------
(* Sequences as the sets of their members.                                 *)

LEMMA AppendMembers ==
  ASSUME NEW S, NEW s \in Seq(S), NEW x \in S
  PROVE  /\ Append(s, x) \in Seq(S) /\ Members(Append(s, x)) = Members(s) \cup {x}
         /\ /\ \A i, j \in DOMAIN s : s[i] = s[j] => i = j
            /\ x \notin Members(s)
            => \A i, j \in DOMAIN Append(s, x) : Append(s, x)[i] = Append(s, x)[j] => i = j
<1>1. /\ Len(s) \in Nat /\ DOMAIN s = 1 .. Len(s) /\ Append(s, x) \in Seq(S)
      /\ Len(Append(s, x)) = Len(s) + 1 /\ DOMAIN Append(s, x) = 1 .. Len(s) + 1
      /\ \A i \in 1 .. Len(s) + 1 : Append(s, x)[i] = IF i = Len(s) + 1 THEN x ELSE s[i]
  OBVIOUS
<1>2. Members(Append(s, x)) = Members(s) \cup {x}
  <2>1. Len(s) + 1 \in 1 .. Len(s) + 1 /\ \A i \in 1 .. Len(s) : i \in 1 .. Len(s) + 1 /\ i # Len(s) + 1
    BY <1>1
  <2>2. \A i \in 1 .. Len(s) + 1 : i # Len(s) + 1 => i \in 1 .. Len(s)
    BY <1>1
  <2>3. QED
    BY <1>1, <2>1, <2>2, Zenon DEF Members
<1>3. QED
  BY <1>1, <1>2 DEF Members

LEMMA TailFacts ==
  ASSUME NEW S, NEW s \in Seq(S), s # <<>>
  PROVE  /\ Tail(s) \in Seq(S) /\ Head(s) \in S /\ Head(s) = s[1] /\ Len(s) \in Nat \ {0}
         /\ DOMAIN s = 1 .. Len(s) /\ DOMAIN Tail(s) = 1 .. Len(s) - 1 /\ Len(Tail(s)) = Len(s) - 1
         /\ \A i \in 1 .. Len(s) - 1 : Tail(s)[i] = s[i + 1] /\ i + 1 \in DOMAIN s
OBVIOUS

LEMMA TailMembers ==
  ASSUME NEW S, NEW s \in Seq(S), s # <<>>
  PROVE  /\ Head(s) \in Members(s) /\ Members(Tail(s)) \subseteq Members(s)
         /\ Members(s) = Members(Tail(s)) \cup {Head(s)}
<1>1. /\ DOMAIN s = 1 .. Len(s) /\ DOMAIN Tail(s) = 1 .. Len(s) - 1 /\ Len(s) \in Nat \ {0}
      /\ Head(s) = s[1] /\ 1 \in 1 .. Len(s)
      /\ \A i \in 1 .. Len(s) - 1 : Tail(s)[i] = s[i + 1] /\ i + 1 \in DOMAIN s
  BY TailFacts
<1>2. \A i \in 1 .. Len(s) : i # 1 => i - 1 \in 1 .. Len(s) - 1 /\ (i - 1) + 1 = i
  BY <1>1
<1>3. \A x \in Members(Tail(s)) : x \in Members(s)
  BY <1>1, Zenon DEF Members
<1>4. Head(s) \in Members(s)
  BY <1>1, Zenon DEF Members
<1>5. \A x \in Members(s) : x = Head(s) \/ x \in Members(Tail(s))
  <2> SUFFICES ASSUME NEW i \in 1 .. Len(s), i # 1
               PROVE  s[i] \in Members(Tail(s))
    BY <1>1, Zenon DEF Members
  <2>1. PICK k \in 1 .. Len(s) - 1 : k + 1 = i
    BY <1>2
  <2>2. QED
    BY <1>1, <2>1, Zenon DEF Members
<1>6. QED
  BY <1>3, <1>4, <1>5, Zenon

LEMMA TailDistinct ==
  ASSUME NEW S, NEW s \in Seq(S), s # <<>>,
         \A i, j \in DOMAIN s : s[i] = s[j] => i = j
  PROVE  /\ Head(s) \notin Members(Tail(s))
         /\ \A i, j \in DOMAIN Tail(s) : Tail(s)[i] = Tail(s)[j] => i = j
<1>1. /\ DOMAIN s = 1 .. Len(s) /\ DOMAIN Tail(s) = 1 .. Len(s) - 1 /\ Len(s) \in Nat \ {0}
      /\ Head(s) = s[1] /\ 1 \in 1 .. Len(s)
      /\ \A i \in 1 .. Len(s) - 1 : Tail(s)[i] = s[i + 1] /\ i + 1 \in DOMAIN s
  BY TailFacts
<1>2. \A i, j \in DOMAIN Tail(s) : Tail(s)[i] = Tail(s)[j] => i = j
  BY <1>1
<1>3. \A i \in DOMAIN Tail(s) : Tail(s)[i] # Head(s)
  BY <1>1
<1>4. QED
  BY <1>2, <1>3, Zenon DEF Members

LEMMA AppendFacts ==
  ASSUME NEW S, NEW s \in Seq(S), NEW x \in S
  PROVE  /\ Append(s, x) \in Seq(S) /\ Len(Append(s, x)) = Len(s) + 1
         /\ \A i \in 1 .. Len(s) + 1 : Append(s, x)[i] = IF i = Len(s) + 1 THEN x ELSE s[i]
OBVIOUS

LEMMA AppendSecond ==
  ASSUME NEW S, NEW a \in S, NEW b \in S
  PROVE  Append(<<a>>, b) = <<a, b>>
<1>1. PICK s \in Seq(S) : s = <<a>> /\ Len(s) = 1 /\ s[1] = a
  <2>1. <<a>> \in Seq(S) /\ Len(<<a>>) = 1 /\ <<a>>[1] = a
    OBVIOUS
  <2>2. QED
    BY <2>1, Zenon
<1>2. PICK t \in Seq(S) : /\ t = Append(s, b) /\ Len(t) = Len(s) + 1
                         /\ \A i \in 1 .. Len(s) + 1 : t[i] = IF i = Len(s) + 1 THEN b ELSE s[i]
  <2>1. /\ Append(s, b) \in Seq(S) /\ Len(Append(s, b)) = Len(s) + 1
        /\ \A i \in 1 .. Len(s) + 1 : Append(s, b)[i] = IF i = Len(s) + 1 THEN b ELSE s[i]
    BY AppendFacts
  <2>2. QED
    BY <2>1, Zenon
<1>3. PICK u \in Seq(S) : u = <<a, b>> /\ Len(u) = 2 /\ u[1] = a /\ u[2] = b
  <2>1. <<a, b>> \in Seq(S) /\ Len(<<a, b>>) = 2 /\ <<a, b>>[1] = a /\ <<a, b>>[2] = b
    OBVIOUS
  <2>2. QED
    BY <2>1, Zenon
<1>4. Len(t) = 2 /\ t[1] = a /\ t[2] = b
  BY <1>1, <1>2
<1>5. t = u
  BY <1>3, <1>4, SeqEqual
<1>6. QED
  BY <1>1, <1>2, <1>3, <1>5, Zenon

LEMMA FewMembers ==
  /\ Members(<<>>) = {}
  /\ \A a : Members(<<a>>) = {a}
  /\ \A a, b : Members(<<a, b>>) = {a, b}
BY DEF Members

\* The replies after the first go to the other receivers.
LEMMA RepliesLeft ==
  ASSUME TypeOK, HandlerKept, out # <<>>
  PROVE  /\ Head(out) \in Members(out)
         /\ Members(out) = Members(Tail(out)) \cup {Head(out)}
         /\ \A a \in Members(Tail(out)) : a.to # Head(out).to
         /\ \A a \in Members(out) : a.to = Head(out).to => a = Head(out)
         /\ \A i, j \in DOMAIN Tail(out) : Tail(out)[i].to = Tail(out)[j].to => i = j
         /\ Len(out) = 1 <=> Tail(out) = <<>>
         /\ Head(out) \in [to : Players, answer : Answer]
         /\ Tail(out) \in Seq([to : Players, answer : Answer])
<1>1. PICK R : R = [to : Players, answer : Answer]
  OBVIOUS
<1>2. out \in Seq(R)
  BY <1>1 DEF TypeOK
<1>3. /\ Head(out) \in Members(out) /\ Members(out) = Members(Tail(out)) \cup {Head(out)}
  BY <1>2, TailMembers
<1>4. /\ DOMAIN out = 1 .. Len(out) /\ DOMAIN Tail(out) = 1 .. Len(out) - 1 /\ Len(out) \in Nat \ {0}
      /\ Head(out) = out[1] /\ 1 \in 1 .. Len(out) /\ Tail(out) \in Seq(R) /\ Head(out) \in R
      /\ \A i \in 1 .. Len(out) - 1 : Tail(out)[i] = out[i + 1] /\ i + 1 \in DOMAIN out
      /\ Len(Tail(out)) = Len(out) - 1
  BY <1>2, TailFacts
<1>5. \A i, j \in DOMAIN out : out[i].to = out[j].to => i = j
  BY DEF HandlerKept
<1>6. \A i \in DOMAIN Tail(out) : Tail(out)[i].to # Head(out).to
  BY <1>4, <1>5
<1>7. \A i, j \in DOMAIN Tail(out) : Tail(out)[i].to = Tail(out)[j].to => i = j
  BY <1>4, <1>5
<1>8. \A a \in Members(Tail(out)) : a.to # Head(out).to
  BY <1>6, Zenon DEF Members
<1>9. Len(out) = 1 <=> Tail(out) = <<>>
  BY <1>4
<1>10. QED
  BY <1>1, <1>3, <1>4, <1>7, <1>8, <1>9, Zenon

-----------------------------------------------------------------------------
(* Initial states, and the clients' steps.                                 *)

LEMMA Constants ==
  /\ ROUNDS \in Nat \ {0} /\ CHUNKS \in Nat /\ CHUNKS >= 3
  /\ \A m \in Moves : m \in {2, 3, 4} /\ m # ABSENT /\ m # UNKNOWN
BY RoundsAssumption, MovesAssumption, PoolAssumption
   DEF ABSENT, UNKNOWN, ROCK, PAPER, SCISSORS

LEMMA InitRps ==
  ASSUME Init
  PROVE  RpsInvariant
<1>1. TypeOK
  BY Constants DEF Init, TypeOK, NoRequest, NoAnswer, Request, Answer, ABSENT, SCISSORS
<1>2. Members(out) = {} /\ Members(senders) = {} /\ Members(signup_queue) = {}
  BY FewMembers DEF Init
<1>3. SendersKept
  BY <1>2 DEF Init, SendersKept
<1>4. HandlerKept
  BY <1>2 DEF Init, HandlerKept
<1>5. StagesKept
  BY <1>2 DEF Init, StagesKept, StageKept, MoveKept, Answering, Queued, NoRequest, NoAnswer
<1>6. TableKept /\ OverKept
  BY <1>2 DEF Init, TableKept, OverKept, Entry, Answering, NoRequest
<1>7. PartnersKept /\ PairedKept /\ VerdictsKept
  BY <1>2, PlayersAssumption DEF Init, PartnersKept, PairedKept, VerdictsKept, Partner, Unpaired, NoAnswer
<1>8. ChunksAccounted
  BY Constants DEF Init, ChunksAccounted
<1>9. QED
  BY <1>1, <1>3, <1>4, <1>5, <1>6, <1>7, <1>8 DEF RpsInvariant

\* Who is expected by the server and who is whose partner depend on the
\* server's variables and the opponents only.
LEMMA SameServer ==
  ASSUME serverVars' = serverVars, \A q \in Players : reply'[q].opponent = reply[q].opponent
  PROVE  /\ \A q \in Players : Answering(q)' = Answering(q) /\ Queued(q)' = Queued(q)
         /\ \A q, r \in Players : Partner(q, r)' = Partner(q, r)
         /\ Members(out)' = Members(out)
<1>1. out' = out /\ signup_queue' = signup_queue
  BY DEF serverVars
<1>2. Members(out)' = Members(out) /\ Members(signup_queue)' = Members(signup_queue)
  BY <1>1 DEF Members
<1>3. \A q \in Players : Answering(q)' = Answering(q) /\ Queued(q)' = Queued(q)
  BY <1>2 DEF Answering, Queued
<1>4. \A q, r \in Players : Partner(q, r)' = Partner(q, r)
  BY <1>2 DEF Partner
<1>5. QED
  BY <1>2, <1>3, <1>4

\* A client's Send, by what it sends.
Sends(p, m) ==
  /\ Send(p, m) /\ m \in Request
  /\ \/ state[p] = "start" /\ m.action = "SIGNUP" /\ round' = round
     \/ /\ state[p] = "replied" /\ msg[p].action # "QUIT" /\ round[p] < ROUNDS
        /\ m.action = "PLAY" /\ m.play_action \in Moves /\ m.opponent = reply[p].opponent
        /\ round' = [round EXCEPT ![p] = @ + 1]
     \/ /\ state[p] = "replied" /\ msg[p].action # "QUIT" /\ round[p] = ROUNDS
        /\ m.action = "QUIT" /\ m.opponent = msg[p].opponent /\ round' = round

LEMMA SendFacts ==
  ASSUME TypeOK, NEW p \in Players, NEW m, Sends(p, m)
  PROVE  /\ serverVars' = serverVars /\ senders' = Append(senders, p)
         /\ \A q \in Players : state'[q] = IF q = p THEN "WATISEND" ELSE state[q]
         /\ \A q \in Players : msg'[q] = IF q = p THEN m ELSE msg[q]
         /\ \A q \in Players : reply'[q].opponent = reply[q].opponent
         /\ \A q \in Players : q # p => reply'[q] = reply[q] /\ round'[q] = round[q]
         /\ round'[p] = IF m.action = "PLAY" THEN round[p] + 1 ELSE round[p]
         /\ TypeOK'
<1>1. /\ senders \in Seq(Players) /\ reply \in [Players -> Answer] /\ msg \in [Players -> Request]
      /\ round \in [Players -> 0 .. ROUNDS] /\ m \in Request /\ senders' = Append(senders, p)
      /\ state \in [Players -> {"start", "WATISEND", "WATIREPLY", "replied", "exited"}]
      /\ msg' = [msg EXCEPT ![p] = m] /\ reply' = [reply EXCEPT ![p].play_result = "none"]
      /\ state' = [state EXCEPT ![p] = "WATISEND"] /\ serverVars' = serverVars
  BY DEF TypeOK, Sends, Send
<1>2. reply' \in [Players -> Answer] /\ \A q \in Players : reply'[q].opponent = reply[q].opponent
  BY <1>1 DEF Answer
<1>3. /\ round' \in [Players -> 0 .. ROUNDS]
      /\ \A q \in Players : q # p => round'[q] = round[q]
      /\ round'[p] = IF m.action = "PLAY" THEN round[p] + 1 ELSE round[p]
  <2>1. CASE m.action = "PLAY"
    <3>1. round' = [round EXCEPT ![p] = @ + 1] /\ round[p] < ROUNDS
      BY <2>1 DEF Sends
    <3>2. round[p] + 1 \in 0 .. ROUNDS
      BY <1>1, <3>1, Constants
    <3>3. QED
      BY <1>1, <2>1, <3>1, <3>2
  <2>2. CASE m.action # "PLAY"
    BY <1>1, <2>2 DEF Sends
  <2>3. QED
    BY <2>1, <2>2
<1>4. senders' \in Seq(Players)
  BY <1>1, AppendMembers
<1>5. TypeOK'
  BY <1>1, <1>2, <1>3, <1>4 DEF TypeOK, serverVars
<1>6. QED
  BY <1>1, <1>2, <1>3, <1>5

LEMMA SendKept ==
  ASSUME RpsInvariant, NEW p \in Players, NEW m, Sends(p, m)
  PROVE  RpsInvariant'
<1>1. /\ TypeOK /\ SendersKept /\ HandlerKept /\ StagesKept /\ TableKept /\ OverKept
      /\ PartnersKept /\ PairedKept /\ VerdictsKept /\ ChunksAccounted
  BY DEF RpsInvariant
<1>2. /\ serverVars' = serverVars /\ senders' = Append(senders, p) /\ TypeOK'
      /\ \A q \in Players : state'[q] = IF q = p THEN "WATISEND" ELSE state[q]
      /\ \A q \in Players : msg'[q] = IF q = p THEN m ELSE msg[q]
      /\ \A q \in Players : reply'[q].opponent = reply[q].opponent
      /\ \A q \in Players : q # p => reply'[q] = reply[q] /\ round'[q] = round[q]
      /\ round'[p] = IF m.action = "PLAY" THEN round[p] + 1 ELSE round[p]
  BY <1>1, SendFacts
<1>3. /\ signup_queue' = signup_queue /\ play_actions' = play_actions /\ unused_top' = unused_top
      /\ server' = server /\ out' = out /\ held' = held /\ over' = over
  BY <1>2 DEF serverVars
<1>4. /\ \A q \in Players : Answering(q)' = Answering(q) /\ Queued(q)' = Queued(q)
      /\ \A q, r \in Players : Partner(q, r)' = Partner(q, r)
      /\ Members(out)' = Members(out)
  BY <1>2, SameServer
<1>5. /\ state[p] \in {"start", "replied"} /\ ~Answering(p) /\ ~Queued(p)
      /\ state[p] = "start" => msg[p].action = "none" /\ m.action = "SIGNUP" /\ round[p] = 0
      /\ state[p] = "replied" => msg[p].action \in {"SIGNUP", "PLAY"} /\ m.action \in {"PLAY", "QUIT"}
      /\ m.action = "QUIT" => msg[p].action = "PLAY" /\ m.opponent = msg[p].opponent /\ round[p] = ROUNDS
      /\ m.action = "PLAY" => m.play_action \in Moves /\ m.opponent = reply[p].opponent
  <2>1. msg[p].action \in {"none", "SIGNUP", "PLAY", "QUIT"}
    BY <1>1 DEF TypeOK, Request
  <2>2. QED
    BY <1>1, <2>1, Constants DEF Sends, StagesKept, StageKept, MoveKept
<1>6. state[p] = "replied" => reply[p].opponent \in Players
  <2>1. HAVE state[p] = "replied"
  <2>2. CASE msg[p].action = "PLAY"
    BY <1>1, <2>2 DEF StagesKept, StageKept, MoveKept
  <2>3. CASE msg[p].action = "SIGNUP"
    <3>1. ~Unpaired(p)
      BY <1>5, <2>1 DEF Unpaired
    <3>2. PICK q \in Players : Partner(p, q)
      BY <1>1, <3>1 DEF PairedKept
    <3>3. QED
      BY <1>5, <3>2 DEF Partner, Answering
  <2>4. QED
    BY <1>5, <2>1, <2>2, <2>3
<1>7. \A q \in Players : q # p => /\ Pending(q)' = Pending(q) /\ Reported(q)' = Reported(q)
                                  /\ Unpaired(q)' = Unpaired(q)
  BY <1>2, <1>4 DEF Pending, Reported, Unpaired
<1>8. /\ ~Pending(p) /\ Pending(p)' = (m.action = "PLAY") /\ ~Reported(p)'
      /\ Unpaired(p)' = Unpaired(p)
  BY <1>2, <1>4, <1>5 DEF Pending, Reported, Unpaired
<1>9. \A q \in Players : Decided(q)' = Decided(q)
  <2>1. \A q \in Players : round[q] \in Int
    BY <1>1, Constants DEF TypeOK
  <2>2. \A q \in Players : q # p => Decided(q)' = Decided(q)
    BY <1>2, <1>7 DEF Decided
  <2>3. Decided(p)' = Decided(p)
    <3>1. Decided(p) = round[p]
      BY <1>8 DEF Decided
    <3>2. Decided(p)' = IF m.action = "PLAY" THEN round'[p] - 1 ELSE round'[p]
      BY <1>8, Zenon DEF Decided
    <3>3. QED
      BY <1>2, <2>1, <3>1, <3>2
  <2>4. QED
    BY <2>2, <2>3
<1>10. SendersKept'
  <2>1. senders \in Seq(Players) /\ p \notin Members(senders)
    BY <1>1, <1>5 DEF TypeOK, SendersKept
  <2>2. /\ Members(senders)' = Members(senders) \cup {p}
        /\ \A i, j \in DOMAIN senders' : senders'[i] = senders'[j] => i = j
    BY <1>1, <1>2, <2>1, AppendMembers DEF SendersKept
  <2>3. QED
    BY <1>1, <1>2, <2>2 DEF SendersKept
<1>11. HandlerKept' /\ ChunksAccounted'
  BY <1>1, <1>3, <1>4 DEF HandlerKept, ChunksAccounted
<1>12. StagesKept'
  <2>1. ASSUME NEW q \in Players, q # p
        PROVE  /\ msg'[q] = msg[q] /\ state'[q] = state[q] /\ round'[q] = round[q]
               /\ reply'[q].opponent = reply[q].opponent
    BY <1>2, <2>1
  <2>2. round[p] \in Nat
    BY <1>1, Constants DEF TypeOK
  <2>3. QED
    BY <1>1, <1>2, <1>4, <1>5, <1>6, <2>1, <2>2, Constants DEF StagesKept, StageKept, MoveKept
<1>13. TableKept'
  <2>1. \A q \in Players : q # p => Entry(q)' = Entry(q)
    BY <1>2, <1>7 DEF Entry
  <2>2. Entry(p)' = Entry(p)
    BY <1>2, <1>5, <1>8 DEF Entry
  <2>3. QED
    BY <1>1, <1>3, <2>1, <2>2 DEF TableKept
<1>14. OverKept'
  BY <1>1, <1>2, <1>3, <1>4, <1>5 DEF OverKept
<1>15. PartnersKept'
  BY <1>1, <1>4, <1>9 DEF PartnersKept
<1>16. PairedKept'
  BY <1>1, <1>4, <1>7, <1>8 DEF PairedKept
<1>17. VerdictsKept'
  <2> SUFFICES ASSUME NEW q \in Players, NEW r \in Players,
                      Partner(q, r)', Reported(q)', Reported(r)'
               PROVE  Result(q, Verdict(msg[q].play_action, msg[r].play_action))'
    BY DEF VerdictsKept
  <2>1. q # p /\ r # p
    BY <1>8
  <2>2. Result(q, Verdict(msg[q].play_action, msg[r].play_action))
    BY <1>1, <1>4, <1>7, <2>1 DEF VerdictsKept
  <2>3. QED
    BY <1>2, <1>4, <2>1, <2>2 DEF Result, Verdict
<1>18. QED
  BY <1>2, <1>10, <1>11, <1>12, <1>13, <1>14, <1>15, <1>16, <1>17 DEF RpsInvariant

LEMMA ExitKept ==
  ASSUME RpsInvariant, NEW p \in Players, rps_client_exit(p)
  PROVE  RpsInvariant'
<1>1. /\ TypeOK /\ SendersKept /\ HandlerKept /\ StagesKept /\ TableKept /\ OverKept
      /\ PartnersKept /\ PairedKept /\ VerdictsKept /\ ChunksAccounted
  BY DEF RpsInvariant
<1>2. /\ state[p] = "replied" /\ msg[p].action = "QUIT" /\ serverVars' = serverVars
      /\ senders' = senders /\ msg' = msg /\ reply' = reply /\ round' = round
      /\ state' = [state EXCEPT ![p] = "exited"]
  BY DEF rps_client_exit
<1>3. /\ signup_queue' = signup_queue /\ play_actions' = play_actions /\ unused_top' = unused_top
      /\ server' = server /\ out' = out /\ held' = held /\ over' = over
  BY <1>2 DEF serverVars
<1>4. /\ \A q \in Players : Answering(q)' = Answering(q) /\ Queued(q)' = Queued(q)
      /\ \A q, r \in Players : Partner(q, r)' = Partner(q, r)
      /\ Members(out)' = Members(out)
  BY <1>2, SameServer
<1>5. \A q \in Players : state'[q] = IF q = p THEN "exited" ELSE state[q]
  BY <1>1, <1>2 DEF TypeOK
<1>6. TypeOK'
  BY <1>1, <1>2, <1>3 DEF TypeOK
<1>7. SendersKept' /\ HandlerKept' /\ ChunksAccounted'
  <2>1. Members(senders)' = Members(senders)
    BY <1>2 DEF Members
  <2>2. QED
    BY <1>1, <1>2, <1>3, <1>4, <1>5, <2>1 DEF SendersKept, HandlerKept, ChunksAccounted
<1>8. \A q \in Players : Pending(q)' = Pending(q) /\ Reported(q)' = Reported(q) /\ Unpaired(q)' = Unpaired(q)
  BY <1>2, <1>4, <1>5 DEF Pending, Reported, Unpaired
<1>9. \A q \in Players : Decided(q)' = Decided(q)
  BY <1>2, <1>8 DEF Decided
<1>10. StagesKept' /\ OverKept'
  BY <1>1, <1>2, <1>3, <1>4, <1>5 DEF StagesKept, StageKept, MoveKept, OverKept
<1>11. TableKept'
  <2>1. \A q \in Players : Entry(q)' = Entry(q)
    BY <1>2, <1>5, <1>8 DEF Entry
  <2>2. QED
    BY <1>1, <1>3, <2>1 DEF TableKept
<1>12. PartnersKept' /\ PairedKept'
  BY <1>1, <1>4, <1>8, <1>9 DEF PartnersKept, PairedKept
<1>13. VerdictsKept'
  <2> SUFFICES ASSUME NEW q \in Players, NEW r \in Players,
                      Partner(q, r)', Reported(q)', Reported(r)'
               PROVE  Result(q, Verdict(msg[q].play_action, msg[r].play_action))'
    BY DEF VerdictsKept
  <2>1. Result(q, Verdict(msg[q].play_action, msg[r].play_action)) /\ msg[q].action = "PLAY"
    BY <1>1, <1>4, <1>8 DEF VerdictsKept, Reported
  <2>2. q # p
    BY <1>2, <2>1
  <2>3. QED
    BY <1>2, <1>4, <1>5, <2>1, <2>2 DEF Result, Verdict
<1>14. QED
  BY <1>6, <1>7, <1>10, <1>11, <1>12, <1>13 DEF RpsInvariant

LEMMA ClientKept ==
  ASSUME RpsInvariant, NEW p \in Players, Client(p)
  PROVE  RpsInvariant'
<1>1. TypeOK
  BY DEF RpsInvariant
<1>2. CASE rps_client_signup(p)
  <2>1. PICK m : m = [NoRequest EXCEPT !.action = "SIGNUP"]
    OBVIOUS
  <2>2. m \in Request /\ m.action = "SIGNUP"
    BY <2>1 DEF NoRequest, Request
  <2>3. Sends(p, m)
    BY <1>2, <2>1, <2>2 DEF rps_client_signup, Sends
  <2>4. QED
    BY <2>3, SendKept
<1>3. CASE rps_client_play(p)
  <2>1. PICK v, m : /\ v \in Moves /\ Send(p, m)
                    /\ m = [action |-> "PLAY", play_action |-> v, opponent |-> reply[p].opponent]
    BY <1>3 DEF rps_client_play
  <2>2. reply[p].opponent \in Players \cup {Nobody}
    BY <1>1 DEF TypeOK, Answer
  <2>3. m \in Request /\ m.action = "PLAY" /\ m.play_action \in Moves /\ m.opponent = reply[p].opponent
    BY <2>1, <2>2 DEF Request
  <2>4. Sends(p, m)
    BY <1>3, <2>1, <2>3 DEF rps_client_play, Sends
  <2>5. QED
    BY <2>4, SendKept
<1>4. CASE rps_client_quit(p)
  <2>1. PICK m : m = [msg[p] EXCEPT !.action = "QUIT", !.play_action = UNKNOWN]
    OBVIOUS
  <2>2. msg[p] \in Request
    BY <1>1 DEF TypeOK
  <2>3. m \in Request /\ m.action = "QUIT" /\ m.opponent = msg[p].opponent
    BY <2>1, <2>2 DEF Request
  <2>4. Sends(p, m)
    BY <1>4, <2>1, <2>3 DEF rps_client_quit, Sends
  <2>5. QED
    BY <2>4, SendKept
<1>5. QED
  BY <1>2, <1>3, <1>4, ExitKept DEF Client

-----------------------------------------------------------------------------
(* The server's steps.                                                     *)

\* When the server receives, nothing is being answered.
LEMMA ReceiveFacts ==
  ASSUME RpsInvariant, NEW p \in Players, NEW a, Receive(p, a)
  PROVE  /\ server = "receive" /\ out = <<>> /\ over = {} /\ held = 0 /\ Members(out) = {}
         /\ state[p] = "WATISEND" /\ msg[p].action = a
         /\ \A q \in Players : state'[q] = IF q = p THEN "WATIREPLY" ELSE state[q]
         /\ msg' = msg /\ reply' = reply /\ round' = round
         /\ senders' \in Seq(Players) /\ SendersKept'
         /\ state' \in [Players -> {"start", "WATISEND", "WATIREPLY", "replied", "exited"}]
<1>1. TypeOK /\ SendersKept /\ HandlerKept
  BY DEF RpsInvariant
<1>2. /\ server = "receive" /\ senders # <<>> /\ p = Head(senders) /\ msg[p].action = a
      /\ senders' = Tail(senders) /\ state' = [state EXCEPT ![p] = "WATIREPLY"]
      /\ msg' = msg /\ reply' = reply /\ round' = round
  BY DEF Receive
<1>3. out = <<>> /\ over = {} /\ held = 0 /\ Members(out) = {}
  BY <1>1, <1>2, FewMembers DEF HandlerKept
<1>4. /\ \A q \in Players : state'[q] = IF q = p THEN "WATIREPLY" ELSE state[q]
      /\ state' \in [Players -> {"start", "WATISEND", "WATIREPLY", "replied", "exited"}]
  BY <1>1, <1>2 DEF TypeOK
<1>5. senders \in Seq(Players)
  BY <1>1 DEF TypeOK
<1>6. /\ p \in Members(senders) /\ Members(senders) = Members(senders') \cup {p} /\ senders' \in Seq(Players)
  BY <1>2, <1>5, TailMembers, TailFacts
<1>7. p \notin Members(senders') /\ \A i, j \in DOMAIN senders' : senders'[i] = senders'[j] => i = j
  BY <1>1, <1>2, <1>5, TailDistinct DEF SendersKept
<1>8. Members(senders)' = Members(senders')
  BY DEF Members
<1>9. SendersKept'
  BY <1>1, <1>4, <1>6, <1>7, <1>8 DEF SendersKept
<1>10. QED
  BY <1>1, <1>2, <1>3, <1>4, <1>6, <1>9 DEF SendersKept

\* The pool has the chunks that the handler asks for.
LEMMA ProceedFacts ==
  ASSUME TypeOK, ChunksAccounted, HandlerKept, server = "receive", NEW rs, NEW n \in 0 .. 2, NEW h, NEW forget,
         Proceed(rs, n, h, forget)
  PROVE  /\ out' = rs /\ server' = (IF rs = <<>> THEN "receive" ELSE "reply")
         /\ unused_top' = unused_top - n /\ held' = h /\ over' = forget
<1>1. unused_top >= 2 /\ unused_top \in Nat
  <2>1. /\ unused_top + Len(signup_queue) + held = CHUNKS /\ held = 0 /\ Len(signup_queue) <= 1
        /\ Len(signup_queue) \in Nat /\ unused_top \in 0 .. CHUNKS
    BY LenProperties DEF TypeOK, ChunksAccounted, HandlerKept
  <2>2. QED
    BY <2>1, Constants
<1>2. ~(unused_top < n)
  BY <1>1
<1>3. QED
  BY <1>2 DEF Proceed

LEMMA QuitKept ==
  ASSUME RpsInvariant, rps_server_QUIT
  PROVE  RpsInvariant'
<1>1. /\ TypeOK /\ SendersKept /\ HandlerKept /\ StagesKept /\ TableKept /\ OverKept
      /\ PartnersKept /\ PairedKept /\ VerdictsKept /\ ChunksAccounted
  BY DEF RpsInvariant
<1>2. PICK p \in Players :
        /\ Receive(p, "QUIT") /\ play_actions' = [play_actions EXCEPT ![p] = ABSENT]
        /\ signup_queue' = signup_queue /\ Proceed(<<To(p, msg[p].opponent, "none")>>, 0, 0, {})
  BY DEF rps_server_QUIT
<1>3. /\ server = "receive" /\ out = <<>> /\ over = {} /\ held = 0 /\ Members(out) = {}
      /\ state[p] = "WATISEND" /\ msg[p].action = "QUIT"
      /\ \A q \in Players : state'[q] = IF q = p THEN "WATIREPLY" ELSE state[q]
      /\ msg' = msg /\ reply' = reply /\ round' = round /\ senders' \in Seq(Players) /\ SendersKept'
      /\ state' \in [Players -> {"start", "WATISEND", "WATIREPLY", "replied", "exited"}]
  BY <1>2, ReceiveFacts
<1>4. PICK a : a = To(p, msg[p].opponent, "none")
  OBVIOUS
<1>5. /\ out' = <<a>> /\ server' = "reply" /\ unused_top' = unused_top - 0
      /\ held' = 0 /\ over' = {}
  <2>0. <<a>> # <<>>
    OBVIOUS
  <2>1. PICK rs : rs = <<a>> /\ rs # <<>>
    BY <2>0, Zenon
  <2>2. Proceed(rs, 0, 0, {}) /\ 0 \in 0 .. 2
    BY <1>2, <1>4, <2>1
  <2>3. /\ out' = rs /\ server' = (IF rs = <<>> THEN "receive" ELSE "reply")
        /\ unused_top' = unused_top - 0 /\ held' = 0 /\ over' = {}
    BY <1>1, <1>3, <2>2, ProceedFacts
  <2>4. QED
    BY <2>1, <2>3
<1>6. Members(out)' = {a} /\ Members(signup_queue)' = Members(signup_queue)
  BY <1>2, <1>5, FewMembers DEF Members
<1>7. /\ a \in [to : Players, answer : Answer] /\ a.to = p /\ a.answer.opponent = reply[p].opponent
      /\ reply[p].opponent \in Players
  <2>1. msg[p].opponent = reply[p].opponent /\ reply[p].opponent \in Players
    BY <1>1, <1>3 DEF StagesKept, StageKept, MoveKept
  <2>2. QED
    BY <1>4, <2>1 DEF To, Answer
<1>8. TypeOK'
  <2>1. unused_top' \in 0 .. CHUNKS /\ held' \in 0 .. 2
    BY <1>1, <1>5, Constants DEF TypeOK
  <2>2. out' \in Seq([to : Players, answer : Answer])
    BY <1>5, <1>7
  <2>3. play_actions' \in [Players -> ABSENT .. SCISSORS]
    BY <1>1, <1>2 DEF TypeOK, ABSENT, SCISSORS
  <2>4. QED
    BY <1>1, <1>2, <1>3, <1>5, <2>1, <2>2, <2>3 DEF TypeOK
<1>9. /\ \A q \in Players : ~Answering(q) /\ Answering(q)' = (q = p) /\ Queued(q)' = Queued(q)
      /\ \A q, r \in Players : Partner(q, r)' = Partner(q, r)
  BY <1>3, <1>6, <1>7 DEF Answering, Queued, Partner
<1>10. \A q \in Players : Pending(q)' = Pending(q) /\ Reported(q)' = Reported(q) /\ Unpaired(q)' = Unpaired(q)
  BY <1>3, <1>9 DEF Pending, Reported, Unpaired
<1>11. \A q \in Players : Decided(q)' = Decided(q)
  BY <1>3, <1>10 DEF Decided
<1>12. HandlerKept'
  BY <1>1, <1>2, <1>5, <1>6, <1>7 DEF HandlerKept
<1>13. ChunksAccounted'
  <2>1. unused_top \in Int
    BY <1>1, Constants DEF TypeOK
  <2>2. QED
    BY <1>1, <1>2, <1>3, <1>5, <2>1 DEF ChunksAccounted
<1>14. StagesKept'
  <2>1. ASSUME NEW q \in Players PROVE StageKept(q)'
    <3>1. StageKept(q)
      BY <1>1 DEF StagesKept
    <3>2. QED
      BY <1>3, <1>9, <3>1 DEF StageKept
  <2>2. \A q \in Players : MoveKept(q)'
    BY <1>1, <1>3 DEF StagesKept, MoveKept
  <2>3. QED
    BY <2>1, <2>2 DEF StagesKept
<1>15. OverKept'
  BY <1>3, <1>5, <1>9 DEF OverKept
<1>16. TableKept'
  <2>1. \A q \in Players : q # p => Entry(q)' = Entry(q) /\ play_actions'[q] = play_actions[q]
    BY <1>1, <1>2, <1>3, <1>10 DEF Entry, TypeOK
  <2>2. Entry(p)' = ABSENT /\ play_actions'[p] = ABSENT
    BY <1>1, <1>2, <1>3 DEF Entry, TypeOK
  <2>3. QED
    BY <1>1, <1>3, <2>1, <2>2 DEF TableKept
<1>17. PartnersKept' /\ PairedKept'
  BY <1>1, <1>9, <1>10, <1>11 DEF PartnersKept, PairedKept
<1>18. VerdictsKept'
  <2> SUFFICES ASSUME NEW q \in Players, NEW r \in Players,
                      Partner(q, r)', Reported(q)', Reported(r)'
               PROVE  Result(q, Verdict(msg[q].play_action, msg[r].play_action))'
    BY DEF VerdictsKept
  <2>1. Result(q, Verdict(msg[q].play_action, msg[r].play_action)) /\ msg[q].action = "PLAY"
    BY <1>1, <1>9, <1>10 DEF VerdictsKept, Reported
  <2>2. q # p
    BY <1>3, <2>1
  <2>3. QED
    BY <1>3, <2>1, <2>2 DEF Result, Verdict
<1>19. QED
  BY <1>3, <1>8, <1>12, <1>13, <1>14, <1>15, <1>16, <1>17, <1>18 DEF RpsInvariant

\* A reply takes one answer from the handler's list to its player.
LEMMA ReplyKept ==
  ASSUME RpsInvariant, rps_server_reply
  PROVE  RpsInvariant'
<1>1. /\ TypeOK /\ SendersKept /\ HandlerKept /\ StagesKept /\ TableKept /\ OverKept
      /\ PartnersKept /\ PairedKept /\ VerdictsKept /\ ChunksAccounted
  BY DEF RpsInvariant
<1>2. server = "reply" /\ out # <<>>
  BY <1>1 DEF rps_server_reply, HandlerKept
<1>3. PICK a, p : a = Head(out) /\ p = a.to
  OBVIOUS
<1>4. /\ a \in Members(out) /\ Members(out) = Members(Tail(out)) \cup {a}
      /\ \A b \in Members(Tail(out)) : b.to # p
      /\ \A b \in Members(out) : b.to = p => b = a
      /\ \A i, j \in DOMAIN Tail(out) : Tail(out)[i].to = Tail(out)[j].to => i = j
      /\ Len(out) = 1 <=> Tail(out) = <<>>
      /\ a \in [to : Players, answer : Answer] /\ Tail(out) \in Seq([to : Players, answer : Answer])
  BY <1>1, <1>2, <1>3, RepliesLeft
<1>5. p \in Players /\ a.answer \in Answer /\ a.answer.opponent \in Players
  BY <1>1, <1>3, <1>4 DEF HandlerKept
<1>6. /\ reply' = [reply EXCEPT ![p] = a.answer] /\ state' = [state EXCEPT ![p] = "replied"]
      /\ out' = Tail(out) /\ signup_queue' = signup_queue /\ senders' = senders
      /\ msg' = msg /\ round' = round
  BY <1>3 DEF rps_server_reply
<1>7. /\ \A q \in Players : state'[q] = IF q = p THEN "replied" ELSE state[q]
      /\ \A q \in Players : reply'[q] = IF q = p THEN a.answer ELSE reply[q]
      /\ state' \in [Players -> {"start", "WATISEND", "WATIREPLY", "replied", "exited"}]
      /\ reply' \in [Players -> Answer]
  BY <1>1, <1>5, <1>6 DEF TypeOK
<1>8. /\ Answering(p) /\ state[p] = "WATIREPLY"
      /\ msg[p].action \in {"PLAY", "QUIT"} => reply[p].opponent = a.answer.opponent
  <2>1. Answering(p)
    BY <1>3, <1>4 DEF Answering
  <2>2. state[p] = "WATIREPLY"
    BY <1>1, <1>5, <2>1 DEF StagesKept, StageKept, MoveKept
  <2>3. Partner(p, a.answer.opponent)
    BY <1>3, <1>4 DEF Partner
  <2>4. ASSUME msg[p].action \in {"PLAY", "QUIT"} PROVE reply[p].opponent = a.answer.opponent
    <3>1. reply[p].opponent \in Players /\ Partner(p, reply[p].opponent)
      BY <1>1, <1>5, <2>4 DEF StagesKept, StageKept, MoveKept, Partner
    <3>2. QED
      BY <1>1, <1>5, <2>3, <3>1 DEF PartnersKept
  <2>5. QED
    BY <2>1, <2>2, <2>4
<1>9. Members(out)' = Members(Tail(out)) /\ Members(signup_queue)' = Members(signup_queue)
      /\ Members(senders)' = Members(senders)
  BY <1>6 DEF Members
<1>10. \A q \in Players : Queued(q)' = Queued(q) /\ Answering(q)' = (Answering(q) /\ q # p)
  BY <1>3, <1>4, <1>9 DEF Queued, Answering
<1>11. \A q, r \in Players : Partner(q, r)' = Partner(q, r)
  <2> SUFFICES ASSUME NEW q \in Players, NEW r \in Players
               PROVE  Partner(q, r)' = Partner(q, r)
    OBVIOUS
  <2>1. CASE q # p
    BY <1>3, <1>4, <1>7, <1>9, <2>1 DEF Partner
  <2>2. CASE q = p
    <3>1. Partner(p, a.answer.opponent)
      BY <1>3, <1>4 DEF Partner
    <3>2. Partner(p, r) <=> r = a.answer.opponent
      BY <1>1, <1>5, <3>1 DEF PartnersKept
    <3>3. Partner(p, r)' <=> r = a.answer.opponent
      BY <1>4, <1>5, <1>7, <1>9 DEF Partner
    <3>4. QED
      BY <2>2, <3>2, <3>3 DEF Partner
  <2>3. QED
    BY <2>1, <2>2
<1>12. \A q \in Players : Pending(q)' = Pending(q) /\ Reported(q)' = Reported(q) /\ Unpaired(q)' = Unpaired(q)
  <2>1. ~Queued(p)
    BY <1>1, <1>5, <1>8 DEF StagesKept, StageKept, MoveKept
  <2>2. Pending(p)' = Pending(p) /\ Reported(p)' = Reported(p) /\ Unpaired(p)' = Unpaired(p)
    BY <1>5, <1>6, <1>7, <1>8, <1>10, <2>1 DEF Pending, Reported, Unpaired
  <2>3. \A q \in Players : q # p =>
          Pending(q)' = Pending(q) /\ Reported(q)' = Reported(q) /\ Unpaired(q)' = Unpaired(q)
    BY <1>6, <1>7, <1>10 DEF Pending, Reported, Unpaired
  <2>4. QED
    BY <2>2, <2>3
<1>13. \A q \in Players : Decided(q)' = Decided(q)
  BY <1>6, <1>12 DEF Decided
<1>14. SendersKept'
  BY <1>1, <1>6, <1>7, <1>8, <1>9 DEF SendersKept
<1>15. StagesKept'
  <2>1. ASSUME NEW q \in Players, q # p PROVE StageKept(q)'
    <3>1. StageKept(q)
      BY <1>1 DEF StagesKept
    <3>2. QED
      BY <1>6, <1>7, <1>10, <2>1, <3>1 DEF StageKept
  <2>2. StageKept(p)'
    <3>1. StageKept(p)
      BY <1>1, <1>5 DEF StagesKept
    <3>2. QED
      BY <1>5, <1>6, <1>7, <1>8, <1>10, <3>1 DEF StageKept
  <2>3. \A q \in Players : MoveKept(q)'
    BY <1>1, <1>6 DEF StagesKept, MoveKept
  <2>4. QED
    BY <2>1, <2>2, <2>3 DEF StagesKept
<1>16. PartnersKept' /\ PairedKept'
  BY <1>1, <1>11, <1>12, <1>13 DEF PartnersKept, PairedKept
<1>17. VerdictsKept'
  <2> SUFFICES ASSUME NEW q \in Players, NEW r \in Players,
                      Partner(q, r)', Reported(q)', Reported(r)'
               PROVE  Result(q, Verdict(msg[q].play_action, msg[r].play_action))'
    BY DEF VerdictsKept
  <2>1. PICK v : v = Verdict(msg[q].play_action, msg[r].play_action)
    OBVIOUS
  <2>2. v = Verdict(msg[q].play_action, msg[r].play_action)'
    BY <1>6, <2>1 DEF Verdict
  <2>3. Result(q, v)
    BY <1>1, <1>11, <1>12, <2>1 DEF VerdictsKept
  <2>4. Result(q, v)'
    BY <1>3, <1>4, <1>7, <1>8, <1>9, <2>3 DEF Result
  <2>5. QED
    BY <2>2, <2>4 DEF Result
<1>18. CASE Len(out) = 1
  <2>1. /\ server' = "receive" /\ unused_top' = unused_top + held /\ held' = 0 /\ over' = {}
        /\ play_actions' = [q \in Players |-> IF q \in over THEN UNKNOWN ELSE play_actions[q]]
        /\ out' = <<>>
    BY <1>4, <1>6, <1>18 DEF rps_server_reply, Freed
  <2>2. Members(out)' = {}
    BY <2>1, FewMembers DEF Members
  <2>3. HandlerKept'
    BY <1>1, <1>6, <2>1, <2>2 DEF HandlerKept
  <2>4. unused_top + held = CHUNKS - Len(signup_queue) /\ unused_top + held \in 0 .. CHUNKS
    <3>1. Len(signup_queue) \in Nat /\ unused_top \in Nat /\ held \in Nat
      BY <1>1, Constants, LenProperties DEF TypeOK
    <3>2. unused_top + Len(signup_queue) + held = CHUNKS
      BY <1>1 DEF ChunksAccounted
    <3>3. QED
      BY <3>1, <3>2, Constants
  <2>5. ChunksAccounted'
    <3>1. Len(signup_queue) \in Nat
      BY <1>1, LenProperties DEF TypeOK
    <3>2. QED
      BY <1>6, <2>1, <2>4, <3>1, Constants DEF ChunksAccounted
  <2>6. play_actions' \in [Players -> ABSENT .. SCISSORS]
    BY <1>1, <2>1 DEF TypeOK, ABSENT, UNKNOWN, SCISSORS
  <2>7. TypeOK'
    BY <1>1, <1>4, <1>6, <1>7, <2>1, <2>4, <2>6 DEF TypeOK
  <2>8. \A q \in Players : ~Answering(q)'
    BY <2>2 DEF Answering
  <2>9. \A q \in Players : q \in over => Entry(q)' = UNKNOWN
    <3> SUFFICES ASSUME NEW q \in Players, q \in over PROVE Entry(q)' = UNKNOWN
      OBVIOUS
    <3>1. /\ msg[q].action \in {"PLAY", "QUIT"}
          /\ msg[q].action = "QUIT" => state[q] = "WATISEND"
          /\ state[q] = "WATIREPLY" => Answering(q)
      BY <1>1 DEF OverKept
    <3>2. state'[q] # "WATIREPLY"
      BY <1>7, <1>10, <2>8, <3>1
    <3>3. msg[q].action = "QUIT" => state'[q] = "WATISEND"
      BY <1>7, <1>8, <3>1
    <3>4. QED
      <4>1. ~(\/ msg'[q].action = "none"
              \/ msg'[q].action = "SIGNUP" /\ state'[q] = "WATISEND"
              \/ msg'[q].action = "QUIT" /\ state'[q] # "WATISEND")
        BY <1>6, <3>1, <3>3
      <4>2. QED
        BY <3>2, <4>1, Zenon DEF Entry
  <2>10. \A q \in Players : q \notin over => Entry(q)' = Entry(q)
    <3>1. \A q \in Players : q # p => Entry(q)' = Entry(q)
      BY <1>6, <1>7, <1>12 DEF Entry
    <3>2. p \notin over => Entry(p)' = Entry(p)
      <4>1. p \notin over => msg[p].action # "PLAY"
        BY <1>1, <1>5, <1>8 DEF OverKept
      <4>2. QED
        BY <1>5, <1>6, <1>7, <1>8, <4>1 DEF Entry, Pending
    <3>3. QED
      BY <3>1, <3>2
  <2>11. TableKept'
    BY <1>1, <2>1, <2>9, <2>10 DEF TableKept
  <2>12. OverKept'
    BY <2>1, <2>8 DEF OverKept
  <2>13. QED
    BY <1>14, <1>15, <1>16, <1>17, <2>3, <2>5, <2>7, <2>11, <2>12 DEF RpsInvariant
<1>19. CASE Len(out) # 1
  <2>1. /\ server' = server /\ unused_top' = unused_top /\ held' = held /\ over' = over
        /\ play_actions' = play_actions
    BY <1>19 DEF rps_server_reply
  <2>2. HandlerKept'
    BY <1>1, <1>2, <1>4, <1>6, <1>9, <1>19, <2>1 DEF HandlerKept
  <2>3. ChunksAccounted'
    BY <1>1, <1>6, <2>1 DEF ChunksAccounted
  <2>4. TypeOK'
    BY <1>1, <1>4, <1>6, <1>7, <2>1 DEF TypeOK
  <2>5. OverKept'
    <3> SUFFICES ASSUME NEW q \in Players PROVE
          /\ q \in over' => /\ msg[q]'.action \in {"PLAY", "QUIT"}
                            /\ msg[q]'.action = "QUIT" => state[q]' = "WATISEND"
                            /\ state[q]' = "WATIREPLY" => Answering(q)'
          /\ Answering(q)' /\ msg[q]'.action = "PLAY" => q \in over' /\ reply[q]'.opponent \in over'
      BY DEF OverKept
    <3>1. CASE q # p
      BY <1>1, <1>6, <1>7, <1>10, <2>1, <3>1 DEF OverKept
    <3>2. CASE q = p
      BY <1>1, <1>5, <1>6, <1>7, <1>8, <1>10, <2>1, <3>2 DEF OverKept
    <3>3. QED
      BY <3>1, <3>2
  <2>6. TableKept'
    <3>1. \A q \in Players : q # p => Entry(q)' = Entry(q)
      BY <1>6, <1>7, <1>12 DEF Entry
    <3>2. p \notin over => Entry(p)' = Entry(p)
      <4>1. p \notin over => msg[p].action # "PLAY"
        BY <1>1, <1>5, <1>8 DEF OverKept
      <4>2. QED
        BY <1>5, <1>6, <1>7, <1>8, <4>1 DEF Entry, Pending
    <3>3. QED
      BY <1>1, <2>1, <3>1, <3>2 DEF TableKept
  <2>7. QED
    BY <1>14, <1>15, <1>16, <1>17, <2>2, <2>3, <2>4, <2>5, <2>6 DEF RpsInvariant
<1>20. QED
  BY <1>18, <1>19

\* The first of a pair waits in the queue; nothing is replied.
LEMMA SignupWaits ==
  ASSUME RpsInvariant, rps_server_SIGNUP, signup_queue = <<>>
  PROVE  RpsInvariant'
<1>1. /\ TypeOK /\ SendersKept /\ HandlerKept /\ StagesKept /\ TableKept /\ OverKept
      /\ PartnersKept /\ PairedKept /\ VerdictsKept /\ ChunksAccounted
  BY DEF RpsInvariant
<1>2. PICK p \in Players :
        /\ Receive(p, "SIGNUP") /\ play_actions' = [play_actions EXCEPT ![p] = UNKNOWN]
        /\ signup_queue' = <<p>> /\ Proceed(<<>>, 1, 0, {})
  <2>1. \A p : Append(signup_queue, p) = <<p>> /\ ~(Len(<<p>>) >= 2)
    OBVIOUS
  <2>2. QED
    BY <2>1 DEF rps_server_SIGNUP
<1>3. /\ server = "receive" /\ out = <<>> /\ over = {} /\ held = 0 /\ Members(out) = {}
      /\ state[p] = "WATISEND" /\ msg[p].action = "SIGNUP"
      /\ \A q \in Players : state'[q] = IF q = p THEN "WATIREPLY" ELSE state[q]
      /\ msg' = msg /\ reply' = reply /\ round' = round /\ senders' \in Seq(Players) /\ SendersKept'
      /\ state' \in [Players -> {"start", "WATISEND", "WATIREPLY", "replied", "exited"}]
  BY <1>2, ReceiveFacts
<1>4. /\ out' = <<>> /\ server' = "receive" /\ unused_top' = unused_top - 1
      /\ held' = 0 /\ over' = {}
  <2>1. PICK rs : rs = <<>>
    OBVIOUS
  <2>2. Proceed(rs, 1, 0, {}) /\ 1 \in 0 .. 2
    BY <1>2, <2>1
  <2>3. /\ out' = rs /\ server' = (IF rs = <<>> THEN "receive" ELSE "reply")
        /\ unused_top' = unused_top - 1 /\ held' = 0 /\ over' = {}
    BY <1>1, <1>3, <2>2, ProceedFacts
  <2>4. QED
    BY <2>1, <2>3
<1>5. Members(out)' = {} /\ Members(signup_queue)' = {p} /\ Members(signup_queue) = {}
  BY <1>2, <1>4, FewMembers DEF Members
<1>6. /\ unused_top = CHUNKS /\ ChunksAccounted' /\ unused_top' \in 0 .. CHUNKS
  <2>1. unused_top = CHUNKS
    BY <1>1, <1>3, Constants DEF ChunksAccounted, TypeOK
  <2>2. Len(signup_queue') = 1
    BY <1>2
  <2>3. QED
    BY <1>3, <1>4, <2>1, <2>2, Constants DEF ChunksAccounted
<1>7. TypeOK'
  <2>1. play_actions' \in [Players -> ABSENT .. SCISSORS]
    BY <1>1, <1>2 DEF TypeOK, ABSENT, UNKNOWN, SCISSORS
  <2>2. signup_queue' \in Seq(Players) /\ out' \in Seq([to : Players, answer : Answer])
    BY <1>2, <1>4
  <2>3. held' \in 0 .. 2
    BY <1>4
  <2>4. QED
    BY <1>1, <1>3, <1>4, <1>6, <2>1, <2>2, <2>3 DEF TypeOK
<1>8. HandlerKept'
  BY <1>2, <1>4, <1>5 DEF HandlerKept
<1>9. /\ \A q \in Players : ~Answering(q) /\ ~Answering(q)' /\ ~Queued(q) /\ Queued(q)' = (q = p)
      /\ \A q, r \in Players : Partner(q, r)' = Partner(q, r)
  BY <1>3, <1>5 DEF Answering, Queued, Partner
<1>10. \A q \in Players : Pending(q)' = Pending(q) /\ Reported(q)' = Reported(q) /\ Unpaired(q)' = Unpaired(q)
  BY <1>3, <1>9 DEF Pending, Reported, Unpaired
<1>11. \A q \in Players : Decided(q)' = Decided(q)
  BY <1>3, <1>10 DEF Decided
<1>12. StagesKept'
  <2>1. ASSUME NEW q \in Players PROVE StageKept(q)'
    <3>1. StageKept(q)
      BY <1>1 DEF StagesKept
    <3>2. QED
      BY <1>3, <1>9, <3>1 DEF StageKept
  <2>2. \A q \in Players : MoveKept(q)'
    BY <1>1, <1>3 DEF StagesKept, MoveKept
  <2>3. QED
    BY <2>1, <2>2 DEF StagesKept
<1>13. OverKept'
  BY <1>4, <1>9 DEF OverKept
<1>14. TableKept'
  <2>1. \A q \in Players : q # p => Entry(q)' = Entry(q) /\ play_actions'[q] = play_actions[q]
    BY <1>1, <1>2, <1>3, <1>10 DEF Entry, TypeOK
  <2>2. Entry(p)' = UNKNOWN /\ play_actions'[p] = UNKNOWN
    BY <1>1, <1>2, <1>3 DEF Entry, TypeOK, Pending
  <2>3. QED
    BY <1>1, <1>3, <2>1, <2>2 DEF TableKept
<1>15. PartnersKept' /\ PairedKept'
  BY <1>1, <1>9, <1>10, <1>11 DEF PartnersKept, PairedKept
<1>16. VerdictsKept'
  <2> SUFFICES ASSUME NEW q \in Players, NEW r \in Players,
                      Partner(q, r)', Reported(q)', Reported(r)'
               PROVE  Result(q, Verdict(msg[q].play_action, msg[r].play_action))'
    BY DEF VerdictsKept
  <2>1. Result(q, Verdict(msg[q].play_action, msg[r].play_action)) /\ msg[q].action = "PLAY"
    BY <1>1, <1>9, <1>10 DEF VerdictsKept, Reported
  <2>2. q # p
    BY <1>3, <2>1
  <2>3. QED
    BY <1>3, <2>1, <2>2 DEF Result, Verdict
<1>17. QED
  BY <1>3, <1>6, <1>7, <1>8, <1>12, <1>13, <1>14, <1>15, <1>16 DEF RpsInvariant

\* The second is paired with the first, and both are told.
LEMMA SignupPairs ==
  ASSUME RpsInvariant, rps_server_SIGNUP, signup_queue # <<>>
  PROVE  RpsInvariant'
<1>1. /\ TypeOK /\ SendersKept /\ HandlerKept /\ StagesKept /\ TableKept /\ OverKept
      /\ PartnersKept /\ PairedKept /\ VerdictsKept /\ ChunksAccounted
  BY DEF RpsInvariant
<1>2. PICK o \in Players : signup_queue = <<o>>
  <2>1. signup_queue \in Seq(Players) /\ Len(signup_queue) <= 1
    BY <1>1 DEF TypeOK, HandlerKept
  <2>2. Len(signup_queue) = 1 /\ signup_queue[1] \in Players
    <3>1. Len(signup_queue) \in Nat \ {0} /\ Head(signup_queue) = signup_queue[1] /\ Head(signup_queue) \in Players
      BY <2>1, TailFacts
    <3>2. \A k \in Nat \ {0} : k <= 1 => k = 1
      OBVIOUS
    <3>3. QED
      BY <2>1, <3>1, <3>2, Zenon
  <2>3. signup_queue = <<signup_queue[1]>>
    BY <2>1, <2>2
  <2>4. QED
    BY <2>2, <2>3, Zenon
<1>3. PICK p \in Players :
        /\ Receive(p, "SIGNUP") /\ play_actions' = [play_actions EXCEPT ![p] = UNKNOWN]
        /\ signup_queue' = <<>> /\ Proceed(Paired(o, p), 1, 2, {})
  <2>1. PICK p, q :
          /\ p \in Players /\ q = Append(signup_queue, p) /\ Receive(p, "SIGNUP")
          /\ play_actions' = [play_actions EXCEPT ![p] = UNKNOWN]
          /\ signup_queue' = (IF Len(q) >= 2 THEN SubSeq(q, 3, Len(q)) ELSE q)
          /\ IF Len(q) >= 2 THEN Proceed(Paired(q[1], q[2]), 1, 2, {}) ELSE Proceed(<<>>, 1, 0, {})
    BY Zenon DEF rps_server_SIGNUP
  <2>2. q = <<o, p>>
    <3>1. Append(<<o>>, p) = <<o, p>>
      BY <2>1, AppendSecond
    <3>2. QED
      BY <1>2, <2>1, <3>1, Zenon
  <2>3. Len(q) = 2 /\ q[1] = o /\ q[2] = p /\ q \in Seq(Players)
    BY <2>1, <2>2
  <2>4. SubSeq(q, 3, Len(q)) = <<>>
    BY <2>3
  <2>5. Len(q) >= 2
    BY <2>3
  <2>6. QED
    BY <2>1, <2>3, <2>4, <2>5
<1>4. /\ server = "receive" /\ out = <<>> /\ over = {} /\ held = 0 /\ Members(out) = {}
      /\ state[p] = "WATISEND" /\ msg[p].action = "SIGNUP"
      /\ \A q \in Players : state'[q] = IF q = p THEN "WATIREPLY" ELSE state[q]
      /\ msg' = msg /\ reply' = reply /\ round' = round /\ senders' \in Seq(Players) /\ SendersKept'
      /\ state' \in [Players -> {"start", "WATISEND", "WATIREPLY", "replied", "exited"}]
  BY <1>3, ReceiveFacts
<1>5. PICK a, b : a = To(o, p, "none") /\ b = To(p, o, "none")
  OBVIOUS
<1>6. /\ a \in [to : Players, answer : Answer] /\ a.to = o /\ a.answer.opponent = p
      /\ b \in [to : Players, answer : Answer] /\ b.to = p /\ b.answer.opponent = o
  BY <1>5 DEF To, Answer
<1>7. /\ out' = <<a, b>> /\ server' = "reply" /\ unused_top' = unused_top - 1
      /\ held' = 2 /\ over' = {}
  <2>0. <<a, b>> # <<>>
    OBVIOUS
  <2>1. PICK rs : rs = <<a, b>> /\ rs # <<>>
    BY <2>0, Zenon
  <2>2. Proceed(rs, 1, 2, {}) /\ 1 \in 0 .. 2
    BY <1>3, <1>5, <2>1 DEF Paired
  <2>3. /\ out' = rs /\ server' = (IF rs = <<>> THEN "receive" ELSE "reply")
        /\ unused_top' = unused_top - 1 /\ held' = 2 /\ over' = {}
    BY <1>1, <1>4, <2>2, ProceedFacts
  <2>4. QED
    BY <2>1, <2>3
<1>8. Members(out)' = {a, b} /\ Members(signup_queue)' = {} /\ Members(signup_queue) = {o}
  BY <1>2, <1>3, <1>7, FewMembers DEF Members
<1>9. \A q \in Players : ~Answering(q) /\ Queued(q) = (q = o) /\ ~Queued(q)'
  BY <1>4, <1>8 DEF Answering, Queued
<1>10. state[o] = "WATIREPLY" /\ msg[o].action = "SIGNUP" /\ o # p
  BY <1>1, <1>4, <1>9 DEF StagesKept, StageKept
<1>11. \A q \in Players : Answering(q)' <=> q \in {o, p}
  BY <1>6, <1>8, Zenon DEF Answering
<1>12. /\ unused_top = CHUNKS - 1 /\ ChunksAccounted' /\ unused_top' \in 0 .. CHUNKS
  <2>1. Len(signup_queue) = 1 /\ Len(signup_queue') = 0
    BY <1>2, <1>3
  <2>2. unused_top \in Int /\ unused_top + 1 + 0 = CHUNKS
    BY <1>1, <1>4, <2>1, Constants DEF ChunksAccounted, TypeOK
  <2>3. unused_top = CHUNKS - 1
    BY <2>2, Constants
  <2>4. server' # "fault" /\ unused_top' + 0 + 2 = CHUNKS /\ unused_top' \in 0 .. CHUNKS
    BY <1>7, <2>3, Constants
  <2>5. QED
    BY <1>7, <2>1, <2>3, <2>4 DEF ChunksAccounted
<1>13. TypeOK'
  <2>1. play_actions' \in [Players -> ABSENT .. SCISSORS]
    BY <1>1, <1>3 DEF TypeOK, ABSENT, UNKNOWN, SCISSORS
  <2>2. signup_queue' \in Seq(Players) /\ out' \in Seq([to : Players, answer : Answer])
    BY <1>3, <1>6, <1>7
  <2>3. held' \in 0 .. 2
    BY <1>7
  <2>4. QED
    BY <1>1, <1>4, <1>7, <1>12, <2>1, <2>2, <2>3 DEF TypeOK
<1>14. HandlerKept'
  <2>1. \A i, j \in DOMAIN out' : out'[i].to = out'[j].to => i = j
    BY <1>6, <1>7, <1>10
  <2>2. \A c \in Members(out)' : c.answer.opponent \in Players
    BY <1>6, <1>8
  <2>3. server' = "reply" /\ out' # <<>> /\ Len(signup_queue') <= 1
    BY <1>3, <1>7
  <2>4. QED
    BY <2>1, <2>2, <2>3 DEF HandlerKept
<1>15. \A q \in Players : Pending(q)' = Pending(q) /\ Reported(q)' = Reported(q)
  BY <1>4, <1>9, <1>10, <1>11 DEF Pending, Reported
<1>16. \A q \in Players : Decided(q)' = Decided(q)
  BY <1>4, <1>15 DEF Decided
<1>17. \A q \in Players : ~Partner(o, q) /\ ~Partner(p, q)
  BY <1>1, <1>4, <1>9 DEF PairedKept, Unpaired
<1>18. \A q, r \in Players : Partner(q, r)' <=> Partner(q, r) \/ <<q, r>> \in {<<o, p>>, <<p, o>>}
  BY <1>4, <1>6, <1>8 DEF Partner
<1>19. Decided(o) = Decided(p)
  BY <1>1, <1>4, <1>10 DEF StagesKept, MoveKept, Decided, Pending
<1>20. PartnersKept'
  <2> SUFFICES ASSUME NEW q \in Players, NEW r \in Players, Partner(q, r)'
               PROVE  /\ q # r /\ Partner(r, q)'
                      /\ \A s \in Players : Partner(q, s)' => s = r
                      /\ Decided(q)' = Decided(r)'
    BY DEF PartnersKept
  <2>1. CASE Partner(q, r)
    <3>1. /\ q # r /\ Partner(r, q) /\ Decided(q) = Decided(r)
          /\ \A s \in Players : Partner(q, s) => s = r
      BY <1>1, <2>1 DEF PartnersKept
    <3>2. q \notin {o, p} /\ r \notin {o, p}
      BY <1>17, <2>1, <3>1
    <3>3. QED
      BY <1>16, <1>18, <3>1, <3>2
  <2>2. CASE <<q, r>> \in {<<o, p>>, <<p, o>>}
    BY <1>10, <1>16, <1>17, <1>18, <1>19, <2>2
  <2>3. QED
    BY <1>18, <2>1, <2>2
<1>21. PairedKept'
  <2>1. \A q \in Players : q \notin {o, p} => (Unpaired(q)' <=> Unpaired(q))
    BY <1>4, <1>9 DEF Unpaired
  <2>2. ~Unpaired(o)' /\ ~Unpaired(p)'
    BY <1>1, <1>4, <1>9, <1>10 DEF Unpaired
  <2>3. \A q \in Players : q \notin {o, p} => \A r \in Players : Partner(q, r)' <=> Partner(q, r)
    BY <1>18
  <2>4. Partner(o, p)' /\ Partner(p, o)'
    BY <1>18
  <2>5. QED
    BY <1>1, <2>1, <2>2, <2>3, <2>4 DEF PairedKept
<1>22. StagesKept'
  <2>1. ASSUME NEW q \in Players PROVE StageKept(q)'
    <3>1. StageKept(q)
      BY <1>1 DEF StagesKept
    <3>2. QED
      BY <1>4, <1>9, <1>10, <1>11, <3>1 DEF StageKept
  <2>2. \A q \in Players : MoveKept(q)'
    BY <1>1, <1>4 DEF StagesKept, MoveKept
  <2>3. QED
    BY <2>1, <2>2 DEF StagesKept
<1>23. OverKept'
  BY <1>4, <1>7, <1>10, <1>11 DEF OverKept
<1>24. TableKept'
  <2>1. \A q \in Players : q # p => Entry(q)' = Entry(q) /\ play_actions'[q] = play_actions[q]
    BY <1>1, <1>3, <1>4, <1>15 DEF Entry, TypeOK
  <2>2. Entry(p)' = UNKNOWN /\ play_actions'[p] = UNKNOWN
    BY <1>1, <1>3, <1>4 DEF Entry, TypeOK, Pending
  <2>3. QED
    BY <1>1, <1>4, <2>1, <2>2 DEF TableKept
<1>25. VerdictsKept'
  <2> SUFFICES ASSUME NEW q \in Players, NEW r \in Players,
                      Partner(q, r)', Reported(q)', Reported(r)'
               PROVE  Result(q, Verdict(msg[q].play_action, msg[r].play_action))'
    BY DEF VerdictsKept
  <2>1. msg[q].action = "PLAY" /\ msg[r].action = "PLAY"
    BY <1>4 DEF Reported
  <2>2. q \notin {o, p}
    BY <1>4, <1>10, <2>1
  <2>3. Result(q, Verdict(msg[q].play_action, msg[r].play_action))
    BY <1>1, <1>15, <1>18, <2>2 DEF VerdictsKept
  <2>4. QED
    BY <1>4, <2>2, <2>3 DEF Result, Verdict
<1>26. QED
  BY <1>4, <1>12, <1>13, <1>14, <1>20, <1>21, <1>22, <1>23, <1>24, <1>25 DEF RpsInvariant

\* The server's arithmetic on moves follows the rules of the game.
LEMMA RulesFollowed ==
  ASSUME NEW m \in Moves, NEW n \in Moves
  PROVE  /\ play_result(m - n) = Verdict(m, n) /\ play_result(-(m - n)) = Verdict(n, m)
         /\ Verdict(m, n) \in {"WON", "LOST", "TIE"}
<1>1. m \in {2, 3, 4} /\ n \in {2, 3, 4}
  BY Constants
<1>2. Beats = {<<3, 2>>, <<4, 3>>, <<2, 4>>}
  BY DEF Beats, ROCK, PAPER, SCISSORS
<1>3. ASSUME NEW i, NEW j
      PROVE  <<i, j>> \in Beats <=> ((i = 3 /\ j = 2) \/ (i = 4 /\ j = 3) \/ (i = 2 /\ j = 4))
  <2>1. ASSUME NEW k, NEW l PROVE <<i, j>> = <<k, l>> <=> (i = k /\ j = l)
    OBVIOUS
  <2>2. <<i, j>> \in Beats <=> (<<i, j>> = <<3, 2>> \/ <<i, j>> = <<4, 3>> \/ <<i, j>> = <<2, 4>>)
    BY <1>2
  <2>3. QED
    BY <2>1, <2>2
<1>4. CASE m = n
  BY <1>1, <1>3, <1>4 DEF play_result, Verdict
<1>5. CASE <<m, n>> \in Beats
  <2>1. m - n \in {1, -2} /\ -(m - n) \in {2, -1} /\ <<n, m>> \notin Beats
    BY <1>1, <1>3, <1>5
  <2>2. QED
    BY <1>5, <2>1 DEF play_result, Verdict
<1>6. CASE <<n, m>> \in Beats
  <2>1. m - n \in {2, -1} /\ -(m - n) \in {1, -2} /\ <<m, n>> \notin Beats
    BY <1>1, <1>3, <1>6
  <2>2. QED
    BY <1>6, <2>1 DEF play_result, Verdict
<1>7. \/ m = n
      \/ (m = 3 /\ n = 2) \/ (m = 4 /\ n = 3) \/ (m = 2 /\ n = 4)
      \/ (n = 3 /\ m = 2) \/ (n = 4 /\ m = 3) \/ (n = 2 /\ m = 4)
  BY <1>1
<1>8. m = n \/ <<m, n>> \in Beats \/ <<n, m>> \in Beats
  BY <1>1, <1>3, <1>7, Zenon
<1>9. QED
  BY <1>4, <1>5, <1>6, <1>8

\* What the server finds when it receives the move of p from p's opponent o.
Meets(p, o) ==
  /\ Receive(p, "PLAY") /\ signup_queue' = signup_queue
  /\ play_actions' = [play_actions EXCEPT ![p] = msg[p].play_action]
  /\ p # o /\ reply[p].opponent = o /\ reply[o].opponent \in {p, Nobody}
  /\ Partner(p, o) /\ Partner(o, p) /\ Pending(p) /\ ~Unpaired(o)
  /\ msg[p].play_action \in Moves

\* The opponent's move is not there: the player waits.
Waits(p, o) == ~(Pending(o) /\ state[o] = "WATIREPLY") /\ Proceed(<<>>, 0, 0, {})

\* It is there, and the round is decided.
Decides(p, o) ==
  /\ Pending(o) /\ state[o] = "WATIREPLY"
  /\ Proceed(<<To(p, o, Verdict(msg[p].play_action, msg[o].play_action)),
               To(o, p, Verdict(msg[o].play_action, msg[p].play_action))>>, 2, 2, {p, o})

\* An opponent is never missing.
LEMMA PlayFacts ==
  ASSUME RpsInvariant, rps_server_PLAY
  PROVE  \E p, o \in Players : Meets(p, o) /\ (Waits(p, o) \/ Decides(p, o))
<1>1. /\ TypeOK /\ SendersKept /\ HandlerKept /\ StagesKept /\ TableKept /\ OverKept
      /\ PartnersKept /\ PairedKept /\ VerdictsKept /\ ChunksAccounted
  BY DEF RpsInvariant
<1>2. PICK p, o, d :
        /\ p \in Players /\ o = msg[p].opponent /\ d = msg[p].play_action - play_actions[o]
        /\ Receive(p, "PLAY") /\ signup_queue' = signup_queue
        /\ play_actions' = [play_actions EXCEPT ![p] = msg[p].play_action]
        /\ CASE play_actions'[o] = ABSENT -> Proceed(<<To(p, o, "NO_OPPONENT")>>, 1, 1, {})
             [] play_actions'[o] = UNKNOWN -> Proceed(<<>>, 0, 0, {})
             [] OTHER -> Proceed(<<To(p, o, play_result(d)), To(o, p, play_result(-d))>>,
                                 2, 2, {p, o})
  BY Zenon DEF rps_server_PLAY, Forgotten
<1>3. p \in Players /\ out = <<>> /\ over = {} /\ state[p] = "WATISEND" /\ msg[p].action = "PLAY"
  BY <1>2, ReceiveFacts
<1>4. /\ o \in Players /\ reply[p].opponent = o /\ Partner(p, o) /\ msg[p].play_action \in Moves
      /\ Pending(p) /\ Decided(p) = round[p] - 1 /\ round[p] \in 0 .. ROUNDS
  BY <1>1, <1>2, <1>3 DEF StagesKept, StageKept, MoveKept, Partner, Pending, Decided, TypeOK
<1>5. p # o /\ Partner(o, p) /\ Decided(o) = Decided(p)
  BY <1>1, <1>3, <1>4 DEF PartnersKept
<1>6. ~Unpaired(o) /\ reply[o].opponent \in {p, Nobody}
  <2>1. ~Unpaired(o)
    BY <1>1, <1>3, <1>4, <1>5 DEF PairedKept
  <2>2. reply[o].opponent \in Players \cup {Nobody}
    BY <1>1, <1>4 DEF TypeOK, Answer
  <2>3. reply[o].opponent \in Players => Partner(o, reply[o].opponent)
    BY DEF Partner
  <2>4. QED
    BY <1>1, <1>3, <1>4, <1>5, <2>1, <2>2, <2>3 DEF PartnersKept
<1>7. Meets(p, o)
  BY <1>2, <1>4, <1>5, <1>6 DEF Meets
<1>8. play_actions'[o] = Entry(o) /\ play_actions[o] = Entry(o)
  BY <1>1, <1>2, <1>3, <1>4, <1>5 DEF TableKept, TypeOK
<1>9. msg[o].action # "QUIT"
  <2>1. ASSUME msg[o].action = "QUIT" PROVE FALSE
    <3>1. Decided(o) = ROUNDS
      BY <1>1, <1>4, <2>1 DEF StagesKept, MoveKept, Decided, Pending
    <3>2. QED
      BY <1>4, <1>5, <3>1, Constants
  <2>2. QED
    BY <2>1
<1>10. Entry(o) = IF Pending(o) /\ state[o] = "WATIREPLY" THEN msg[o].play_action ELSE UNKNOWN
  <2>1. msg[o].action # "none" /\ ~(msg[o].action = "SIGNUP" /\ state[o] = "WATISEND")
    BY <1>1, <1>4, <1>6 DEF StagesKept, StageKept, Unpaired
  <2>2. QED
    BY <1>9, <2>1 DEF Entry
<1>11. CASE ~(Pending(o) /\ state[o] = "WATIREPLY")
  <2>1. play_actions'[o] = UNKNOWN /\ UNKNOWN # ABSENT
    BY <1>8, <1>10, <1>11 DEF UNKNOWN, ABSENT
  <2>2. Proceed(<<>>, 0, 0, {})
    BY <1>2, <2>1, Zenon
  <2>3. Waits(p, o)
    BY <1>11, <2>2 DEF Waits
  <2>4. QED
    BY <1>3, <1>4, <1>7, <2>3
<1>12. CASE Pending(o) /\ state[o] = "WATIREPLY"
  <2>1. play_actions'[o] = msg[o].play_action /\ play_actions[o] = msg[o].play_action
    BY <1>8, <1>10, <1>12
  <2>2. msg[o].play_action \in Moves
    BY <1>1, <1>4, <1>12 DEF StagesKept, MoveKept, Pending
  <2>3. play_actions'[o] # ABSENT /\ play_actions'[o] # UNKNOWN
    BY <2>1, <2>2, Constants
  <2>4. Proceed(<<To(p, o, play_result(d)), To(o, p, play_result(-d))>>, 2, 2, {p, o})
    BY <1>2, <2>3, Zenon
  <2>5. /\ play_result(d) = Verdict(msg[p].play_action, msg[o].play_action)
        /\ play_result(-d) = Verdict(msg[o].play_action, msg[p].play_action)
    BY <1>2, <1>4, <2>1, <2>2, RulesFollowed
  <2>6. Decides(p, o)
    BY <1>12, <2>4, <2>5 DEF Decides
  <2>7. QED
    BY <1>3, <1>4, <1>7, <2>6
<1>13. QED
  BY <1>11, <1>12

LEMMA PlayWaits ==
  ASSUME RpsInvariant, NEW p \in Players, NEW o \in Players, Meets(p, o), Waits(p, o)
  PROVE  RpsInvariant'
<1>1. /\ TypeOK /\ SendersKept /\ HandlerKept /\ StagesKept /\ TableKept /\ OverKept
      /\ PartnersKept /\ PairedKept /\ VerdictsKept /\ ChunksAccounted
  BY DEF RpsInvariant
<1>2. /\ Receive(p, "PLAY") /\ signup_queue' = signup_queue /\ msg[p].play_action \in Moves
      /\ play_actions' = [play_actions EXCEPT ![p] = msg[p].play_action]
      /\ Proceed(<<>>, 0, 0, {})
  BY DEF Meets, Waits
<1>3. /\ server = "receive" /\ out = <<>> /\ over = {} /\ held = 0 /\ Members(out) = {}
      /\ state[p] = "WATISEND" /\ msg[p].action = "PLAY"
      /\ \A q \in Players : state'[q] = IF q = p THEN "WATIREPLY" ELSE state[q]
      /\ msg' = msg /\ reply' = reply /\ round' = round /\ senders' \in Seq(Players) /\ SendersKept'
      /\ state' \in [Players -> {"start", "WATISEND", "WATIREPLY", "replied", "exited"}]
  BY <1>2, ReceiveFacts
<1>4. /\ out' = <<>> /\ server' = "receive" /\ unused_top' = unused_top
      /\ held' = 0 /\ over' = {}
  <2>1. PICK rs : rs = <<>>
    OBVIOUS
  <2>2. Proceed(rs, 0, 0, {}) /\ 0 \in 0 .. 2
    BY <1>2, <2>1
  <2>3. /\ out' = rs /\ server' = (IF rs = <<>> THEN "receive" ELSE "reply")
        /\ unused_top' = unused_top - 0 /\ held' = 0 /\ over' = {}
    BY <1>1, <1>3, <2>2, ProceedFacts
  <2>4. unused_top - 0 = unused_top
    BY <1>1, Constants DEF TypeOK
  <2>5. QED
    BY <2>1, <2>3, <2>4
<1>5. Members(out)' = {} /\ Members(signup_queue)' = Members(signup_queue)
  BY <1>2, <1>4, FewMembers DEF Members
<1>6. ChunksAccounted' /\ HandlerKept'
  BY <1>1, <1>2, <1>3, <1>4, <1>5 DEF ChunksAccounted, HandlerKept
<1>7. TypeOK'
  <2>1. msg[p].play_action \in ABSENT .. SCISSORS
    BY <1>2, Constants DEF ABSENT, SCISSORS
  <2>2. play_actions' \in [Players -> ABSENT .. SCISSORS]
    BY <1>1, <1>2, <2>1 DEF TypeOK
  <2>3. out' \in Seq([to : Players, answer : Answer]) /\ held' \in 0 .. 2
    BY <1>4
  <2>4. QED
    BY <1>1, <1>2, <1>3, <1>4, <2>2, <2>3 DEF TypeOK
<1>8. /\ \A q \in Players : ~Answering(q) /\ ~Answering(q)' /\ Queued(q)' = Queued(q)
      /\ \A q, r \in Players : Partner(q, r)' = Partner(q, r)
  BY <1>3, <1>5 DEF Answering, Queued, Partner
<1>9. \A q \in Players : Pending(q)' = Pending(q) /\ Reported(q)' = Reported(q) /\ Unpaired(q)' = Unpaired(q)
  BY <1>3, <1>8 DEF Pending, Reported, Unpaired
<1>10. \A q \in Players : Decided(q)' = Decided(q)
  BY <1>3, <1>9 DEF Decided
<1>11. StagesKept'
  <2>1. ASSUME NEW q \in Players PROVE StageKept(q)'
    <3>1. StageKept(q)
      BY <1>1 DEF StagesKept
    <3>2. QED
      BY <1>3, <1>8, <3>1 DEF StageKept
  <2>2. \A q \in Players : MoveKept(q)'
    BY <1>1, <1>3 DEF StagesKept, MoveKept
  <2>3. QED
    BY <2>1, <2>2 DEF StagesKept
<1>12. OverKept'
  BY <1>4, <1>8 DEF OverKept
<1>13. TableKept'
  <2>1. \A q \in Players : q # p => Entry(q)' = Entry(q) /\ play_actions'[q] = play_actions[q]
    BY <1>1, <1>2, <1>3, <1>9 DEF Entry, TypeOK
  <2>2. Entry(p)' = msg[p].play_action /\ play_actions'[p] = msg[p].play_action
    BY <1>1, <1>2, <1>3, <1>8 DEF Entry, TypeOK, Pending
  <2>3. QED
    BY <1>1, <1>3, <2>1, <2>2 DEF TableKept
<1>14. PartnersKept' /\ PairedKept'
  BY <1>1, <1>8, <1>9, <1>10 DEF PartnersKept, PairedKept
<1>15. VerdictsKept'
  <2> SUFFICES ASSUME NEW q \in Players, NEW r \in Players,
                      Partner(q, r)', Reported(q)', Reported(r)'
               PROVE  Result(q, Verdict(msg[q].play_action, msg[r].play_action))'
    BY DEF VerdictsKept
  <2>1. Result(q, Verdict(msg[q].play_action, msg[r].play_action)) /\ Reported(q)
    BY <1>1, <1>8, <1>9 DEF VerdictsKept
  <2>2. q # p
    BY <1>3, <1>8, <2>1 DEF Reported
  <2>3. QED
    BY <1>3, <2>1, <2>2 DEF Result, Verdict
<1>16. QED
  BY <1>3, <1>6, <1>7, <1>11, <1>12, <1>13, <1>14, <1>15 DEF RpsInvariant

\* A round is decided for both players in one step.
LEMMA PlayDecides ==
  ASSUME RpsInvariant, NEW p \in Players, NEW o \in Players, Meets(p, o), Decides(p, o)
  PROVE  RpsInvariant'
<1>1. /\ TypeOK /\ SendersKept /\ HandlerKept /\ StagesKept /\ TableKept /\ OverKept
      /\ PartnersKept /\ PairedKept /\ VerdictsKept /\ ChunksAccounted
  BY DEF RpsInvariant
<1>2. /\ Receive(p, "PLAY") /\ signup_queue' = signup_queue /\ msg[p].play_action \in Moves
      /\ play_actions' = [play_actions EXCEPT ![p] = msg[p].play_action]
      /\ p # o /\ reply[p].opponent = o /\ Partner(p, o) /\ Partner(o, p)
      /\ Pending(p) /\ Pending(o) /\ state[o] = "WATIREPLY" /\ reply[o].opponent \in {p, Nobody}
  BY DEF Meets, Decides
<1>3. /\ server = "receive" /\ out = <<>> /\ over = {} /\ held = 0 /\ Members(out) = {}
      /\ state[p] = "WATISEND" /\ msg[p].action = "PLAY"
      /\ \A q \in Players : state'[q] = IF q = p THEN "WATIREPLY" ELSE state[q]
      /\ msg' = msg /\ reply' = reply /\ round' = round /\ senders' \in Seq(Players) /\ SendersKept'
      /\ state' \in [Players -> {"start", "WATISEND", "WATIREPLY", "replied", "exited"}]
  BY <1>2, ReceiveFacts
<1>4. PICK v, w : /\ v = Verdict(msg[p].play_action, msg[o].play_action)
                  /\ w = Verdict(msg[o].play_action, msg[p].play_action)
  OBVIOUS
<1>5. msg[o].action = "PLAY" /\ msg[o].play_action \in Moves /\ reply[o].opponent = p
  BY <1>1, <1>2, PlayersAssumption DEF Pending, StagesKept, StageKept, MoveKept
<1>6. v \in {"WON", "LOST", "TIE"} /\ w \in {"WON", "LOST", "TIE"}
  BY <1>2, <1>4, <1>5, RulesFollowed
<1>7. PICK a, b : a = To(p, o, v) /\ b = To(o, p, w)
  OBVIOUS
<1>8. /\ a \in [to : Players, answer : Answer] /\ a.to = p /\ a.answer.opponent = o /\ a.answer.play_result = v
      /\ b \in [to : Players, answer : Answer] /\ b.to = o /\ b.answer.opponent = p /\ b.answer.play_result = w
  BY <1>6, <1>7 DEF To, Answer
<1>9. /\ out' = <<a, b>> /\ server' = "reply" /\ unused_top' = unused_top - 2
      /\ held' = 2 /\ over' = {p, o}
  <2>0. <<a, b>> # <<>>
    OBVIOUS
  <2>1. PICK rs : rs = <<a, b>> /\ rs # <<>>
    BY <2>0, Zenon
  <2>2. Proceed(rs, 2, 2, {p, o}) /\ 2 \in 0 .. 2
    BY <1>4, <1>7, <2>1 DEF Decides
  <2>3. /\ out' = rs /\ server' = (IF rs = <<>> THEN "receive" ELSE "reply")
        /\ unused_top' = unused_top - 2 /\ held' = 2 /\ over' = {p, o}
    BY <1>1, <1>3, <2>2, ProceedFacts
  <2>4. QED
    BY <2>1, <2>3
<1>10. Members(out)' = {a, b} /\ Members(signup_queue)' = Members(signup_queue)
  BY <1>2, <1>9, FewMembers DEF Members
<1>11. /\ \A q \in Players : ~Answering(q) /\ Queued(q)' = Queued(q)
       /\ \A q \in Players : Answering(q)' <=> q \in {p, o}
  <2>1. \A q \in Players : ~Answering(q) /\ Queued(q)' = Queued(q)
    BY <1>3, <1>10 DEF Answering, Queued
  <2>2. \A q \in Players : Answering(q)' <=> q \in {p, o}
    BY <1>8, <1>10, Zenon DEF Answering
  <2>3. QED
    BY <2>1, <2>2
<1>12. \A q, r \in Players : Partner(q, r)' <=> Partner(q, r)
  BY <1>2, <1>3, <1>5, <1>8, <1>10 DEF Partner
<1>13. ChunksAccounted' /\ unused_top' \in 0 .. CHUNKS
  <2>1. /\ unused_top \in Int /\ Len(signup_queue) \in Nat /\ Len(signup_queue) <= 1
        /\ unused_top + Len(signup_queue) + 0 = CHUNKS
    BY <1>1, <1>3, Constants, LenProperties DEF ChunksAccounted, TypeOK, HandlerKept
  <2>2. unused_top' + Len(signup_queue) + 2 = CHUNKS /\ unused_top' \in 0 .. CHUNKS
    BY <1>9, <2>1, Constants
  <2>3. QED
    BY <1>2, <1>9, <2>2 DEF ChunksAccounted
<1>14. TypeOK'
  <2>1. msg[p].play_action \in ABSENT .. SCISSORS
    BY <1>2, Constants DEF ABSENT, SCISSORS
  <2>2. play_actions' \in [Players -> ABSENT .. SCISSORS]
    BY <1>1, <1>2, <2>1 DEF TypeOK
  <2>3. out' \in Seq([to : Players, answer : Answer]) /\ held' \in 0 .. 2
    BY <1>8, <1>9
  <2>4. QED
    BY <1>1, <1>2, <1>3, <1>9, <1>13, <2>2, <2>3 DEF TypeOK
<1>15. HandlerKept'
  <2>1. \A i, j \in DOMAIN out' : out'[i].to = out'[j].to => i = j
    BY <1>2, <1>8, <1>9
  <2>2. \A c \in Members(out)' : c.answer.opponent \in Players
    BY <1>8, <1>10
  <2>3. server' = "reply" /\ out' # <<>> /\ Len(signup_queue') <= 1
    BY <1>1, <1>2, <1>9 DEF HandlerKept
  <2>4. QED
    BY <2>1, <2>2, <2>3 DEF HandlerKept
<1>16. /\ \A q \in Players : q \notin {p, o} =>
             Pending(q)' = Pending(q) /\ Reported(q)' = Reported(q) /\ Decided(q)' = Decided(q)
       /\ ~Pending(p)' /\ ~Pending(o)'
  <2>1. \A q \in Players : q \notin {p, o} => Pending(q)' = Pending(q) /\ Reported(q)' = Reported(q)
    BY <1>3, <1>11 DEF Pending, Reported
  <2>2. ~Pending(p)' /\ ~Pending(o)'
    BY <1>2, <1>3, <1>11 DEF Pending
  <2>3. QED
    BY <1>3, <2>1, <2>2 DEF Decided
<1>17. Decided(p)' = Decided(o)'
  <2>1. Decided(p)' = round[p] /\ Decided(o)' = round[o]
    BY <1>3, <1>16 DEF Decided
  <2>2. Decided(p) = round[p] - 1 /\ Decided(o) = round[o] - 1 /\ Decided(p) = Decided(o)
    BY <1>1, <1>2 DEF Decided, PartnersKept
  <2>3. round[p] \in Int /\ round[o] \in Int
    BY <1>1, Constants DEF TypeOK
  <2>4. round[p] = round[o]
    BY <2>2, <2>3
  <2>5. QED
    BY <2>1, <2>4
<1>18. \A q, r \in Players : Partner(q, r) =>
         (q = p /\ r = o) \/ (q = o /\ r = p) \/ (q \notin {p, o} /\ r \notin {p, o})
  BY <1>1, <1>2 DEF PartnersKept
<1>19. PartnersKept'
  <2> SUFFICES ASSUME NEW q \in Players, NEW r \in Players, Partner(q, r)
               PROVE  /\ q # r /\ Partner(r, q)
                      /\ \A s \in Players : Partner(q, s) => s = r
                      /\ Decided(q)' = Decided(r)'
    BY <1>12 DEF PartnersKept
  <2>1. /\ q # r /\ Partner(r, q) /\ Decided(q) = Decided(r)
        /\ \A s \in Players : Partner(q, s) => s = r
    BY <1>1 DEF PartnersKept
  <2>2. Decided(q)' = Decided(r)'
    BY <1>16, <1>17, <1>18, <2>1
  <2>3. QED
    BY <2>1, <2>2
<1>20. PairedKept'
  <2>1. \A q \in Players : Unpaired(q)' <=> Unpaired(q)
    BY <1>2, <1>3, <1>5, <1>11 DEF Unpaired
  <2>2. QED
    BY <1>1, <1>12, <2>1 DEF PairedKept
<1>21. StagesKept'
  <2>1. ASSUME NEW q \in Players PROVE StageKept(q)'
    <3>1. StageKept(q)
      BY <1>1 DEF StagesKept
    <3>2. CASE q \notin {p, o}
      BY <1>3, <1>11, <3>1, <3>2 DEF StageKept
    <3>3. CASE q \in {p, o}
      BY <1>2, <1>3, <1>5, <1>11, <3>1, <3>3 DEF StageKept
    <3>4. QED
      BY <3>2, <3>3
  <2>2. \A q \in Players : MoveKept(q)'
    BY <1>1, <1>3 DEF StagesKept, MoveKept
  <2>3. QED
    BY <2>1, <2>2 DEF StagesKept
<1>22. OverKept'
  BY <1>2, <1>3, <1>5, <1>9, <1>11 DEF OverKept
<1>23. TableKept'
  <2>1. \A q \in Players : q \notin {p, o} => Entry(q)' = Entry(q) /\ play_actions'[q] = play_actions[q]
    BY <1>1, <1>2, <1>3, <1>16 DEF Entry, TypeOK
  <2>2. QED
    BY <1>1, <1>3, <1>9, <2>1 DEF TableKept
<1>24. VerdictsKept'
  <2> SUFFICES ASSUME NEW q \in Players, NEW r \in Players,
                      Partner(q, r), Reported(q)', Reported(r)'
               PROVE  Result(q, Verdict(msg[q].play_action, msg[r].play_action))'
    BY <1>12 DEF VerdictsKept
  <2>1. CASE q = p /\ r = o
    <3>1. Result(p, v)'
      BY <1>8, <1>10 DEF Result
    <3>2. v = Verdict(msg[p].play_action, msg[o].play_action)'
      BY <1>3, <1>4 DEF Verdict
    <3>3. QED
      BY <2>1, <3>1, <3>2 DEF Result
  <2>2. CASE q = o /\ r = p
    <3>1. Result(o, w)'
      BY <1>8, <1>10 DEF Result
    <3>2. w = Verdict(msg[o].play_action, msg[p].play_action)'
      BY <1>3, <1>4 DEF Verdict
    <3>3. QED
      BY <2>2, <3>1, <3>2 DEF Result
  <2>3. CASE q \notin {p, o} /\ r \notin {p, o}
    <3>1. Result(q, Verdict(msg[q].play_action, msg[r].play_action))
      BY <1>1, <1>16, <2>3 DEF VerdictsKept
    <3>2. QED
      BY <1>3, <2>3, <3>1 DEF Result, Verdict
  <2>4. QED
    BY <1>18, <2>1, <2>2, <2>3
<1>25. QED
  BY <1>3, <1>13, <1>14, <1>15, <1>19, <1>20, <1>21, <1>22, <1>23, <1>24 DEF RpsInvariant

-----------------------------------------------------------------------------
(* The invariant holds, and what follows from it.                          *)

LEMMA NextRps ==
  ASSUME RpsInvariant, [Next]_vars
  PROVE  RpsInvariant'
<1>1. CASE rps_server_PLAY
  <2>1. PICK p \in Players, o \in Players : Meets(p, o) /\ (Waits(p, o) \/ Decides(p, o))
    BY <1>1, PlayFacts
  <2>2. QED
    BY <2>1, PlayWaits, PlayDecides
<1>2. CASE rps_server_SIGNUP
  BY <1>2, SignupWaits, SignupPairs
<1>3. CASE UNCHANGED vars
  <2>1. /\ signup_queue' = signup_queue /\ play_actions' = play_actions /\ unused_top' = unused_top
        /\ server' = server /\ out' = out /\ held' = held /\ over' = over /\ senders' = senders
        /\ state' = state /\ msg' = msg /\ reply' = reply /\ round' = round
    BY <1>3 DEF vars, serverVars, playerVars
  <2>2. /\ Members(out)' = Members(out) /\ Members(senders)' = Members(senders)
        /\ Members(signup_queue)' = Members(signup_queue)
    BY <2>1 DEF Members
  <2>3. TypeOK' /\ SendersKept' /\ HandlerKept' /\ ChunksAccounted'
    BY <2>1, <2>2 DEF RpsInvariant, TypeOK, SendersKept, HandlerKept, ChunksAccounted
  <2>4. StagesKept' /\ TableKept' /\ OverKept'
    BY <2>1, <2>2 DEF RpsInvariant, StagesKept, StageKept, MoveKept, TableKept, OverKept, Entry,
                      Pending, Answering, Queued
  <2>5. PartnersKept' /\ PairedKept'
    BY <2>1, <2>2 DEF RpsInvariant, PartnersKept, PairedKept, Partner, Decided, Pending, Answering,
                      Unpaired, Queued
  <2>6. VerdictsKept'
    BY <2>1, <2>2 DEF RpsInvariant, VerdictsKept, Partner, Reported, Result, Verdict, Answering
  <2>7. QED
    BY <2>3, <2>4, <2>5, <2>6 DEF RpsInvariant
<1>4. QED
  BY <1>1, <1>2, <1>3, QuitKept, ReplyKept, ClientKept DEF Next, Server

\* RpsInvariant, on which the theorems below rest, holds in every state.
THEOREM RpsInvariantHolds == Spec => []RpsInvariant
BY InitRps, NextRps, PTL DEF Spec

LEMMA WaysCounted ==
  ASSUME NEW A \in BOOLEAN, NEW B \in BOOLEAN, NEW C \in BOOLEAN
  PROVE  LET ways == {w \in 1 .. 3 : <<A, B, C>>[w]} IN
         /\ A /\ ~B /\ ~C => Cardinality(ways) = 1
         /\ ~A /\ B /\ ~C => Cardinality(ways) = 1
         /\ ~A /\ ~B /\ C => Cardinality(ways) = 1
         /\ ~A /\ ~B /\ ~C => Cardinality(ways) = 0
<1>1. PICK W : W = {w \in 1 .. 3 : <<A, B, C>>[w]}
  OBVIOUS
<1>2. 1 .. 3 = {1, 2, 3} /\ <<A, B, C>>[1] = A /\ <<A, B, C>>[2] = B /\ <<A, B, C>>[3] = C
  OBVIOUS
<1>3. \A w : w \in W <=> (w = 1 /\ A) \/ (w = 2 /\ B) \/ (w = 3 /\ C)
  BY <1>1, <1>2, Zenon
<1>4. A /\ ~B /\ ~C => W = {1}
  BY <1>3, Zenon
<1>5. ~A /\ B /\ ~C => W = {2}
  BY <1>3, Zenon
<1>6. ~A /\ ~B /\ C => W = {3}
  BY <1>3, Zenon
<1>7. ~A /\ ~B /\ ~C => W = {}
  BY <1>3, Zenon
<1>8. Cardinality({}) = 0 /\ \A x : Cardinality({x}) = 1
  BY FS_EmptySet, FS_Singleton
<1>9. QED
  BY <1>1, <1>4, <1>5, <1>6, <1>7, <1>8, Zenon

\* A player that waits for an answer is expected by the server in exactly one
\* way, and no other player is, whatever the number of players and the order of
\* their messages: no answer is lost and no Reply goes to a task that is not
\* waiting for it.
THEOREM PlayersAnsweredOnce == Spec => []EachAwaitsOneAnswer
<1>1. ASSUME RpsInvariant PROVE EachAwaitsOneAnswer
  <2>1. TypeOK /\ HandlerKept /\ StagesKept /\ TableKept /\ OverKept
    BY <1>1 DEF RpsInvariant
  <2>2. \A i, j \in DOMAIN out : i # j => out[i].to # out[j].to
    BY <2>1 DEF HandlerKept
  <2>3. ASSUME NEW p \in Players, NEW A \in BOOLEAN, NEW B \in BOOLEAN, NEW C \in BOOLEAN,
               A = (\E i \in DOMAIN out : out[i].to = p),
               B = (\E i \in DOMAIN signup_queue : signup_queue[i] = p),
               C = (play_actions[p] \in Moves /\ p \notin over)
        PROVE  Cardinality({w \in 1 .. 3 : <<A, B, C>>[w]}) = IF state[p] = "WATIREPLY" THEN 1 ELSE 0
    <3>1. (A <=> Answering(p)) /\ (B <=> Queued(p))
      BY <2>3, Zenon DEF Answering, Queued, Members
    <3>2. C <=> Pending(p) /\ state[p] = "WATIREPLY"
      <4>1. p \in over => ~(Pending(p) /\ state[p] = "WATIREPLY")
        BY <2>1 DEF OverKept, Pending
      <4>2. ASSUME p \notin over PROVE play_actions[p] \in Moves <=> Pending(p) /\ state[p] = "WATIREPLY"
        <5>1. ABSENT \notin Moves /\ UNKNOWN \notin Moves
          BY Constants
        <5>2. play_actions[p] = Entry(p)
          BY <2>1, <4>2 DEF TableKept
        <5>3. Pending(p) => msg[p].action = "PLAY" /\ msg[p].play_action \in Moves
          BY <2>1 DEF Pending, StagesKept, MoveKept
        <5>4. QED
          BY <5>1, <5>2, <5>3 DEF Entry
      <4>3. QED
        BY <2>3, <4>1, <4>2
    <3>3. /\ Answering(p) => state[p] = "WATIREPLY"
          /\ Queued(p) <=> state[p] = "WATIREPLY" /\ msg[p].action = "SIGNUP" /\ ~Answering(p)
          /\ state[p] = "WATIREPLY" /\ msg[p].action = "QUIT" => Answering(p)
          /\ state[p] = "WATIREPLY" => msg[p].action \in {"SIGNUP", "PLAY", "QUIT"}
      BY <2>1 DEF StagesKept, StageKept, TypeOK, Request
    <3>4. CASE state[p] = "WATIREPLY"
      <4>1. (A /\ ~B /\ ~C) \/ (~A /\ B /\ ~C) \/ (~A /\ ~B /\ C)
        BY <3>1, <3>2, <3>3, <3>4 DEF Pending
      <4>2. Cardinality({w \in 1 .. 3 : <<A, B, C>>[w]}) = 1
        BY <4>1, WaysCounted
      <4>3. QED
        BY <3>4, <4>2
    <3>5. CASE state[p] # "WATIREPLY"
      <4>1. ~A /\ ~B /\ ~C
        BY <3>1, <3>2, <3>3, <3>5
      <4>2. Cardinality({w \in 1 .. 3 : <<A, B, C>>[w]}) = 0
        BY <4>1, WaysCounted
      <4>3. QED
        BY <3>5, <4>2
    <3>6. QED
      BY <3>4, <3>5
  <2>4. ASSUME NEW p \in Players
        PROVE  Cardinality({w \in 1 .. 3 : <<\E i \in DOMAIN out : out[i].to = p,
                                             \E i \in DOMAIN signup_queue : signup_queue[i] = p,
                                             play_actions[p] \in Moves /\ p \notin over>>[w]})
               = IF state[p] = "WATIREPLY" THEN 1 ELSE 0
    <3>1. PICK A \in BOOLEAN : A = (\E i \in DOMAIN out : out[i].to = p)
      BY Zenon
    <3>2. PICK B \in BOOLEAN : B = (\E i \in DOMAIN signup_queue : signup_queue[i] = p)
      BY Zenon
    <3>3. PICK C \in BOOLEAN : C = (play_actions[p] \in Moves /\ p \notin over)
      BY Zenon
    <3>4. Cardinality({w \in 1 .. 3 : <<A, B, C>>[w]}) = IF state[p] = "WATIREPLY" THEN 1 ELSE 0
      BY <2>3, <3>1, <3>2, <3>3
    <3>5. QED
      BY <3>1, <3>2, <3>3, <3>4, Zenon
  <2>5. QED
    BY <2>2, <2>4, Zenon DEF EachAwaitsOneAnswer
<1>2. QED
  BY <1>1, RpsInvariantHolds, PTL

\* Pairing is one to one and known to both sides, or about to be.
THEOREM PairsAreMutual == Spec => []PairsMutual
<1>1. ASSUME RpsInvariant PROVE PairsMutual
  <2> SUFFICES ASSUME NEW p \in Players, NEW q, q = reply[p].opponent, q # Nobody
               PROVE  /\ q # p
                      /\ \/ reply[q].opponent = p
                         \/ \E i \in DOMAIN out : out[i].to = q /\ out[i].answer.opponent = p
    BY Zenon DEF PairsMutual
  <2>1. q \in Players
    BY <1>1 DEF RpsInvariant, TypeOK, Answer
  <2>2. q # p /\ Partner(q, p)
    BY <1>1, <2>1 DEF RpsInvariant, PartnersKept, Partner
  <2>3. QED
    BY <2>2, Zenon DEF Partner, Members
<1>2. QED
  BY <1>1, RpsInvariantHolds, PTL

\* A player's opponent exits only after the player has got its last result, so
\* a name is never read from the stack of a task that is gone.
THEOREM OpponentsWait == Spec => []OpponentsStay
<1>1. ASSUME RpsInvariant PROVE OpponentsStay
  <2> SUFFICES ASSUME NEW p \in Players, reply[p].opponent # Nobody, state[p] # "exited",
                      msg[p].action # "QUIT", round[p] < ROUNDS \/ state[p] # "replied",
                      state[reply[p].opponent] = "exited"
               PROVE  FALSE
    BY Zenon DEF OpponentsStay
  <2>1. TypeOK /\ HandlerKept /\ StagesKept /\ OverKept /\ PartnersKept /\ PairedKept
    BY <1>1 DEF RpsInvariant
  <2>2. PICK q \in Players : q = reply[p].opponent
    BY <2>1 DEF TypeOK, Answer
  <2>3. Partner(p, q) /\ Decided(p) = Decided(q)
    BY <2>1, <2>2 DEF PartnersKept, Partner
  <2>4. msg[q].action = "QUIT" /\ Decided(q) = ROUNDS
    BY <2>1, <2>2 DEF StagesKept, StageKept, MoveKept, Decided, Pending
  <2>5. round[p] \in 0 .. ROUNDS
    BY <2>1 DEF TypeOK
  <2>6. ~Pending(p) /\ round[p] = ROUNDS
    <3>1. Decided(p) = ROUNDS
      BY <2>3, <2>4
    <3>2. CASE Pending(p)
      <4>1. round[p] - 1 = ROUNDS
        BY <3>1, <3>2 DEF Decided
      <4>2. QED
        BY <2>5, <4>1, Constants
    <3>3. CASE ~Pending(p)
      BY <3>1, <3>3 DEF Decided
    <3>4. QED
      BY <3>2, <3>3
  <2>7. state[p] # "replied" /\ msg[p].action = "PLAY"
    <3>1. state[p] # "replied"
      BY <2>6, Constants
    <3>2. msg[p].action \notin {"none", "SIGNUP"}
      BY <2>1, <2>6, Constants DEF StagesKept, MoveKept
    <3>3. QED
      BY <2>1, <3>1, <3>2 DEF TypeOK, Request
  <2>8. Answering(p)
    BY <2>1, <2>6, <2>7 DEF Pending, StagesKept, StageKept, TypeOK
  <2>9. q \in over
    BY <2>1, <2>2, <2>7, <2>8 DEF OverKept
  <2>10. QED
    BY <2>1, <2>2, <2>4, <2>9 DEF OverKept
<1>2. QED
  BY <1>1, RpsInvariantHolds, PTL

\* Three chunks of the memory pool are enough for any number of players: the
\* server never writes through the null pointer of an empty pool, and every
\* chunk comes back.
THEOREM ThreeChunksSuffice == Spec => []ChunksAccounted
<1>1. RpsInvariant => ChunksAccounted
  BY DEF RpsInvariant
<1>2. QED
  BY <1>1, RpsInvariantHolds, PTL

\* Told gives the one result of each player that has one.
LEMMA ToldFacts ==
  ASSUME RpsInvariant
  PROVE  /\ DOMAIN Told = {p \in Players : Reported(p)}
         /\ \A p \in Players : \A r : Reported(p) /\ Result(p, r) => Told[p] = r
<1>1. HandlerKept /\ StagesKept
  BY DEF RpsInvariant
<1>2. PICK ready, going :
        /\ ready = {p \in Players : state[p] = "replied" /\ msg[p].action = "PLAY"}
        /\ going = {p \in Players : msg[p].action = "PLAY" /\ \E i \in DOMAIN out : out[i].to = p}
        /\ Told = [p \in ready \cup going |->
                     IF p \in ready THEN reply[p].play_result
                     ELSE (CHOOSE a \in {out[i] : i \in DOMAIN out} : a.to = p).answer.play_result]
  BY Zenon DEF Told
<1>3. \A p \in Players : Answering(p) <=> \E i \in DOMAIN out : out[i].to = p
  BY Zenon DEF Answering, Members
<1>4. ready \cup going = {p \in Players : Reported(p)}
  BY <1>2, <1>3, Zenon DEF Reported
<1>5. ASSUME NEW p \in Players, NEW r, Reported(p), Result(p, r)
      PROVE  Told[p] = r
  <2>1. p \in ready \cup going
    BY <1>4, <1>5, Zenon
  <2>2. Told[p] = IF p \in ready THEN reply[p].play_result
                  ELSE (CHOOSE a \in {out[i] : i \in DOMAIN out} : a.to = p).answer.play_result
    BY <1>2, <2>1, Zenon
  <2>3. CASE p \in ready
    <3>1. state[p] = "replied" /\ ~Answering(p)
      BY <1>1, <1>2, <2>3 DEF StagesKept, StageKept
    <3>2. reply[p].play_result = r
      BY <1>5, <3>1 DEF Result, Answering
    <3>3. QED
      BY <2>2, <2>3, <3>2
  <2>4. CASE p \notin ready
    <3>1. state[p] # "replied"
      BY <1>2, <1>5, <2>4 DEF Reported
    <3>2. PICK a \in Members(out) : a.to = p /\ a.answer.play_result = r
      BY <1>5, <3>1 DEF Result
    <3>3. \A b \in Members(out) : b.to = p => b = a
      BY <1>1, <3>2 DEF HandlerKept, Members
    <3>4. (CHOOSE b \in Members(out) : b.to = p) = a
      BY <3>2, <3>3
    <3>5. (CHOOSE b \in {out[i] : i \in DOMAIN out} : b.to = p) = a
      BY <3>4, Zenon DEF Members
    <3>6. QED
      BY <2>2, <2>4, <3>2, <3>5
  <2>5. QED
    BY <2>3, <2>4
<1>6. QED
  BY <1>2, <1>4, <1>5

\* The results of a round agree with both moves, for any interleaving: a player
\* that runs ahead never makes the server judge moves of different rounds, and
\* nobody is told that it has no opponent.
THEOREM RoundsJudgedAlike == Spec => []RoundsAgree
<1>1. ASSUME RpsInvariant PROVE RoundsAgree
  <2>1. TypeOK /\ HandlerKept /\ StagesKept /\ PartnersKept /\ PairedKept /\ VerdictsKept
    BY <1>1 DEF RpsInvariant
  <2>2. /\ DOMAIN Told = {p \in Players : Reported(p)}
        /\ \A p \in Players : \A r : Reported(p) /\ Result(p, r) => Told[p] = r
    BY <1>1, ToldFacts
  <2>3. \A p \in Players : Reported(p) => msg[p].action = "PLAY" /\ Decided(p) = round[p]
    BY <2>1 DEF Reported, Pending, Decided, StagesKept, StageKept
  <2>4. ASSUME NEW p \in DOMAIN Told, NEW q, q = reply[p].opponent
        PROVE  IF q \in DOMAIN Told
               THEN /\ round[q] = round[p]
                    /\ Told[p] = Verdict(msg[p].play_action, msg[q].play_action)
               ELSE \/ msg[q].action = "QUIT" /\ round[p] = ROUNDS
                    \/ round[q] = round[p] + 1
    <3>1. p \in Players /\ Reported(p) /\ msg[p].action = "PLAY" /\ Decided(p) = round[p]
      BY <2>2, <2>3, <2>4
    <3>2. q \in Players /\ round[p] > 0
      BY <2>1, <2>4, <3>1 DEF StagesKept, StageKept, MoveKept
    <3>3. Partner(p, q) /\ Decided(q) = round[p]
      BY <2>1, <2>4, <3>1, <3>2 DEF Partner, PartnersKept
    <3>4. CASE q \in DOMAIN Told
      <4>1. Reported(q) /\ Decided(q) = round[q]
        BY <2>2, <2>3, <3>4
      <4>2. Result(p, Verdict(msg[p].play_action, msg[q].play_action))
        BY <2>1, <3>1, <3>2, <3>3, <4>1 DEF VerdictsKept
      <4>3. Told[p] = Verdict(msg[p].play_action, msg[q].play_action)
        BY <2>2, <3>1, <4>2
      <4>4. QED
        BY <3>3, <3>4, <4>1, <4>3
    <3>5. CASE q \notin DOMAIN Told
      <4>1. round[p] \in Nat /\ round[q] \in Nat /\ ~Reported(q)
        BY <2>1, <2>2, <3>1, <3>2, <3>5, Constants DEF TypeOK
      <4>2. CASE Pending(q)
        <5>1. round[q] - 1 = round[p]
          BY <3>3, <4>2 DEF Decided
        <5>2. round[q] = round[p] + 1
          BY <4>1, <5>1
        <5>3. QED
          BY <3>5, <5>2
      <4>3. CASE ~Pending(q)
        <5>1. round[q] = round[p]
          BY <3>3, <4>3 DEF Decided
        <5>2. msg[q].action \notin {"none", "SIGNUP"}
          BY <2>1, <3>2, <4>1, <5>1 DEF StagesKept, MoveKept
        <5>3. msg[q].action # "PLAY"
          BY <2>1, <3>2, <4>1, <4>3 DEF Pending, Reported, StagesKept, StageKept, TypeOK
        <5>4. msg[q].action = "QUIT"
          BY <2>1, <3>2, <5>2, <5>3 DEF TypeOK, Request
        <5>5. round[q] = ROUNDS
          BY <2>1, <3>2, <5>4 DEF StagesKept, MoveKept
        <5>6. QED
          BY <3>5, <5>1, <5>4, <5>5
      <4>4. QED
        BY <4>2, <4>3
    <3>6. QED
      BY <3>4, <3>5
  <2>5. QED
    BY <2>4, Zenon DEF RoundsAgree, Verdict
<1>2. QED
  BY <1>1, RpsInvariantHolds, PTL
=============================================================================
