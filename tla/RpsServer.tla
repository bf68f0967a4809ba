----------------------------- MODULE RpsServer -----------------------------
(***************************************************************************)
(* The rock-paper-scissors server and its clients (rps_server.c).          *)
(*                                                                         *)
(* Players sign up, are paired in the order they do, play ROUNDS rounds    *)
(* and quit.  The server holds the answer to a sign-up until it has a      *)
(* pair, and the answer to a move until the opponent has moved too.        *)
(* A name is a pointer to its player's stack and the name server maps it   *)
(* to the player's tid, so a player stands for its name and its tid.  A    *)
(* step is a Receive with the code up to the first Reply, one Reply, or a  *)
(* client's Send with the code before it; steps of tasks interleave.       *)
(***************************************************************************)
EXTENDS Integers, Sequences, FiniteSets

CONSTANTS
  Players,
  ROUNDS,       \* rounds a client plays: 3
  Moves,        \* what get_random_u32(2, 5) may return
  CHUNKS        \* chunks of the memory pool

ABSENT == 0
UNKNOWN == 1
ROCK == 2
PAPER == 3
SCISSORS == 4

ASSUME RoundsAssumption == ROUNDS \in Nat \ {0}
ASSUME MovesAssumption == Moves \subseteq {ROCK, PAPER, SCISSORS}
ASSUME PoolAssumption == CHUNKS \in Nat /\ CHUNKS >= 3

Nobody == "nobody"

ASSUME PlayersAssumption == Nobody \notin Players

\* The fields of RPSMsg that the server reads of a request, and those that a
\* client reads of a reply ("none": whatever the memory held).
Request == [action : {"none", "SIGNUP", "PLAY", "QUIT"}, play_action : Moves \cup {UNKNOWN},
            opponent : Players \cup {Nobody}]
Answer == [opponent : Players \cup {Nobody},
           play_result : {"none", "WON", "LOST", "TIE", "NO_OPPONENT"}]
NoRequest == [action |-> "none", play_action |-> UNKNOWN, opponent |-> Nobody]
NoAnswer == [opponent |-> Nobody, play_result |-> "none"]

VARIABLES
  signup_queue,    \* players signed up and not yet paired, oldest first
  play_actions,    \* the server's table of moves, by tid
  unused_top,      \* free chunks of the memory pool
  server,          \* "receive", "reply" or "fault"
  out,             \* the replies the handler still has to make, each with its
                   \* receiver
  held,            \* chunks that it frees when it has made them
  over,            \* players whose move it then forgets
  senders,         \* players waiting in the server's sender queue
  state,           \* of each player
  msg, reply,      \* the player's two messages
  round            \* the rounds it has begun

serverVars == <<signup_queue, play_actions, unused_top, server, out, held, over>>
playerVars == <<state, msg, reply, round>>
vars == <<serverVars, senders, playerVars>>

TypeOK ==
  /\ signup_queue \in Seq(Players)
  /\ play_actions \in [Players -> ABSENT .. SCISSORS]
  /\ unused_top \in 0 .. CHUNKS /\ held \in 0 .. 2
  /\ server \in {"receive", "reply", "fault"}
  /\ out \in Seq([to : Players, answer : Answer])
  /\ over \subseteq Players
  /\ senders \in Seq(Players)
  /\ state \in [Players -> {"start", "WATISEND", "WATIREPLY", "replied", "exited"}]
  /\ msg \in [Players -> Request] /\ reply \in [Players -> Answer]
  /\ round \in [Players -> 0 .. ROUNDS]

Init ==
  /\ signup_queue = <<>>
  /\ play_actions = [p \in Players |-> ABSENT]
  /\ unused_top = CHUNKS /\ held = 0
  /\ server = "receive" /\ out = <<>> /\ over = {} /\ senders = <<>>
  /\ state = [p \in Players |-> "start"]
  /\ msg = [p \in Players |-> NoRequest] /\ reply = [p \in Players |-> NoAnswer]
  /\ round = [p \in Players |-> 0]

-----------------------------------------------------------------------------
(* rps_server                                                              *)

\* Receive takes the message of the oldest sender.
Receive(p, a) ==
  /\ server = "receive" /\ senders # <<>>
  /\ p = Head(senders) /\ msg[p].action = a
  /\ senders' = Tail(senders)
  /\ state' = [state EXCEPT ![p] = "WATIREPLY"]
  /\ UNCHANGED <<msg, reply, round>>

To(p, q, r) == [to |-> p, answer |-> [opponent |-> q, play_result |-> r]]

\* The handler goes on to the replies rs, or back to Receive if there are none.
\* The chunks it needs, n of them new, are its own until the last reply; without
\* a free chunk it writes through NULL.
Proceed(rs, n, h, forget) ==
  /\ out' = rs
  /\ IF unused_top < n
     THEN server' = "fault" /\ UNCHANGED <<unused_top, held, over>>
     ELSE /\ server' = IF rs = <<>> THEN "receive" ELSE "reply"
          /\ unused_top' = unused_top - n
          /\ held' = h /\ over' = forget

\* Faulty variant: the second is given its own name.
Paired_wrong(p, q) == <<To(p, q, "none"), To(q, q, "none")>>

\* Each is told the other's name.
Paired(p, q) == <<To(p, q, "none"), To(q, p, "none")>>

\* The message goes to a chunk and to the queue; the two oldest are paired.
rps_server_SIGNUP ==
  \E p \in Players :
    /\ Receive(p, "SIGNUP")
    /\ play_actions' = [play_actions EXCEPT ![p] = UNKNOWN]
    /\ LET q == Append(signup_queue, p)
           pair == Len(q) >= 2
       IN /\ signup_queue' = IF pair THEN SubSeq(q, 3, Len(q)) ELSE q
          /\ IF pair THEN Proceed(Paired(q[1], q[2]), 1, 2, {}) ELSE Proceed(<<>>, 1, 0, {})

\* Faulty variant: the larger move wins.
play_result_larger(d) ==
  CASE d = 0 -> "TIE" [] d > 0 -> "WON" [] OTHER -> "LOST"

\* The result of a player whose move is d above its opponent's.
play_result(d) ==
  CASE d = 0 -> "TIE" [] d \in {1, -2} -> "WON" [] d \in {2, -1} -> "LOST"

\* Faulty variant: the moves of a finished round are kept.
Forgotten_none(p1, p2) == {}

\* The moves of a finished round are forgotten.
Forgotten(p1, p2) == {p1, p2}

\* With a move already there, the round is over and both are answered, the one
\* whose message this is first; otherwise it waits.
rps_server_PLAY ==
  \E p1 \in Players :
    LET p2 == msg[p1].opponent
        d == msg[p1].play_action - play_actions[p2]
    IN /\ Receive(p1, "PLAY")
       /\ play_actions' = [play_actions EXCEPT ![p1] = msg[p1].play_action]
       /\ UNCHANGED signup_queue
       /\ CASE play_actions'[p2] = ABSENT ->
                 Proceed(<<To(p1, p2, "NO_OPPONENT")>>, 1, 1, {})
            [] play_actions'[p2] = UNKNOWN -> Proceed(<<>>, 0, 0, {})
            [] OTHER ->
                 Proceed(<<To(p1, p2, play_result(d)), To(p2, p1, play_result(-d))>>,
                         2, 2, Forgotten(p1, p2))

\* The request is sent back.
rps_server_QUIT ==
  \E p \in Players :
    /\ Receive(p, "QUIT")
    /\ play_actions' = [play_actions EXCEPT ![p] = ABSENT]
    /\ UNCHANGED signup_queue
    /\ Proceed(<<To(p, msg[p].opponent, "none")>>, 0, 0, {})

\* Faulty variant: only the first message of a pair is freed.
Freed_one == IF held = 0 THEN 0 ELSE 1

\* What the handler gives back to the pool at its end.
Freed == held

\* Faulty variant: the second player of a pair is not answered.
rps_server_reply_first ==
  /\ server = "reply"
  /\ reply' = [reply EXCEPT ![out[1].to] = out[1].answer]
  /\ state' = [state EXCEPT ![out[1].to] = "replied"]
  /\ out' = <<>> /\ server' = "receive"
  /\ unused_top' = unused_top + Freed /\ held' = 0
  /\ play_actions' = [p \in Players |-> IF p \in over THEN UNKNOWN ELSE play_actions[p]]
  /\ over' = {}
  /\ UNCHANGED <<signup_queue, senders, msg, round>>

\* One Reply; after the last, the rest of the handler.
rps_server_reply ==
  LET p == Head(out).to
      done == Len(out) = 1
  IN
  /\ server = "reply"
  /\ reply' = [reply EXCEPT ![p] = Head(out).answer]
  /\ state' = [state EXCEPT ![p] = "replied"]
  /\ out' = Tail(out)
  /\ IF done
     THEN /\ server' = "receive"
          /\ unused_top' = unused_top + Freed /\ held' = 0
          /\ play_actions' = [q \in Players |-> IF q \in over THEN UNKNOWN ELSE play_actions[q]]
          /\ over' = {}
     ELSE UNCHANGED <<server, unused_top, held, play_actions, over>>
  /\ UNCHANGED <<signup_queue, senders, msg, round>>

Server == \/ rps_server_SIGNUP \/ rps_server_PLAY \/ rps_server_QUIT
          \/ rps_server_reply

-----------------------------------------------------------------------------
(* rps_client                                                              *)

\* A client's local code up to its next Send, and the Send.  The result of the
\* last round is overwritten before it is read again, and so forgotten.
Send(p, m) ==
  /\ msg' = [msg EXCEPT ![p] = m]
  /\ reply' = [reply EXCEPT ![p].play_result = "none"]
  /\ senders' = Append(senders, p)
  /\ state' = [state EXCEPT ![p] = "WATISEND"]
  /\ UNCHANGED <<serverVars>>

\* After RegisterAs and WhoIs.
rps_client_signup(p) ==
  /\ state[p] = "start"
  /\ Send(p, [NoRequest EXCEPT !.action = "SIGNUP"])
  /\ UNCHANGED round

\* One turn of the loop: the opponent is the one named by the last reply.
rps_client_play(p) ==
  /\ state[p] = "replied" /\ msg[p].action # "QUIT" /\ round[p] < ROUNDS
  /\ \E m \in Moves :
       Send(p, [action |-> "PLAY", play_action |-> m, opponent |-> reply[p].opponent])
  /\ round' = [round EXCEPT ![p] = @ + 1]

\* Faulty variant: a player leaves without telling the server.
rps_client_quit_silent(p) ==
  /\ state[p] = "replied" /\ msg[p].action # "QUIT"
  /\ state' = [state EXCEPT ![p] = "exited"]
  /\ UNCHANGED <<serverVars, senders, msg, reply, round>>

\* The server does not read the move of a QUIT.
rps_client_quit(p) ==
  /\ state[p] = "replied" /\ msg[p].action # "QUIT" /\ round[p] = ROUNDS
  /\ Send(p, [msg[p] EXCEPT !.action = "QUIT", !.play_action = UNKNOWN])
  /\ UNCHANGED round

rps_client_exit(p) ==
  /\ state[p] = "replied" /\ msg[p].action = "QUIT"
  /\ state' = [state EXCEPT ![p] = "exited"]
  /\ UNCHANGED <<serverVars, senders, msg, reply, round>>

Client(p) == \/ rps_client_signup(p) \/ rps_client_play(p)
             \/ rps_client_quit(p) \/ rps_client_exit(p)

Next == Server \/ \E p \in Players : Client(p)

Spec == Init /\ [][Next]_vars

\* Every task gets to run: none of them computes without end.
FairSpec == Spec /\ WF_vars(Server) /\ \A p \in Players : WF_vars(Client(p))

-----------------------------------------------------------------------------
\* A player waiting for an answer is expected by the server in exactly one way:
\* in the sign-up queue, with a move in the table, or among the replies it is
\* making.  No other player is, so no Reply goes to a task that does not wait.
EachAwaitsOneAnswer ==
  \A p \in Players :
    LET answering == \E i \in DOMAIN out : out[i].to = p
        queued == \E i \in DOMAIN signup_queue : signup_queue[i] = p
        moved == play_actions[p] \in Moves /\ p \notin over
        ways == {w \in 1 .. 3 : <<answering, queued, moved>>[w]}
    IN /\ Cardinality(ways) = IF state[p] = "WATIREPLY" THEN 1 ELSE 0
       /\ \A i, j \in DOMAIN out : i # j => out[i].to # out[j].to

\* Answered players are paired one to one: whom a player has for its opponent,
\* that one has the player, or is about to be told so.
PairsMutual ==
  \A p \in Players :
    LET q == reply[p].opponent IN
    q # Nobody =>
      /\ q # p
      /\ \/ reply[q].opponent = p
         \/ \E i \in DOMAIN out : out[i].to = q /\ out[i].answer.opponent = p

\* What rock, paper and scissors beat.
Beats == {<<PAPER, ROCK>>, <<SCISSORS, PAPER>>, <<ROCK, SCISSORS>>}

\* The results of the players that have been told one, or are being told, and
\* have not gone on.
Told ==
  LET ready == {p \in Players : state[p] = "replied" /\ msg[p].action = "PLAY"}
      going == {p \in Players : msg[p].action = "PLAY" /\ \E i \in DOMAIN out : out[i].to = p}
  IN [p \in ready \cup going |->
        IF p \in ready THEN reply[p].play_result
        ELSE (CHOOSE a \in {out[i] : i \in DOMAIN out} : a.to = p).answer.play_result]

\* The two players of a round are told results of that very round which agree
\* with both moves and with the rules, and nobody is told NO_OPPONENT.  A player
\* is told alone only when the other has been told before and gone on.
RoundsAgree ==
  \A p \in DOMAIN Told :
    LET q == reply[p].opponent
        m == msg[p].play_action
        n == msg[q].play_action
    IN IF q \in DOMAIN Told
       THEN /\ round[q] = round[p]
            /\ Told[p] = CASE <<m, n>> \in Beats -> "WON"
                           [] <<n, m>> \in Beats -> "LOST"
                           [] OTHER -> "TIE"
       ELSE \/ msg[q].action = "QUIT" /\ round[p] = ROUNDS
            \/ round[q] = round[p] + 1

\* A name is read (by the player, and by WhoIs for the server) only while its
\* owner's stack is alive: an opponent does not exit before the last answer.
OpponentsStay ==
  \A p \in Players :
    /\ reply[p].opponent # Nobody
    /\ state[p] # "exited" /\ msg[p].action # "QUIT"
    /\ round[p] < ROUNDS \/ state[p] # "replied"
    => state[reply[p].opponent] # "exited"

\* The pool is whole up to the chunks of the sign-ups that wait and those the
\* handler is about to free; three chunks are enough for any number of players.
ChunksAccounted ==
  /\ server # "fault"
  /\ unused_top + Len(signup_queue) + held = CHUNKS

\* Every player plays its rounds and exits, but for one left without opponent
\* when their number is odd.
EveryoneFinishes ==
  <>[](Cardinality({p \in Players : state[p] # "exited"}) = Cardinality(Players) % 2)
=============================================================================
