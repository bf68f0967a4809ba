------------------------------ MODULE Console ------------------------------
(***************************************************************************)
(* Printing (rpi.c): tasks write characters to a UART that is reached over *)
(* an SPI bus.  Every access of the bus is a write that is answered by one *)
(* entry of the receive FIFO, read back afterwards.  Nothing keeps a task  *)
(* from being preempted in between, or from finding the answer to another  *)
(* task's access; the answer to a register write is a meaningless byte.    *)
(*                                                                         *)
(* printf sends each character with uart_putc, and the programs print from *)
(* any number of tasks.  uart_printf, which sends strings with uart_puts,  *)
(* has no caller: it is used here by one task that prints alone.           *)
(***************************************************************************)
EXTENDS Utilities, FiniteSets

CONSTANTS
  Printers,      \* tasks that print
  Texts,         \* what each prints with printf
  Formats,       \* what a task that is alone prints with uart_printf
  FIFO,          \* capacity of the UART's transmit FIFO: 64
  MAXTEMP        \* length of the buffer temp of uart_puts: 32

ASSUME ConsoleAssumption ==
  /\ Texts \in [Printers -> Seq(Char)]
  /\ FIFO \in Nat /\ MAXTEMP \in Nat /\ FIFO >= 2 /\ MAXTEMP >= 2
  /\ \A f \in Formats :
       /\ Len(f) \in Nat /\ DOMAIN f = 1 .. Len(f)
       /\ \A i \in DOMAIN f :
            \/ f[i].k \in {"plain", "%", "c"} /\ f[i].v \in Char
            \/ f[i].k = "s" /\ f[i].v \in Seq(Char)
            \/ f[i].k = "d" /\ f[i].v \in i32
            \/ f[i].k \in {"u", "p"} /\ f[i].v \in u32

VARIABLES
  job,       \* what a task has still to print: pieces for uart_putc or uart_puts
  at,        \* where it is in that call
  temp,      \* uart_puts: characters of the frame it is sending
  rx,        \* the SPI receive FIFO
  txfifo,    \* the UART's transmit FIFO
  line,      \* what has gone out on the line
  format,    \* history: the format of a task that prints alone, <<>> otherwise
  overlapped, lost   \* history: a task has accessed the bus during another's
                     \* call; a character was written to a full FIFO

console == <<job, at, temp, rx, txfifo, line, format, overlapped, lost>>

Putc(c) == [how |-> "putc", text |-> <<c>>]
Puts(s) == [how |-> "puts", text |-> s]

\* The calls a format of uart_printf turns into.
uart_printf(fmt) ==
  [i \in DOMAIN fmt |->
     CASE fmt[i].k \in {"plain", "%", "c"} -> Putc(fmt[i].v)
       [] fmt[i].k = "s" -> Puts(fmt[i].v)
       [] fmt[i].k = "d" -> Puts(i32_to_cstring(fmt[i].v, 10))
       [] fmt[i].k = "u" -> Puts(u32_to_cstring(fmt[i].v, 10))
       [] fmt[i].k = "p" -> Puts(u32_to_cstring(fmt[i].v, 16))]

printf(text) == [i \in DOMAIN text |-> Putc(text[i])]

ConsoleInit ==
  /\ \/ /\ job = [t \in Printers |-> printf(Texts[t])]
        /\ format = <<>>
     \/ \E t \in Printers, f \in Formats :
          /\ job = [u \in Printers |-> IF u = t THEN uart_printf(f) ELSE <<>>]
          /\ format = f
  /\ at = [t \in Printers |-> "poll"]
  /\ temp = [t \in Printers |-> <<>>]
  /\ rx = <<>> /\ txfifo = <<>> /\ line = <<>>
  /\ overlapped = FALSE /\ lost = FALSE

Least(a, b) == IF a < b THEN a ELSE b

Goto(t, p) == at' = [at EXCEPT ![t] = p]

How(t) == Head(job[t]).how
Text(t) == Head(job[t]).text

\* Between the first access of a call and the answer to its last one.
InCall(t) == at[t] # "poll"

\* Task t writes to the bus, which will have this answer.
BusWrite(t, answer) ==
  /\ rx' = Append(rx, answer)
  /\ overlapped' = (overlapped \/ \E u \in Printers \ {t} : InCall(u))

\* Characters written to THR, the register behind which the transmit FIFO is.
WriteTHR(s) ==
  LET room == Least(FIFO - Len(txfifo), Len(s)) IN
  /\ txfifo' = txfifo \o SubSeq(s, 1, room)
  /\ lost' = (lost \/ room < Len(s))

\* The answer to a write: a byte that is zero or not.
Garbage == {0, 1}

\* uart_read_register(TXLVL): the request, the free places at that time.
ask_level(t) ==
  /\ job[t] # <<>> /\ at[t] = "poll"
  /\ BusWrite(t, FIFO - Len(txfifo))
  /\ Goto(t, "level")
  /\ UNCHANGED <<job, temp, txfifo, line, format, lost>>

\* Faulty variant: the level is not looked at.
uart_putc_ready_always(level) == TRUE

\* uart_putc polls until there is a free place.
uart_putc_ready(level) == level # 0

uart_putc_level(t) ==
  /\ job[t] # <<>> /\ How(t) = "putc" /\ at[t] = "level" /\ rx # <<>>
  /\ rx' = Tail(rx)
  /\ Goto(t, IF uart_putc_ready(Head(rx)) THEN "send" ELSE "poll")
  /\ UNCHANGED <<job, temp, txfifo, line, format, overlapped, lost>>

uart_putc_send(t) ==
  /\ job[t] # <<>> /\ How(t) = "putc" /\ at[t] = "send"
  /\ \E g \in Garbage : BusWrite(t, g)
  /\ WriteTHR(Text(t))
  /\ Goto(t, "ack")
  /\ UNCHANGED <<job, temp, line, format>>

\* The answer to the write is read and dropped; the call returns.
uart_putc_ack(t) ==
  /\ job[t] # <<>> /\ How(t) = "putc" /\ at[t] = "ack" /\ rx # <<>>
  /\ rx' = Tail(rx)
  /\ job' = [job EXCEPT ![t] = Tail(@)]
  /\ Goto(t, "poll")
  /\ UNCHANGED <<temp, txfifo, line, format, overlapped, lost>>

\* What temp may hold, its first byte, the register's address, included.
tlen(level) == Least(level, MAXTEMP)

\* uart_puts fills temp; the rest of the string stays in the job.
uart_puts_level(t) ==
  LET n == IF tlen(Head(rx)) = 0 THEN 0 ELSE Least(tlen(Head(rx)) - 1, Len(Text(t))) IN
  /\ job[t] # <<>> /\ How(t) = "puts" /\ at[t] = "level" /\ rx # <<>>
  /\ rx' = Tail(rx)
  /\ temp' = [temp EXCEPT ![t] = SubSeq(Text(t), 1, n)]
  /\ job' = [job EXCEPT ![t] = <<Puts(SubSeq(Text(t), n + 1, Len(Text(t))))>> \o Tail(@)]
  /\ Goto(t, "header")
  /\ UNCHANGED <<txfifo, line, format, overlapped, lost>>

\* spi_send_recv: three bytes of the frame at a time, the first of them with the
\* address; chip select is held until the last.  Each write is answered.
WordSize(t) == IF at[t] = "header" THEN 2 ELSE 3

spi_send_recv_write(t) ==
  LET n == Least(WordSize(t), Len(temp[t])) IN
  /\ at[t] \in {"header", "more"}
  /\ \E g \in Garbage : BusWrite(t, g)
  /\ WriteTHR(SubSeq(temp[t], 1, n))
  /\ temp' = [temp EXCEPT ![t] = SubSeq(@, n + 1, Len(@))]
  /\ Goto(t, "answer")
  /\ UNCHANGED <<job, line, format>>

\* Faulty variant: the end of the string is missed.
uart_puts_done_missed(t) == FALSE

uart_puts_done(t) == Text(t) = <<>>

\* After the last word of a frame the level is asked for again, or the call ends.
spi_send_recv_read(t) ==
  /\ at[t] = "answer" /\ rx # <<>>
  /\ rx' = Tail(rx)
  /\ IF temp[t] # <<>> THEN Goto(t, "more") /\ UNCHANGED job
     ELSE /\ Goto(t, "poll")
          /\ job' = IF uart_puts_done(t) THEN [job EXCEPT ![t] = Tail(@)] ELSE job
  /\ UNCHANGED <<temp, txfifo, line, format, overlapped, lost>>

Step(t) ==
  \/ ask_level(t) \/ uart_putc_level(t) \/ uart_putc_send(t) \/ uart_putc_ack(t)
  \/ uart_puts_level(t) \/ spi_send_recv_write(t) \/ spi_send_recv_read(t)

\* The UART sends a character.
Transmit ==
  /\ txfifo # <<>>
  /\ line' = Append(line, Head(txfifo)) /\ txfifo' = Tail(txfifo)
  /\ UNCHANGED <<job, at, temp, rx, format, overlapped, lost>>

ConsoleNext == Transmit \/ \E t \in Printers : Step(t)

ConsoleSpec == ConsoleInit /\ [][ConsoleNext]_console

\* Tasks take turns, and the UART goes on sending.
ConsoleFairSpec ==
  ConsoleSpec /\ WF_console(Transmit) /\ \A t \in Printers : WF_console(Step(t))

-----------------------------------------------------------------------------
\* A character is lost only if a task has accessed the bus during another's
\* call: the level that uart_putc and uart_puts have polled is then another's
\* answer, or out of date (uart_putc, uart_puts, spi_send_recv).
LostOnlyByOverlap == lost => overlapped

\* The digits of n by their places, as few as there can be.
Numeral(n, base) ==
  LET places == CHOOSE k \in 1 .. M : n < base ^ k /\ (k = 1 \/ n >= base ^ (k - 1))
  IN  [i \in 1 .. places |-> DigitChar((n \div base ^ (places - i)) % base)]

Expected(item) ==
  CASE item.k \in {"plain", "%", "c"} -> <<item.v>>
    [] item.k = "s" -> item.v
    [] item.k = "d" -> IF item.v < 0 THEN <<Minus>> \o Numeral(-item.v, 10)
                       ELSE Numeral(item.v, 10)
    [] item.k = "u" -> Numeral(item.v, 10)
    [] item.k = "p" -> Numeral(item.v, 16)

Alone == format # <<>>
Finished == txfifo = <<>> /\ \A t \in Printers : job[t] = <<>>

\* What a task prints alone arrives complete and in order with every number in
\* its usual form, the smallest i32 excepted; and cstring_get_token and
\* cstring_len_to_* read every decimal back, that one included, from between the
\* spaces around it (uart_printf, i32_to_cstring, cstring_to_i32).
PrintedAndReadBack ==
  Alone /\ Finished =>
    /\ (\A i \in DOMAIN format : format[i].k = "d" => format[i].v # IntMin) =>
         line = FlattenSeq([i \in DOMAIN format |-> Expected(format[i])])
    /\ \A i \in DOMAIN format : format[i].k \in {"d", "u"} =>
         LET before == Cardinality({j \in 1 .. i - 1 : format[j] = [k |-> "plain", v |-> Space]})
             word == cstring_get_token(line, before)
         IN /\ word.found
            /\ format[i].v = IF format[i].k = "d"
                             THEN cstring_len_to_i32(word.token, Len(word.token))
                             ELSE cstring_len_to_u32(word.token, Len(word.token))

\* Every print comes to its end and goes out, also when tasks take each other's
\* answers: each still gets one answer for each access.
PrintsFinish == <>[]Finished
=============================================================================
